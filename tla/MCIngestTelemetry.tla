--------------------------- MODULE MCIngestTelemetry ---------------------------
(***************************************************************************)
(* A small instance of IngestTelemetry for TLC.                            *)
(***************************************************************************)
EXTENDS IngestTelemetry, TLC

CONSTANTS o1, o2, o3

\* o1 and o2 differ but carry the same timestamp; o3 is later than both.
MCRecordedAt == (o1 :> 1) @@ (o2 :> 1) @@ (o3 :> 2)

MCObservations == {o1, o2, o3}

MCTwoObservations == {o1, o3}

MCTwoRecordedAt == [o \in MCTwoObservations |-> MCRecordedAt[o]]
===============================================================================
