------------------------------ MODULE MCFleetLink ------------------------------
(* Model-checking instances of FleetLink. *)
EXTENDS FleetLink, TLC

CONSTANTS r1, r2

\* r1 is there from the start and gets two samples; r2 comes later, without any.
MCLastSample == (r1 :> 2) @@ (r2 :> 0)
===============================================================================
