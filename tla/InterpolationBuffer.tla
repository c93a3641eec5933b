-------------------------- MODULE InterpolationBuffer --------------------------
(***************************************************************************)
(* visualization/interpolation-buffer.ts: the recent samples of a robot    *)
(* and the pose it is drawn in at a moment.  A sample is its recordedAt.   *)
(* The array is in ascending order and holds no two equal times, so it is  *)
(* a set here.  A pose is a point between two samples: `from`, `to` and    *)
(* the moment `at` it is interpolated for, which with from = to is the     *)
(* pose of that one sample.                                                *)
(***************************************************************************)
EXTENDS Integers, FiniteSets

CONSTANTS MaxAge,      \* MAX_AGE_MS
          MaxSamples   \* MAX_SAMPLES

ASSUME BufferAssumption == MaxAge \in Nat /\ MaxSamples \in Nat \ {0}

Newest(samples) == CHOOSE s \in samples : \A x \in samples : x <= s
Oldest(samples) == CHOOSE s \in samples : \A x \in samples : s <= x

\* How many samples are newer than s: its place from the end of the array.
Younger(s, samples) == Cardinality({x \in samples : x > s})

\* Mutant of Prune: one sample is enough.
PruneToNewest(samples) == {Newest(samples)}

\* prune: the first loop spares the two newest, the second the MaxSamples newest.
Prune(samples) ==
  {s \in samples : /\ s >= Newest(samples) - MaxAge \/ Younger(s, samples) < 2
                   /\ Younger(s, samples) < MaxSamples}

\* push's early return: only what is newer than everything in the buffer.
Accepts(samples, t) == \A s \in samples : s < t

Push(samples, t) == IF Accepts(samples, t) THEN Prune(samples \cup {t}) ELSE samples

PoseOf(s) == [from |-> s, to |-> s, at |-> s]

\* The pose between two samples: lerpVec, with the heading and the speed.
Between(a, b, moment) == [from |-> a, to |-> b, at |-> moment]

\* locate and poseAt on a buffer that is not empty: HOLD and SINGLE_SAMPLE show
\* the newest sample, CLAMP_OLDEST the oldest, and the rest lies between two.
PoseAt(samples, moment) ==
  IF Cardinality(samples) = 1 \/ moment >= Newest(samples) THEN PoseOf(Newest(samples))
  ELSE IF moment <= Oldest(samples) THEN PoseOf(Oldest(samples))
  ELSE Between(Newest({s \in samples : s <= moment}),
               Oldest({s \in samples : s >= moment}), moment)
===============================================================================
