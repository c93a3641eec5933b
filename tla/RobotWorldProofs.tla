---------------------------- MODULE RobotWorldProofs ----------------------------
(***************************************************************************)
(* Invariance proofs for RobotWorld, for any robots, samples, sizes of the *)
(* canvas, delay and limits of the buffer: the scene is what the host last *)
(* handed on, no robot moves back on the screen, pruning keeps what a      *)
(* frame needs, and the camera has one master.                             *)
(***************************************************************************)
EXTENDS RobotWorld, FiniteSetTheorems, WellFoundedInduction, TLAPS

-----------------------------------------------------------------------------
(* The newest and the oldest of some samples *)

\* Of some finite sets one has no other inside it.
LEMMA SmallestSet ==
  ASSUME NEW F, F # {}, \A D \in F : IsFiniteSet(D)
  PROVE  \E D \in F : \A E \in F : ~ (E \subseteq D /\ E # D)
<1> DEFINE U == UNION F
<1>1. F \subseteq FiniteSubsetsOf(U)
  BY DEF FiniteSubsetsOf
<1>2. \A D \in F : D \in SUBSET U
  OBVIOUS
<1> HIDE DEF U
<1>3. PICK D \in F : \A E \in F : ~ (<<E, D>> \in StrictSubsetOrdering(U))
  BY <1>1, FS_StrictSubsetOrderingWellFounded, WFMin
<1> QED BY <1>2, <1>3 DEF StrictSubsetOrdering

\* Natural numbers have a least one.
LEMMA LeastExists ==
  ASSUME NEW S, S # {}, S \subseteq Nat
  PROVE  \E s \in S : \A x \in S : s <= x
<1> DEFINE Below(s) == {x \in S : x < s}
           F == {Below(s) : s \in S}
<1>1. \A y \in S : y \in Int
  OBVIOUS
<1>2. F # {}
  OBVIOUS
<1>3. ASSUME NEW s \in S PROVE IsFiniteSet(Below(s))
  <2>1. ASSUME NEW x \in Below(s) PROVE x \in 0..s
    BY <1>1
  <2>2. IsFiniteSet(0..s)
    BY FS_Interval
  <2> QED BY <2>1, <2>2, FS_Subset
<1>4. \A D \in F : IsFiniteSet(D)
  BY <1>3
<1>5. PICK D \in F : \A E \in F : ~ (E \subseteq D /\ E # D)
  <2> HIDE DEF F
  <2> QED BY <1>2, <1>4, SmallestSet
<1>6. PICK s \in S : D = Below(s)
  OBVIOUS
<1>7. ASSUME NEW x \in S, x < s PROVE FALSE
  <2>1. ASSUME NEW y \in Below(x) PROVE y \in Below(s)
    <3>1. y \in S /\ y < x
      OBVIOUS
    <3>2. y < s
      BY <1>1, <1>7, <3>1
    <3> QED BY <3>1, <3>2
  <2>2. x \in Below(s) /\ x \notin Below(x)
    BY <1>1, <1>7
  <2>3. Below(x) \in F
    OBVIOUS
  <2> HIDE DEF Below, F
  <2> QED BY <1>5, <1>6, <2>1, <2>2, <2>3
<1>8. \A x \in S : s <= x
  BY <1>1, <1>7
<1> QED BY <1>8

\* Finitely many have a greatest one.
LEMMA GreatestExists ==
  ASSUME NEW S, S # {}, S \subseteq Nat, IsFiniteSet(S)
  PROVE  \E s \in S : \A x \in S : x <= s
<1> DEFINE Above(s) == {x \in S : x > s}
           F == {Above(s) : s \in S}
<1>1. \A y \in S : y \in Int
  OBVIOUS
<1>2. F # {}
  OBVIOUS
<1>3. ASSUME NEW s \in S PROVE IsFiniteSet(Above(s))
  BY FS_Subset
<1>4. \A D \in F : IsFiniteSet(D)
  BY <1>3
<1>5. PICK D \in F : \A E \in F : ~ (E \subseteq D /\ E # D)
  <2> HIDE DEF F
  <2> QED BY <1>2, <1>4, SmallestSet
<1>6. PICK s \in S : D = Above(s)
  OBVIOUS
<1>7. ASSUME NEW x \in S, x > s PROVE FALSE
  <2>1. ASSUME NEW y \in Above(x) PROVE y \in Above(s)
    <3>1. y \in S /\ y > x
      OBVIOUS
    <3>2. y > s
      BY <1>1, <1>7, <3>1
    <3> QED BY <3>1, <3>2
  <2>2. x \in Above(s) /\ x \notin Above(x)
    BY <1>1, <1>7
  <2>3. Above(x) \in F
    OBVIOUS
  <2> HIDE DEF Above, F
  <2> QED BY <1>5, <1>6, <2>1, <2>2, <2>3
<1>8. \A x \in S : x <= s
  BY <1>1, <1>7
<1> QED BY <1>8

\* A buffer that holds something.
Buffer(S) == S # {} /\ S \subseteq Nat /\ IsFiniteSet(S)

\* What the CHOOSE of the buffer's ends picks.
LEMMA NewestIs ==
  ASSUME NEW S, Buffer(S)
  PROVE  /\ Newest(S) \in S /\ \A x \in S : x <= Newest(S)
         /\ \A s \in S : (\A x \in S : x <= s) => Newest(S) = s
<1>1. Newest(S) \in S /\ \A x \in S : x <= Newest(S)
  BY GreatestExists DEF Newest, Buffer
<1>2. \A s \in S : s \in Int
  BY DEF Buffer
<1>3. ASSUME NEW s \in S, \A x \in S : x <= s PROVE Newest(S) = s
  BY <1>1, <1>2, <1>3
<1> QED BY <1>1, <1>3

\* The other end.
LEMMA OldestIs ==
  ASSUME NEW S, Buffer(S)
  PROVE  /\ Oldest(S) \in S /\ \A x \in S : Oldest(S) <= x
         /\ \A s \in S : (\A x \in S : s <= x) => Oldest(S) = s
<1>1. Oldest(S) \in S /\ \A x \in S : Oldest(S) <= x
  BY LeastExists DEF Oldest, Buffer
<1>2. \A s \in S : s \in Int
  BY DEF Buffer
<1>3. ASSUME NEW s \in S, \A x \in S : s <= x PROVE Oldest(S) = s
  BY <1>1, <1>2, <1>3
<1> QED BY <1>1, <1>3

\* What is left of a buffer, if anything, is one.
LEMMA SubBuffer ==
  ASSUME NEW S, Buffer(S), NEW T, T \subseteq S, T # {}
  PROVE  Buffer(T)
BY FS_Subset DEF Buffer

-----------------------------------------------------------------------------
(* The pose at a moment *)

\* Whatever is shown is of a moment between the oldest and the newest sample.
Shown(S, m) ==
  IF m >= Newest(S) THEN Newest(S) ELSE IF m <= Oldest(S) THEN Oldest(S) ELSE m

\* poseAt: behind the newest sample, before the oldest one, and between two.
LEMMA PoseAtCases ==
  ASSUME NEW S, Buffer(S), NEW m \in Int
  PROVE  /\ m >= Newest(S) => PoseAt(S, m) = PoseOf(Newest(S))
         /\ m <= Oldest(S) => PoseAt(S, m) = PoseOf(Oldest(S))
         /\ Oldest(S) < m /\ m < Newest(S) =>
              PoseAt(S, m) = Between(Newest({s \in S : s <= m}), Oldest({s \in S : s >= m}), m)
<1>1. /\ Newest(S) \in Nat /\ Oldest(S) \in Nat /\ Oldest(S) <= Newest(S)
  BY NewestIs, OldestIs DEF Buffer
<1>2. Cardinality(S) = 1 => Oldest(S) = Newest(S)
  BY NewestIs, OldestIs, FS_Singleton DEF Buffer
<1>3. m >= Newest(S) => PoseAt(S, m) = PoseOf(Newest(S))
  BY DEF PoseAt
<1>4. m <= Oldest(S) => PoseAt(S, m) = PoseOf(Oldest(S))
  <2>1. m <= Oldest(S) /\ m >= Newest(S) => Oldest(S) = Newest(S)
    BY <1>1
  <2> QED BY <1>1, <1>2, <2>1 DEF PoseAt
<1>5. Oldest(S) < m /\ m < Newest(S) =>
        PoseAt(S, m) = Between(Newest({s \in S : s <= m}), Oldest({s \in S : s >= m}), m)
  BY <1>1, <1>2 DEF PoseAt
<1> QED BY <1>3, <1>4, <1>5

\* The pose is of the moment shown.
LEMMA PoseAtShown ==
  ASSUME NEW S, Buffer(S), NEW m \in Int
  PROVE  PoseAt(S, m).at = Shown(S, m) /\ Shown(S, m) \in Int
<1>1. Newest(S) \in Nat /\ Oldest(S) \in Nat /\ Oldest(S) <= Newest(S)
  BY NewestIs, OldestIs DEF Buffer
<1>2. CASE m >= Newest(S)
  <2>1. PoseAt(S, m) = PoseOf(Newest(S))
    BY <1>2, PoseAtCases
  <2> QED BY <1>1, <1>2, <2>1 DEF Shown, PoseOf
<1>3. CASE m < Newest(S) /\ m <= Oldest(S)
  <2>1. PoseAt(S, m) = PoseOf(Oldest(S))
    BY <1>3, PoseAtCases
  <2> QED BY <1>1, <1>3, <2>1 DEF Shown, PoseOf
<1>4. CASE m < Newest(S) /\ m > Oldest(S)
  <2>1. PoseAt(S, m) = Between(Newest({s \in S : s <= m}), Oldest({s \in S : s >= m}), m)
    BY <1>4, PoseAtCases
  <2> QED BY <1>1, <1>4, <2>1 DEF Shown, Between
<1> QED BY <1>1, <1>2, <1>3, <1>4

\* A newer buffer shows no earlier moment.
LEMMA ShownGrows ==
  ASSUME NEW S, Buffer(S), NEW T, Buffer(T), NEW m \in Int, NEW n \in Int, m <= n,
         Newest(S) <= Newest(T), Oldest(S) <= Oldest(T)
  PROVE  Shown(S, m) <= Shown(T, n)
<1>1. /\ Newest(S) \in Nat /\ Oldest(S) \in Nat /\ Oldest(S) <= Newest(S)
      /\ Newest(T) \in Nat /\ Oldest(T) \in Nat /\ Oldest(T) <= Newest(T)
  BY NewestIs, OldestIs DEF Buffer
<1> QED BY <1>1 DEF Shown

\* Two buffers that agree on what is not older than a sample the moment is not
\* before show the same pose.
LEMMA SamePose ==
  ASSUME NEW S, Buffer(S), NEW T, T \subseteq S, NEW m \in Int,
         NEW q \in T, q <= m, \A x \in S : q <= x => x \in T
  PROVE  PoseAt(T, m) = PoseAt(S, m)
<1>1. Buffer(T)
  BY SubBuffer
<1>2. Newest(S) \in T
  BY NewestIs
<1>3. Newest(T) = Newest(S) /\ Newest(S) \in Nat
  BY <1>1, <1>2, NewestIs DEF Buffer
<1>4. /\ Oldest(T) \in Nat /\ Oldest(S) \in Nat /\ q \in Nat
      /\ Oldest(T) <= q /\ Oldest(S) <= Oldest(T)
  BY <1>1, OldestIs DEF Buffer
<1>5. CASE m >= Newest(S)
  <2>1. PoseAt(S, m) = PoseOf(Newest(S))
    BY <1>5, PoseAtCases
  <2>2. PoseAt(T, m) = PoseOf(Newest(T))
    BY <1>1, <1>3, <1>5, PoseAtCases
  <2> QED BY <1>3, <2>1, <2>2
<1>6. CASE m < Newest(S) /\ Oldest(T) < m
  <2>1. {s \in T : s >= m} = {s \in S : s >= m}
    <3>1. ASSUME NEW s \in S, s >= m PROVE s \in T
      <4>1. s \in Nat
        BY DEF Buffer
      <4> QED BY <1>4, <3>1, <4>1
    <3> QED BY <3>1
  <2>2. Newest({s \in T : s <= m}) = Newest({s \in S : s <= m})
    <3> DEFINE A == {s \in T : s <= m}
               B == {s \in S : s <= m}
    <3>1. q \in A /\ A \subseteq B /\ A \subseteq T /\ B \subseteq S
      OBVIOUS
    <3>2. Buffer(A) /\ Buffer(B)
      BY <1>1, <3>1, SubBuffer
    <3>3. Newest(B) \in A
      BY <3>1, <3>2, NewestIs
    <3> QED BY <3>1, <3>2, <3>3, NewestIs
  <2>3. Oldest(S) < m
    BY <1>4, <1>6
  <2> QED BY <1>1, <1>3, <1>6, <2>1, <2>2, <2>3, PoseAtCases
<1>7. CASE m < Newest(S) /\ m <= Oldest(T)
  <2>1. m = q /\ Oldest(T) = q
    BY <1>4, <1>7
  <2>2. PoseAt(T, m) = PoseOf(q)
    BY <1>1, <2>1, <1>7, PoseAtCases
  <2>3. CASE Oldest(S) = q
    BY <2>1, <2>2, <2>3, PoseAtCases
  <2>4. CASE Oldest(S) < m
    <3> DEFINE A == {s \in S : s <= m}
               B == {s \in S : s >= m}
    <3>1. q \in A /\ q \in B /\ A \subseteq S /\ B \subseteq S
      BY <1>4, <2>1
    <3>2. Buffer(A) /\ Buffer(B)
      BY <3>1, SubBuffer
    <3>3. Newest(A) = q /\ Oldest(B) = q
      BY <2>1, <3>1, <3>2, NewestIs, OldestIs
    <3> QED BY <1>7, <2>1, <2>2, <2>4, <3>3, PoseAtCases DEF Between, PoseOf
  <2> QED BY <1>4, <2>1, <2>3, <2>4
<1> QED BY <1>3, <1>4, <1>5, <1>6, <1>7

-----------------------------------------------------------------------------
(* A sample arrives *)

\* What the buffer keeps of all that it has accepted: the newest ones.
Suffix(M, S) == M \subseteq S /\ \A x \in M, y \in S : x <= y => y \in M

\* The oldest sample kept is old enough, or none was ever pruned.
Reaches(M, S, m) == M = S \/ \E q \in M : q <= m

\* Later samples have fewer after them.
LEMMA YoungerFalls ==
  ASSUME NEW S, Buffer(S), NEW x \in S, NEW y \in S, x <= y
  PROVE  Younger(y, S) <= Younger(x, S) /\ Younger(y, S) \in Nat /\ Younger(x, S) \in Nat
<1>1. {z \in S : z > y} \subseteq {z \in S : z > x}
  <2>1. ASSUME NEW z \in S, z > y PROVE z > x
    <3>1. x \in Int /\ y \in Int /\ z \in Int
      BY DEF Buffer
    <3> QED BY <2>1, <3>1
  <2> QED BY <2>1
<1>2. IsFiniteSet({z \in S : z > x})
  BY FS_Subset DEF Buffer
<1>3. IsFiniteSet({z \in S : z > y})
  BY FS_Subset DEF Buffer
<1>4. /\ Cardinality({z \in S : z > y}) <= Cardinality({z \in S : z > x})
      /\ Cardinality({z \in S : z > y}) \in Nat /\ Cardinality({z \in S : z > x}) \in Nat
  BY <1>1, <1>2, <1>3, FS_Subset, FS_CardinalityType
<1> QED BY <1>4 DEF Younger

\* prune spares the newest sample, and takes the oldest first.
LEMMA PruneKeeps ==
  ASSUME NEW S, Buffer(S)
  PROVE  /\ Newest(S) \in Prune(S) /\ Buffer(Prune(S)) /\ Suffix(Prune(S), S)
         /\ Newest(Prune(S)) = Newest(S) /\ Oldest(S) <= Oldest(Prune(S))
<1>1. Newest(S) \in S /\ Newest(S) \in Nat /\ (\A x \in S : x <= Newest(S)) /\ (\A x \in S : x \in Int)
  <2>1. \A x \in S : x \in Nat
    BY DEF Buffer
  <2> QED BY <2>1, NewestIs
<1>2. Younger(Newest(S), S) = 0
  <2>1. {x \in S : x > Newest(S)} = {}
    BY <1>1
  <2> QED BY <2>1, FS_EmptySet DEF Younger
<1>3. Newest(S) \in Prune(S)
  BY <1>1, <1>2, BufferAssumption DEF Prune
<1>4. Prune(S) \subseteq S
  BY DEF Prune
<1>5. Buffer(Prune(S))
  BY <1>3, <1>4, SubBuffer
<1>6. ASSUME NEW x \in Prune(S), NEW y \in S, x <= y PROVE y \in Prune(S)
  <2>1. x \in S /\ (x >= Newest(S) - MaxAge \/ Younger(x, S) < 2) /\ Younger(x, S) < MaxSamples
    BY DEF Prune
  <2>2. Younger(y, S) <= Younger(x, S) /\ Younger(y, S) \in Nat /\ Younger(x, S) \in Nat
    BY <1>6, <2>1, YoungerFalls
  <2>3. y >= Newest(S) - MaxAge \/ Younger(y, S) < 2
    BY <1>1, <1>6, <2>1, <2>2, BufferAssumption
  <2>4. Younger(y, S) < MaxSamples
    BY <2>1, <2>2, BufferAssumption
  <2> QED BY <2>3, <2>4 DEF Prune
<1>7. Suffix(Prune(S), S)
  BY <1>4, <1>6 DEF Suffix
<1>8. Newest(Prune(S)) = Newest(S)
  <2>1. \A x \in Prune(S) : x <= Newest(S)
    BY <1>1, <1>4
  <2> QED BY <1>3, <1>5, <2>1, NewestIs
<1>9. Oldest(S) <= Oldest(Prune(S))
  BY <1>4, <1>5, OldestIs
<1> QED BY <1>3, <1>5, <1>7, <1>8, <1>9

\* An earlier part of regular samples is regular.
LEMMA RegularPart ==
  ASSUME NEW S, IsFiniteSet(S), S \subseteq Nat, NEW t \in Nat, \A s \in S : s < t,
         Regular(S \cup {t})
  PROVE  Regular(S)
<1> DEFINE R == S \cup {t}
           Near(T, s) == {x \in T : s - Delay < x /\ x <= s}
<1> SUFFICES ASSUME NEW s \in S
             PROVE  /\ s = Oldest(S) \/ \E x \in S : s - (MaxAge - Delay) <= x /\ x < s
                    /\ Cardinality(Near(S, s)) < MaxSamples
  BY DEF Regular
<1>1. IsFiniteSet(R)
  BY FS_AddElement
<1>2. Buffer(R) /\ Buffer(S)
  BY <1>1 DEF Buffer
<1>3. /\ s = Oldest(R) \/ \E x \in R : s - (MaxAge - Delay) <= x /\ x < s
      /\ Cardinality(Near(R, s)) < MaxSamples
  BY DEF Regular
<1>4. Oldest(R) = Oldest(S)
  <2>1. Oldest(S) \in S /\ \A x \in S : Oldest(S) <= x
    BY <1>2, OldestIs
  <2>2. \A x \in R : Oldest(S) <= x
    <3>1. Oldest(S) < t /\ Oldest(S) \in Nat
      BY <2>1
    <3> QED BY <2>1, <3>1
  <2> QED BY <1>2, <2>1, <2>2, OldestIs
<1>5. \A x \in R : x < s => x \in S
  OBVIOUS
<1>6. /\ Cardinality(Near(S, s)) <= Cardinality(Near(R, s))
      /\ Cardinality(Near(S, s)) \in Nat /\ Cardinality(Near(R, s)) \in Nat
  <2>1. Near(S, s) \subseteq Near(R, s)
    OBVIOUS
  <2>2. IsFiniteSet(Near(R, s)) /\ IsFiniteSet(Near(S, s))
    BY <1>1, FS_Subset
  <2> HIDE DEF Near
  <2> QED BY <2>1, <2>2, FS_Subset, FS_CardinalityType
<1>7. Cardinality(Near(S, s)) < MaxSamples
  BY <1>3, <1>6, BufferAssumption
<1> QED BY <1>3, <1>4, <1>5, <1>7

\* The heart of PairKept.  If pruning took a sample and kept only some that are newer
\* than the delay, the newest one it took went either by count, and there are too many
\* samples within one delay, or by age, and the gap to the next one is too long.
LEMMA PruneReaches ==
  ASSUME NEW S, IsFiniteSet(S), S \subseteq Nat, NEW t \in Nat, \A s \in S : s < t,
         NEW M, Suffix(M, S), NEW m \in Int, t - Delay <= m,
         Regular(S) => Reaches(M, S, m), Regular(S \cup {t})
  PROVE  Reaches(Prune(M \cup {t}), S \cup {t}, m)
<1> DEFINE N == M \cup {t}
           R == S \cup {t}
           P == Prune(N)
           q == Oldest(P)
<1>1. Suffix(N, R)
  <2>1. N \subseteq R
    BY DEF Suffix
  <2>2. ASSUME NEW x \in N, NEW y \in R, x <= y PROVE y \in N
    <3>1. CASE y = t
      BY <3>1
    <3>2. CASE y \in S /\ x \in M
      BY <2>2, <3>2 DEF Suffix
    <3>3. CASE y \in S /\ x = t
      BY <2>2, <3>3
    <3> QED BY <3>1, <3>2, <3>3
  <2> QED BY <2>1, <2>2 DEF Suffix
<1>2. Buffer(R)
  BY FS_AddElement DEF Buffer
<1>3. Buffer(N)
  BY <1>1, <1>2, SubBuffer DEF Suffix
<1>4. Buffer(P) /\ Suffix(P, N) /\ t \in P /\ Newest(N) = t
  <2>1. \A x \in N : x <= t
    BY DEF Suffix
  <2>2. Newest(N) = t
    BY <1>3, <2>1, NewestIs
  <2> QED BY <1>3, <2>2, PruneKeeps
<1>5. CASE P = N
  <2>1. Reaches(M, S, m)
    BY RegularPart
  <2>2. CASE M = S
    BY <1>5, <2>2 DEF Reaches
  <2>3. CASE \E x \in M : x <= m
    BY <1>5, <2>3 DEF Reaches
  <2> QED BY <2>1, <2>2, <2>3 DEF Reaches
<1>6. CASE P # N
  <2>1. q \in P /\ q \in Nat /\ \A x \in P : q <= x
    BY <1>4, OldestIs DEF Buffer
  <2>2. q \in R /\ (\A x \in R : x \in Int)
    <3>1. q \in N
      BY <1>4, <2>1 DEF Suffix
    <3>2. q \in R
      BY <1>1, <3>1 DEF Suffix
    <3> QED BY <1>2, <3>2 DEF Buffer
  <2>3. SUFFICES ASSUME q > t - Delay PROVE FALSE
    <3>1. q <= t - Delay => q <= m
      BY <2>1, WorldAssumption
    <3>2. q <= m => Reaches(P, R, m)
      <4> HIDE DEF q, P, R
      <4> QED BY <2>1 DEF Reaches
    <3> QED BY <2>1, <3>1, <3>2, WorldAssumption
  <2>4. PICK p \in N \ P : \A x \in N \ P : x <= p
    <3>1. N \ P # {} /\ N \ P \subseteq N
      BY <1>4, <1>6 DEF Suffix
    <3>2. Buffer(N \ P)
      BY <1>3, <3>1, SubBuffer
    <3> QED BY <3>2, GreatestExists DEF Buffer
  <2>5. p \in R /\ p \in Nat /\ p < q
    <3>1. p \in R /\ p \in Nat
      BY <1>1, <1>2 DEF Suffix, Buffer
    <3>2. ~ (q <= p)
      BY <1>4, <2>1 DEF Suffix
    <3> QED BY <2>1, <3>1, <3>2
  <2>6. ASSUME NEW x \in R, p < x, x < q PROVE FALSE
    <3>1. x \in N
      BY <1>1, <2>2, <2>5, <2>6 DEF Suffix
    <3>2. x \notin P
      BY <2>1, <2>2, <2>6
    <3> QED BY <2>2, <2>4, <2>5, <2>6, <3>1, <3>2
  <2>7. {z \in N : z > p} = P
    <3>1. ASSUME NEW z \in N, z > p PROVE z \in P
      <4>1. z \in Int
        BY <1>3 DEF Buffer
      <4>2. ~ (z <= p)
        BY <2>5, <3>1, <4>1
      <4> HIDE DEF N, P
      <4>3. z \notin N \ P
        BY <2>4, <4>2
      <4> QED BY <4>3
    <3>2. ASSUME NEW z \in P PROVE z \in N /\ z > p
      <4> HIDE DEF N, P
      <4>1. z \in N /\ z \in Int
        BY <1>3, <1>4 DEF Suffix, Buffer
      <4> QED BY <2>1, <2>5, <4>1
    <3> HIDE DEF N, P
    <3> QED BY <3>1, <3>2
  <2>8. Younger(p, N) < MaxSamples /\ Younger(p, N) \in Nat
    <3> DEFINE Near == {x \in R : t - Delay < x /\ x <= t}
    <3>1. Cardinality(Near) < MaxSamples
      BY DEF Regular
    <3>2. ASSUME NEW x \in P PROVE x \in Near
      <4>1. x \in R /\ x \in Int /\ q <= x
        BY <1>1, <1>4, <2>1, <2>2 DEF Suffix
      <4>2. x <= t
        BY <1>4, <4>1 DEF Suffix
      <4> QED BY <2>1, <2>3, <4>1, <4>2, WorldAssumption
    <3>3. IsFiniteSet(Near)
      BY <1>2, FS_Subset DEF Buffer
    <3> HIDE DEF Near, P
    <3>4. Cardinality(P) <= Cardinality(Near) /\ Cardinality(P) \in Nat /\ Cardinality(Near) \in Nat
      BY <3>2, <3>3, FS_Subset, FS_CardinalityType
    <3> QED BY <2>7, <3>1, <3>4, BufferAssumption DEF Younger
  <2>9. p < t - MaxAge
    <3>1. ~ (p >= Newest(N) - MaxAge)
      BY <2>4, <2>8 DEF Prune
    <3> QED BY <1>4, <2>5, <3>1, BufferAssumption
  <2>10. PICK x \in R : q - (MaxAge - Delay) <= x /\ x < q
    <3>1. q # Oldest(R)
      BY <1>2, <2>1, <2>5, OldestIs
    <3> QED BY <2>2, <3>1 DEF Regular
  <2>11. x <= p
    BY <2>2, <2>5, <2>6, <2>10
  <2> QED BY <2>1, <2>2, <2>3, <2>5, <2>9, <2>10, <2>11, BufferAssumption, WorldAssumption
<1> QED BY <1>5, <1>6

-----------------------------------------------------------------------------
(* The inductive invariant *)

State == [status : {"unlisted", "listed", "known"}, at : Nat, positioned : BOOLEAN]
Fleets == [Robots -> State]

Pose == [from : Nat, to : Nat, at : Int]
Object == [motion : SUBSET Nat, seen : SUBSET Nat, pose : Pose,
           selected : BOOLEAN, hovered : BOOLEAN]
Objects == UNION {[D -> Object] : D \in SUBSET Robots}

MaybeRobot == Robots \cup {None}

World ==
  [scene : BOOLEAN, objects : Objects, drawn : SUBSET Robots, hovered : MaybeRobot,
   selectedId : MaybeRobot, pending : Fleets \cup {None}, positioned : SUBSET Robots,
   size : [usable : BOOLEAN, degenerate : BOOLEAN], active : BOOLEAN, followed : MaybeRobot,
   view : Robots \cup {"none", "default", "fleet", "user"}, fitted : BOOLEAN,
   hasFit : BOOLEAN, needsAspectRefit : BOOLEAN]

TypeInv ==
  /\ now \in Nat /\ fleet \in Fleets /\ chosen \in MaybeRobot /\ drawer \in BOOLEAN
  /\ stage \in {"created", "booted", "destroyed"} /\ dirty \subseteq Effects
  /\ world \in World

\* An object whose samples are not younger than t, at moment n: the buffer ends with
\* the newest sample and reaches back over the delay if the samples are regular, and
\* the pose on the screen is not ahead of the one a frame would show now.
Kept(o, t, n) ==
  /\ IsFiniteSet(o.seen) /\ Suffix(o.motion, o.seen)
  /\ \A s \in o.seen : s <= t
  /\ o.seen # {} => o.motion # {}
  /\ Regular(o.seen) => Reaches(o.motion, o.seen, n - Delay)
  /\ o.motion = {} => o.pose.at <= 0
  /\ o.motion # {} => o.pose.at <= Shown(o.motion, n - Delay)

ObjectsKept(w, f, n) == \A r \in DOMAIN w.objects : Kept(w.objects[r], f[r].at, n)

\* No state of f is newer than that of g, or than the clock.
Precedes(f, g) == \A r \in Robots : f[r].at <= g[r].at
Past(f, n) == \A r \in Robots : f[r].at <= n

\* The objects look the way the world says, and there are none without a scene.
Flags(w) ==
  /\ w.drawn = DOMAIN w.objects
  /\ \A r \in DOMAIN w.objects :
       /\ w.objects[r].hovered <=> r = w.hovered
       /\ w.objects[r].selected <=> r = w.selectedId
  /\ ~w.scene => DOMAIN w.objects = {}
Looks(w) == Flags(w) /\ w.hovered \in DOMAIN w.objects \cup {None}

\* The objects are those of f, with its latest samples.
Shows(w, f) ==
  /\ DOMAIN w.objects = Mapped(f)
  /\ \A r \in Positioned(f) :
       w.objects[r].motion # {} /\ Newest(w.objects[r].motion) = f[r].at

\* Who drives the camera, and that a fit belongs to a scene that was framed.
Camera(w) ==
  /\ ~(w.active /\ w.followed # None)
  /\ w.needsAspectRefit => w.hasFit /\ (w.size.degenerate \/ ~w.size.usable)
  /\ w.hasFit => w.fitted
  /\ w.scene /\ w.positioned # {} => w.fitted
  /\ ~w.scene => ~w.active /\ w.followed = None /\ ~w.fitted /\ w.positioned = {}

HostInv ==
  /\ chosen # None => Listed(chosen)
  /\ stage = "booted" <=> world.scene
  /\ Past(fleet, now)
  /\ world.pending = None \/ Precedes(world.pending, fleet)
  /\ world.scene /\ "fleet" \notin dirty => Shows(world, fleet)
  /\ world.scene /\ "selection" \notin dirty => world.selectedId = chosen

IInv == TypeInv /\ HostInv /\ Looks(world) /\ Camera(world) /\ ObjectsKept(world, fleet, now)

-----------------------------------------------------------------------------
(* What happens to an object *)

\* A pose is between two samples.
LEMMA PoseTyped ==
  ASSUME NEW S, Buffer(S), NEW m \in Int
  PROVE  PoseAt(S, m) \in Pose
<1>1. Newest(S) \in Nat /\ Oldest(S) \in Nat
  BY NewestIs, OldestIs DEF Buffer
<1>2. CASE m >= Newest(S)
  <2>1. PoseAt(S, m) = PoseOf(Newest(S))
    BY <1>2, PoseAtCases
  <2> QED BY <1>1, <2>1 DEF PoseOf, Pose
<1>3. CASE m < Newest(S) /\ m <= Oldest(S)
  <2>1. PoseAt(S, m) = PoseOf(Oldest(S))
    BY <1>3, PoseAtCases
  <2> QED BY <1>1, <2>1 DEF PoseOf, Pose
<1>4. CASE m < Newest(S) /\ Oldest(S) < m
  <2> DEFINE A == {s \in S : s <= m}
             B == {s \in S : s >= m}
  <2>1. Oldest(S) \in A /\ Newest(S) \in B
    BY <1>1, <1>4, NewestIs, OldestIs
  <2>2. Buffer(A) /\ Buffer(B)
    BY <2>1, SubBuffer
  <2>3. Newest(A) \in Nat /\ Oldest(B) \in Nat
    BY <2>2, NewestIs, OldestIs DEF Buffer
  <2>4. PoseAt(S, m) = Between(Newest(A), Oldest(B), m)
    BY <1>4, PoseAtCases
  <2> HIDE DEF A, B
  <2> QED BY <2>3, <2>4 DEF Between, Pose
<1> QED BY <1>1, <1>2, <1>3, <1>4

\* Time and newer states spoil nothing.
LEMMA KeptLater ==
  ASSUME NEW o \in Object, NEW t \in Nat, NEW n \in Nat, Kept(o, t, n),
         NEW u \in Nat, NEW k \in Nat, t <= u, n <= k
  PROVE  Kept(o, u, k)
<1>1. \A s \in o.seen : s \in Nat
  BY DEF Object
<1>2. \A s \in o.seen : s <= u
  BY <1>1 DEF Kept
<1>3. Regular(o.seen) => Reaches(o.motion, o.seen, k - Delay)
  <2>1. \A q \in o.motion : q \in Nat
    BY DEF Object
  <2> QED BY <2>1, WorldAssumption DEF Kept, Reaches
<1>4. o.motion # {} => o.pose.at <= Shown(o.motion, k - Delay)
  <2> SUFFICES ASSUME o.motion # {} PROVE o.pose.at <= Shown(o.motion, k - Delay)
    OBVIOUS
  <2>1. Buffer(o.motion)
    BY FS_Subset DEF Kept, Suffix, Object, Buffer
  <2>2. Newest(o.motion) \in Int /\ Oldest(o.motion) \in Int
    BY <2>1, NewestIs, OldestIs DEF Buffer
  <2>3. Shown(o.motion, n - Delay) <= Shown(o.motion, k - Delay)
    BY <2>1, <2>2, ShownGrows, WorldAssumption
  <2>4. Shown(o.motion, n - Delay) \in Int /\ Shown(o.motion, k - Delay) \in Int
    BY <2>1, PoseAtShown, WorldAssumption
  <2>5. o.pose.at \in Int /\ o.pose.at <= Shown(o.motion, n - Delay)
    BY DEF Object, Pose, Kept
  <2> QED BY <2>3, <2>4, <2>5
<1> QED BY <1>2, <1>3, <1>4 DEF Kept

\* applyRobot keeps the buffer in order, whatever arrives late or twice, and takes no
\* robot back.
LEMMA ApplyKept ==
  ASSUME NEW o \in Object, NEW s \in State, NEW t \in Nat, NEW n \in Nat,
         Kept(o, t, n), t <= s.at, s.at <= n, NEW p, p = ApplyRobot(o, s)
  PROVE  /\ p \in Object /\ p.selected = o.selected /\ p.hovered = o.hovered
         /\ Kept(p, s.at, n) /\ p.pose.at >= o.pose.at
         /\ s.positioned => p.motion # {} /\ Newest(p.motion) = s.at
<1> DEFINE M == o.motion
           S == o.seen
           x == s.at
<1>1. /\ M \subseteq Nat /\ S \subseteq Nat /\ o.pose \in Pose /\ o.pose.at \in Int
      /\ o.selected \in BOOLEAN /\ o.hovered \in BOOLEAN
  BY DEF Object, Pose
<1>2. x \in Nat /\ x <= n /\ s.positioned \in BOOLEAN
  BY DEF State
<1>3. \A y \in S : y <= x /\ y \in Nat
  BY <1>1, <1>2 DEF Kept
<1>4. M \subseteq S /\ IsFiniteSet(S)
  BY DEF Kept, Suffix
<1>5. CASE ~s.positioned
  <2>1. p = o
    BY <1>5 DEF ApplyRobot
  <2>2. Kept(o, x, n)
    BY <1>2, KeptLater
  <2> QED BY <1>1, <1>5, <2>1, <2>2
<1>6. CASE s.positioned /\ ~Accepts(M, x)
  <2>1. PICK y \in M : ~ (y < x)
    BY <1>6 DEF Accepts
  <2>2. y = x /\ x \in M
    BY <1>2, <1>3, <1>4, <2>1
  <2>3. p = o
    <3>1. [o EXCEPT !.motion = M, !.seen = S] = o
      BY DEF Object
    <3> QED BY <1>6, <2>2, <3>1 DEF ApplyRobot, Push, Snaps
  <2>4. Newest(M) = x
    <3>1. Buffer(M)
      BY <1>1, <1>4, <2>2, FS_Subset DEF Buffer
    <3> QED BY <1>3, <1>4, <2>2, <3>1, NewestIs
  <2>5. Kept(o, x, n)
    BY <1>2, KeptLater
  <2> QED BY <1>1, <2>2, <2>3, <2>4, <2>5
<1>7. CASE s.positioned /\ Accepts(M, x)
  <2> DEFINE P == Prune(M \cup {x})
             R == S \cup {x}
             v == IF M = {} THEN PoseOf(x) ELSE o.pose
  <2>1. p = [motion |-> P, seen |-> R, pose |-> v, selected |-> o.selected, hovered |-> o.hovered]
    BY <1>7 DEF ApplyRobot, Push, Snaps, Rendered, Object
  <2>2. \A y \in S : y < x
    <3>1. CASE M = {}
      BY <3>1 DEF Kept
    <3>2. CASE M # {}
      <4>1. ASSUME NEW y \in S, ~ (y < x) PROVE FALSE
        <5>1. y = x
          BY <1>2, <1>3, <4>1
        <5>2. PICK z \in M : TRUE
          BY <3>2
        <5>3. z <= y
          BY <1>3, <1>4, <5>1
        <5>4. y \in M
          BY <5>3 DEF Kept, Suffix
        <5> QED BY <1>2, <1>7, <5>1, <5>4 DEF Accepts
      <4> QED BY <4>1
    <3> QED BY <3>1, <3>2
  <2>3. Buffer(M \cup {x}) /\ Buffer(R)
    <3>1. IsFiniteSet(M)
      BY <1>4, FS_Subset
    <3>2. IsFiniteSet(M \cup {x}) /\ IsFiniteSet(R)
      BY <1>4, <3>1, FS_AddElement
    <3> QED BY <1>1, <1>2, <3>2 DEF Buffer
  <2>4. Newest(M \cup {x}) = x
    <3>1. \A y \in M \cup {x} : y <= x
      BY <1>2, <1>3, <1>4
    <3> QED BY <2>3, <3>1, NewestIs
  <2>5. /\ Buffer(P) /\ Suffix(P, M \cup {x}) /\ Newest(P) = x
        /\ Oldest(M \cup {x}) <= Oldest(P)
    BY <2>3, <2>4, PruneKeeps
  <2>6. Suffix(P, R)
    <3>1. Suffix(M \cup {x}, R)
      <4>1. ASSUME NEW a \in M \cup {x}, NEW b \in R, a <= b PROVE b \in M \cup {x}
        <5>1. CASE b = x
          BY <5>1
        <5>2. CASE b \in S /\ a \in M
          BY <4>1, <5>2 DEF Kept, Suffix
        <5>3. CASE b \in S /\ a = x
          BY <1>2, <1>3, <2>2, <4>1, <5>3
        <5> QED BY <5>1, <5>2, <5>3
      <4>2. M \cup {x} \subseteq R
        BY <1>4
      <4> HIDE DEF M, R, x
      <4> QED BY <4>1, <4>2 DEF Suffix
    <3> HIDE DEF P, R
    <3> QED BY <2>5, <3>1 DEF Suffix
  <2>7. Regular(R) => Reaches(P, R, n - Delay)
    <3>1. Suffix(M, S) /\ (Regular(S) => Reaches(M, S, n - Delay))
      BY DEF Kept
    <3> QED BY <1>1, <1>2, <1>4, <2>2, <3>1, PruneReaches, WorldAssumption
  <2>8. v \in Pose /\ v.at >= o.pose.at /\ v.at <= Shown(P, n - Delay)
    <3>1. P # {} /\ Newest(P) = x
      BY <2>5 DEF Buffer
    <3>2. CASE M = {}
      <4>1. P \subseteq {x}
        BY <2>5, <3>2 DEF Suffix
      <4>2. Oldest(P) = x
        BY <2>5, <3>1, <4>1, OldestIs
      <4>3. Shown(P, n - Delay) = x
        BY <1>2, <3>1, <4>2, WorldAssumption DEF Shown
      <4>4. o.pose.at <= 0
        BY <3>2 DEF Kept
      <4> QED BY <1>1, <1>2, <3>2, <4>3, <4>4 DEF PoseOf, Pose
    <3>3. CASE M # {}
      <4>1. Buffer(M)
        BY <1>1, <1>4, <3>3, FS_Subset DEF Buffer
      <4>2. /\ Newest(M) \in M /\ Newest(M) \in Nat /\ Oldest(M) \in M /\ Oldest(M) \in Nat
            /\ \A y \in M : Oldest(M) <= y
        BY <4>1, NewestIs, OldestIs DEF Buffer
      <4>3. Newest(M) <= x /\ Oldest(M) <= x
        BY <1>3, <1>4, <4>2
      <4>4. Oldest(M) <= Oldest(M \cup {x}) /\ Oldest(M \cup {x}) \in Nat /\ Oldest(P) \in Nat
        <5>1. Oldest(M \cup {x}) \in M \cup {x} /\ Oldest(M \cup {x}) \in Nat /\ Oldest(P) \in Nat
          BY <2>3, <2>5, OldestIs DEF Buffer
        <5> QED BY <4>2, <4>3, <5>1
      <4>5. Oldest(M) <= Oldest(P)
        BY <2>5, <4>2, <4>4
      <4>6. Shown(M, n - Delay) <= Shown(P, n - Delay)
        BY <2>5, <4>1, <4>3, <4>5, ShownGrows, WorldAssumption
      <4>7. Shown(M, n - Delay) \in Int /\ Shown(P, n - Delay) \in Int
        BY <2>5, <4>1, PoseAtShown, WorldAssumption
      <4>8. o.pose.at <= Shown(M, n - Delay)
        BY <3>3 DEF Kept
      <4>9. v = o.pose
        BY <3>3
      <4> HIDE DEF v, P, M
      <4> QED BY <1>1, <4>6, <4>7, <4>8, <4>9
    <3> QED BY <3>2, <3>3
  <2>9. p \in Object
    BY <1>1, <1>2, <2>1, <2>5, <2>8 DEF Object, Buffer
  <2>10. Kept(p, x, n)
    <3>1. IsFiniteSet(R) /\ P # {}
      BY <2>3, <2>5 DEF Buffer
    <3>2. \A y \in R : y <= x
      BY <1>2, <1>3
    <3>3. p.motion = P /\ p.seen = R /\ p.pose = v
      BY <2>1
    <3> HIDE DEF P, R, v, x
    <3> QED BY <2>6, <2>7, <2>8, <3>1, <3>2, <3>3 DEF Kept
  <2>11. /\ p.motion = P /\ p.pose = v /\ p.selected = o.selected /\ p.hovered = o.hovered
         /\ P # {} /\ Newest(P) = x
    BY <2>1, <2>5 DEF Buffer
  <2> HIDE DEF P, R, v
  <2> QED BY <2>8, <2>9, <2>10, <2>11
<1> QED BY <1>2, <1>5, <1>6, <1>7

\* A frame draws no robot behind where it was.
LEMMA TickKept ==
  ASSUME NEW o \in Object, NEW t \in Nat, now \in Nat, Kept(o, t, now),
         NEW p, p = TickObject(o)
  PROVE  /\ p \in Object /\ p.selected = o.selected /\ p.hovered = o.hovered
         /\ p.motion = o.motion /\ Kept(p, t, now) /\ p.pose.at >= o.pose.at
<1>1. CASE o.motion = {}
  BY <1>1 DEF TickObject, Object, Pose
<1>2. CASE o.motion # {}
  <2> DEFINE v == PoseAt(o.motion, now - Delay)
  <2>1. Buffer(o.motion)
    BY <1>2, FS_Subset DEF Kept, Suffix, Object, Buffer
  <2>2. v \in Pose /\ v.at = Shown(o.motion, now - Delay)
    BY <2>1, PoseTyped, PoseAtShown, WorldAssumption
  <2>3. p = [motion |-> o.motion, seen |-> o.seen, pose |-> v, selected |-> o.selected,
             hovered |-> o.hovered]
    BY <1>2 DEF TickObject, Rendered, Object
  <2>4. o.pose.at \in Int /\ o.pose.at <= v.at /\ v.at \in Int
    BY <1>2, <2>2 DEF Kept, Object, Pose
  <2> HIDE DEF v
  <2>5. p \in Object
    BY <2>2, <2>3 DEF Object
  <2>6. Kept(p, t, now)
    BY <1>2, <2>2, <2>3, <2>4 DEF Kept
  <2> QED BY <2>3, <2>4, <2>5, <2>6
<1> QED BY <1>1, <1>2

\* createObject: the new object has the right flags and its first sample.
LEMMA CreateKept ==
  ASSUME NEW w, NEW r, NEW s \in State, NEW n \in Nat, s.at <= n,
         NEW p, p = CreateObject(w, s, r)
  PROVE  /\ p \in Object /\ (p.selected <=> r = w.selectedId) /\ (p.hovered <=> r = w.hovered)
         /\ Kept(p, s.at, n)
         /\ s.positioned => p.motion # {} /\ Newest(p.motion) = s.at
<1> DEFINE o == [motion |-> {}, seen |-> {}, pose |-> PoseOf(0),
                 selected |-> r = w.selectedId, hovered |-> r = w.hovered]
<1>1. /\ o \in Object /\ (o.selected <=> r = w.selectedId) /\ (o.hovered <=> r = w.hovered)
      /\ o.motion = {} /\ o.seen = {} /\ o.pose = PoseOf(0)
  <2>1. PoseOf(0) \in Pose
    BY DEF Pose, PoseOf
  <2>2. o.motion = {} /\ o.seen = {} /\ o.pose = PoseOf(0)
    OBVIOUS
  <2>3. o.selected <=> r = w.selectedId
    OBVIOUS
  <2>4. o.hovered <=> r = w.hovered
    OBVIOUS
  <2>5. o \in Object
    BY <2>1 DEF Object
  <2> HIDE DEF o
  <2> QED BY <2>2, <2>3, <2>4, <2>5
<1>2. p = ApplyRobot(o, s)
  BY DEF NewObject, CreateObject
<1> HIDE DEF o
<1>3. Kept(o, 0, n)
  BY <1>1, FS_EmptySet DEF Kept, Suffix, Reaches, PoseOf
<1>4. 0 <= s.at
  BY DEF State
<1>5. /\ p \in Object /\ p.selected = o.selected /\ p.hovered = o.hovered /\ Kept(p, s.at, n)
      /\ s.positioned => p.motion # {} /\ Newest(p.motion) = s.at
  BY <1>1, <1>2, <1>3, <1>4, ApplyKept
<1> QED BY <1>1, <1>5

-----------------------------------------------------------------------------
(* What happens to the world *)

\* What the camera's laws are about, and what the others are about.
Eye(w) == <<w.scene, w.positioned, w.size, w.active, w.followed, w.view, w.fitted, w.hasFit,
            w.needsAspectRefit>>
Body(w) == <<w.scene, w.objects, w.drawn, w.hovered, w.selectedId, w.pending, w.positioned>>

\* A step that leaves the fields of the camera alone keeps its laws.
LEMMA EyeSays ==
  ASSUME NEW w \in World, NEW v \in World, Eye(v) = Eye(w)
  PROVE  /\ v.scene = w.scene /\ v.positioned = w.positioned /\ v.active = w.active
         /\ v.followed = w.followed /\ v.view = w.view /\ v.hasFit = w.hasFit
         /\ v.fitted = w.fitted
         /\ Camera(w) => Camera(v)
<1>1. /\ v.scene = w.scene /\ v.positioned = w.positioned /\ v.active = w.active
      /\ v.followed = w.followed /\ v.view = w.view /\ v.hasFit = w.hasFit
      /\ v.fitted = w.fitted /\ v.size = w.size /\ v.needsAspectRefit = w.needsAspectRefit
  BY DEF Eye
<1> QED BY <1>1 DEF Camera

\* A step that leaves the rest alone keeps what is said of the objects.
LEMMA BodySays ==
  ASSUME NEW w \in World, NEW v \in World, Body(v) = Body(w)
  PROVE  /\ v.scene = w.scene /\ v.objects = w.objects /\ v.pending = w.pending
         /\ v.selectedId = w.selectedId
         /\ Looks(w) => Looks(v)
         /\ \A f, n : ObjectsKept(w, f, n) => ObjectsKept(v, f, n)
         /\ \A f : Shows(w, f) => Shows(v, f)
BY DEF Body, Looks, Flags, ObjectsKept, Shows

\* The objects are a function from some of the robots.
LEMMA ObjectsTyped ==
  ASSUME NEW w \in World
  PROVE  DOMAIN w.objects \subseteq Robots /\ \A r \in DOMAIN w.objects : w.objects[r] \in Object
<1>1. PICK D \in SUBSET Robots : w.objects \in [D -> Object]
  BY DEF World, Objects
<1> QED BY <1>1

\* And any such function will do.
LEMMA ObjectsMade ==
  ASSUME NEW D \in SUBSET Robots, NEW o \in [D -> Object]
  PROVE  o \in Objects
BY DEF Objects

\* Writing a field leaves a world typed and its other fields alone.
WithObjects(w, o) == [w EXCEPT !.objects = o]
WithHovered(w, id, o) == [w EXCEPT !.hovered = id, !.objects = o]
WithSelected(w, id, o) == [w EXCEPT !.selectedId = id, !.objects = o]

\* The objects alone.
LEMMA WriteObjects ==
  ASSUME NEW w \in World, NEW o \in Objects, NEW v, v = WithObjects(w, o)
  PROVE  /\ v \in World /\ v.objects = o /\ Eye(v) = Eye(w) /\ v.drawn = w.drawn
         /\ v.hovered = w.hovered /\ v.selectedId = w.selectedId /\ v.pending = w.pending
BY DEF World, Eye, WithObjects

\* The objects with the hovered one.
LEMMA WriteHovered ==
  ASSUME NEW w \in World, NEW o \in Objects, NEW id \in MaybeRobot,
         NEW v, v = WithHovered(w, id, o)
  PROVE  /\ v \in World /\ v.objects = o /\ Eye(v) = Eye(w) /\ v.drawn = w.drawn
         /\ v.hovered = id /\ v.selectedId = w.selectedId /\ v.pending = w.pending
BY DEF World, Eye, WithHovered

\* The objects with the selected one.
LEMMA WriteSelected ==
  ASSUME NEW w \in World, NEW o \in Objects, NEW id \in MaybeRobot,
         NEW v, v = WithSelected(w, id, o)
  PROVE  /\ v \in World /\ v.objects = o /\ Eye(v) = Eye(w) /\ v.drawn = w.drawn
         /\ v.hovered = w.hovered /\ v.selectedId = id /\ v.pending = w.pending
BY DEF World, Eye, WithSelected

\* The pick list.
LEMMA WriteDrawn ==
  ASSUME NEW w \in World, NEW v, v = RebuildPickList(w)
  PROVE  /\ v \in World /\ v.objects = w.objects /\ Eye(v) = Eye(w) /\ v.drawn = DOMAIN w.objects
         /\ v.hovered = w.hovered /\ v.selectedId = w.selectedId /\ v.pending = w.pending
<1>1. DOMAIN w.objects \subseteq Robots
  BY ObjectsTyped
<1> QED BY <1>1 DEF World, Eye, RebuildPickList

\* The fleet that waits for a scene.
LEMMA WritePending ==
  ASSUME NEW w \in World, NEW f \in Fleets, NEW v, v = [w EXCEPT !.pending = f]
  PROVE  v \in World /\ v.pending = f /\ Eye(v) = Eye(w) /\ v.objects = w.objects
         /\ v.selectedId = w.selectedId /\ (Looks(w) => Looks(v))
<1>1. v \in World /\ v.pending = f /\ Eye(v) = Eye(w) /\ v.objects = w.objects
      /\ v.selectedId = w.selectedId /\ v.drawn = w.drawn /\ v.hovered = w.hovered /\ v.scene = w.scene
  BY DEF World, Eye
<1> QED BY <1>1 DEF Looks, Flags

\* Two worlds whose objects differ in their flags only.
SameMotion(w, v) ==
  /\ DOMAIN v.objects = DOMAIN w.objects
  /\ \A r \in DOMAIN w.objects :
       /\ v.objects[r].motion = w.objects[r].motion /\ v.objects[r].seen = w.objects[r].seen
       /\ v.objects[r].pose = w.objects[r].pose

\* Flags do not matter to samples and poses.
LEMMA SameMotionKeeps ==
  ASSUME NEW w \in World, NEW v \in World, SameMotion(w, v), NEW f \in Fleets, NEW n \in Nat
  PROVE  /\ ObjectsKept(w, f, n) => ObjectsKept(v, f, n)
         /\ Shows(w, f) => Shows(v, f)
<1>1. ASSUME ObjectsKept(w, f, n) PROVE ObjectsKept(v, f, n)
  BY <1>1 DEF ObjectsKept, SameMotion, Kept
<1>2. ASSUME Shows(w, f) PROVE Shows(v, f)
  BY <1>2 DEF Shows, SameMotion, Positioned
<1> QED BY <1>1, <1>2

\* setHoveredRobotId
LEMMA HoverMoves ==
  ASSUME NEW w \in World, Flags(w), NEW id \in MaybeRobot, id \in DOMAIN w.objects \cup {None},
         NEW v, v = SetHoveredRobotId(w, id)
  PROVE  /\ v \in World /\ Eye(v) = Eye(w) /\ SameMotion(w, v) /\ Looks(v)
         /\ v.selectedId = w.selectedId /\ v.pending = w.pending
<1> DEFINE o == [r \in DOMAIN w.objects |->
                   IF w.hovered = id THEN w.objects[r] ELSE SetHovered(w.objects[r], r = id)]
<1>1. ASSUME NEW r \in DOMAIN w.objects
      PROVE  /\ o[r] \in Object /\ o[r].motion = w.objects[r].motion
             /\ o[r].seen = w.objects[r].seen /\ o[r].pose = w.objects[r].pose
             /\ o[r].selected = w.objects[r].selected /\ (o[r].hovered <=> r = id)
  <2>1. w.objects[r] \in Object
    BY ObjectsTyped
  <2>2. w.objects[r].hovered \in BOOLEAN /\ (w.objects[r].hovered <=> r = w.hovered)
    BY <2>1 DEF Looks, Flags, Object
  <2>3. CASE w.hovered = id
    <3>1. o[r] = w.objects[r]
      BY <2>3
    <3> HIDE DEF o
    <3> QED BY <2>1, <2>2, <2>3, <3>1
  <2>4. CASE w.hovered # id
    <3>1. r = id => o[r] = SetHovered(w.objects[r], TRUE)
      BY <2>4
    <3>2. r # id => o[r] = SetHovered(w.objects[r], FALSE)
      BY <2>4
    <3> HIDE DEF o
    <3>3. CASE r = id
      BY <2>1, <3>1, <3>3 DEF SetHovered, Object
    <3>4. CASE r # id
      BY <2>1, <3>2, <3>4 DEF SetHovered, Object
    <3> QED BY <3>3, <3>4
  <2> QED BY <2>3, <2>4
<1>2. DOMAIN o = DOMAIN w.objects /\ DOMAIN w.objects \subseteq Robots
  BY ObjectsTyped
<1>3. v = WithHovered(w, id, o)
  BY DEF SetHoveredRobotId, WithHovered
<1> HIDE DEF o
<1>4. o \in Objects
  <2>1. o = [r \in DOMAIN w.objects |-> o[r]]
    BY DEF o
  <2>2. o \in [DOMAIN w.objects -> Object]
    BY <1>1, <2>1
  <2> QED BY <1>2, <2>2, ObjectsMade
<1>5. /\ v \in World /\ v.objects = o /\ Eye(v) = Eye(w) /\ v.drawn = w.drawn
      /\ v.hovered = id /\ v.selectedId = w.selectedId /\ v.pending = w.pending
  BY <1>3, <1>4, WriteHovered
<1>6. SameMotion(w, v)
  BY <1>1, <1>2, <1>5 DEF SameMotion
<1>7. Looks(v)
  <2>1. v.scene = w.scene
    BY <1>5, EyeSays
  <2>2. /\ v.drawn = DOMAIN v.objects /\ v.hovered \in DOMAIN v.objects \cup {None}
        /\ ~v.scene => DOMAIN v.objects = {}
    BY <1>2, <1>5, <2>1 DEF Looks, Flags
  <2>3. ASSUME NEW r \in DOMAIN v.objects
        PROVE  /\ v.objects[r].hovered <=> r = v.hovered
               /\ v.objects[r].selected <=> r = v.selectedId
    <3>1. r \in DOMAIN w.objects
      BY <1>2, <1>5
    <3> QED BY <1>1, <1>5, <3>1 DEF Looks, Flags
  <2> QED BY <2>2, <2>3 DEF Looks, Flags
<1> QED BY <1>5, <1>6, <1>7

\* setSelectedRobot
LEMMA SelectionMoves ==
  ASSUME NEW w \in World, Looks(w), NEW id \in MaybeRobot, NEW v, v = SetSelectedRobot(w, id)
  PROVE  /\ v \in World /\ Eye(v) = Eye(w) /\ SameMotion(w, v) /\ Looks(v)
         /\ v.selectedId = id /\ v.pending = w.pending
<1> DEFINE o == [r \in DOMAIN w.objects |-> SetSelected(w.objects[r], r = id)]
<1>1. ASSUME NEW r \in DOMAIN w.objects
      PROVE  /\ o[r] \in Object /\ o[r].motion = w.objects[r].motion
             /\ o[r].seen = w.objects[r].seen /\ o[r].pose = w.objects[r].pose
             /\ o[r].hovered = w.objects[r].hovered /\ (o[r].selected <=> r = id)
  <2>1. w.objects[r] \in Object
    BY ObjectsTyped
  <2>2. r = id => o[r] = SetSelected(w.objects[r], TRUE)
    OBVIOUS
  <2>3. r # id => o[r] = SetSelected(w.objects[r], FALSE)
    OBVIOUS
  <2> HIDE DEF o
  <2>4. CASE r = id
    BY <2>1, <2>2, <2>4 DEF SetSelected, Object
  <2>5. CASE r # id
    BY <2>1, <2>3, <2>5 DEF SetSelected, Object
  <2> QED BY <2>4, <2>5
<1>2. DOMAIN o = DOMAIN w.objects /\ DOMAIN w.objects \subseteq Robots
  BY ObjectsTyped
<1>3. v = WithSelected(w, id, o)
  BY DEF SetSelectedRobot, WithSelected
<1> HIDE DEF o
<1>4. o \in Objects
  <2>1. o = [r \in DOMAIN w.objects |-> o[r]]
    BY DEF o
  <2>2. o \in [DOMAIN w.objects -> Object]
    BY <1>1, <2>1
  <2> QED BY <1>2, <2>2, ObjectsMade
<1>5. /\ v \in World /\ v.objects = o /\ Eye(v) = Eye(w) /\ v.drawn = w.drawn
      /\ v.hovered = w.hovered /\ v.selectedId = id /\ v.pending = w.pending
  BY <1>3, <1>4, WriteSelected
<1>6. SameMotion(w, v)
  BY <1>1, <1>2, <1>5 DEF SameMotion
<1>7. Looks(v)
  <2>1. v.scene = w.scene
    BY <1>5, EyeSays
  <2>2. /\ v.drawn = DOMAIN v.objects /\ v.hovered \in DOMAIN v.objects \cup {None}
        /\ ~v.scene => DOMAIN v.objects = {}
    BY <1>2, <1>5, <2>1 DEF Looks, Flags
  <2>3. ASSUME NEW r \in DOMAIN v.objects
        PROVE  /\ v.objects[r].hovered <=> r = v.hovered
               /\ v.objects[r].selected <=> r = v.selectedId
    <3>1. r \in DOMAIN w.objects
      BY <1>2, <1>5
    <3> QED BY <1>1, <1>5, <3>1 DEF Looks, Flags
  <2> QED BY <2>2, <2>3 DEF Looks, Flags
<1> QED BY <1>5, <1>6, <1>7

\* syncFleet's callback for a robot that stays
LEMMA UpdateKept ==
  ASSUME NEW w \in World, NEW r \in DOMAIN w.objects, Looks(w), NEW s \in State, NEW t \in Nat,
         NEW n \in Nat, Kept(w.objects[r], t, n), t <= s.at, s.at <= n,
         NEW p, p = UpdateObject(w, s, r)
  PROVE  /\ p \in Object /\ (p.selected <=> r = w.selectedId) /\ (p.hovered <=> r = w.hovered)
         /\ Kept(p, s.at, n) /\ p.pose.at >= w.objects[r].pose.at
         /\ s.positioned => p.motion # {} /\ Newest(p.motion) = s.at
<1> DEFINE o == w.objects[r]
           a == ApplyRobot(o, s)
<1>1. o \in Object /\ o.hovered \in BOOLEAN /\ (o.hovered <=> r = w.hovered)
  BY ObjectsTyped DEF Looks, Flags, Object
<1>2. /\ a \in Object /\ a.hovered = o.hovered /\ Kept(a, s.at, n) /\ a.pose.at >= o.pose.at
      /\ s.positioned => a.motion # {} /\ Newest(a.motion) = s.at
  BY <1>1, ApplyKept
<1>3. p = SetSelected(a, r = w.selectedId)
  BY DEF UpdateObject
<1> HIDE DEF o, a
<1>4. /\ p \in Object /\ p.motion = a.motion /\ p.seen = a.seen /\ p.pose = a.pose
      /\ p.hovered = a.hovered /\ (p.selected <=> r = w.selectedId)
  BY <1>2, <1>3 DEF SetSelected, Object
<1>5. Kept(p, s.at, n)
  BY <1>2, <1>4 DEF Kept
<1>6. /\ p.pose.at >= o.pose.at /\ (p.hovered <=> r = w.hovered)
      /\ s.positioned => p.motion # {} /\ Newest(p.motion) = s.at
  BY <1>1, <1>2, <1>4
<1> QED BY <1>4, <1>5, <1>6 DEF o

\* No robot on the screen has moved back.
NoneBack(w, v) ==
  \A r \in DOMAIN w.objects \cap DOMAIN v.objects : v.objects[r].pose.at >= w.objects[r].pose.at

\* syncRegistry: the objects are those of the fleet, with its samples and the right flags.
LEMMA RegistrySynced ==
  ASSUME NEW w \in World, Looks(w), NEW f \in Fleets, NEW g \in Fleets, NEW n \in Nat,
         Precedes(g, f), Past(f, n), ObjectsKept(w, g, n), NEW v, v = SyncRegistry(w, f)
  PROVE  /\ v \in World /\ Eye(v) = Eye(w) /\ v.hovered = w.hovered
         /\ v.selectedId = w.selectedId /\ v.pending = w.pending
         /\ ObjectsKept(v, f, n) /\ Shows(v, f) /\ NoneBack(w, v)
         /\ \A r \in DOMAIN v.objects :
              /\ v.objects[r].hovered <=> r = w.hovered
              /\ v.objects[r].selected <=> r = w.selectedId
<1> DEFINE o == [r \in Mapped(f) |-> IF r \in DOMAIN w.objects THEN UpdateObject(w, f[r], r)
                                     ELSE CreateObject(w, f[r], r)]
<1>1. DOMAIN o = Mapped(f) /\ Mapped(f) \subseteq Robots
  BY DEF Mapped
<1>2. ASSUME NEW r \in Mapped(f)
      PROVE  /\ o[r] \in Object /\ (o[r].hovered <=> r = w.hovered)
             /\ (o[r].selected <=> r = w.selectedId) /\ Kept(o[r], f[r].at, n)
             /\ f[r].positioned => o[r].motion # {} /\ Newest(o[r].motion) = f[r].at
             /\ r \in DOMAIN w.objects => o[r].pose.at >= w.objects[r].pose.at
  <2>1. r \in Robots /\ f[r] \in State /\ f[r].at <= n
    BY DEF Mapped, Fleets, Past
  <2>2. g[r].at \in Nat /\ g[r].at <= f[r].at
    BY <2>1 DEF Fleets, State, Precedes
  <2>3. CASE r \in DOMAIN w.objects
    <3>1. o[r] = UpdateObject(w, f[r], r) /\ Kept(w.objects[r], g[r].at, n)
      BY <2>3 DEF ObjectsKept
    <3> HIDE DEF o
    <3> QED BY <2>1, <2>2, <2>3, <3>1, UpdateKept
  <2>4. CASE r \notin DOMAIN w.objects
    <3>1. o[r] = CreateObject(w, f[r], r)
      BY <2>4
    <3> HIDE DEF o
    <3> QED BY <2>1, <2>4, <3>1, CreateKept
  <2> QED BY <2>3, <2>4
<1>3. v = WithObjects(w, o)
  BY DEF SyncRegistry, WithObjects
<1>4. o = [r \in Mapped(f) |-> o[r]]
  OBVIOUS
<1> HIDE DEF o
<1>5. o \in Objects
  <2>1. o \in [Mapped(f) -> Object]
    BY <1>2, <1>4
  <2> QED BY <1>1, <2>1, ObjectsMade
<1>6. /\ v \in World /\ v.objects = o /\ Eye(v) = Eye(w) /\ v.drawn = w.drawn
      /\ v.hovered = w.hovered /\ v.selectedId = w.selectedId /\ v.pending = w.pending
  BY <1>3, <1>5, WriteObjects
<1>7. ObjectsKept(v, f, n) /\ NoneBack(w, v)
  BY <1>1, <1>2, <1>6 DEF ObjectsKept, NoneBack
<1>8. Shows(v, f)
  BY <1>1, <1>2, <1>6 DEF Shows, Positioned
<1> QED BY <1>1, <1>2, <1>6, <1>7, <1>8

-----------------------------------------------------------------------------
(* What happens to the camera *)

\* applyFraming
LEMMA Framed ==
  ASSUME NEW w \in World, NEW animate \in BOOLEAN, NEW v, v = ApplyFraming(w, animate)
  PROVE  /\ v \in World /\ Body(v) = Body(w) /\ v.active = animate /\ v.followed = None
         /\ v.hasFit = TRUE /\ v.fitted = w.fitted /\ v.size = w.size
         /\ v.needsAspectRefit => w.needsAspectRefit \/ w.size.degenerate
<1> DEFINE a == CancelFollow(w)
           b == [a EXCEPT !.hasFit = TRUE, !.needsAspectRefit = @ \/ w.size.degenerate]
<1>1. /\ a \in World /\ Body(a) = Body(w) /\ a.followed = None /\ a.fitted = w.fitted
      /\ a.size = w.size /\ a.needsAspectRefit = w.needsAspectRefit
  BY DEF CancelFollow, World, Body, MaybeRobot
<1>2. v = MoveCamera(b, animate)
  BY DEF ApplyFraming
<1> HIDE DEF a
<1>3. /\ b \in World /\ Body(b) = Body(a) /\ b.followed = a.followed /\ b.fitted = a.fitted
      /\ b.size = a.size /\ b.hasFit = TRUE
      /\ b.needsAspectRefit => a.needsAspectRefit \/ w.size.degenerate
  <2> DEFINE owing == a.needsAspectRefit \/ w.size.degenerate
  <2>1. b = [a EXCEPT !.hasFit = TRUE, !.needsAspectRefit = owing] /\ owing \in BOOLEAN
    OBVIOUS
  <2>2. b.needsAspectRefit = owing
    BY <1>1 DEF World
  <2>3. owing => a.needsAspectRefit \/ w.size.degenerate
    OBVIOUS
  <2> HIDE DEF b, owing
  <2>4. b \in World
    BY <1>1, <2>1 DEF World
  <2>5. /\ Body(b) = Body(a) /\ b.followed = a.followed /\ b.fitted = a.fitted
        /\ b.size = a.size /\ b.hasFit = TRUE
    BY <1>1, <2>1 DEF World, Body
  <2> QED BY <2>2, <2>3, <2>4, <2>5
<1> HIDE DEF b
<1>4. /\ v \in World /\ Body(v) = Body(b) /\ v.followed = b.followed /\ v.fitted = b.fitted
      /\ v.size = b.size /\ v.hasFit = b.hasFit /\ v.active = animate
      /\ v.needsAspectRefit = b.needsAspectRefit
  <2>1. v \in World
    BY <1>2, <1>3 DEF MoveCamera, World
  <2>2. /\ Body(v) = Body(b) /\ v.followed = b.followed /\ v.fitted = b.fitted
        /\ v.size = b.size /\ v.hasFit = b.hasFit /\ v.active = animate
        /\ v.needsAspectRefit = b.needsAspectRefit
    BY <1>2, <1>3 DEF MoveCamera, World, Body
  <2> QED BY <2>1, <2>2
<1> QED BY <1>1, <1>3, <1>4

\* The laws of the camera, but for a first fit that may be owing.
Unframed(w) ==
  /\ ~(w.active /\ w.followed # None)
  /\ w.needsAspectRefit => w.hasFit /\ (w.size.degenerate \/ ~w.size.usable)
  /\ w.hasFit => w.fitted

\* The InitialFitGate: the first fleet with a position is framed, and no other.
LEMMA FirstFitFrames ==
  ASSUME NEW w \in World, w.scene, Unframed(w), NEW v, v = FirstFit(w)
  PROVE  v \in World /\ Body(v) = Body(w) /\ Camera(v) /\ (w.fitted => v = w)
<1>1. CASE Unbounded(w) \/ w.fitted
  <2>1. v = w
    BY <1>1 DEF FirstFit, ShouldFit
  <2> QED BY <1>1, <2>1 DEF Unframed, Camera, Unbounded
<1>2. CASE ~Unbounded(w) /\ ~w.fitted
  <2> DEFINE a == ApplyFraming(w, FALSE)
  <2>1. v = [a EXCEPT !.fitted = TRUE]
    BY <1>2 DEF FirstFit, ShouldFit
  <2>2. /\ a \in World /\ Body(a) = Body(w) /\ a.active = FALSE /\ a.followed = None
        /\ a.hasFit = TRUE /\ a.size = w.size
        /\ a.needsAspectRefit => w.needsAspectRefit \/ w.size.degenerate
    BY Framed
  <2> HIDE DEF a
  <2>3. /\ v \in World /\ Body(v) = Body(a) /\ v.active = a.active /\ v.followed = a.followed
        /\ v.hasFit = a.hasFit /\ v.size = a.size /\ v.needsAspectRefit = a.needsAspectRefit
        /\ v.fitted = TRUE
    <3>1. v \in World
      BY <2>1, <2>2 DEF World
    <3>2. /\ Body(v) = Body(a) /\ v.active = a.active /\ v.followed = a.followed
          /\ v.hasFit = a.hasFit /\ v.size = a.size /\ v.fitted = TRUE
          /\ v.needsAspectRefit = a.needsAspectRefit
      BY <2>1, <2>2 DEF World, Body
    <3> QED BY <3>1, <3>2
  <2>4. v.scene = w.scene
    BY <2>2, <2>3 DEF Body
  <2>5. v.needsAspectRefit => v.size.degenerate \/ ~v.size.usable
    BY <2>2, <2>3 DEF Unframed
  <2>6. Camera(v)
    BY <2>2, <2>3, <2>4, <2>5 DEF Camera
  <2> QED BY <1>2, <2>2, <2>3, <2>6
<1> QED BY <1>1, <1>2 DEF World

-----------------------------------------------------------------------------
(* Synchronising, building and tearing down *)

\* The hover of a robot that is gone is given up.
LEMMA ForgetMoves ==
  ASSUME NEW w \in World, Flags(w), NEW v, v = ForgetHovered(w)
  PROVE  /\ v \in World /\ Eye(v) = Eye(w) /\ SameMotion(w, v) /\ Looks(v)
         /\ v.selectedId = w.selectedId /\ v.pending = w.pending
<1>1. CASE w.hovered \in DOMAIN w.objects
  BY <1>1 DEF ForgetHovered, Looks, SameMotion
<1>2. CASE w.hovered \notin DOMAIN w.objects
  <2>1. v = SetHoveredRobotId(w, None)
    BY <1>2 DEF ForgetHovered
  <2> QED BY <2>1, HoverMoves DEF MaybeRobot
<1> QED BY <1>1, <1>2

\* syncFleet with a scene
LEMMA FleetSynced ==
  ASSUME NEW w \in World, w.scene, Looks(w), Camera(w), NEW f \in Fleets, NEW g \in Fleets,
         NEW n \in Nat, Precedes(g, f), Past(f, n), ObjectsKept(w, g, n),
         NEW v, v = SyncFleet(w, f)
  PROVE  /\ v \in World /\ v.scene /\ v.selectedId = w.selectedId /\ v.pending = None
         /\ Looks(v) /\ Camera(v) /\ ObjectsKept(v, f, n) /\ Shows(v, f) /\ NoneBack(w, v)
         /\ w.hasFit => v.view = w.view /\ v.active = w.active /\ v.followed = w.followed
<1> DEFINE a == [w EXCEPT !.pending = None, !.positioned = Positioned(f)]
           b == SyncRegistry(a, f)
           c == RebuildPickList(b)
           d == ForgetHovered(c)
<1>1. v = FirstFit(d)
  BY DEF SyncFleet
<1>2. /\ a \in World /\ a.scene /\ a.objects = w.objects /\ a.drawn = w.drawn
      /\ a.hovered = w.hovered /\ a.selectedId = w.selectedId /\ a.pending = None
      /\ a.active = w.active /\ a.followed = w.followed /\ a.view = w.view
      /\ a.fitted = w.fitted /\ a.hasFit = w.hasFit /\ a.size = w.size
      /\ a.needsAspectRefit = w.needsAspectRefit
  <2>1. Positioned(f) \subseteq Robots
    BY DEF Positioned, Mapped
  <2> QED BY <2>1 DEF World
<1> HIDE DEF a
<1>3. Looks(a) /\ ObjectsKept(a, g, n) /\ Unframed(a)
  <2>1. Looks(a)
    BY <1>2 DEF Looks, Flags
  <2>2. ObjectsKept(a, g, n)
    BY <1>2 DEF ObjectsKept
  <2>3. Unframed(a)
    BY <1>2 DEF Camera, Unframed
  <2> QED BY <2>1, <2>2, <2>3
<1>4. /\ b \in World /\ Eye(b) = Eye(a) /\ b.hovered = a.hovered
      /\ b.selectedId = a.selectedId /\ b.pending = a.pending
      /\ ObjectsKept(b, f, n) /\ Shows(b, f) /\ NoneBack(a, b)
      /\ \A r \in DOMAIN b.objects :
           /\ b.objects[r].hovered <=> r = a.hovered
           /\ b.objects[r].selected <=> r = a.selectedId
  BY <1>2, <1>3, RegistrySynced
<1> HIDE DEF b
<1>5. /\ c \in World /\ c.objects = b.objects /\ Eye(c) = Eye(b) /\ c.drawn = DOMAIN b.objects
      /\ c.hovered = b.hovered /\ c.selectedId = b.selectedId /\ c.pending = b.pending
  BY <1>4, WriteDrawn
<1> HIDE DEF c
<1>6. c.scene /\ Flags(c)
  <2>1. c.scene
    BY <1>2, <1>4, <1>5, EyeSays
  <2> QED BY <1>4, <1>5, <2>1 DEF Flags
<1>7. /\ d \in World /\ Eye(d) = Eye(c) /\ SameMotion(c, d) /\ Looks(d)
      /\ d.selectedId = c.selectedId /\ d.pending = c.pending
  BY <1>5, <1>6, ForgetMoves
<1> HIDE DEF d
<1>8. ObjectsKept(d, f, n) /\ Shows(d, f) /\ NoneBack(w, d)
  <2>1. ObjectsKept(c, f, n) /\ Shows(c, f)
    BY <1>4, <1>5 DEF ObjectsKept, Shows
  <2>2. ObjectsKept(d, f, n) /\ Shows(d, f)
    BY <1>5, <1>7, <2>1, SameMotionKeeps
  <2>3. NoneBack(w, d)
    BY <1>2, <1>4, <1>5, <1>7 DEF NoneBack, SameMotion
  <2> QED BY <2>2, <2>3
<1>9. Eye(d) = Eye(a)
  BY <1>4, <1>5, <1>7
<1>10. d.scene /\ Unframed(d)
  BY <1>2, <1>3, <1>9 DEF Eye, Unframed
<1>11. v \in World /\ Body(v) = Body(d) /\ Camera(v) /\ (d.fitted => v = d)
  BY <1>1, <1>7, <1>10, FirstFitFrames
<1>12. /\ v.scene /\ v.selectedId = w.selectedId /\ v.pending = None
       /\ Looks(v) /\ ObjectsKept(v, f, n) /\ Shows(v, f) /\ v.objects = d.objects
  <2>1. d.selectedId = w.selectedId /\ d.pending = None
    BY <1>2, <1>4, <1>5, <1>7
  <2>2. v.pending = d.pending
    BY <1>11 DEF Body
  <2> QED BY <1>7, <1>8, <1>10, <1>11, <2>1, <2>2, BodySays
<1>13. NoneBack(w, v)
  BY <1>8, <1>12 DEF NoneBack
<1>14. ASSUME w.hasFit
       PROVE  v.view = w.view /\ v.active = w.active /\ v.followed = w.followed
  <2>1. d.fitted /\ d.view = a.view /\ d.active = a.active /\ d.followed = a.followed
    <3>1. w.fitted
      BY <1>14 DEF Camera
    <3>2. /\ d.fitted = a.fitted /\ d.view = a.view /\ d.active = a.active
          /\ d.followed = a.followed
      BY <1>9 DEF Eye
    <3> QED BY <1>2, <3>1, <3>2
  <2>2. v = d
    BY <1>11, <2>1
  <2> QED BY <1>2, <2>1, <2>2
<1> QED BY <1>11, <1>12, <1>13, <1>14

\* destroy
LEMMA TornDown ==
  ASSUME NEW w, w.selectedId \in MaybeRobot, NEW v, v = Torn(w)
  PROVE  /\ v \in World /\ ~v.scene /\ DOMAIN v.objects = {} /\ v.selectedId = w.selectedId
         /\ v.pending = None /\ Looks(v) /\ Camera(v) /\ v.hovered = None
         /\ v.positioned = {} /\ v.active = FALSE /\ v.followed = None
         /\ ~v.needsAspectRefit /\ ~v.hasFit
         /\ \A f, n : ObjectsKept(v, f, n)
<1>1. v = [scene |-> FALSE, objects |-> [r \in {} |-> None], drawn |-> {}, hovered |-> None,
           selectedId |-> w.selectedId, pending |-> None, positioned |-> {},
           size |-> [usable |-> FALSE, degenerate |-> FALSE], active |-> FALSE,
           followed |-> None, view |-> "none", fitted |-> FALSE, hasFit |-> FALSE,
           needsAspectRefit |-> FALSE]
  BY DEF Torn
<1>2. [r \in {} |-> None] \in Objects
  <2>1. [r \in {} |-> None] \in [{} -> Object] /\ {} \in SUBSET Robots
    OBVIOUS
  <2> QED BY <2>1, ObjectsMade
<1>3. v \in World
  BY <1>1, <1>2 DEF World, MaybeRobot
<1>4. DOMAIN v.objects = {}
  BY <1>1
<1>5. /\ v.drawn = {} /\ v.hovered = None /\ v.active = FALSE /\ v.followed = None
      /\ v.needsAspectRefit = FALSE /\ v.hasFit = FALSE /\ v.scene = FALSE
      /\ v.fitted = FALSE /\ v.positioned = {} /\ v.pending = None
      /\ v.selectedId = w.selectedId
  BY <1>1
<1>6. Looks(v)
  BY <1>4, <1>5 DEF Looks, Flags
<1>7. Camera(v)
  BY <1>5 DEF Camera
<1>8. \A f, n : ObjectsKept(v, f, n)
  BY <1>4 DEF ObjectsKept
<1> QED BY <1>3, <1>4, <1>5, <1>6, <1>7, <1>8

\* initialize
LEMMA Initialized ==
  ASSUME NEW w \in World, NEW size \in Sizes, NEW f \in Fleets, NEW n \in Nat, Past(f, n),
         w.pending = None \/ Precedes(w.pending, f),
         NEW v, v = Initialize(w, size)
  PROVE  /\ v \in World /\ v.scene /\ Looks(v) /\ Camera(v) /\ ObjectsKept(v, f, n)
<1> DEFINE t == Torn(w)
           a == [t EXCEPT !.scene = TRUE, !.size = size, !.view = "default"]
<1>1. w.selectedId \in MaybeRobot /\ w.pending \in Fleets \cup {None}
  BY DEF World
<1>2. /\ t \in World /\ DOMAIN t.objects = {} /\ t.pending = None /\ Looks(t) /\ t.hovered = None
      /\ t.positioned = {} /\ t.active = FALSE /\ t.followed = None
      /\ ~t.needsAspectRefit /\ ~t.hasFit
  BY <1>1, TornDown
<1>3. v = IF w.pending = None THEN a ELSE SyncFleet(a, w.pending)
  BY DEF Initialize
<1> HIDE DEF t
<1>4. /\ a \in World /\ a.objects = t.objects /\ a.drawn = t.drawn /\ a.hovered = t.hovered
      /\ a.selectedId = t.selectedId /\ a.positioned = t.positioned /\ a.active = t.active
      /\ a.followed = t.followed /\ a.needsAspectRefit = t.needsAspectRefit
      /\ a.hasFit = t.hasFit /\ a.scene = TRUE
  BY <1>2, WorldAssumption DEF World
<1> HIDE DEF a
<1>5. Looks(a)
  BY <1>2, <1>4 DEF Looks, Flags
<1>6. Camera(a)
  BY <1>2, <1>4 DEF Camera
<1>7. \A h : ObjectsKept(a, h, n)
  BY <1>2, <1>4 DEF ObjectsKept
<1>8. CASE w.pending = None
  BY <1>3, <1>4, <1>5, <1>6, <1>7, <1>8
<1>9. CASE w.pending # None
  <2> DEFINE g == w.pending
  <2>1. g \in Fleets /\ Precedes(g, f) /\ v = SyncFleet(a, g)
    BY <1>1, <1>3, <1>9
  <2> HIDE DEF g
  <2>2. Precedes(g, g) /\ Past(g, n)
    <3>1. \A r \in Robots : g[r].at \in Nat /\ f[r].at \in Nat
      BY <2>1 DEF Fleets, State
    <3> QED BY <2>1, <3>1 DEF Precedes, Past
  <2>3. ObjectsKept(a, g, n)
    BY <1>7
  <2>4. v \in World /\ v.scene /\ Looks(v) /\ Camera(v) /\ ObjectsKept(v, g, n)
    BY <1>4, <1>5, <1>6, <2>1, <2>2, <2>3, FleetSynced
  <2>5. ObjectsKept(v, f, n)
    <3>1. ASSUME NEW r \in DOMAIN v.objects PROVE Kept(v.objects[r], f[r].at, n)
      <4>1. r \in Robots /\ v.objects[r] \in Object
        BY <2>4, ObjectsTyped
      <4>2. g[r].at \in Nat /\ f[r].at \in Nat /\ g[r].at <= f[r].at
        BY <2>1, <4>1 DEF Fleets, State, Precedes
      <4>3. Kept(v.objects[r], g[r].at, n)
        BY <2>4 DEF ObjectsKept
      <4> QED BY <4>1, <4>2, <4>3, KeptLater
    <3> QED BY <3>1 DEF ObjectsKept
  <2> QED BY <2>4, <2>5
<1> QED BY <1>8, <1>9
-----------------------------------------------------------------------------
(* What the user and the frames do to the camera *)

\* A step that is about the camera alone.
Aimed(w, v) == v \in World /\ Body(v) = Body(w) /\ Camera(v)

\* fitFleet
LEMMA FleetFitted ==
  ASSUME NEW w \in World, Camera(w), NEW v, v = FitFleet(w)
  PROVE  Aimed(w, v)
<1>1. CASE Unbounded(w)
  BY <1>1 DEF FitFleet, Aimed
<1>2. CASE ~Unbounded(w)
  <2>1. v = ApplyFraming(w, TRUE)
    BY <1>2 DEF FitFleet
  <2>2. /\ v \in World /\ Body(v) = Body(w) /\ v.active = TRUE /\ v.followed = None
        /\ v.hasFit = TRUE /\ v.fitted = w.fitted /\ v.size = w.size
        /\ v.needsAspectRefit => w.needsAspectRefit \/ w.size.degenerate
    BY <2>1, Framed
  <2>3. w.scene /\ v.scene = w.scene /\ w.fitted
    BY <1>2, <2>2 DEF Body, Camera, Unbounded, World
  <2> QED BY <2>2, <2>3 DEF Camera, Aimed
<1> QED BY <1>1, <1>2

\* focusRobot: following ends an animation.
LEMMA RobotFocused ==
  ASSUME NEW w \in World, Camera(w), NEW r, NEW v, v = FocusRobot(w, r)
  PROVE  Aimed(w, v)
<1>1. CASE ~w.scene \/ ~HasSubject(w, r)
  BY <1>1 DEF FocusRobot, Aimed
<1>2. CASE w.scene /\ HasSubject(w, r)
  <2> DEFINE a == [w EXCEPT !.active = FALSE]
  <2>1. v = BeginFocus(a, r)
    BY <1>2 DEF FocusRobot
  <2>2. r \in Robots
    BY <1>2, ObjectsTyped DEF HasSubject
  <2>3. /\ a \in World /\ Body(a) = Body(w) /\ a.active = FALSE /\ a.hasFit = w.hasFit
        /\ a.fitted = w.fitted /\ a.size = w.size /\ a.needsAspectRefit = w.needsAspectRefit
        /\ a.scene = w.scene /\ a.positioned = w.positioned
    BY DEF World, Body
  <2> HIDE DEF a
  <2>4. /\ v \in World /\ Body(v) = Body(a) /\ v.active = a.active /\ v.hasFit = a.hasFit
        /\ v.fitted = a.fitted /\ v.size = a.size /\ v.needsAspectRefit = a.needsAspectRefit
        /\ v.scene = a.scene /\ v.positioned = a.positioned
    <3>1. v \in World
      <4>1. r \in MaybeRobot /\ r \in Robots \cup {"none", "default", "fleet", "user"}
        BY <2>2 DEF MaybeRobot
      <4>2. v = [a EXCEPT !.followed = r, !.view = r]
        BY <2>1 DEF BeginFocus
      <4> QED BY <2>3, <4>1, <4>2 DEF World
    <3>2. /\ Body(v) = Body(a) /\ v.active = a.active /\ v.hasFit = a.hasFit
          /\ v.fitted = a.fitted /\ v.size = a.size
          /\ v.needsAspectRefit = a.needsAspectRefit /\ v.scene = a.scene
          /\ v.positioned = a.positioned
      BY <2>1, <2>3 DEF BeginFocus, World, Body
    <3> QED BY <3>1, <3>2
  <2>5. Body(v) = Body(w) /\ v.active = FALSE
    BY <2>3, <2>4
  <2>6. Camera(v)
    BY <1>2, <2>3, <2>4 DEF Camera
  <2> QED BY <2>4, <2>5, <2>6 DEF Aimed
<1> QED BY <1>1, <1>2

\* resize: a refit that was owed is made when the window is usable, and only then.
LEMMA Resized ==
  ASSUME NEW w \in World, Camera(w), NEW size \in Sizes, NEW v, v = Resize(w, size)
  PROVE  Aimed(w, v)
<1> DEFINE a == [w EXCEPT !.size = size]
           b == [a EXCEPT !.needsAspectRefit = FALSE]
<1>1. /\ a \in World /\ Body(a) = Body(w) /\ a.active = w.active /\ a.followed = w.followed
      /\ a.hasFit = w.hasFit /\ a.fitted = w.fitted /\ a.size = size
      /\ a.needsAspectRefit = w.needsAspectRefit /\ a.scene = w.scene
      /\ a.positioned = w.positioned
  BY WorldAssumption DEF World, Body
<1>2. CASE ~w.scene
  BY <1>2 DEF Resize, Aimed
<1>3. CASE w.scene /\ ~(size.usable /\ w.needsAspectRefit /\ w.hasFit)
  <2>1. v = a
    BY <1>3 DEF Resize
  <2> HIDE DEF a
  <2> QED BY <1>1, <1>3, <2>1 DEF Camera, Aimed
<1>4. CASE w.scene /\ size.usable /\ w.needsAspectRefit /\ w.hasFit
  <2>1. v = ApplyFraming(b, FALSE)
    BY <1>4 DEF Resize
  <2> HIDE DEF a
  <2>2. /\ b \in World /\ Body(b) = Body(a) /\ b.fitted = a.fitted /\ b.size = a.size
        /\ b.needsAspectRefit = FALSE
    BY <1>1 DEF World, Body
  <2> HIDE DEF b
  <2>3. /\ v \in World /\ Body(v) = Body(b) /\ v.active = FALSE /\ v.followed = None
        /\ v.hasFit = TRUE /\ v.fitted = b.fitted /\ v.size = b.size
        /\ v.needsAspectRefit => b.size.degenerate
    BY <2>1, <2>2, Framed
  <2>4. v.scene = w.scene /\ v.fitted
    BY <1>1, <1>4, <2>2, <2>3 DEF Body, Camera
  <2> QED BY <1>1, <1>4, <2>2, <2>3, <2>4 DEF Camera, Aimed
<1> QED BY <1>2, <1>3, <1>4

\* Letting go, and what a frame does to the camera besides moving it.
Settled(w) == [w EXCEPT !.active = FALSE]

\* Letting go of the camera moves nothing and starts nothing.
LEMMA LetGo ==
  ASSUME NEW w \in World, Camera(w), NEW v, v = CancelFollow(w) \/ v = Settled(w)
  PROVE  /\ Aimed(w, v) /\ v.view = w.view /\ (v.active => w.active)
         /\ v.followed \in {w.followed, None}
<1>1. CASE v = CancelFollow(w)
  <2>1. /\ v \in World /\ Body(v) = Body(w) /\ v.view = w.view /\ v.active = w.active
        /\ v.followed = None /\ v.hasFit = w.hasFit /\ v.fitted = w.fitted /\ v.size = w.size
        /\ v.needsAspectRefit = w.needsAspectRefit /\ v.scene = w.scene
        /\ v.positioned = w.positioned
    BY <1>1 DEF CancelFollow, World, Body, MaybeRobot
  <2> QED BY <2>1 DEF Camera, Aimed
<1>2. CASE v = Settled(w)
  <2>1. /\ v \in World /\ Body(v) = Body(w) /\ v.view = w.view /\ v.active = FALSE
        /\ v.followed = w.followed /\ v.hasFit = w.hasFit /\ v.fitted = w.fitted
        /\ v.size = w.size /\ v.needsAspectRefit = w.needsAspectRefit /\ v.scene = w.scene
        /\ v.positioned = w.positioned
    BY <1>2 DEF Settled, World, Body
  <2> QED BY <2>1 DEF Camera, Aimed
<1> QED BY <1>1, <1>2

\* onControlsStart: nobody else drives the camera.
LEMMA ControlsTaken ==
  ASSUME NEW w \in World, Camera(w), NEW v, v = ControlsStart(w)
  PROVE  Aimed(w, v)
<1> DEFINE a == [w EXCEPT !.active = FALSE, !.view = "user"]
<1>1. v = CancelFollow(a)
  BY DEF ControlsStart
<1>2. /\ a \in World /\ Body(a) = Body(w) /\ a.active = FALSE /\ a.followed = w.followed
      /\ a.hasFit = w.hasFit /\ a.fitted = w.fitted /\ a.size = w.size
      /\ a.needsAspectRefit = w.needsAspectRefit /\ a.scene = w.scene
      /\ a.positioned = w.positioned
  BY DEF World, Body
<1> HIDE DEF a
<1>3. Camera(a)
  BY <1>2 DEF Camera
<1>4. Aimed(a, v)
  BY <1>1, <1>2, <1>3, LetGo
<1> QED BY <1>2, <1>4 DEF Aimed

-----------------------------------------------------------------------------
(* Steps that leave the fleet of the scene as it is *)

Quiet(w, v) ==
  /\ v \in World /\ Looks(v) /\ Camera(v)
  /\ v.scene = w.scene /\ v.pending = w.pending /\ v.selectedId = w.selectedId
  /\ ObjectsKept(v, fleet, now) /\ NoneBack(w, v)
  /\ Shows(w, fleet) => Shows(v, fleet)

\* Objects that keep their poses do not go back.
LEMMA StaysWhere ==
  ASSUME NEW w \in World, NEW v, SameMotion(w, v)
  PROVE  NoneBack(w, v)
<1>1. \A r \in DOMAIN w.objects : w.objects[r].pose.at \in Int
  BY ObjectsTyped DEF Object, Pose
<1> QED BY <1>1 DEF NoneBack, SameMotion

\* A step of the camera is about nothing else.
LEMMA AimIsQuiet ==
  ASSUME IInv, NEW v, Aimed(world, v)
  PROVE  Quiet(world, v)
<1>1. world \in World /\ v \in World /\ Body(v) = Body(world) /\ Camera(v)
  BY DEF IInv, TypeInv, Aimed
<1>2. SameMotion(world, v)
  BY <1>1 DEF Body, SameMotion
<1> QED BY <1>1, <1>2, StaysWhere, BodySays DEF Quiet, IInv

\* What a click in the page or on a robot may do to the host.
HostMoves ==
  /\ drawer' \in BOOLEAN
  /\ \/ UNCHANGED <<chosen, dirty>>
     \/ \E r \in Robots : Listed(r) /\ chosen' = r /\ dirty' = dirty \cup {"selection"}

\* selectRobot selects a robot that the fleet lists, or does nothing.
LEMMA SelectMoves ==
  ASSUME NEW r \in Robots, SelectRobot(r), drawer' \in BOOLEAN
  PROVE  HostMoves
BY DEF SelectRobot, HostMoves

\* Such steps keep the invariant, whatever becomes of the selection.
LEMMA QuietKeeps ==
  ASSUME IInv, Quiet(world, world'), HostMoves, UNCHANGED <<now, fleet, stage>>
  PROVE  IInv' /\ NoneBack(world, world')
<1>1. TypeInv'
  BY DEF IInv, TypeInv, HostMoves, Quiet, MaybeRobot, Effects
<1>2. HostInv'
  <2>1. (chosen # None => Listed(chosen))'
    BY DEF IInv, HostInv, HostMoves, Listed
  <2>2. (stage = "booted" <=> world.scene)' /\ Past(fleet, now)'
    BY DEF IInv, HostInv, Quiet
  <2>3. (world.pending = None \/ Precedes(world.pending, fleet))'
    BY DEF IInv, HostInv, Quiet
  <2>4. (world.scene /\ "fleet" \notin dirty => Shows(world, fleet))'
    BY DEF IInv, HostInv, Quiet, HostMoves
  <2>5. (world.scene /\ "selection" \notin dirty => world.selectedId = chosen)'
    BY DEF IInv, HostInv, Quiet, HostMoves
  <2> QED BY <2>1, <2>2, <2>3, <2>4, <2>5 DEF HostInv
<1>3. ObjectsKept(world, fleet, now)'
  BY DEF Quiet
<1> QED BY <1>1, <1>2, <1>3 DEF IInv, Quiet

\* Any world is as quiet as itself.
LEMMA StillIsQuiet ==
  ASSUME IInv
  PROVE  Quiet(world, world)
<1>1. Aimed(world, world)
  BY DEF IInv, TypeInv, Aimed
<1> QED BY <1>1, AimIsQuiet

\* setHoveredRobotId, for a robot the pointer can meet.
LEMMA HoverIsQuiet ==
  ASSUME IInv, NEW id \in world.drawn \cup {None}, NEW v, v = SetHoveredRobotId(world, id)
  PROVE  Quiet(world, v)
<1>1. world \in World /\ Looks(world) /\ Flags(world) /\ Camera(world) /\ now \in Nat /\ fleet \in Fleets
  BY DEF IInv, TypeInv, Looks
<1>2. id \in MaybeRobot /\ id \in DOMAIN world.objects \cup {None}
  BY <1>1, ObjectsTyped DEF Flags, MaybeRobot
<1>3. /\ v \in World /\ Eye(v) = Eye(world) /\ SameMotion(world, v) /\ Looks(v)
      /\ v.selectedId = world.selectedId /\ v.pending = world.pending
  BY <1>1, <1>2, HoverMoves
<1>4. Camera(v) /\ v.scene = world.scene
  <2> HIDE DEF Eye
  <2> QED BY <1>1, <1>3, EyeSays
<1>5. ObjectsKept(v, fleet, now) /\ (Shows(world, fleet) => Shows(v, fleet))
  BY <1>1, <1>3, SameMotionKeeps DEF IInv
<1>6. NoneBack(world, v)
  BY <1>1, <1>3, StaysWhere
<1> QED BY <1>3, <1>4, <1>5, <1>6 DEF Quiet

\* loop
LEMMA FrameIsQuiet ==
  ASSUME IInv, Frame
  PROVE  /\ Quiet(world, world') /\ world'.view = world.view
         /\ world'.active => world.active
         /\ world'.followed \in {world.followed, None}
<1> DEFINE o == [r \in DOMAIN world.objects |-> TickObject(world.objects[r])]
           w == WithObjects(world, o)
<1>1. /\ world \in World /\ Looks(world) /\ Camera(world) /\ ObjectsKept(world, fleet, now)
      /\ now \in Nat /\ fleet \in Fleets /\ DOMAIN world.objects \subseteq Robots
  BY ObjectsTyped DEF IInv, TypeInv
<1>2. /\ w.followed # None => world' = FollowTick(w)
      /\ w.followed = None => world' \in ControllerTick(w)
  BY DEF Frame, WithObjects
<1>3. ASSUME NEW r \in DOMAIN world.objects
      PROVE  /\ o[r] \in Object /\ o[r].selected = world.objects[r].selected
             /\ o[r].hovered = world.objects[r].hovered
             /\ o[r].motion = world.objects[r].motion /\ Kept(o[r], fleet[r].at, now)
             /\ o[r].pose.at >= world.objects[r].pose.at
  <2>1. o[r] = TickObject(world.objects[r])
    OBVIOUS
  <2>2. /\ world.objects[r] \in Object /\ Kept(world.objects[r], fleet[r].at, now)
        /\ fleet[r].at \in Nat
    BY <1>1, ObjectsTyped DEF ObjectsKept, Fleets, State
  <2> HIDE DEF o
  <2> QED BY <1>1, <2>1, <2>2, TickKept
<1>4. DOMAIN o = DOMAIN world.objects /\ o = [r \in DOMAIN world.objects |-> o[r]]
  OBVIOUS
<1> HIDE DEF o
<1>5. o \in Objects
  <2>1. o \in [DOMAIN world.objects -> Object]
    BY <1>3, <1>4
  <2> QED BY <1>1, <2>1, ObjectsMade
<1>6. /\ w \in World /\ w.objects = o /\ Eye(w) = Eye(world) /\ w.drawn = world.drawn
      /\ w.hovered = world.hovered /\ w.selectedId = world.selectedId
      /\ w.pending = world.pending
  BY <1>1, <1>5, WriteObjects
<1> HIDE DEF w
<1>7. /\ w.scene = world.scene /\ w.view = world.view /\ w.active = world.active
      /\ w.followed = world.followed /\ Camera(w)
  BY <1>1, <1>6, EyeSays
<1>8. Looks(w)
  <2>1. /\ w.drawn = DOMAIN w.objects /\ w.hovered \in DOMAIN w.objects \cup {None}
        /\ ~w.scene => DOMAIN w.objects = {}
    BY <1>1, <1>4, <1>6, <1>7 DEF Looks, Flags
  <2>2. ASSUME NEW r \in DOMAIN w.objects
        PROVE  /\ w.objects[r].hovered <=> r = w.hovered
               /\ w.objects[r].selected <=> r = w.selectedId
    <3>1. r \in DOMAIN world.objects
      BY <1>4, <1>6
    <3> QED BY <1>1, <1>3, <1>6, <3>1 DEF Looks, Flags
  <2> QED BY <2>1, <2>2 DEF Looks, Flags
<1>9. ObjectsKept(w, fleet, now) /\ NoneBack(world, w)
  BY <1>3, <1>4, <1>6 DEF ObjectsKept, NoneBack
<1>10. Shows(world, fleet) => Shows(w, fleet)
  BY <1>3, <1>4, <1>6 DEF Shows, Positioned
<1>11. /\ Aimed(w, world') /\ world'.view = w.view /\ (world'.active => w.active)
       /\ world'.followed \in {w.followed, None}
  <2>1. world' = w \/ world' = CancelFollow(w) \/ world' = Settled(w)
    BY <1>2 DEF FollowTick, ControllerTick, Settled
  <2>2. CASE world' = w
    BY <1>6, <1>7, <2>2 DEF Aimed
  <2>3. CASE world' = CancelFollow(w) \/ world' = Settled(w)
    BY <1>6, <1>7, <2>3, LetGo
  <2> QED BY <2>1, <2>2, <2>3
<1>12. /\ world' \in World /\ Looks(world') /\ Camera(world') /\ world'.objects = w.objects
       /\ world'.scene = w.scene /\ world'.pending = w.pending
       /\ world'.selectedId = w.selectedId
       /\ ObjectsKept(world', fleet, now)
       /\ Shows(w, fleet) => Shows(world', fleet)
  <2>1. world' \in World /\ Body(world') = Body(w) /\ Camera(world')
    BY <1>11 DEF Aimed
  <2> QED BY <1>6, <1>8, <1>9, <2>1, BodySays
<1>13. NoneBack(world, world')
  BY <1>9, <1>12 DEF NoneBack
<1>14. Quiet(world, world')
  BY <1>6, <1>7, <1>10, <1>12, <1>13 DEF Quiet
<1> QED BY <1>7, <1>11, <1>14

-----------------------------------------------------------------------------
(* Every step *)

\* Before the scene is built there is nothing to keep.
LEMMA InitIInv == Init => IInv
<1> SUFFICES ASSUME Init PROVE IInv
  OBVIOUS
<1> DEFINE s == [selectedId |-> None]
<1>1. world = Torn(s) /\ s.selectedId = None
  BY DEF Init
<1> HIDE DEF s
<1>2. /\ world \in World /\ ~world.scene /\ world.selectedId = None /\ world.pending = None
      /\ Looks(world) /\ Camera(world) /\ \A f, n : ObjectsKept(world, f, n)
  BY <1>1, TornDown DEF MaybeRobot
<1>3. /\ fleet \in Fleets /\ \A r \in Robots : fleet[r].at = 0
  BY DEF Init, Fleets, State
<1>4. TypeInv
  BY <1>2, <1>3 DEF Init, TypeInv, MaybeRobot, Effects
<1>5. HostInv
  BY <1>2, <1>3 DEF Init, HostInv, Past
<1> QED BY <1>2, <1>4, <1>5 DEF IInv

\* A fleet is not newer than itself.
LEMMA PrecedesSelf ==
  ASSUME NEW f \in Fleets
  PROVE  Precedes(f, f)
BY DEF Fleets, State, Precedes

\* Time passes: what a frame would show only moves on.
LEMMA TickKeeps == IInv /\ Tick => IInv' /\ NoneBack(world, world')
<1> SUFFICES ASSUME IInv, Tick PROVE IInv' /\ NoneBack(world, world')
  OBVIOUS
<1>1. /\ now \in Nat /\ now' = now + 1 /\ fleet \in Fleets /\ world \in World
      /\ fleet' = fleet /\ chosen' = chosen /\ drawer' = drawer /\ stage' = stage
      /\ dirty' = dirty /\ world' = world
  BY DEF IInv, TypeInv, Tick, host
<1>2. TypeInv'
  BY <1>1 DEF IInv, TypeInv
<1>3. \A r \in Robots : fleet[r].at \in Nat
  BY <1>1 DEF Fleets, State
<1>4. HostInv'
  BY <1>1, <1>3 DEF IInv, HostInv, Listed, Past
<1>5. ObjectsKept(world, fleet, now + 1)
  <2>1. ASSUME NEW r \in DOMAIN world.objects PROVE Kept(world.objects[r], fleet[r].at, now + 1)
    <3>1. world.objects[r] \in Object /\ fleet[r].at \in Nat /\ Kept(world.objects[r], fleet[r].at, now)
      BY <1>1, <1>3, ObjectsTyped DEF IInv, ObjectsKept
    <3> QED BY <1>1, <3>1, KeptLater
  <2> QED BY <2>1 DEF ObjectsKept
<1>6. NoneBack(world, world')
  BY <1>1, StillIsQuiet DEF Quiet
<1> QED BY <1>1, <1>2, <1>4, <1>5, <1>6 DEF IInv

\* FleetFacade's signal
LEMMA FleetChanges == IInv /\ ShowFleet => IInv' /\ NoneBack(world, world')
<1> SUFFICES ASSUME IInv, ShowFleet PROVE IInv' /\ NoneBack(world, world')
  OBVIOUS
<1>1. /\ now \in Nat /\ fleet \in Fleets /\ chosen \in MaybeRobot /\ dirty \subseteq Effects
      /\ world \in World /\ now' = now /\ drawer' = drawer /\ stage' = stage /\ world' = world
  BY DEF IInv, TypeInv, ShowFleet
<1>2. PICK r \in Robots : \E s \in NextState(r) :
        /\ fleet' = [fleet EXCEPT ![r] = s]
        /\ chosen' = IF s.status = "unlisted" /\ chosen = r THEN None ELSE chosen
        /\ dirty' = dirty \cup {"fleet"} \cup (IF chosen' = chosen THEN {} ELSE {"selection"})
  BY DEF ShowFleet
<1>3. PICK s \in NextState(r) :
        /\ fleet' = [fleet EXCEPT ![r] = s]
        /\ chosen' = IF s.status = "unlisted" /\ chosen = r THEN None ELSE chosen
        /\ dirty' = dirty \cup {"fleet"} \cup (IF chosen' = chosen THEN {} ELSE {"selection"})
  BY <1>2
<1>4. s \in State /\ fleet[r].at <= s.at /\ s.at <= now
  <2>1. fleet[r] \in State /\ fleet[r].at <= now
    BY <1>1 DEF Fleets, IInv, HostInv, Past
  <2> DEFINE since == IF fleet[r].status = "known" THEN fleet[r].at + 1 ELSE fleet[r].at
  <2>2. fleet[r].at \in Nat /\ since \in Nat /\ fleet[r].at <= since
    BY <2>1 DEF State
  <2>3. \/ s = [status |-> IF Listed(r) THEN "unlisted" ELSE "listed",
                 at |-> fleet[r].at, positioned |-> FALSE]
        \/ \E t \in {x \in Samples[r] : x <= now /\ x >= since}, p \in {TRUE, r \notin Unplaced} :
             s = [status |-> "known", at |-> t, positioned |-> p]
    BY <1>3 DEF NextState
  <2> HIDE DEF since
  <2>4. CASE s = [status |-> IF Listed(r) THEN "unlisted" ELSE "listed",
                  at |-> fleet[r].at, positioned |-> FALSE]
    BY <2>1, <2>2, <2>4 DEF State
  <2>5. ASSUME NEW t \in Samples[r], NEW p \in {TRUE, r \notin Unplaced}, t <= now, t >= since,
               s = [status |-> "known", at |-> t, positioned |-> p]
        PROVE  s \in State /\ fleet[r].at <= s.at /\ s.at <= now
    <3>1. t \in Nat /\ p \in BOOLEAN
      BY WorldAssumption
    <3>2. s \in State /\ s.at = t
      BY <2>5, <3>1 DEF State
    <3>3. fleet[r].at <= t
      BY <2>2, <2>5, <3>1
    <3> QED BY <2>5, <3>2, <3>3
  <2> QED BY <2>3, <2>4, <2>5
<1>5. /\ fleet' \in Fleets /\ fleet'[r] = s
      /\ \A q \in Robots : q # r => fleet'[q] = fleet[q]
  BY <1>1, <1>3, <1>4 DEF Fleets
<1>6. \A q \in Robots : /\ fleet[q].at \in Nat /\ fleet'[q].at \in Nat
                        /\ fleet[q].at <= fleet'[q].at /\ fleet'[q].at <= now
  <2>1. \A q \in Robots : fleet[q].at \in Nat /\ fleet'[q].at \in Nat /\ fleet[q].at <= now
    BY <1>1, <1>5 DEF Fleets, State, IInv, HostInv, Past
  <2> QED BY <1>4, <1>5, <2>1
<1>7. TypeInv'
  <2>1. chosen' \in MaybeRobot /\ dirty' \subseteq Effects
    BY <1>1, <1>3 DEF MaybeRobot, Effects
  <2> QED BY <1>1, <1>5, <2>1 DEF IInv, TypeInv
<1>8. HostInv'
  <2>1. (chosen # None => Listed(chosen))'
    BY <1>1, <1>3, <1>5 DEF IInv, HostInv, MaybeRobot, Listed
  <2>2. (stage = "booted" <=> world.scene)'
    BY <1>1 DEF IInv, HostInv
  <2>3. Past(fleet, now)'
    BY <1>1, <1>6 DEF Past
  <2>4. (world.pending = None \/ Precedes(world.pending, fleet))'
    <3>1. CASE world.pending = None
      BY <1>1, <3>1
    <3>2. CASE world.pending # None
      <4>1. world.pending \in Fleets /\ Precedes(world.pending, fleet)
        BY <1>1, <3>2 DEF IInv, HostInv, World
      <4>2. \A q \in Robots : world.pending[q].at \in Nat
        BY <4>1 DEF Fleets, State
      <4>3. Precedes(world.pending, fleet')
        BY <1>6, <4>1, <4>2 DEF Precedes
      <4> QED BY <1>1, <4>3
    <3> QED BY <3>1, <3>2
  <2>5. "fleet" \in dirty'
    BY <1>3
  <2>6. (world.scene /\ "selection" \notin dirty => world.selectedId = chosen)'
    BY <1>1, <1>3 DEF IInv, HostInv
  <2> QED BY <2>1, <2>2, <2>3, <2>4, <2>5, <2>6 DEF HostInv
<1>9. ObjectsKept(world, fleet', now)
  <2>1. ASSUME NEW q \in DOMAIN world.objects PROVE Kept(world.objects[q], fleet'[q].at, now)
    <3>1. q \in Robots /\ world.objects[q] \in Object /\ Kept(world.objects[q], fleet[q].at, now)
      BY <1>1, ObjectsTyped DEF IInv, ObjectsKept
    <3> QED BY <1>1, <1>6, <3>1, KeptLater
  <2> QED BY <2>1 DEF ObjectsKept
<1>10. NoneBack(world, world')
  BY <1>1, StillIsQuiet DEF Quiet
<1> QED BY <1>1, <1>7, <1>8, <1>9, <1>10 DEF IInv

\* The effects of the host.  Once there was a fit they leave the camera alone.
LEMMA EffectRuns ==
  ASSUME IInv, RunEffect
  PROVE  /\ IInv' /\ NoneBack(world, world')
         /\ world.hasFit => /\ world'.view = world.view
                            /\ world'.active = world.active
                            /\ world'.followed = world.followed
<1>1. /\ now \in Nat /\ fleet \in Fleets /\ chosen \in MaybeRobot /\ dirty \subseteq Effects
      /\ world \in World /\ Looks(world) /\ Camera(world) /\ ObjectsKept(world, fleet, now)
      /\ Past(fleet, now) /\ Precedes(fleet, fleet)
  BY PrecedesSelf DEF IInv, TypeInv, HostInv
<1>2. /\ now' = now /\ fleet' = fleet /\ chosen' = chosen /\ drawer' = drawer /\ stage' = stage
  BY DEF RunEffect
<1>3. PICK e \in dirty :
        /\ dirty' = dirty \ {e}
        /\ world' = IF e = "fleet" THEN SyncFleet(world, fleet)
                    ELSE SetSelectedRobot(world, chosen)
  BY DEF RunEffect
<1>4. e \in Effects /\ dirty' \subseteq Effects
  BY <1>1, <1>3
<1>5. CASE e = "fleet" /\ world.scene
  <2>1. world' = SyncFleet(world, fleet)
    BY <1>3, <1>5
  <2>2. /\ world' \in World /\ world'.scene /\ world'.selectedId = world.selectedId
        /\ world'.pending = None /\ Looks(world') /\ Camera(world')
        /\ ObjectsKept(world', fleet, now) /\ Shows(world', fleet) /\ NoneBack(world, world')
        /\ world.hasFit => /\ world'.view = world.view /\ world'.active = world.active
                           /\ world'.followed = world.followed
    BY <1>1, <1>5, <2>1, FleetSynced
  <2>3. TypeInv'
    BY <1>1, <1>2, <1>4, <2>2 DEF IInv, TypeInv
  <2>4. HostInv'
    BY <1>1, <1>2, <1>3, <1>5, <2>2 DEF IInv, HostInv, Listed
  <2> QED BY <1>2, <2>2, <2>3, <2>4 DEF IInv
<1>6. CASE e = "fleet" /\ ~world.scene
  <2>1. world' = [world EXCEPT !.pending = fleet]
    BY <1>3, <1>6 DEF SyncFleet
  <2>2. /\ world' \in World /\ world'.pending = fleet /\ Eye(world') = Eye(world)
        /\ world'.objects = world.objects /\ world'.selectedId = world.selectedId
        /\ Looks(world')
    BY <1>1, <2>1, WritePending
  <2>3. /\ world'.scene = world.scene /\ world'.view = world.view
        /\ world'.active = world.active /\ world'.followed = world.followed
        /\ Camera(world')
    BY <1>1, <2>2, EyeSays
  <2>4. TypeInv'
    BY <1>1, <1>2, <1>4, <2>2 DEF IInv, TypeInv
  <2>5. HostInv'
    BY <1>1, <1>2, <1>6, <2>2, <2>3 DEF IInv, HostInv, Listed
  <2>6. ObjectsKept(world', fleet, now)
    BY <1>1, <2>2 DEF ObjectsKept
  <2>7. NoneBack(world, world')
    BY <1>1, <2>2, StillIsQuiet DEF Quiet, NoneBack
  <2> QED BY <1>2, <2>2, <2>3, <2>4, <2>5, <2>6, <2>7 DEF IInv
<1>7. CASE e = "selection"
  <2>1. world' = SetSelectedRobot(world, chosen)
    BY <1>3, <1>7
  <2>2. /\ world' \in World /\ Eye(world') = Eye(world) /\ SameMotion(world, world')
        /\ Looks(world') /\ world'.selectedId = chosen /\ world'.pending = world.pending
    BY <1>1, <2>1, SelectionMoves
  <2>3. /\ world'.scene = world.scene /\ world'.view = world.view
        /\ world'.active = world.active /\ world'.followed = world.followed
        /\ Camera(world')
    BY <1>1, <2>2, EyeSays
  <2>4. ObjectsKept(world', fleet, now) /\ (Shows(world, fleet) => Shows(world', fleet))
    BY <1>1, <2>2, SameMotionKeeps
  <2>5. NoneBack(world, world')
    BY <1>1, <2>2, StaysWhere
  <2>6. TypeInv'
    BY <1>1, <1>2, <1>4, <2>2 DEF IInv, TypeInv
  <2>7. HostInv'
    BY <1>1, <1>2, <1>3, <1>7, <2>2, <2>3, <2>4 DEF IInv, HostInv, Listed
  <2> QED BY <1>2, <2>2, <2>3, <2>4, <2>5, <2>6, <2>7 DEF IInv
<1> QED BY <1>4, <1>5, <1>6, <1>7 DEF Effects

\* boot
LEMMA BootKeeps == IInv /\ Boot => IInv' /\ NoneBack(world, world')
<1> SUFFICES ASSUME IInv, Boot PROVE IInv' /\ NoneBack(world, world')
  OBVIOUS
<1>1. /\ now \in Nat /\ fleet \in Fleets /\ chosen \in MaybeRobot
      /\ world \in World /\ Looks(world) /\ Camera(world)
      /\ Past(fleet, now) /\ Precedes(fleet, fleet)
      /\ world.pending = None \/ Precedes(world.pending, fleet)
  BY PrecedesSelf DEF IInv, TypeInv, HostInv
<1>2. /\ now' = now /\ fleet' = fleet /\ chosen' = chosen /\ drawer' = drawer /\ dirty' = dirty
      /\ stage = "created" /\ stage' = "booted"
  BY DEF Boot
<1>3. PICK size \in Sizes :
        world' = SetSelectedRobot(SyncFleet(Initialize(world, size), fleet), chosen)
  BY DEF Boot
<1> DEFINE a == Initialize(world, size)
           b == SyncFleet(a, fleet)
<1>4. a \in World /\ a.scene /\ Looks(a) /\ Camera(a) /\ ObjectsKept(a, fleet, now)
  BY <1>1, Initialized
<1>5. world' = SetSelectedRobot(b, chosen)
  BY <1>3
<1> HIDE DEF a
<1>6. /\ b \in World /\ b.scene /\ b.pending = None /\ Looks(b) /\ Camera(b)
      /\ ObjectsKept(b, fleet, now) /\ Shows(b, fleet)
  BY <1>1, <1>4, FleetSynced
<1> HIDE DEF b
<1>7. /\ world' \in World /\ Eye(world') = Eye(b) /\ SameMotion(b, world')
      /\ Looks(world') /\ world'.selectedId = chosen /\ world'.pending = b.pending
  BY <1>1, <1>5, <1>6, SelectionMoves
<1>8. world'.scene = b.scene /\ Camera(world')
  BY <1>6, <1>7, EyeSays
<1>9. ObjectsKept(world', fleet, now) /\ Shows(world', fleet)
  BY <1>1, <1>6, <1>7, SameMotionKeeps
<1>10. NoneBack(world, world')
  <2>1. DOMAIN world.objects = {}
    BY <1>1, <1>2 DEF IInv, HostInv, Looks, Flags
  <2> QED BY <2>1 DEF NoneBack
<1>11. TypeInv'
  BY <1>1, <1>2, <1>7 DEF IInv, TypeInv
<1>12. HostInv'
  BY <1>1, <1>2, <1>6, <1>7, <1>8, <1>9 DEF IInv, HostInv, Listed
<1> QED BY <1>2, <1>7, <1>8, <1>9, <1>10, <1>11, <1>12 DEF IInv

\* ngOnDestroy
LEMMA DestroyKeeps == IInv /\ Destroy => IInv' /\ NoneBack(world, world')
<1> SUFFICES ASSUME IInv, Destroy PROVE IInv' /\ NoneBack(world, world')
  OBVIOUS
<1>1. /\ now' = now /\ fleet' = fleet /\ chosen' = chosen /\ drawer' = drawer /\ dirty' = {}
      /\ stage' = "destroyed" /\ world' = Torn(world)
  BY DEF Destroy
<1>2. world.selectedId \in MaybeRobot
  BY DEF IInv, TypeInv, World
<1>3. /\ world' \in World /\ ~world'.scene /\ DOMAIN world'.objects = {}
      /\ world'.pending = None /\ Looks(world') /\ Camera(world')
      /\ \A f, n : ObjectsKept(world', f, n)
  BY <1>1, <1>2, TornDown
<1>4. NoneBack(world, world')
  BY <1>3 DEF NoneBack
<1>5. TypeInv'
  BY <1>1, <1>3 DEF IInv, TypeInv
<1>6. HostInv'
  BY <1>1, <1>3 DEF IInv, HostInv, Listed
<1> QED BY <1>1, <1>3, <1>4, <1>5, <1>6 DEF IInv

\* A click on a robot, of the canvas or of its label.
LEMMA ClickKeeps ==
  ASSUME IInv, NEW r \in world.drawn, HandleWorldRobotClick(r)
  PROVE  IInv' /\ NoneBack(world, world')
<1>1. world \in World /\ Camera(world) /\ r \in Robots /\ drawer \in BOOLEAN
  BY DEF IInv, TypeInv, World
<1>2. UNCHANGED <<now, fleet, stage>>
  BY DEF HandleWorldRobotClick
<1>3. CASE r = chosen
  <2>1. UNCHANGED <<chosen, dirty, world>> /\ drawer' \in BOOLEAN
    BY <1>3 DEF HandleWorldRobotClick, ToggleAsset, Close, OpenAsset
  <2>2. HostMoves
    BY <2>1 DEF HostMoves
  <2> QED BY <1>2, <2>1, <2>2, StillIsQuiet, QuietKeeps
<1>4. CASE r # chosen
  <2>1. SelectRobot(r) /\ drawer' \in BOOLEAN /\ world' = FocusRobot(world, r)
    BY <1>4 DEF HandleWorldRobotClick, Close
  <2>2. HostMoves
    BY <1>1, <2>1, SelectMoves
  <2>3. Quiet(world, world')
    BY <1>1, <2>1, RobotFocused, AimIsQuiet
  <2> QED BY <1>2, <2>2, <2>3, QuietKeeps
<1> QED BY <1>3, <1>4

\* The pointer, on the canvas or on a label.
LEMMA PointKeeps ==
  ASSUME IInv, NEW id \in world.drawn \cup {None}, PointTo(id)
  PROVE  IInv' /\ NoneBack(world, world')
<1>1. Quiet(world, world') /\ UNCHANGED <<now, fleet, stage>> /\ HostMoves
  BY HoverIsQuiet DEF PointTo, host, HostMoves, IInv, TypeInv
<1> QED BY <1>1, QuietKeeps

\* Steps of the camera alone.
LEMMA AimKeeps ==
  ASSUME IInv, Aimed(world, world'), UNCHANGED <<now, fleet, host>>
  PROVE  IInv' /\ NoneBack(world, world')
<1>1. Quiet(world, world') /\ UNCHANGED <<now, fleet, stage>> /\ HostMoves
  BY AimIsQuiet DEF host, HostMoves, IInv, TypeInv
<1> QED BY <1>1, QuietKeeps

\* Steps of the host that the world does not notice.
LEMMA HostKeeps ==
  ASSUME IInv, HostMoves, UNCHANGED <<now, fleet, stage, world>>
  PROVE  IInv' /\ NoneBack(world, world')
<1>1. Quiet(world, world') /\ UNCHANGED <<now, fleet, stage>>
  BY StillIsQuiet
<1> QED BY <1>1, QuietKeeps

\* Every step keeps the invariant and moves no robot back.
LEMMA NextIInv == IInv /\ [Next]_vars => IInv' /\ NoneBack(world, world')
<1> SUFFICES ASSUME IInv, [Next]_vars PROVE IInv' /\ NoneBack(world, world')
  OBVIOUS
<1> DEFINE Goal == IInv' /\ NoneBack(world, world')
<1>0. world \in World /\ Camera(world) /\ drawer \in BOOLEAN
  BY DEF IInv, TypeInv
<1>1. CASE UNCHANGED vars
  BY <1>0, <1>1, HostKeeps DEF vars, host, HostMoves
<1>2. CASE SelectElsewhere
  <2>1. PICK r \in Robots : SelectRobot(r)
    BY <1>2 DEF SelectElsewhere
  <2>2. drawer' \in BOOLEAN /\ UNCHANGED <<now, fleet, stage, world>>
    BY <1>0, <1>2 DEF SelectElsewhere
  <2> QED BY <2>1, <2>2, SelectMoves, HostKeeps
<1>3. CASE OnAlertClick
  <2>1. PICK r \in Robots : SelectRobot(r)
    BY <1>3 DEF OnAlertClick
  <2>2. drawer' \in BOOLEAN /\ UNCHANGED <<now, fleet, stage, world>>
    BY <1>3 DEF OnAlertClick, OpenAlert
  <2> QED BY <2>1, <2>2, SelectMoves, HostKeeps
<1>4. CASE CloseInspection
  BY <1>4, HostKeeps DEF CloseInspection, Close, HostMoves
<1>5. CASE OnFitFleet
  <2>1. Aimed(world, world') /\ UNCHANGED <<now, fleet, host>>
    BY <1>0, <1>5, FleetFitted DEF OnFitFleet
  <2> QED BY <2>1, AimKeeps
<1>6. CASE OnFocusSelected
  <2>1. UNCHANGED <<now, fleet, host>>
    BY <1>6 DEF OnFocusSelected
  <2>2. world' = world \/ world' = FocusRobot(world, chosen)
    BY <1>6 DEF OnFocusSelected, FocusSelectedRobot
  <2>3. Aimed(world, world')
    BY <1>0, <2>2, RobotFocused DEF Aimed
  <2> QED BY <2>1, <2>3, AimKeeps
<1>7. CASE Frame
  <2>1. Quiet(world, world') /\ UNCHANGED <<now, fleet, stage>> /\ HostMoves
    BY <1>0, <1>7, FrameIsQuiet DEF Frame, host, HostMoves
  <2> QED BY <2>1, QuietKeeps
<1>8. CASE OnControlsStart
  <2>1. Aimed(world, world') /\ UNCHANGED <<now, fleet, host>>
    BY <1>0, <1>8, ControlsTaken DEF OnControlsStart
  <2> QED BY <2>1, AimKeeps
<1>9. CASE OnResize
  <2>1. PICK size \in Sizes : world' = Resize(world, size)
    BY <1>9 DEF OnResize
  <2>2. Aimed(world, world') /\ UNCHANGED <<now, fleet, host>>
    BY <1>0, <1>9, <2>1, Resized DEF OnResize
  <2> QED BY <2>2, AimKeeps
<1>10. CASE PointerMoves
  <2>1. PICK id \in world.drawn \cup {None} : PointTo(id)
    BY <1>10 DEF PointerMoves, PickRobotId
  <2> QED BY <2>1, PointKeeps
<1>11. CASE ClickCanvas
  <2>1. PICK r \in world.drawn : HandleWorldRobotClick(r)
    BY <1>11 DEF ClickCanvas, PickRobotId
  <2> QED BY <2>1, ClickKeeps
<1>12. ASSUME NEW id \in Labels, EnterLabel(id) \/ LeaveLabel(id) \/ ClickLabel(id) PROVE Goal
  <2>1. id \in world.drawn
    BY DEF Labels
  <2>2. CASE EnterLabel(id)
    BY <2>1, <2>2, PointKeeps DEF EnterLabel
  <2>3. CASE LeaveLabel(id)
    BY <2>3, PointKeeps DEF LeaveLabel
  <2>4. CASE ClickLabel(id)
    BY <2>1, <2>4, ClickKeeps DEF ClickLabel
  <2> QED BY <1>12, <2>2, <2>3, <2>4
<1> QED
  BY <1>1, <1>2, <1>3, <1>4, <1>5, <1>6, <1>7, <1>8, <1>9, <1>10, <1>11, <1>12,
     TickKeeps, FleetChanges, EffectRuns, BootKeeps, DestroyKeeps DEF Next

\* The inductive invariant
THEOREM Inductive == Spec => []IInv
BY InitIInv, NextIInv, PTL DEF Spec

-----------------------------------------------------------------------------
(* What it implies *)

\* syncFleet and its kin: what the scene shows is the fleet, once the effects ran.
THEOREM SceneIsTheHosts == Spec => []SceneMatchesHost
<1>1. IInv => SceneMatchesHost
  <2> SUFFICES ASSUME IInv PROVE SceneMatchesHost
    OBVIOUS
  <2>1. /\ chosen # None => Listed(chosen)
        /\ Looks(world)
    BY DEF IInv, HostInv
  <2>2. ASSUME world.scene, dirty = {}
        PROVE  Shows(world, fleet) /\ world.selectedId = chosen
    BY <2>2 DEF IInv, HostInv
  <2> QED BY <2>1, <2>2 DEF SceneMatchesHost, Looks, Flags, Shows
<1> QED BY <1>1, Inductive, PTL

\* Prune: a buffer of regular samples shows what all samples together would.
THEOREM PosesAreKept == Spec => []PairKept
<1>1. IInv => PairKept
  <2> SUFFICES ASSUME IInv, NEW r \in DOMAIN world.objects,
                      world.objects[r].seen # {}, Regular(world.objects[r].seen)
               PROVE  PoseAt(world.objects[r].motion, now - Delay)
                        = PoseAt(world.objects[r].seen, now - Delay)
    BY DEF PairKept
  <2> DEFINE o == world.objects[r]
             m == now - Delay
  <2>1. /\ o \in Object /\ Kept(o, fleet[r].at, now) /\ m \in Int
        /\ o.seen # {} /\ Regular(o.seen)
    BY ObjectsTyped, WorldAssumption DEF IInv, TypeInv, ObjectsKept
  <2> SUFFICES PoseAt(o.motion, m) = PoseAt(o.seen, m)
    OBVIOUS
  <2> HIDE DEF o, m
  <2>2. /\ Buffer(o.seen) /\ Suffix(o.motion, o.seen)
    BY <2>1 DEF Kept, Buffer, Object
  <2>3. Reaches(o.motion, o.seen, m)
    BY <2>1 DEF Kept, m
  <2>4. ASSUME NEW q \in o.motion, q <= m PROVE PoseAt(o.motion, m) = PoseAt(o.seen, m)
    <3>1. o.motion \subseteq o.seen /\ \A x \in o.seen : q <= x => x \in o.motion
      BY <2>2 DEF Suffix
    <3> QED BY <2>1, <2>2, <2>4, <3>1, SamePose
  <2> QED BY <2>3, <2>4 DEF Reaches
<1> QED BY <1>1, Inductive, PTL

\* applyRobot and tick: no robot on the screen moves back along its path.
THEOREM NeverBack == Spec => RenderedNeverGoesBack
<1> DEFINE Forward ==
      \A r \in DOMAIN world.objects \cap DOMAIN world'.objects :
        world'.objects[r].pose.at >= world.objects[r].pose.at
<1>1. IInv /\ [Next]_vars => [Forward]_vars
  BY NextIInv DEF NoneBack
<1> QED BY <1>1, Inductive, PTL DEF Spec, RenderedNeverGoesBack

\* The camera has one master, and the program by itself takes it from nobody.
THEOREM CameraStaysTheUsers == Spec => CameraIsTheUsers
<1> DEFINE One ==
      /\ ~(world.active /\ world.followed # None)
      /\ ~world.scene => ~world.active /\ world.followed = None
      /\ world.needsAspectRefit => world.size.degenerate \/ ~world.size.usable
    Left ==
      (RunEffect \/ Frame) /\ world.hasFit /\ world'.scene =>
        /\ world'.view = world.view
        /\ world'.active => world.active
        /\ world'.followed \in {world.followed, None}
<1>1. IInv => One
  BY DEF IInv, Camera
<1>2. IInv => Left
  BY EffectRuns, FrameIsQuiet
<1>3. IInv => [Left]_vars
  BY <1>2
<1> QED BY <1>1, <1>3, Inductive, PTL DEF CameraIsTheUsers

=============================================================================
