----------------------------- MODULE ReadSideProofs -----------------------------
(***************************************************************************)
(* Invariance proofs for ReadSide, for any rows, queries and retention: a  *)
(* walk through a list that goes by the key of the last row lists every    *)
(* matching row that stays, once and in order, whatever is added and       *)
(* deleted between its pages.                                              *)
(***************************************************************************)
EXTENDS ReadSide, FiniteSetTheorems, WellFoundedInduction, TLAPS

-----------------------------------------------------------------------------
(* The order of a list *)

\* orderBy ends with the primary key, so it leaves no two rows undecided.
LEMMA OrderIsTotal ==
  ASSUME NEW q \in Queries, NEW x \in Rows, NEW y \in Rows, x.list = q.list, y.list = q.list
  PROVE  /\ ~Before(q, x, x)
         /\ ~(Before(q, x, y) /\ Before(q, y, x))
         /\ x = y \/ Before(q, x, y) \/ Before(q, y, x)
<1>1. /\ q.list \in {"robots", "alerts", "telemetry"} /\ q.order \in {"asc", "desc"}
      /\ x.id \in Int /\ x.at \in Int /\ y.id \in Int /\ y.at \in Int
  BY ReadSideAssumption DEF Query, Row
<1>2. x.id = y.id => x = y
  BY KeyAssumption
<1>3. /\ ~Precedes(x, x) /\ ~(Precedes(x, y) /\ Precedes(y, x))
      /\ x = y \/ Precedes(x, y) \/ Precedes(y, x)
  BY <1>1, <1>2 DEF Precedes
<1> QED BY <1>1, <1>2, <1>3 DEF Before

\* And it is one order.
LEMMA OrderIsTransitive ==
  ASSUME NEW q \in Queries, NEW x \in Rows, NEW y \in Rows, NEW z \in Rows,
         Before(q, x, y), Before(q, y, z)
  PROVE  Before(q, x, z)
<1>1. /\ q.list \in {"robots", "alerts", "telemetry"} /\ q.order \in {"asc", "desc"}
      /\ x.id \in Int /\ x.at \in Int /\ y.id \in Int /\ y.at \in Int
      /\ z.id \in Int /\ z.at \in Int
  BY ReadSideAssumption DEF Query, Row
<1>2. /\ Precedes(x, y) /\ Precedes(y, z) => Precedes(x, z)
      /\ Precedes(z, y) /\ Precedes(y, x) => Precedes(z, x)
  BY <1>1 DEF Precedes
<1> QED BY <1>1, <1>2 DEF Before

\* Some rows of the list of q.
OfList(q, S) == S \subseteq Rows /\ \A x \in S : x.list = q.list

\* Of some finite sets one has no other inside it.
LEMMA SmallestSet ==
  ASSUME NEW F, F # {}, \A D \in F : IsFiniteSet(D)
  PROVE  \E D \in F : \A E \in F : ~ (E \subseteq D /\ E # D)
<1> DEFINE U == UNION F
<1>1. F \subseteq FiniteSubsetsOf(U)
  BY DEF FiniteSubsetsOf
<1>2. \A D \in F : D \in SUBSET U
  OBVIOUS
<1> HIDE DEF U
<1>3. PICK D \in F : \A E \in F : ~ (<<E, D>> \in StrictSubsetOrdering(U))
  BY <1>1, FS_StrictSubsetOrderingWellFounded, WFMin
<1> QED BY <1>2, <1>3 DEF StrictSubsetOrdering

\* A list that is not empty has a first row.
LEMMA FirstRow ==
  ASSUME NEW q \in Queries, NEW S, OfList(q, S), S # {}
  PROVE  \E x \in S : \A y \in S : y = x \/ Before(q, x, y)
<1> DEFINE Ahead(x) == {y \in S : Before(q, y, x)}
           F == {Ahead(x) : x \in S}
<1>1. IsFiniteSet(S)
  BY ReadSideAssumption, FS_Subset DEF OfList
<1>2. \A D \in F : IsFiniteSet(D)
  <2>1. ASSUME NEW D \in F PROVE D \subseteq S
    OBVIOUS
  <2> HIDE DEF F
  <2> QED BY <1>1, <2>1, FS_Subset
<1>3. F # {}
  OBVIOUS
<1>4. PICK D \in F : \A E \in F : ~ (E \subseteq D /\ E # D)
  <2> HIDE DEF F
  <2> QED BY <1>2, <1>3, SmallestSet
<1>5. PICK x \in S : D = Ahead(x)
  OBVIOUS
<1>6. ASSUME NEW y \in S, Before(q, y, x) PROVE FALSE
  <2>1. \A z \in Ahead(y) : z \in Ahead(x)
    BY <1>6, OrderIsTransitive DEF OfList
  <2>2. y \in Ahead(x) /\ y \notin Ahead(y)
    BY <1>6, OrderIsTotal DEF OfList
  <2>3. Ahead(y) \in F
    OBVIOUS
  <2> HIDE DEF Ahead, F
  <2> QED BY <1>4, <1>5, <2>1, <2>2, <2>3
<1>7. ASSUME NEW y \in S PROVE y = x \/ Before(q, x, y)
  BY <1>6, OrderIsTotal DEF OfList
<1> QED BY <1>7

\* It has a last row, the one whose key becomes the cursor.
LEMMA LastRow ==
  ASSUME NEW q \in Queries, NEW S, OfList(q, S), S # {}
  PROVE  /\ Last(q, S) \in S
         /\ \A y \in S : y = Last(q, S) \/ Before(q, y, Last(q, S))
<1> DEFINE Behind(x) == {y \in S : Before(q, x, y)}
           F == {Behind(x) : x \in S}
<1>1. IsFiniteSet(S)
  BY ReadSideAssumption, FS_Subset DEF OfList
<1>2. \A D \in F : IsFiniteSet(D)
  <2>1. ASSUME NEW D \in F PROVE D \subseteq S
    OBVIOUS
  <2> HIDE DEF F
  <2> QED BY <1>1, <2>1, FS_Subset
<1>3. F # {}
  OBVIOUS
<1>4. PICK D \in F : \A E \in F : ~ (E \subseteq D /\ E # D)
  <2> HIDE DEF F
  <2> QED BY <1>2, <1>3, SmallestSet
<1>5. PICK x \in S : D = Behind(x)
  OBVIOUS
<1>6. ASSUME NEW y \in S, Before(q, x, y) PROVE FALSE
  <2>1. \A z \in Behind(y) : z \in Behind(x)
    BY <1>6, OrderIsTransitive DEF OfList
  <2>2. y \in Behind(x) /\ y \notin Behind(y)
    BY <1>6, OrderIsTotal DEF OfList
  <2>3. Behind(y) \in F
    OBVIOUS
  <2> HIDE DEF Behind, F
  <2> QED BY <1>4, <1>5, <2>1, <2>2, <2>3
<1>7. ASSUME NEW y \in S PROVE y = x \/ Before(q, y, x)
  BY <1>6, OrderIsTotal DEF OfList
<1> HIDE DEF F, Behind
<1>8. \E z \in S : \A y \in S : y = z \/ Before(q, y, z)
  BY <1>7
<1> QED BY <1>8 DEF Last

-----------------------------------------------------------------------------
(* orderBy and take *)

\* With a row, take gives every row before it.
LEMMA TakeIsPrefix ==
  ASSUME NEW q \in Queries, NEW S, OfList(q, S), NEW n \in Nat,
         NEW x \in S, NEW y \in Take(q, S, n), Before(q, x, y)
  PROVE  x \in Take(q, S, n)
<1> DEFINE Ahead(z) == {w \in S : Before(q, w, z)}
<1>1. IsFiniteSet(S) /\ y \in S
  BY ReadSideAssumption, FS_Subset DEF OfList, Take
<1>2. Ahead(x) \subseteq Ahead(y)
  BY <1>1, OrderIsTransitive DEF OfList
<1>3. IsFiniteSet(Ahead(y))
  BY <1>1, FS_Subset
<1>4. Cardinality(Ahead(y)) < n
  BY DEF Take
<1>5. Cardinality(Ahead(x)) <= Cardinality(Ahead(y))
      /\ Cardinality(Ahead(x)) \in Nat /\ Cardinality(Ahead(y)) \in Nat
  <2> HIDE DEF Ahead
  <2> QED BY <1>2, <1>3, FS_Subset, FS_CardinalityType
<1>6. Cardinality(Ahead(x)) < n
  <2> HIDE DEF Ahead
  <2> QED BY <1>4, <1>5
<1> QED BY <1>6 DEF Take

\* take gives no more rows than it is asked for.
LEMMA TakeIsShort ==
  ASSUME NEW q \in Queries, NEW S, OfList(q, S), NEW n \in Nat
  PROVE  /\ IsFiniteSet(Take(q, S, n)) /\ Cardinality(Take(q, S, n)) \in Nat
         /\ Cardinality(Take(q, S, n)) <= n
<1> DEFINE T == Take(q, S, n)
<1>1. IsFiniteSet(S) /\ T \subseteq S
  BY ReadSideAssumption, FS_Subset DEF OfList, Take
<1>2. IsFiniteSet(T) /\ Cardinality(T) \in Nat
  BY <1>1, FS_Subset, FS_CardinalityType
<1>3. CASE T = {}
  BY <1>2, <1>3, FS_EmptySet
<1>4. CASE T # {}
  <2> DEFINE m == Last(q, T)
             Ahead == {w \in S : Before(q, w, m)}
  <2>1. m \in T /\ \A y \in T : y = m \/ Before(q, y, m)
    <3>1. OfList(q, T)
      BY <1>1 DEF OfList
    <3> QED BY <1>4, <3>1, LastRow
  <2>2. Cardinality(Ahead) < n
    BY <2>1 DEF Take
  <2>3. IsFiniteSet(Ahead)
    BY <1>1, FS_Subset
  <2> HIDE DEF m, T
  <2>4. T \ {m} \subseteq Ahead
    BY <1>1, <2>1
  <2> HIDE DEF Ahead
  <2>5. /\ Cardinality(T \ {m}) = Cardinality(T) - 1
        /\ Cardinality(T \ {m}) <= Cardinality(Ahead)
        /\ Cardinality(T \ {m}) \in Nat /\ Cardinality(Ahead) \in Nat
    <3>1. Cardinality(T \ {m}) = Cardinality(T) - 1
      BY <1>2, <2>1, FS_RemoveElement
    <3>2. Cardinality(T \ {m}) <= Cardinality(Ahead)
      BY <2>3, <2>4, FS_Subset
    <3>3. IsFiniteSet(T \ {m})
      BY <2>3, <2>4, FS_Subset
    <3> QED BY <2>3, <3>1, <3>2, <3>3, FS_CardinalityType
  <2>6. Cardinality(T) <= n
    BY <1>2, <2>2, <2>5
  <2> QED BY <1>2, <2>6 DEF T
<1> QED BY <1>3, <1>4

\* take gives something if there is something.
LEMMA TakeIsSome ==
  ASSUME NEW q \in Queries, NEW S, OfList(q, S), NEW n \in Nat \ {0}, S # {}
  PROVE  Take(q, S, n) # {}
<1>1. PICK x \in S : \A y \in S : y = x \/ Before(q, x, y)
  BY FirstRow
<1>2. {y \in S : Before(q, y, x)} = {}
  BY <1>1, OrderIsTotal DEF OfList
<1>3. x \in Take(q, S, n)
  BY <1>2, FS_EmptySet DEF Take
<1> QED BY <1>3

\* If take could give no row more, it gave everything.
LEMMA TakeIsAll ==
  ASSUME NEW q \in Queries, NEW S, OfList(q, S), NEW n \in Nat,
         Cardinality(Take(q, S, n + 1)) <= n
  PROVE  Take(q, S, n) = S
<1> DEFINE T == Take(q, S, n)
           M == Take(q, S, n + 1)
           Ahead(x) == {y \in S : Before(q, y, x)}
<1>1. T \subseteq S /\ IsFiniteSet(S)
  BY ReadSideAssumption, FS_Subset DEF OfList, Take
<1>2. ASSUME S \ T # {} PROVE FALSE
  <2>1. PICK x \in S \ T : \A y \in S \ T : y = x \/ Before(q, x, y)
    <3>1. OfList(q, S \ T)
      BY DEF OfList
    <3> HIDE DEF T
    <3> QED BY <1>2, <3>1, FirstRow
  <2>2. Ahead(x) \subseteq T
    <3>1. ASSUME NEW y \in S, Before(q, y, x) PROVE y \in T
      <4>1. y # x /\ ~Before(q, x, y)
        BY <3>1, OrderIsTotal DEF OfList
      <4> HIDE DEF T
      <4> QED BY <2>1, <4>1
    <3> QED BY <3>1
  <2>3. IsFiniteSet(Ahead(x))
    BY <1>1, FS_Subset
  <2>4. ~ (Cardinality(Ahead(x)) < n)
    BY <2>1 DEF Take
  <2>5. IsFiniteSet(T) /\ Cardinality(T) \in Nat /\ Cardinality(T) <= n
    BY TakeIsShort
  <2>6. Cardinality(Ahead(x)) = n
    <3>1. Cardinality(Ahead(x)) <= Cardinality(T) /\ Cardinality(Ahead(x)) \in Nat
      <4> HIDE DEF T, Ahead
      <4> QED BY <2>2, <2>3, <2>5, FS_Subset, FS_CardinalityType
    <3> HIDE DEF T, Ahead
    <3> QED BY <2>4, <2>5, <3>1
  <2>7. x \in M
    <3>1. Cardinality(Ahead(x)) < n + 1
      <4> HIDE DEF Ahead
      <4> QED BY <2>6
    <3> QED BY <2>1, <3>1 DEF Take
  <2>8. n + 1 \in Nat
    OBVIOUS
  <2>9. \A y \in Ahead(x) : y \in M
    <3>1. ASSUME NEW y \in Ahead(x) PROVE y \in S /\ Before(q, y, x)
      OBVIOUS
    <3> HIDE DEF Ahead
    <3> QED BY <2>7, <2>8, <3>1, TakeIsPrefix
  <2>10. x \notin Ahead(x)
    BY <2>1, OrderIsTotal DEF OfList
  <2>11. IsFiniteSet(M)
    BY <2>8, TakeIsShort
  <2> HIDE DEF T, M, Ahead
  <2>12. Cardinality(Ahead(x) \cup {x}) = n + 1
    BY <2>3, <2>6, <2>10, FS_AddElement
  <2>13. Cardinality(Ahead(x) \cup {x}) <= Cardinality(M) /\ Cardinality(M) \in Nat
    <3>1. Ahead(x) \cup {x} \subseteq M
      BY <2>7, <2>9
    <3> QED BY <2>11, <3>1, FS_Subset, FS_CardinalityType
  <2>14. Cardinality(M) <= n
    BY DEF M
  <2> QED BY <2>12, <2>13, <2>14
<1> HIDE DEF T
<1>3. T = S
  BY <1>1, <1>2
<1> QED BY <1>3 DEF T

\* A page is no longer than the limit; the last one is all that was found; after any
\* other one what is left comes after its last row.
LEMMA PageLaws ==
  ASSUME NEW q \in Queries, NEW found, OfList(q, found), NEW page, page = Take(q, found, q.limit)
  PROVE  /\ page \subseteq found /\ Cardinality(page) <= q.limit
         /\ ~HasMore(q, found) => page = found
         /\ HasMore(q, found) =>
              /\ Last(q, page) \in page
              /\ \A x \in page : x = Last(q, page) \/ Before(q, x, Last(q, page))
              /\ \A x \in found \ page : Before(q, Last(q, page), x)
<1>1. q.limit \in Nat \ {0} /\ q.limit \in Nat /\ q.limit + 1 \in Nat
  BY ReadSideAssumption DEF Query
<1>2. page \subseteq found
  BY DEF Take
<1>3. Cardinality(page) <= q.limit
  BY <1>1, TakeIsShort
<1>4. ASSUME ~HasMore(q, found) PROVE page = found
  <2>1. Cardinality(Take(q, found, q.limit + 1)) \in Nat
    BY <1>1, TakeIsShort
  <2>2. Cardinality(Take(q, found, q.limit + 1)) <= q.limit
    BY <1>1, <1>4, <2>1 DEF HasMore
  <2> QED BY <1>1, <2>2, TakeIsAll
<1>5. ASSUME HasMore(q, found)
      PROVE  /\ Last(q, page) \in page
             /\ \A x \in page : x = Last(q, page) \/ Before(q, x, Last(q, page))
             /\ \A x \in found \ page : Before(q, Last(q, page), x)
  <2>1. found # {}
    <3>1. ASSUME found = {} PROVE FALSE
      <4>1. Take(q, found, q.limit + 1) = {}
        BY <3>1 DEF Take
      <4> QED BY <1>1, <1>5, <4>1, FS_EmptySet DEF HasMore
    <3> QED BY <3>1
  <2>2. page # {} /\ OfList(q, page)
    BY <1>1, <1>2, <2>1, TakeIsSome DEF OfList
  <2> DEFINE m == Last(q, page)
  <2>3. m \in page /\ \A x \in page : x = m \/ Before(q, x, m)
    BY <2>2, LastRow
  <2> HIDE DEF m
  <2>4. ASSUME NEW x \in found \ page PROVE Before(q, m, x)
    <3>1. x # m /\ m \in found
      BY <1>2, <2>3
    <3>2. ~Before(q, x, m)
      BY <1>1, <2>3, TakeIsPrefix
    <3> QED BY <3>1, <3>2, OrderIsTotal DEF OfList
  <2> QED BY <2>3, <2>4 DEF m
<1> QED BY <1>2, <1>3, <1>4, <1>5

-----------------------------------------------------------------------------
(* The walk *)

Stages == {"idle", "checking", "reading", "between", "done", "refused"}
Codes == {None, "INVALID_CURSOR", "ROBOT_NOT_FOUND", "INVALID_TIME_RANGE"}

Walk == [stage : Stages, query : Queries \cup {CHOOSE q \in Queries : TRUE},
         cursor : Cursor \cup {None}, pages : Seq(SUBSET Rows), error : Codes]

Loop == [at : {"cycle", "sleeping", "exited"} \cup Deletes, began : Nat, stopping : BOOLEAN]

TypeInv ==
  /\ now \in Nat /\ table \subseteq Rows /\ receivedAt \in [Rows -> Nat \cup {None}]
  /\ walk \in Walk
  /\ walk.stage # "idle" => walk.query \in Queries
  /\ kept \subseteq Rows /\ ever \subseteq Rows
  /\ worker \in Loop

\* The cursor of a row in the list of q.
Key(q, row) ==
  IF q.list = "robots" THEN RobotCursor(row)
  ELSE [list |-> q.list, at |-> row.at, id |-> row.id]

ListedIn(pages) == UNION {pages[i] : i \in DOMAIN pages}

\* Pages in order, no longer than the limit, of rows of e that q wants.
Paged(q, pages, e) ==
  /\ \A i, j \in DOMAIN pages : i < j => \A x \in pages[i], y \in pages[j] : Before(q, x, y)
  /\ \A i \in DOMAIN pages : Cardinality(pages[i]) <= q.limit
  /\ \A row \in ListedIn(pages) : row \in e /\ Wanted(q, row)

\* What a walk still has to list of k.
Owed(q, pages, k) == {row \in k : Wanted(q, row) /\ row \notin ListedIn(pages)}

\* m is the last row listed, and what is owed comes after it.
Reached(q, pages, k, m) ==
  /\ m.list = q.list
  /\ \A x \in ListedIn(pages) : x = m \/ Before(q, x, m)
  /\ \A row \in Owed(q, pages, k) : Before(q, m, row)

Known(t, id) == \E row \in t : row.list = "robots" /\ row.id = id

\* Between its first page and its last the cursor of a walk is where it has come to;
\* a walk without a page has no cursor, or one of another list; and a list of
\* telemetry that is read is of a robot there is.
WalkOK(w, t, k, e) ==
  /\ k \subseteq t
  /\ w.stage = "idle" => w.pages = <<>>
  /\ w.stage # "idle" =>
       /\ t \subseteq e
       /\ w.stage = "checking" => w.query.list = "telemetry"
       /\ Paged(w.query, w.pages, e)
       /\ w.pages = <<>> /\ w.cursor # None => w.cursor.list # w.query.list
       /\ w.stage \in {"between", "done"} => w.pages # <<>>
       /\ w.stage = "refused" => w.pages = <<>>
       /\ w.stage = "done" => Owed(w.query, w.pages, k) = {}
       /\ w.stage \in {"checking", "reading", "between"} /\ w.pages # <<>> =>
            \E m \in Rows : w.cursor = Key(w.query, m) /\ Reached(w.query, w.pages, k, m)
       /\ (w.stage = "reading" \/ w.pages # <<>>) /\ w.query.list = "telemetry" =>
            Known(t, w.query.of) /\ w.query.from <= w.query.to

IInv == TypeInv /\ WalkOK(walk, table, kept, ever)

\* Rows that come do a walk no harm.
LEMMA WalkSurvivesInsert ==
  ASSUME NEW w, NEW t, NEW k, NEW e, WalkOK(w, t, k, e), NEW row
  PROVE  WalkOK(w, t \cup {row}, k, e \cup {row})
BY DEF WalkOK, Paged, Known

\* Nor do rows that go, unless they are robots.
LEMMA WalkSurvivesDelete ==
  ASSUME NEW w, NEW t, NEW k, NEW e, WalkOK(w, t, k, e),
         NEW gone, \A row \in gone : row.list # "robots"
  PROVE  WalkOK(w, t \ gone, k \ gone, e)
<1> DEFINE l == k \ gone
           u == t \ gone
<1>1. \A q, p : Owed(q, p, l) \subseteq Owed(q, p, k)
  BY DEF Owed
<1>2. \A q, p, m : Reached(q, p, k, m) => Reached(q, p, l, m)
  BY <1>1 DEF Reached
<1>3. \A id : Known(t, id) => Known(u, id)
  BY DEF Known
<1>4. l \subseteq u
  BY DEF WalkOK
<1>5. w.stage # "idle" => u \subseteq e
  BY DEF WalkOK
<1>6. w.stage = "done" => Owed(w.query, w.pages, l) = {}
  BY <1>1 DEF WalkOK
<1>7. ASSUME w.stage # "idle", w.stage \in {"checking", "reading", "between"}, w.pages # <<>>
      PROVE  \E m \in Rows : w.cursor = Key(w.query, m) /\ Reached(w.query, w.pages, l, m)
  <2>1. PICK m \in Rows : w.cursor = Key(w.query, m) /\ Reached(w.query, w.pages, k, m)
    BY <1>7 DEF WalkOK
  <2> HIDE DEF l
  <2> QED BY <1>2, <2>1
<1>8. ASSUME w.stage # "idle", w.stage = "reading" \/ w.pages # <<>>, w.query.list = "telemetry"
      PROVE  Known(u, w.query.of) /\ w.query.from <= w.query.to
  BY <1>3, <1>8 DEF WalkOK
<1> HIDE DEF l, u
<1>9. WalkOK(w, u, l, e)
  BY <1>4, <1>5, <1>6, <1>7, <1>8 DEF WalkOK
<1> QED BY <1>9 DEF l, u

\* A cursor is as good as its row.
LEMMA KeyIsEnough ==
  ASSUME NEW q \in Queries, NEW m \in Rows, m.list = q.list, NEW row \in Rows
  PROVE  /\ Key(q, m) \in Cursor /\ Key(q, m) # None /\ Key(q, m).list = q.list
         /\ Before(q, Key(q, m), row) <=> Before(q, m, row)
         /\ q.list = "robots" => (Key(q, m).id < row.id <=> Before(q, m, row))
<1>1. /\ q.list \in {"robots", "alerts", "telemetry"} /\ m.id \in Int /\ m.at \in Int
  BY ReadSideAssumption DEF Query, Row
<1>2. CASE q.list = "robots"
  <2>1. Key(q, m) = [list |-> "robots", id |-> m.id]
    BY <1>2 DEF Key, RobotCursor
  <2>2. Key(q, m) \in Cursor /\ Key(q, m).list = q.list /\ Key(q, m).id = m.id
    BY <1>1, <1>2, <2>1 DEF Cursor
  <2>3. Before(q, Key(q, m), row) <=> Before(q, m, row)
    BY <1>2, <2>2 DEF Before
  <2>4. Key(q, m).id < row.id <=> Before(q, m, row)
    BY <1>2, <2>2 DEF Before
  <2> QED BY <2>2, <2>3, <2>4, ReadSideAssumption
<1>3. CASE q.list \in {"alerts", "telemetry"}
  <2>1. Key(q, m) = [list |-> q.list, at |-> m.at, id |-> m.id]
    BY <1>3 DEF Key
  <2>2. /\ Key(q, m) \in Cursor /\ Key(q, m).list = q.list
        /\ Key(q, m).at = m.at /\ Key(q, m).id = m.id
    BY <1>1, <1>3, <2>1 DEF Cursor
  <2>3. Before(q, Key(q, m), row) <=> Before(q, m, row)
    BY <1>3, <2>2 DEF Before, Precedes
  <2> QED BY <1>3, <2>2, <2>3, ReadSideAssumption
<1> QED BY <1>1, <1>2, <1>3

\* A walk with one page more.
LEMMA PageAdded ==
  ASSUME NEW pages \in Seq(SUBSET Rows), NEW page \in SUBSET Rows
  PROVE  /\ Append(pages, page) \in Seq(SUBSET Rows) /\ Append(pages, page) # <<>>
         /\ ListedIn(Append(pages, page)) = ListedIn(pages) \cup page
         /\ \A i \in DOMAIN Append(pages, page) :
              \/ i \in DOMAIN pages /\ Append(pages, page)[i] = pages[i]
              \/ i = Len(pages) + 1 /\ Append(pages, page)[i] = page
<1> DEFINE more == Append(pages, page)
<1>1. /\ more \in Seq(SUBSET Rows) /\ Len(more) = Len(pages) + 1 /\ Len(pages) \in Nat
      /\ DOMAIN more = 1..(Len(pages) + 1) /\ DOMAIN pages = 1..Len(pages)
  OBVIOUS
<1>2. more # <<>>
  BY <1>1
<1>3. \A i \in DOMAIN pages : i \in DOMAIN more /\ more[i] = pages[i]
  OBVIOUS
<1>4. Len(pages) + 1 \in DOMAIN more /\ more[Len(pages) + 1] = page
  OBVIOUS
<1> HIDE DEF more
<1>5. \A i \in DOMAIN more :
        (i \in DOMAIN pages /\ more[i] = pages[i]) \/ (i = Len(pages) + 1 /\ more[i] = page)
  BY <1>1, <1>3, <1>4
<1>6. ListedIn(more) = ListedIn(pages) \cup page
  <2>1. \A row : row \in ListedIn(more) => row \in ListedIn(pages) \cup page
    BY <1>5 DEF ListedIn
  <2>2. \A row : row \in ListedIn(pages) => row \in ListedIn(more)
    BY <1>3 DEF ListedIn
  <2>3. \A row \in page : row \in ListedIn(more)
    BY <1>4 DEF ListedIn
  <2> QED BY <2>1, <2>2, <2>3
<1> QED BY <1>1, <1>2, <1>5, <1>6 DEF more

\* The rows a page is taken from: those of t that q wants and that come after the
\* last row listed.
Sought(q, pages, t, k, found) ==
  \/ pages = <<>> /\ found = {row \in t : Wanted(q, row)}
  \/ \E m \in Rows : /\ Reached(q, pages, k, m)
                     /\ found = {row \in t : Wanted(q, row) /\ Before(q, m, row)}

\* One more page: what was found after the cursor, up to the limit.
LEMMA PagedOn ==
  ASSUME NEW q \in Queries, NEW pages \in Seq(SUBSET Rows), NEW t, t \subseteq Rows,
         NEW k, k \subseteq t, NEW e, t \subseteq e, Paged(q, pages, e),
         NEW found, NEW page, page = Take(q, found, q.limit),
         NEW more, more = Append(pages, page),
         Sought(q, pages, t, k, found)
  PROVE  /\ more \in Seq(SUBSET Rows) /\ more # <<>> /\ Paged(q, more, e)
         /\ ~HasMore(q, found) => Owed(q, more, k) = {}
         /\ HasMore(q, found) => Last(q, page) \in t /\ Reached(q, more, k, Last(q, page))
<1>0. PICK m : \/ pages = <<>> /\ found = {row \in t : Wanted(q, row)}
               \/ /\ m \in Rows /\ Reached(q, pages, k, m)
                  /\ found = {row \in t : Wanted(q, row) /\ Before(q, m, row)}
  BY DEF Sought
<1>1. /\ OfList(q, found) /\ found \subseteq t
      /\ \A row \in found : Wanted(q, row)
  BY <1>0 DEF OfList, Wanted
<1>2. /\ page \subseteq found /\ Cardinality(page) <= q.limit
      /\ ~HasMore(q, found) => page = found
      /\ HasMore(q, found) =>
           /\ Last(q, page) \in page
           /\ \A x \in page : x = Last(q, page) \/ Before(q, x, Last(q, page))
           /\ \A x \in found \ page : Before(q, Last(q, page), x)
  BY <1>1, PageLaws
<1>3. page \in SUBSET Rows
  BY <1>1, <1>2
<1>4. /\ more \in Seq(SUBSET Rows) /\ more # <<>>
      /\ ListedIn(more) = ListedIn(pages) \cup page
      /\ \A i \in DOMAIN more :
           (i \in DOMAIN pages /\ more[i] = pages[i]) \/ (i = Len(pages) + 1 /\ more[i] = page)
  <2>1. pages \in Seq(SUBSET Rows) /\ more = Append(pages, page)
    OBVIOUS
  <2>2. /\ Append(pages, page) \in Seq(SUBSET Rows) /\ Append(pages, page) # <<>>
        /\ ListedIn(Append(pages, page)) = ListedIn(pages) \cup page
        /\ \A i \in DOMAIN Append(pages, page) :
             \/ i \in DOMAIN pages /\ Append(pages, page)[i] = pages[i]
             \/ i = Len(pages) + 1 /\ Append(pages, page)[i] = page
    BY <1>3, PageAdded, Zenon
  <2> QED BY <2>1, <2>2, Zenon
<1>5. ListedIn(pages) \subseteq Rows /\ DOMAIN pages = 1..Len(pages) /\ Len(pages) \in Nat
  BY DEF ListedIn
<1>6. ASSUME NEW x \in ListedIn(pages), NEW y \in page PROVE Before(q, x, y)
  <2>1. pages # <<>>
    BY <1>6 DEF ListedIn
  <2>2. /\ m \in Rows /\ x \in Rows /\ y \in Rows /\ Before(q, m, y)
        /\ x = m \/ Before(q, x, m)
    BY <1>0, <1>1, <1>2, <1>5, <1>6, <2>1 DEF Reached
  <2> QED BY <2>2, OrderIsTransitive
<1>7. Paged(q, more, e)
  <2>1. ASSUME NEW i \in DOMAIN more, NEW j \in DOMAIN more, i < j,
               NEW x \in more[i], NEW y \in more[j]
        PROVE  Before(q, x, y)
    <3>1. CASE i \in DOMAIN pages /\ more[i] = pages[i] /\ j \in DOMAIN pages /\ more[j] = pages[j]
      BY <2>1, <3>1 DEF Paged
    <3>2. CASE i \in DOMAIN pages /\ more[i] = pages[i] /\ more[j] = page
      <4>1. x \in ListedIn(pages) /\ y \in page
        BY <2>1, <3>2 DEF ListedIn
      <4> QED BY <1>6, <4>1
    <3>3. ~ (i = Len(pages) + 1)
      BY <1>4, <1>5, <2>1
    <3> QED BY <1>4, <3>1, <3>2, <3>3
  <2>2. \A i \in DOMAIN more : Cardinality(more[i]) <= q.limit
    BY <1>2, <1>4 DEF Paged
  <2>3. \A row \in ListedIn(more) : row \in e /\ Wanted(q, row)
    BY <1>1, <1>2, <1>4 DEF Paged
  <2> QED BY <2>1, <2>2, <2>3 DEF Paged
<1>8. \A row \in Owed(q, more, k) : row \in found \ page
  <2> SUFFICES ASSUME NEW row \in Owed(q, more, k) PROVE row \in found \ page
    OBVIOUS
  <2>1. row \in k /\ row \in t /\ Wanted(q, row) /\ row \notin ListedIn(pages) /\ row \notin page
    BY <1>4 DEF Owed
  <2>2. row \in Owed(q, pages, k)
    BY <2>1 DEF Owed
  <2> QED BY <1>0, <2>1, <2>2 DEF Reached
<1>9. ~HasMore(q, found) => Owed(q, more, k) = {}
  BY <1>2, <1>8
<1>10. ASSUME HasMore(q, found)
       PROVE  Last(q, page) \in t /\ Reached(q, more, k, Last(q, page))
  <2> DEFINE l == Last(q, page)
  <2>1. l \in page /\ l \in t /\ l.list = q.list
    BY <1>1, <1>2, <1>10 DEF OfList
  <2>2. \A x \in ListedIn(more) : x = l \/ Before(q, x, l)
    BY <1>2, <1>4, <1>6, <1>10, <2>1
  <2>3. \A row \in Owed(q, more, k) : Before(q, l, row)
    BY <1>2, <1>8, <1>10
  <2> HIDE DEF l
  <2>4. Reached(q, more, k, l)
    BY <2>1, <2>2, <2>3 DEF Reached
  <2> QED BY <2>1, <2>4 DEF l
<1> QED BY <1>4, <1>7, <1>9, <1>10

-----------------------------------------------------------------------------
(* The steps *)

\* Nothing has been asked for.
LEMMA InitIInv == Init => IInv
<1> SUFFICES ASSUME Init PROVE IInv
  OBVIOUS
<1>1. table \subseteq Rows /\ kept = {} /\ ever = {} /\ now = 0
  BY ReadSideAssumption DEF Init
<1>2. receivedAt \in [Rows -> Nat \cup {None}]
  BY DEF Init
<1>3. worker \in Loop
  BY DEF Init, Loop
<1>4. walk \in Walk /\ walk.stage = "idle" /\ walk.pages = <<>>
  BY DEF Init, Walk, Stages, Codes
<1> QED BY <1>1, <1>2, <1>3, <1>4 DEF IInv, TypeInv, WalkOK

\* A walk that is refused has listed nothing.
LEMMA WalkRefused ==
  ASSUME IInv, NEW code \in Codes, Refuse(code), walk.stage \in {"checking", "reading"},
         walk.pages = <<>>, UNCHANGED <<now, database, history, worker>>
  PROVE  IInv'
<1>1. walk \in Walk /\ walk' = [walk EXCEPT !.stage = "refused", !.error = code]
  BY DEF IInv, TypeInv, Refuse
<1>2. /\ walk' \in Walk /\ walk'.stage = "refused" /\ walk'.query = walk.query
      /\ walk'.cursor = walk.cursor /\ walk'.pages = walk.pages
  BY <1>1 DEF Walk, Stages
<1>3. UNCHANGED <<now, table, receivedAt, kept, ever, worker>>
  BY DEF database, history
<1>4. WalkOK(walk, table, kept, ever)
  BY DEF IInv
<1>5. WalkOK(walk', table, kept, ever)
  BY <1>2, <1>4 DEF WalkOK
<1> QED BY <1>2, <1>3, <1>5 DEF IInv, TypeInv

\* A cursor that does not decode was sent to another list: no page is lost.
LEMMA NotDecoded ==
  ASSUME IInv, walk.stage = "reading", ~Decodes(walk.query, walk.cursor)
  PROVE  walk.pages = <<>>
<1>1. walk.query \in Queries /\ walk.cursor # None /\ walk.cursor.list # walk.query.list
  BY DEF Decodes, IInv, TypeInv
<1>2. ASSUME walk.pages # <<>> PROVE FALSE
  <2>1. PICK m \in Rows :
          /\ walk.cursor = Key(walk.query, m)
          /\ Reached(walk.query, walk.pages, kept, m)
    BY <1>2 DEF IInv, WalkOK
  <2>2. walk.cursor.list = walk.query.list
    BY <1>1, <2>1, KeyIsEnough DEF Reached
  <2> QED BY <1>1, <2>2
<1> QED BY <1>2

\* A page is read: of the rows after the cursor, whichever the list.
LEMMA PageRead ==
  ASSUME IInv, walk.stage = "reading", Decodes(walk.query, walk.cursor),
         NEW found,
         found = {row \in table : /\ Wanted(walk.query, row)
                                  /\ After(walk.query, walk.cursor, row)},
         NEW cursors, \A row \in table : cursors[row] = Key(walk.query, row),
         Page(found, cursors), UNCHANGED <<now, database, history, worker>>
  PROVE  IInv'
<1> DEFINE q == walk.query
           pages == walk.pages
           page == Take(q, found, q.limit)
           more == Append(pages, page)
           stage == IF HasMore(q, found) THEN "between" ELSE "done"
           cursor == IF HasMore(q, found) THEN cursors[Last(q, page)] ELSE None
<1>1. /\ q \in Queries /\ pages \in Seq(SUBSET Rows) /\ table \subseteq Rows /\ walk \in Walk
      /\ WalkOK(walk, table, kept, ever)
  BY DEF IInv, TypeInv, Walk
<1>2. kept \subseteq table /\ table \subseteq ever /\ Paged(q, pages, ever)
  BY <1>1 DEF WalkOK
<1>3. Sought(q, pages, table, kept, found)
  <2>1. CASE pages = <<>>
    <3>1. walk.cursor = None
      BY <1>1, <2>1 DEF WalkOK, Decodes
    <3> QED BY <2>1, <3>1 DEF After, Sought
  <2>2. CASE pages # <<>>
    <3>1. PICK m \in Rows : walk.cursor = Key(q, m) /\ Reached(q, pages, kept, m)
      BY <1>1, <2>2 DEF WalkOK
    <3>2. \A row \in table : After(q, walk.cursor, row) <=> Before(q, m, row)
      <4>1. m.list = q.list
        BY <3>1 DEF Reached
      <4> QED BY <1>1, <3>1, <4>1, KeyIsEnough DEF After
    <3>3. found = {row \in table : Wanted(q, row) /\ Before(q, m, row)}
      BY <3>2
    <3> QED BY <3>1, <3>3 DEF Sought
  <2> QED BY <2>1, <2>2
<1>4. walk' = [walk EXCEPT !.pages = more, !.stage = stage, !.cursor = cursor]
  BY DEF Page
<1>5. stage \in Stages /\ (HasMore(q, found) => stage = "between")
      /\ (~HasMore(q, found) => stage = "done")
  BY DEF Stages
<1>6. (HasMore(q, found) => cursor = cursors[Last(q, page)]) /\ (~HasMore(q, found) => cursor = None)
  OBVIOUS
<1> HIDE DEF q, pages, stage, cursor
<1>7. /\ more \in Seq(SUBSET Rows) /\ more # <<>> /\ Paged(q, more, ever)
      /\ ~HasMore(q, found) => Owed(q, more, kept) = {}
      /\ HasMore(q, found) => Last(q, page) \in table /\ Reached(q, more, kept, Last(q, page))
  <2>1. page = Take(q, found, q.limit) /\ more = Append(pages, page)
    OBVIOUS
  <2> HIDE DEF page, more
  <2> QED BY <1>1, <1>2, <1>3, <2>1, PagedOn
<1> HIDE DEF page, more
<1>8. /\ cursor \in Cursor \cup {None}
      /\ HasMore(q, found) => cursor = Key(q, Last(q, page)) /\ Last(q, page) \in Rows
  <2>1. CASE HasMore(q, found)
    <3>1. /\ cursor = Key(q, Last(q, page)) /\ Last(q, page) \in Rows
          /\ Last(q, page).list = q.list
      BY <1>1, <1>6, <1>7, <2>1 DEF Reached, q
    <3> QED BY <1>1, <3>1, KeyIsEnough
  <2>2. CASE ~HasMore(q, found)
    BY <1>6, <2>2
  <2> QED BY <2>1, <2>2
<1>9. /\ walk' \in Walk /\ walk'.stage = stage /\ walk'.query = q
      /\ walk'.cursor = cursor /\ walk'.pages = more
  BY <1>1, <1>4, <1>5, <1>7, <1>8 DEF Walk, q
<1>10. q.list = "telemetry" => Known(table, q.of) /\ q.from <= q.to
  BY <1>1 DEF WalkOK, q
<1>11. WalkOK(walk', table, kept, ever)
  <2>1. CASE HasMore(q, found)
    <3>1. \E m \in Rows : cursor = Key(q, m) /\ Reached(q, more, kept, m)
      BY <1>7, <1>8, <2>1
    <3> QED BY <1>2, <1>5, <1>7, <1>9, <1>10, <2>1, <3>1 DEF WalkOK
  <2>2. CASE ~HasMore(q, found)
    BY <1>2, <1>5, <1>7, <1>9, <1>10, <2>2 DEF WalkOK
  <2> QED BY <2>1, <2>2
<1>12. UNCHANGED <<now, table, receivedAt, kept, ever, worker>>
  BY DEF database, history
<1> QED BY <1>1, <1>9, <1>11, <1>12 DEF IInv, TypeInv

\* A page of each of the three lists.
LEMMA RobotsListed == IInv /\ ListRobots => IInv'
<1> SUFFICES ASSUME IInv, ListRobots PROVE IInv'
  OBVIOUS
<1>1. /\ walk.stage = "reading" /\ walk.query.list = "robots"
      /\ UNCHANGED <<now, database, history, worker>>
      /\ walk.query \in Queries /\ walk \in Walk /\ table \subseteq Rows
  BY DEF ListRobots, IInv, TypeInv
<1>2. CASE ~Decodes(walk.query, walk.cursor)
  BY <1>1, <1>2, NotDecoded, WalkRefused DEF ListRobots, Codes
<1>3. CASE Decodes(walk.query, walk.cursor)
  <2> DEFINE found == FindAll(walk.query, walk.cursor)
             cursors == [row \in table |-> RobotCursor(row)]
  <2>1. Page(found, cursors)
    BY <1>3 DEF ListRobots
  <2>2. \A row \in table : cursors[row] = Key(walk.query, row)
    BY <1>1 DEF Key
  <2>3. found = {row \in table : Wanted(walk.query, row) /\ After(walk.query, walk.cursor, row)}
    BY <1>1 DEF FindAll, Wanted, After, Before
  <2> HIDE DEF found, cursors
  <2> QED BY <1>1, <1>3, <2>1, <2>2, <2>3, PageRead
<1> QED BY <1>2, <1>3

\* listAlerts
LEMMA AlertsListed == IInv /\ ListAlerts => IInv'
<1> SUFFICES ASSUME IInv, ListAlerts PROVE IInv'
  OBVIOUS
<1>1. /\ walk.stage = "reading" /\ walk.query.list = "alerts"
      /\ UNCHANGED <<now, database, history, worker>>
      /\ walk.query \in Queries /\ walk \in Walk /\ table \subseteq Rows
  BY DEF ListAlerts, IInv, TypeInv
<1>2. CASE ~Decodes(walk.query, walk.cursor)
  BY <1>1, <1>2, NotDecoded, WalkRefused DEF ListAlerts, Codes
<1>3. CASE Decodes(walk.query, walk.cursor)
  <2> DEFINE found == List(walk.query, walk.cursor)
             cursors == [row \in table |-> AlertCursor(row)]
  <2>1. Page(found, cursors)
    BY <1>3 DEF ListAlerts
  <2>2. \A row \in table : cursors[row] = Key(walk.query, row)
    BY <1>1 DEF Key, AlertCursor
  <2>3. found = {row \in table : Wanted(walk.query, row) /\ After(walk.query, walk.cursor, row)}
    BY <1>1 DEF List, Wanted
  <2> HIDE DEF found, cursors
  <2> QED BY <1>1, <1>3, <2>1, <2>2, <2>3, PageRead
<1> QED BY <1>2, <1>3

\* listRobotTelemetry, whose robot is known by now
LEMMA TelemetryListed == IInv /\ ListRobotTelemetry => IInv'
<1> SUFFICES ASSUME IInv, ListRobotTelemetry PROVE IInv'
  OBVIOUS
<1>1. /\ walk.stage = "reading" /\ walk.query.list = "telemetry"
      /\ UNCHANGED <<now, database, history, worker>>
      /\ walk.query \in Queries /\ walk \in Walk /\ table \subseteq Rows
  BY DEF ListRobotTelemetry, IInv, TypeInv
<1>2. CASE ~Decodes(walk.query, walk.cursor)
  BY <1>1, <1>2, NotDecoded, WalkRefused DEF ListRobotTelemetry, Codes
<1>3. CASE Decodes(walk.query, walk.cursor)
  <2> DEFINE found == FindByRobotId(walk.query, walk.cursor)
             cursors == [row \in table |-> TelemetryCursor(row)]
  <2>1. Page(found, cursors)
    BY <1>3 DEF ListRobotTelemetry
  <2>2. \A row \in table : cursors[row] = Key(walk.query, row)
    BY <1>1 DEF Key, TelemetryCursor
  <2>3. walk.query.of # None
    <3>1. Known(table, walk.query.of)
      BY <1>1 DEF IInv, WalkOK
    <3>2. walk.query.of \in Int
      BY <1>1, <3>1, ReadSideAssumption DEF Known, Row
    <3> QED BY <3>2, ReadSideAssumption
  <2>4. found = {row \in table : Wanted(walk.query, row) /\ After(walk.query, walk.cursor, row)}
    BY <1>1, <2>3 DEF FindByRobotId, Wanted
  <2> HIDE DEF found, cursors
  <2> QED BY <1>1, <1>3, <2>1, <2>2, <2>4, PageRead
<1> QED BY <1>2, <1>3

\* What a request makes of the walk.
LEMMA WalkAsked ==
  ASSUME walk \in Walk, NEW q \in Queries, NEW cursor \in Cursor \cup {None},
         NEW pages \in Seq(SUBSET Rows), Get(q, cursor, pages)
  PROVE  /\ walk' \in Walk /\ walk'.query = q /\ walk'.cursor = cursor /\ walk'.pages = pages
         /\ \/ q.list # "telemetry" /\ walk'.stage = "reading"
            \/ q.list = "telemetry" /\ walk'.stage = "checking"
<1>1. \E stage \in {"reading", "checking"} :
        /\ walk' = [walk EXCEPT !.stage = stage, !.query = q, !.cursor = cursor,
                                !.pages = pages, !.error = None]
        /\ \/ q.list # "telemetry" /\ stage = "reading"
           \/ q.list = "telemetry" /\ stage = "checking"
  BY DEF Get, GetRobots, GetAlerts, GetRobotTelemetry
<1>2. PICK stage \in {"reading", "checking"} :
        /\ walk' = [walk EXCEPT !.stage = stage, !.query = q, !.cursor = cursor,
                                !.pages = pages, !.error = None]
        /\ \/ q.list # "telemetry" /\ stage = "reading"
           \/ q.list = "telemetry" /\ stage = "checking"
  BY <1>1
<1>3. /\ walk' \in Walk /\ walk'.stage = stage /\ walk'.query = q /\ walk'.cursor = cursor
      /\ walk'.pages = pages
  BY <1>2 DEF Walk, Stages, Codes
<1> QED BY <1>2, <1>3

\* A walk begins, perhaps with a cursor of another list.
LEMMA WalkBegun ==
  ASSUME IInv, NEW q \in Queries, NEW cursor \in Cursor \cup {None}, Get(q, cursor, <<>>),
         cursor # None => cursor.list # q.list, kept' = table, ever' = table,
         UNCHANGED <<now, database, worker>>
  PROVE  IInv'
<1>1. walk \in Walk /\ table \subseteq Rows /\ <<>> \in Seq(SUBSET Rows)
  BY DEF IInv, TypeInv
<1>2. /\ walk' \in Walk /\ walk'.query = q /\ walk'.cursor = cursor /\ walk'.pages = <<>>
      /\ \/ q.list # "telemetry" /\ walk'.stage = "reading"
         \/ q.list = "telemetry" /\ walk'.stage = "checking"
  BY <1>1, WalkAsked
<1>3. Paged(q, <<>>, table)
  BY DEF Paged, ListedIn
<1>4. WalkOK(walk', table, table, table)
  BY <1>2, <1>3 DEF WalkOK
<1>5. UNCHANGED <<now, table, receivedAt, worker>>
  BY DEF database
<1> QED BY <1>1, <1>2, <1>4, <1>5 DEF IInv, TypeInv

\* A client asks for a first page,
LEMMA AskKeeps == ASSUME IInv, NEW q \in Queries, Ask(q) PROVE IInv'
BY WalkBegun DEF Ask

\* for the next one with the cursor it was given, or takes that cursor to another list.
LEMMA AskNextKeeps == IInv /\ AskNext => IInv'
<1> SUFFICES ASSUME IInv, AskNext PROVE IInv'
  OBVIOUS
<1>1. /\ walk.stage = "between" /\ walk \in Walk /\ walk.query \in Queries
      /\ walk.cursor \in Cursor \cup {None} /\ walk.pages \in Seq(SUBSET Rows)
      /\ WalkOK(walk, table, kept, ever) /\ UNCHANGED <<now, database, worker>>
  BY DEF AskNext, IInv, TypeInv, Walk
<1>2. PICK m \in Rows : /\ walk.cursor = Key(walk.query, m)
                        /\ Reached(walk.query, walk.pages, kept, m)
  BY <1>1 DEF WalkOK
<1>3. walk.cursor.list = walk.query.list
  BY <1>1, <1>2, KeyIsEnough DEF Reached
<1>4. CASE Get(walk.query, walk.cursor, walk.pages) /\ UNCHANGED history
  <2>1. /\ walk' \in Walk /\ walk'.query = walk.query /\ walk'.cursor = walk.cursor
        /\ walk'.pages = walk.pages
        /\ \/ walk.query.list # "telemetry" /\ walk'.stage = "reading"
           \/ walk.query.list = "telemetry" /\ walk'.stage = "checking"
    BY <1>1, <1>4, WalkAsked
  <2>2. WalkOK(walk', table, kept, ever)
    BY <1>1, <2>1 DEF WalkOK
  <2>3. UNCHANGED <<now, table, receivedAt, kept, ever, worker>>
    BY <1>1, <1>4 DEF database, history
  <2> QED BY <1>1, <2>1, <2>2, <2>3 DEF IInv, TypeInv
<1>5. CASE /\ \E q \in Queries : q.list # walk.query.list /\ Get(q, walk.cursor, <<>>)
           /\ kept' = table /\ ever' = table
  BY <1>1, <1>3, <1>5, WalkBegun
<1> QED BY <1>4, <1>5 DEF AskNext

\* ListRobotTelemetry's first statement.  A walk that has begun passes it again: robots
\* are not deleted.
LEMMA CheckKeeps == IInv /\ CheckRobot => IInv'
<1> SUFFICES ASSUME IInv, CheckRobot PROVE IInv'
  OBVIOUS
<1>1. /\ walk.stage = "checking" /\ walk \in Walk /\ walk.query \in Queries
      /\ WalkOK(walk, table, kept, ever) /\ UNCHANGED <<now, database, history, worker>>
  BY DEF CheckRobot, IInv, TypeInv
<1>2. Exists(walk.query.of) <=> Known(table, walk.query.of)
  BY DEF Exists, Known
<1>3. walk.pages # <<>> => Exists(walk.query.of) /\ walk.query.from <= walk.query.to
  BY <1>1, <1>2 DEF WalkOK
<1>4. walk.query.from \in Int /\ walk.query.to \in Int
  BY <1>1, ReadSideAssumption DEF Query
<1>5. CASE ~Exists(walk.query.of) /\ Refuse("ROBOT_NOT_FOUND")
  BY <1>1, <1>3, <1>5, WalkRefused DEF Codes
<1>6. CASE walk.query.from > walk.query.to /\ Refuse("INVALID_TIME_RANGE")
  <2>1. walk.pages = <<>>
    BY <1>3, <1>4, <1>6
  <2> QED BY <1>1, <1>6, <2>1, WalkRefused DEF Codes
<1>7. CASE /\ Exists(walk.query.of) /\ walk.query.from <= walk.query.to
           /\ walk' = [walk EXCEPT !.stage = "reading"]
  <2>1. /\ walk' \in Walk /\ walk'.stage = "reading" /\ walk'.query = walk.query
        /\ walk'.cursor = walk.cursor /\ walk'.pages = walk.pages
    BY <1>1, <1>7 DEF Walk, Stages
  <2>2. WalkOK(walk', table, kept, ever)
    BY <1>1, <1>2, <1>7, <2>1 DEF WalkOK
  <2>3. UNCHANGED <<now, table, receivedAt, kept, ever, worker>>
    BY <1>1 DEF database, history
  <2> QED BY <1>1, <2>1, <2>2, <2>3 DEF IInv, TypeInv
<1> QED BY <1>5, <1>6, <1>7 DEF CheckRobot

\* A row is committed, late timestamps included, whenever its request came in.
LEMMA InsertKeeps == ASSUME IInv, NEW row \in Rows, Insert(row) PROVE IInv'
<1>1. /\ table' = table \cup {row} /\ ever' = ever \cup {row} /\ kept' = kept
      /\ now' = now /\ walk' = walk /\ worker' = worker
      /\ \E t \in 0..now : receivedAt' = [receivedAt EXCEPT ![row] = t]
  BY DEF Insert
<1>2. WalkOK(walk, table \cup {row}, kept, ever \cup {row})
  BY WalkSurvivesInsert DEF IInv
<1>3. receivedAt' \in [Rows -> Nat \cup {None}]
  BY <1>1 DEF IInv, TypeInv
<1> QED BY <1>1, <1>2, <1>3 DEF IInv, TypeInv

\* The loop of the retention worker.
LEMMA WorkerTyped ==
  ASSUME worker \in Loop, now \in Nat, worker' = worker \/ Worker \/ RequestStop
  PROVE  worker' \in Loop
<1> DEFINE at == {"cycle", "sleeping", "exited"} \cup Deletes
<1>1. ASSUME NEW a \in at PROVE [worker EXCEPT !.at = a] \in Loop
  BY DEF Loop
<1>2. [worker EXCEPT !.at = "telemetry", !.began = now] \in Loop
  BY DEF Loop, Deletes
<1>3. [worker EXCEPT !.stopping = TRUE] \in Loop
  BY DEF Loop
<1>4. Pause \in Loop
  BY <1>1 DEF Pause
<1>5. /\ [worker EXCEPT !.at = "processed"] \in Loop /\ [worker EXCEPT !.at = "outbox"] \in Loop
      /\ [worker EXCEPT !.at = "exited"] \in Loop /\ [worker EXCEPT !.at = "cycle"] \in Loop
  BY <1>1 DEF Deletes
<1>6. ASSUME NEW t \in Deletes, DeleteExpired(t) PROVE worker' \in Loop
  BY <1>4, <1>5, <1>6 DEF DeleteExpired, Deletes
<1>7. CASE BeginCycle
  BY <1>2, <1>5, <1>7 DEF BeginCycle
<1>8. CASE DeleteFails
  BY <1>4, <1>8 DEF DeleteFails
<1>9. CASE WakeUp
  BY <1>5, <1>9 DEF WakeUp
<1>10. CASE RequestStop
  BY <1>3, <1>10 DEF RequestStop
<1> QED BY <1>6, <1>7, <1>8, <1>9, <1>10 DEF Worker

\* Steps that neither the walk nor the tables notice.
LEMMA OthersKeep ==
  ASSUME IInv, UNCHANGED <<table, receivedAt, walk, kept, ever>>, now' \in Nat, worker' \in Loop
  PROVE  IInv'
BY DEF IInv, TypeInv

\* Retention deletes rows under the walk.
LEMMA DeleteKeeps == ASSUME IInv, NEW t \in Deletes, DeleteExpired(t) PROVE IInv'
<1> DEFINE gone == IF t = "telemetry" THEN {row \in table : Expired(row, worker.began)} ELSE {}
<1>1. /\ table' = table \ gone /\ kept' = kept \ gone
      /\ now' = now /\ receivedAt' = receivedAt /\ walk' = walk /\ ever' = ever
  BY DEF DeleteExpired
<1>2. \A row \in gone : row.list # "robots"
  BY DEF Expired
<1>3. worker' \in Loop
  BY WorkerTyped DEF IInv, TypeInv, Worker
<1> HIDE DEF gone
<1>4. WalkOK(walk, table \ gone, kept \ gone, ever)
  BY <1>2, WalkSurvivesDelete DEF IInv
<1> QED BY <1>1, <1>3, <1>4 DEF IInv, TypeInv

\* Every step keeps the invariant.
LEMMA NextIInv == IInv /\ [Next]_vars => IInv'
<1> SUFFICES ASSUME IInv, [Next]_vars PROVE IInv'
  OBVIOUS
<1>1. now \in Nat /\ worker \in Loop
  BY DEF IInv, TypeInv
<1>2. CASE UNCHANGED vars
  BY <1>1, <1>2, OthersKeep DEF vars, database, history
<1>3. CASE Tick
  <2>1. now' = now + 1 /\ UNCHANGED <<table, receivedAt, walk, kept, ever, worker>>
    BY <1>3 DEF Tick, database, history
  <2> QED BY <1>1, <2>1, OthersKeep
<1>4. CASE BeginCycle \/ DeleteFails \/ WakeUp \/ RequestStop
  <2>1. now' = now /\ UNCHANGED <<table, receivedAt, walk, kept, ever>>
    BY <1>4 DEF BeginCycle, DeleteFails, WakeUp, RequestStop, database, history
  <2>2. worker' \in Loop
    BY <1>1, <1>4, WorkerTyped DEF Worker
  <2> QED BY <1>1, <2>1, <2>2, OthersKeep
<1> QED
  BY <1>2, <1>3, <1>4, AskKeeps, AskNextKeeps, RobotsListed, AlertsListed, CheckKeeps,
     TelemetryListed, InsertKeeps, DeleteKeeps DEF Next, Worker

\* The inductive invariant
THEOREM Inductive == Spec => []IInv
BY InitIInv, NextIInv, PTL DEF Spec

-----------------------------------------------------------------------------
(* What it implies *)

\* findByRobotId, list and findAll: a walk misses no row that stays and lists none twice.
THEOREM WalksAreComplete == Spec => []WalkIsComplete
<1>1. IInv => WalkIsComplete
  <2> SUFFICES ASSUME IInv PROVE WalkIsComplete
    OBVIOUS
  <2>1. WalkOK(walk, table, kept, ever) /\ Listed = ListedIn(walk.pages)
    BY DEF IInv, Listed, ListedIn
  <2>2. CASE walk.stage = "idle"
    <3>1. walk.pages = <<>> /\ Listed = {}
      BY <2>1, <2>2 DEF WalkOK, ListedIn
    <3> QED BY <2>2, <3>1 DEF WalkIsComplete
  <2>3. CASE walk.stage # "idle"
    <3>1. Paged(walk.query, walk.pages, ever)
      BY <2>1, <2>3 DEF WalkOK
    <3>2. walk.stage = "done" => \A row \in kept : Wanted(walk.query, row) => row \in Listed
      BY <2>1, <2>3 DEF WalkOK, Owed
    <3>3. walk.stage = "refused" => walk.pages = <<>>
      BY <2>1, <2>3 DEF WalkOK
    <3> QED BY <2>1, <3>1, <3>2, <3>3 DEF WalkIsComplete, Paged
  <2> QED BY <2>2, <2>3
<1> QED BY <1>1, Inductive, PTL

=============================================================================
