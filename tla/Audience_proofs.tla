--------------------------- MODULE Audience_proofs ---------------------------
(***************************************************************************)
(* Proofs about the feed of captures and the reports on them, for any      *)
(* number of captures, ticks of a millisecond, rows of a batch, responses  *)
(* and edits: nothing that was there all along is left out.  And about     *)
(* votes, pages and the questions of versions, for any number of clients   *)
(* and rows: they stay consistent unless two requests met.  At the end all *)
(* parts together: types, bounds, and no row without its owner.            *)
(***************************************************************************)
EXTENDS FormManagement_proofs, Sequences, WellFoundedInduction

-----------------------------------------------------------------------------
(* Sets of numbers *)

LEMMA GreatestExists ==
  ASSUME NEW n \in Nat, NEW S \in SUBSET (1..n), S # {}
  PROVE  \E c \in S : \A d \in S : d <= c
<1> DEFINE T == {n - c : c \in S}
<1>1. T \subseteq Nat /\ T # {}
  <2>1. \A c \in S : n - c \in Nat
    OBVIOUS
  <2>2. PICK c \in S : TRUE
    OBVIOUS
  <2>3. n - c \in T
    OBVIOUS
  <2> QED BY <2>1, <2>3
<1>2. PICK x \in T : \A y \in T : ~(<<y, x>> \in OpToRel(<, Nat))
  BY <1>1, NatLessThanWellFounded, WFMin, Zenon
<1>3. \A y \in T : ~(y < x)
  BY <1>1, <1>2, Zenon DEF OpToRel
<1>4. PICK c \in S : x = n - c
  OBVIOUS
<1>5. ASSUME NEW d \in S PROVE d <= c
  <2>1. n - d \in T
    OBVIOUS
  <2>2. ~(n - d < n - c)
    BY <1>3, <1>4, <2>1
  <2> QED BY <2>2
<1> QED BY <1>5

LEMMA LeastExists ==
  ASSUME NEW n \in Nat, NEW S \in SUBSET (1..n), S # {}
  PROVE  \E c \in S : \A d \in S : c <= d
<1>1. S \subseteq Nat
  OBVIOUS
<1>2. PICK x \in S : \A y \in S : ~(<<y, x>> \in OpToRel(<, Nat))
  BY <1>1, NatLessThanWellFounded, WFMin, Zenon
<1>3. \A y \in S : ~(y < x)
  BY <1>1, <1>2, Zenon DEF OpToRel
<1> QED BY <1>1, <1>3

LEMMA Counted ==
  ASSUME NEW n \in Nat, NEW S \in SUBSET (1..n)
  PROVE  IsFiniteSet(S) /\ Cardinality(S) \in Nat
<1>1. IsFiniteSet(1..n)
  BY FS_Interval
<1>2. IsFiniteSet(S)
  BY <1>1, FS_Subset
<1> QED BY <1>2, FS_CardinalityType

LEMMA FewerInPart ==
  ASSUME NEW n \in Nat, NEW S \in SUBSET (1..n), NEW T \in SUBSET S
  PROVE  Cardinality(T) <= Cardinality(S)
BY Counted, FS_Subset

-----------------------------------------------------------------------------
(* The feed: the inductive invariant *)

FeedTyped ==
  /\ tick \in Nat
  /\ capture \in [Feed!Ids -> [at : Nat, state : {"none", "open", "stored"}]]
  /\ given \in [Feed!Ids -> Nat]
  /\ cursor \in [milli : Nat, id : Nat]
  /\ late \subseteq Feed!Ids

\* The order of rows, by a table C of captures.
Prior(i, j, C) == C[i].at < C[j].at \/ (C[i].at = C[j].at /\ i < j)
Beyond(i, c, C) ==
  C[i].at > c.milli * PerMilli \/ (C[i].at = c.milli * PerMilli /\ i > c.id)

\* The cursor is at the beginning, or at or before the capture given last.
AtLast(c, C, G) ==
  \/ c = Feed!Beginning
  \/ /\ c.id \in Feed!Ids /\ G[c.id] > 0
     /\ c.milli * PerMilli <= C[c.id].at
GivenStored(G, C) == \A i \in Feed!Ids : G[i] > 0 => C[i].state = "stored"
NoneSkipped(c, C, G, L) ==
  \A i \in Feed!Ids : C[i].state = "stored" => Beyond(i, c, C) \/ G[i] > 0 \/ i \in L

FeedInv ==
  /\ FeedTyped
  /\ AtLast(cursor, capture, given)
  /\ GivenStored(given, capture)
  /\ NoneSkipped(cursor, capture, given, late)

-----------------------------------------------------------------------------
(* The feed: the steps *)

LEMMA FeedFacts ==
  /\ PerMilli \in Nat /\ PerMilli # 0 /\ MaxCapture \in Nat
  /\ Feed!Ids = 1..MaxCapture /\ Feed!Ids \subseteq Nat
BY ReaderConstants DEF Feed!Ids

LEMMA FeedBegins == Feed!Init => FeedInv
<1> SUFFICES ASSUME Feed!Init PROVE FeedInv
  OBVIOUS
<1>1. FeedTyped
  BY DEF Feed!Init, FeedTyped, Feed!None, Feed!Beginning
<1>2. AtLast(cursor, capture, given) /\ GivenStored(given, capture)
  BY DEF Feed!Init, AtLast, GivenStored
<1>3. NoneSkipped(cursor, capture, given, late)
  BY DEF Feed!Init, NoneSkipped, Feed!None
<1> QED BY <1>1, <1>2, <1>3 DEF FeedInv

LEMMA BeginCaptureKeeps ==
  ASSUME FeedInv, NEW i \in Feed!Ids, Feed!BeginCapture(i)
  PROVE  FeedInv'
<1> DEFINE row == [at |-> tick, state |-> "open"]
<1>1. /\ capture[i] = Feed!None /\ capture' = [capture EXCEPT ![i] = row]
      /\ UNCHANGED <<tick, cursor, given, late>>
  BY DEF Feed!BeginCapture
<1>2. row \in [at : Nat, state : {"none", "open", "stored"}]
  BY DEF FeedInv, FeedTyped
<1>3. row.state # "stored"
  OBVIOUS
<1> HIDE DEF row
<1>4. FeedTyped'
  BY <1>1, <1>2 DEF FeedInv, FeedTyped
<1>5. capture'[i] = row /\ \A j \in Feed!Ids \ {i} : capture'[j] = capture[j]
  BY <1>1 DEF FeedInv, FeedTyped
<1>6. ~(given[i] > 0)
  BY <1>1 DEF FeedInv, GivenStored, Feed!None
<1>7. GivenStored(given, capture')
  BY <1>5, <1>6 DEF FeedInv, GivenStored
<1>8. AtLast(cursor, capture', given)
  BY <1>5, <1>6 DEF FeedInv, AtLast
<1>9. NoneSkipped(cursor, capture', given, late)
  BY <1>3, <1>5 DEF FeedInv, NoneSkipped, Beyond
<1> QED BY <1>1, <1>4, <1>7, <1>8, <1>9 DEF FeedInv

LEMMA CommitCaptureKeeps ==
  ASSUME FeedInv, NEW i \in Feed!Ids, Feed!CommitCapture(i)
  PROVE  FeedInv'
<1> USE FeedFacts
<1>1. /\ capture[i].state = "open" /\ capture' = [capture EXCEPT ![i].state = "stored"]
      /\ UNCHANGED <<tick, cursor, given>>
      /\ late' = IF \E j \in Feed!Ids : given[j] > 0 /\ Feed!Before(i, j) THEN late \cup {i}
                 ELSE late
  BY DEF Feed!CommitCapture
<1>2. FeedTyped'
  BY <1>1 DEF FeedInv, FeedTyped
<1>3. /\ capture'[i].at = capture[i].at /\ capture'[i].state = "stored"
      /\ \A j \in Feed!Ids \ {i} : capture'[j] = capture[j]
  BY <1>1 DEF FeedInv, FeedTyped
<1>4. \A j \in Feed!Ids : capture'[j].at = capture[j].at
  BY <1>3
<1>5. GivenStored(given, capture')
  BY <1>3 DEF FeedInv, GivenStored
<1>6. AtLast(cursor, capture', given)
  BY <1>4 DEF FeedInv, AtLast
<1>7. ~(given[i] > 0)
  BY <1>1 DEF FeedInv, GivenStored
<1>8. Beyond(i, cursor, capture) \/ i \in late'
  <2> SUFFICES ASSUME ~Beyond(i, cursor, capture) PROVE i \in late'
    OBVIOUS
  <2>1. capture[i].at \in Nat /\ cursor.milli \in Nat /\ cursor.id \in Nat
    BY DEF FeedInv, FeedTyped
  <2>2. cursor.milli * PerMilli \in Nat
    BY <2>1
  <2> DEFINE m == cursor.milli * PerMilli
  <2>3. capture[i].at <= m /\ (capture[i].at = m => i <= cursor.id)
    BY <2>1, <2>2 DEF Beyond
  <2>4. cursor # Feed!Beginning
    <3> SUFFICES ASSUME cursor = Feed!Beginning PROVE FALSE
      OBVIOUS
    <3>1. cursor.id = 0 /\ cursor.milli = 0
      BY DEF Feed!Beginning
    <3>2. m = 0
      BY <3>1
    <3> QED BY <2>1, <2>3, <3>1, <3>2
  <2>5. cursor.id \in Feed!Ids /\ given[cursor.id] > 0 /\ m <= capture[cursor.id].at
    BY <2>4 DEF FeedInv, AtLast
  <2>6. i # cursor.id /\ capture[cursor.id].at \in Nat
    BY <1>7, <2>5 DEF FeedInv, FeedTyped
  <2> HIDE DEF m
  <2>7. Feed!Before(i, cursor.id)
    BY <2>1, <2>2, <2>3, <2>5, <2>6 DEF Feed!Before, m
  <2> QED BY <1>1, <2>5, <2>7
<1>9. late \subseteq late'
  BY <1>1
<1>10. NoneSkipped(cursor, capture', given, late')
  <2> SUFFICES ASSUME NEW j \in Feed!Ids, capture'[j].state = "stored"
               PROVE  Beyond(j, cursor, capture') \/ given[j] > 0 \/ j \in late'
    BY DEF NoneSkipped
  <2>1. Beyond(j, cursor, capture) => Beyond(j, cursor, capture')
    BY <1>4 DEF Beyond
  <2>2. CASE j = i
    BY <1>8, <2>1, <2>2
  <2>3. CASE j # i
    BY <1>3, <1>9, <2>1, <2>3 DEF FeedInv, NoneSkipped
  <2> QED BY <2>2, <2>3
<1> QED BY <1>1, <1>2, <1>5, <1>6, <1>10 DEF FeedInv

LEMMA RowsOrdered ==
  ASSUME FeedTyped, NEW i \in Feed!Ids, NEW j \in Feed!Ids, NEW k \in Feed!Ids
  PROVE  /\ Feed!Before(i, j) \/ i = j \/ Feed!Before(j, i)
         /\ ~Feed!Before(i, i)
         /\ Feed!Before(i, j) /\ Feed!Before(j, k) => Feed!Before(i, k)
<1>1. /\ i \in Nat /\ j \in Nat /\ k \in Nat
      /\ capture[i].at \in Nat /\ capture[j].at \in Nat /\ capture[k].at \in Nat
  BY FeedFacts DEF FeedTyped
<1> QED BY <1>1 DEF Feed!Before

LEMMA IdsCounted ==
  ASSUME NEW S \in SUBSET Feed!Ids
  PROVE  /\ Feed!Cardinality(S) = Cardinality(S)
         /\ IsFiniteSet(S) /\ Cardinality(S) \in Nat
         /\ \A T \in SUBSET S : Cardinality(T) <= Cardinality(S)
<1>1. Feed!Cardinality(S) = Cardinality(S)
  BY DEF Feed!Cardinality, Cardinality
<1>2. S \in SUBSET (1..MaxCapture) /\ MaxCapture \in Nat
  BY FeedFacts
<1> QED BY <1>1, <1>2, Counted, FewerInPart

\* Of some rows one is last.
LEMMA LastExists ==
  ASSUME FeedTyped, NEW S \in SUBSET Feed!Ids, S # {}
  PROVE  \E i \in S : \A j \in S \ {i} : Feed!Before(j, i)
<1> DEFINE P(i) == {j \in S : Feed!Before(j, i)}
           n == Cardinality(S) + 1
           R == {Cardinality(P(i)) + 1 : i \in S}
<1>1. Cardinality(S) \in Nat
  BY IdsCounted
<1>2. ASSUME NEW i \in S
      PROVE  /\ IsFiniteSet(P(i)) /\ Cardinality(P(i)) \in Nat
             /\ Cardinality(P(i)) <= Cardinality(S)
             /\ i \notin P(i) /\ i \in Feed!Ids
  <2>1. P(i) \in SUBSET S /\ P(i) \in SUBSET Feed!Ids /\ i \in Feed!Ids
    OBVIOUS
  <2>2. i \notin P(i)
    BY <2>1, RowsOrdered
  <2> HIDE DEF P
  <2> QED BY <2>1, <2>2, IdsCounted
<1>3. R \in SUBSET (1..n) /\ R # {} /\ n \in Nat
  <2>1. ASSUME NEW i \in S PROVE Cardinality(P(i)) + 1 \in 1..n
    <3> DEFINE q == Cardinality(P(i))
    <3>1. q \in Nat /\ q <= Cardinality(S)
      BY <1>2
    <3> HIDE DEF q
    <3>2. q + 1 \in 1..n
      BY <1>1, <3>1
    <3> QED BY <3>2 DEF q
  <2> HIDE DEF P, n
  <2>2. R \in SUBSET (1..n) /\ R # {}
    BY <2>1
  <2> QED BY <1>1, <2>2 DEF n
<1>4. PICK m \in R : \A r \in R : r <= m
  BY <1>3, GreatestExists
<1>5. PICK i \in S : m = Cardinality(P(i)) + 1
  OBVIOUS
<1>6. ASSUME NEW j \in S \ {i} PROVE Feed!Before(j, i)
  <2> SUFFICES ASSUME ~Feed!Before(j, i) PROVE FALSE
    OBVIOUS
  <2>1. Feed!Before(i, j)
    BY <1>2, RowsOrdered
  <2>2. P(i) \cup {i} \subseteq P(j)
    BY <1>2, <2>1, RowsOrdered
  <2>3. Cardinality(P(i) \cup {i}) = Cardinality(P(i)) + 1
    BY <1>2, FS_AddElement
  <2>4. P(j) \in SUBSET Feed!Ids
    OBVIOUS
  <2>5. Cardinality(P(j)) + 1 \in R
    OBVIOUS
  <2> HIDE DEF P, R
  <2>6. Cardinality(P(i)) + 1 <= Cardinality(P(j))
    BY <2>2, <2>3, <2>4, IdsCounted
  <2> QED BY <1>2, <1>4, <1>5, <2>5, <2>6
<1> QED BY <1>6

\* A row that is to come and not on the page comes after those on the page.
LEMMA PageComesFirst ==
  ASSUME FeedTyped, NEW limit \in Nat, NEW i \in Feed!Ids, capture[i].state = "stored",
         Feed!After(i, cursor), i \notin Feed!PageRows(limit), NEW p \in Feed!PageRows(limit)
  PROVE  Feed!Before(p, i)
<1> DEFINE later == {j \in Feed!Ids : capture[j].state = "stored" /\ Feed!After(j, cursor)}
           rows == Feed!Rows(limit)
<1>1. rows = {j \in later : Feed!Cardinality({k \in later : Feed!Before(k, j)}) <= limit}
  BY DEF Feed!Rows
<1>2. Feed!PageRows(limit) =
        {j \in rows : Feed!Cardinality({k \in rows : Feed!Before(k, j)}) < limit}
  BY DEF Feed!PageRows
<1>3. i \in later /\ later \in SUBSET Feed!Ids
  OBVIOUS
<1> HIDE DEF later, rows
<1>4. rows \in SUBSET later /\ p \in rows /\ p \in later /\ p \in Feed!Ids
  BY <1>1, <1>2, <1>3
<1> SUFFICES ASSUME Feed!Before(i, p) PROVE FALSE
  BY <1>2, <1>3, <1>4, RowsOrdered
<1>5. ASSUME NEW S \in SUBSET Feed!Ids
      PROVE  Feed!Cardinality({k \in S : Feed!Before(k, i)})
               <= Feed!Cardinality({k \in S : Feed!Before(k, p)})
  <2> DEFINE A == {k \in S : Feed!Before(k, i)}
             B == {k \in S : Feed!Before(k, p)}
  <2>1. A \in SUBSET B
    BY <1>4, RowsOrdered
  <2>2. A \in SUBSET Feed!Ids /\ B \in SUBSET Feed!Ids
    OBVIOUS
  <2> HIDE DEF A, B
  <2>3. Feed!Cardinality(A) <= Feed!Cardinality(B)
    BY <2>1, <2>2, IdsCounted
  <2> QED BY <2>3 DEF A, B
<1>6. ASSUME NEW S \in SUBSET Feed!Ids, NEW j
      PROVE  Feed!Cardinality({k \in S : Feed!Before(k, j)}) \in Nat
  <2>1. {k \in S : Feed!Before(k, j)} \in SUBSET Feed!Ids
    OBVIOUS
  <2> QED BY <2>1, IdsCounted
<1>7. Feed!Cardinality({k \in later : Feed!Before(k, i)}) <= limit
  <2> DEFINE a == Feed!Cardinality({k \in later : Feed!Before(k, i)})
             b == Feed!Cardinality({k \in later : Feed!Before(k, p)})
  <2>1. b <= limit
    BY <1>1, <1>4
  <2>2. a <= b
    BY <1>3, <1>5
  <2>3. a \in Nat /\ b \in Nat
    BY <1>3, <1>6
  <2> HIDE DEF a, b
  <2>4. a <= limit
    BY <2>1, <2>2, <2>3
  <2> QED BY <2>4 DEF a
<1>8. i \in rows
  BY <1>1, <1>3, <1>7
<1>9. Feed!Cardinality({k \in rows : Feed!Before(k, i)}) < limit
  <2> DEFINE a == Feed!Cardinality({k \in rows : Feed!Before(k, i)})
             b == Feed!Cardinality({k \in rows : Feed!Before(k, p)})
  <2>1. b < limit
    BY <1>2
  <2>2. rows \in SUBSET Feed!Ids
    BY <1>3, <1>4
  <2>3. a <= b
    BY <1>5, <2>2
  <2>4. a \in Nat /\ b \in Nat
    BY <1>6, <2>2
  <2> HIDE DEF a, b
  <2>5. a < limit
    BY <2>1, <2>3, <2>4
  <2> QED BY <2>5 DEF a
<1> QED BY <1>2, <1>8, <1>9

\* A millisecond begins at or before a tick in it.
LEMMA Truncated ==
  ASSUME NEW at \in Nat
  PROVE  Feed!Milli(at) \in Nat /\ Feed!Milli(at) * PerMilli <= at
BY FeedFacts DEF Feed!Milli

LEMMA ListCapturesKeeps ==
  ASSUME FeedInv, NEW limit \in Nat, Feed!ListCapturesForSync(limit)
  PROVE  FeedInv'
<1> DEFINE batch == Feed!PageRows(limit)
           last == Feed!LastRow(limit)
           c == [milli |-> Feed!Milli(capture[last].at), id |-> last]
           g == [i \in Feed!Ids |-> IF i \in batch THEN given[i] + 1 ELSE given[i]]
<1>1. /\ batch # {} /\ given' = g /\ cursor' = c
      /\ UNCHANGED <<tick, capture, late>>
  BY DEF Feed!ListCapturesForSync
<1>2. \A i \in batch : i \in Feed!Ids /\ capture[i].state = "stored"
  BY DEF Feed!PageRows, Feed!Rows
<1>3. FeedTyped
  BY DEF FeedInv
<1>4. last \in batch /\ \A j \in batch \ {last} : Feed!Before(j, last)
  <2>1. batch \in SUBSET Feed!Ids
    BY <1>2
  <2>2. last = CHOOSE i \in batch : \A j \in batch \ {i} : Feed!Before(j, i)
    BY DEF Feed!LastRow
  <2> HIDE DEF batch, last
  <2>3. \E i \in batch : \A j \in batch \ {i} : Feed!Before(j, i)
    BY <1>1, <1>3, <2>1, LastExists
  <2> QED BY <2>2, <2>3, Zenon
<1>5. \A i \in Feed!Ids : capture[i].state = "stored" /\ Feed!After(i, cursor) /\ i \notin batch
        => Feed!Before(last, i)
  BY <1>3, <1>4, PageComesFirst
<1> HIDE DEF batch, last
<1>6. last \in Feed!Ids /\ last \in Nat /\ capture[last].at \in Nat
      /\ capture[last].state = "stored"
  BY <1>2, <1>3, <1>4, FeedFacts DEF FeedTyped
<1>7. c.id = last /\ c.milli \in Nat /\ c.milli * PerMilli \in Nat
      /\ c.milli * PerMilli <= capture[last].at
  BY <1>6, Truncated, FeedFacts
<1>8. g \in [Feed!Ids -> Nat] /\ c \in [milli : Nat, id : Nat]
  BY <1>3, <1>6, <1>7 DEF FeedTyped
<1>9. \A i \in Feed!Ids : (g[i] > 0 => given[i] > 0 \/ i \in batch) /\ (given[i] > 0 => g[i] > 0)
        /\ (i \in batch => g[i] > 0)
  BY <1>3 DEF FeedTyped
<1> HIDE DEF c, g
<1>10. FeedTyped'
  BY <1>1, <1>3, <1>8 DEF FeedTyped
<1>11. AtLast(c, capture, g)
  BY <1>4, <1>6, <1>7, <1>9 DEF AtLast
<1>12. GivenStored(g, capture)
  BY <1>2, <1>9 DEF FeedInv, GivenStored
<1>13. NoneSkipped(c, capture, g, late)
  <2> SUFFICES ASSUME NEW i \in Feed!Ids, capture[i].state = "stored"
               PROVE  Beyond(i, c, capture) \/ g[i] > 0 \/ i \in late
    BY DEF NoneSkipped
  <2>1. CASE given[i] > 0 \/ i \in late \/ i \in batch
    BY <1>9, <2>1
  <2>2. CASE Beyond(i, cursor, capture) /\ i \notin batch
    <3>1. Feed!After(i, cursor)
      BY <2>2 DEF Beyond, Feed!After
    <3>2. Feed!Before(last, i)
      BY <1>5, <2>2, <3>1
    <3>3. capture[i].at \in Nat /\ i \in Nat
      BY <1>3, FeedFacts DEF FeedTyped
    <3> QED BY <1>6, <1>7, <3>2, <3>3 DEF Beyond, Feed!Before
  <2> QED BY <2>1, <2>2 DEF FeedInv, NoneSkipped
<1> QED BY <1>1, <1>10, <1>11, <1>12, <1>13 DEF FeedInv

LEMMA FeedKept == (part = "feed" => FeedInv) /\ [Next]_vars => (part' = "feed" => FeedInv')
<1> SUFFICES ASSUME part = "feed", FeedInv, [Next]_vars PROVE FeedInv'
  BY DEF Next, Step, vars
<1>1. CASE Feed!Next
  <2>1. CASE Feed!Tick
    BY <2>1 DEF Feed!Tick, FeedInv, FeedTyped
  <2>2. CASE \E i \in Feed!Ids : Feed!BeginCapture(i) \/ Feed!CommitCapture(i)
    BY <2>2, BeginCaptureKeeps, CommitCaptureKeeps
  <2>3. CASE \E limit \in 1..MaxLimit : Feed!ListCapturesForSync(limit)
    <3>1. PICK limit \in 1..MaxLimit : Feed!ListCapturesForSync(limit)
      BY <2>3
    <3> QED BY <3>1, ListCapturesKeeps
  <2> QED BY <1>1, <2>1, <2>2, <2>3 DEF Feed!Next
<1>2. CASE UNCHANGED feedVars
  BY <1>2 DEF feedVars, FeedInv, FeedTyped
<1> QED BY <1>1, <1>2 DEF Next, Step, vars

LEMMA FeedHolds == FeedInv => Feed!FeedSkipsNothing
BY DEF FeedInv, NoneSkipped, Beyond, Feed!FeedSkipsNothing, Feed!After

-----------------------------------------------------------------------------
(* The reports: the inductive invariant *)

\* Captures that a filter lets through, of a table C.
Listed(C, filter) ==
  {i \in Reports!Captures : C[i].state = "stored" /\ Reports!Meets(C[i], filter)}

\* An answer that may be missing, by texts L and the questions U that came late.
Clashing(q, L) == \E p \in Reports!Questions : (p[1] = q[1]) # (L[p] = L[q])
Excused(q, L, U) == Clashing(q, L) \/ q \in U

\* A row told, by responses R, and captures O answered again.
RowRight(row, R, L, U, O) ==
  /\ row.answered \in 0..Len(R)
  /\ row.scored = row.answered \/ row.capture \in O
  /\ row.answered # 0 =>
       \A q \in R[row.answered].questions : q \in row.shown \/ Excused(q, L, U)
RowsRight(T, R, L, U, O) == \A k \in 1..Len(T) : RowRight(T[k], R, L, U, O)

ToldOf(T) == {T[k].capture : k \in 1..Len(T)}
Descends(T) == \A j, k \in 1..Len(T) : j < k => T[j].capture > T[k].capture

\* The latest response N[i] of a capture has questions that are among the headers.
Headed(i, R, N, L, H, U) ==
  N[i] # 0 => \A q \in R[N[i]].questions : L[q] \in H \/ Excused(q, L, U)
LatestStored(N, C) ==
  \A i \in Reports!Captures : N[i] # 0 => C[i].state = "stored" /\ C[i].version

\* A file: what has been written, what was read, and what comes yet.
FileHeaded(rd, R, N, L, U) ==
  \A i \in Reports!Captures :
    rd.filter # "unanswered" \/ i \in rd.rows => Headed(i, R, N, L, rd.headers, U)
FileOrdered(rd, T) ==
  /\ \A k \in 1..Len(T) : T[k].capture >= rd.cursor
  /\ \A i \in rd.rows : i < rd.cursor
FileCovers(rd, T, K) ==
  /\ rd.at = "rows" => \A c \in K : c \in ToldOf(T) \/ c < rd.cursor
  /\ rd.at = "quiz" =>
       /\ rd.rows # {}
       /\ \A c \in K : \/ c \in ToldOf(T) \/ c \in rd.rows
                       \/ Cardinality(rd.rows) >= BatchSize /\ \A i \in rd.rows : c < i

\* Pages: a capture not told of comes after as many as were on the pages.
Later(C, filter, c) == {j \in Listed(C, filter) : j > c}
PagesRead(rd) == IF rd.at = "rows" THEN rd.page ELSE rd.page - 1
PagesCover(rd, T, K, C) ==
  /\ \A c \in K : \/ c \in ToldOf(T)
                  \/ Cardinality(Later(C, rd.filter, c)) >= PagesRead(rd) * BatchSize
  /\ rd.at = "total" => rd.total = Cardinality(Listed(C, rd.filter))

Covers(rd, T, K, C, shook) ==
  /\ rd.kind = "file" /\ rd.at # "done" => FileCovers(rd, T, K)
  /\ rd.kind = "whole" /\ rd.at # "done" => K \subseteq rd.rows
  /\ rd.kind = "pages" /\ rd.at # "done" => shook \/ PagesCover(rd, T, K, C)
  /\ rd.at = "done" /\ rd.kind # "feed" => K \subseteq ToldOf(T) \/ shook
Ordered(rd, T) ==
  /\ rd.kind # "pages" => Descends(T)
  /\ rd.kind \in {"none", "whole", "feed"} /\ rd.at # "done" => T = <<>>
  /\ rd.kind = "file" /\ rd.at # "done" => FileOrdered(rd, T)

\* What the feed read beside the answers.
FeedScored(rd, N, O) ==
  rd.kind = "feed" /\ rd.at = "answers" =>
    \A i \in rd.rows : rd.scored[i] = N[i] \/ i \in O

Phase ==
  [none |-> {"idle"}, file |-> {"rows", "quiz", "done"}, whole |-> {"quiz", "done"},
   feed |-> {"quiz", "answers", "done"}, pages |-> {"page", "rows", "total", "done"}]
ReportRow == [capture : Reports!Captures, scored : Nat, answered : Nat,
              shown : SUBSET Reports!Questions]
Response == [capture : Reports!Captures, questions : SUBSET Reports!Questions]

CaptureRow == [state : {"none", "open", "stored"}, version : BOOLEAN, contact : BOOLEAN]
TablesTyped ==
  /\ reported \in [Reports!Captures -> CaptureRow]
  /\ response \in Seq(Response)
  /\ latest \in [Reports!Captures -> 0..Len(response)]
  /\ label \in [Reports!Questions -> Keys]
ReaderRow ==
  [kind : {"none", "file", "whole", "feed", "pages"}, filter : Reports!Filters,
   at : {"idle", "rows", "quiz", "answers", "page", "total", "done"},
   headers : SUBSET Keys, rows : SUBSET Reports!Captures, cursor : Nat,
   scored : [Reports!Captures -> Nat], page : Nat \ {0}, total : Nat]
ReaderTyped ==
  /\ reader \in ReaderRow /\ reader.at \in Phase[reader.kind]
  /\ report \in Seq(ReportRow)

ReportsInv ==
  /\ TablesTyped /\ ReaderTyped
  /\ LatestStored(latest, reported)
  /\ constant \subseteq Listed(reported, reader.filter)
  /\ RowsRight(report, response, label, unheaded, superseded)
  /\ Ordered(reader, report)
  /\ reader.kind = "file" /\ reader.at # "done" =>
       FileHeaded(reader, response, latest, label, unheaded)
  /\ FeedScored(reader, latest, superseded)
  /\ Covers(reader, report, constant, reported, shaken)

-----------------------------------------------------------------------------
(* The reports: captures in descending order *)

LEMMA ReportFacts ==
  /\ MaxReported \in Nat /\ Keys \subseteq Int /\ BatchSize \in Nat /\ BatchSize >= 1
  /\ Reports!Captures = 1..MaxReported
BY ReaderConstants DEF Reports!Captures

LEMMA ReportsCount == \A S : Reports!Cardinality(S) = Cardinality(S)
BY DEF Reports!Cardinality, Cardinality

\* How many of S come before i in descending order.
Above(S, i) == {j \in S : j > i}
Rank(S, i) == Cardinality(Above(S, i))

LEMMA AboveHas ==
  ASSUME NEW n \in Nat, NEW S \in SUBSET (1..n), NEW i \in 1..n
  PROVE  /\ Above(S, i) \in SUBSET S /\ Above(S, i) \in SUBSET (1..n)
         /\ i \notin Above(S, i)
         /\ \A j \in S : j \in Above(S, i) <=> i < j
<1>1. \A j : j \in Above(S, i) <=> j \in S /\ j > i
  BY DEF Above
<1>2. \A j \in S : j \in 1..n /\ j \in Int
  OBVIOUS
<1>3. ~(i > i)
  OBVIOUS
<1>4. Above(S, i) \subseteq S
  BY <1>1
<1> QED BY <1>1, <1>2, <1>3, <1>4

\* One that is added is one more.
LEMMA OneMore ==
  ASSUME NEW n \in Nat, NEW S \in SUBSET (1..n), NEW i \in 1..n, i \notin S
  PROVE  Cardinality(S \cup {i}) = Cardinality(S) + 1
BY Counted, FS_AddElement

LEMMA RankCounted ==
  ASSUME NEW n \in Nat, NEW S \in SUBSET (1..n), NEW i \in 1..n
  PROVE  /\ Above(S, i) \in SUBSET (1..n) /\ Rank(S, i) \in Nat
         /\ i \in S => Rank(S, i) + 1 <= Cardinality(S)
<1>1. Above(S, i) \in SUBSET (1..n) /\ i \notin Above(S, i) /\ Above(S, i) \subseteq S
  BY AboveHas
<1>2. Rank(S, i) \in Nat
  BY <1>1, Counted DEF Rank
<1>3. ASSUME i \in S PROVE Rank(S, i) + 1 <= Cardinality(S)
  <2>1. Cardinality(Above(S, i) \cup {i}) = Rank(S, i) + 1
    BY <1>1, OneMore DEF Rank
  <2>2. Above(S, i) \cup {i} \in SUBSET S
    BY <1>1, <1>3
  <2> QED BY <2>1, <2>2, FewerInPart
<1> QED BY <1>1, <1>2, <1>3

LEMMA RankDrops ==
  ASSUME NEW n \in Nat, NEW S \in SUBSET (1..n), NEW i \in 1..n, NEW k \in S, i < k
  PROVE  Rank(S, k) + 1 <= Rank(S, i)
<1>1. Above(S, k) \in SUBSET (1..n) /\ k \in 1..n
  BY DEF Above
<1>2. k \notin Above(S, k) /\ Above(S, k) \cup {k} \in SUBSET Above(S, i)
  BY <1>1 DEF Above
<1>3. Cardinality(Above(S, k) \cup {k}) = Rank(S, k) + 1
  BY <1>1, <1>2, OneMore DEF Rank
<1>4. Above(S, i) \in SUBSET (1..n)
  BY DEF Above
<1> QED BY <1>2, <1>3, <1>4, FewerInPart DEF Rank

\* Each place is some capture's.
LEMMA RankTaken ==
  ASSUME NEW n \in Nat, NEW S \in SUBSET (1..n), NEW r \in Nat, r + 1 <= Cardinality(S)
  PROVE  \E i \in S : Rank(S, i) = r
<1> DEFINE T == {i \in S : Rank(S, i) <= r}
<1>1. Cardinality(S) \in Nat /\ Cardinality({}) = 0
  BY Counted, FS_EmptySet
<1>2. PICK top \in S : \A d \in S : d <= top
  <2>1. ASSUME S = {} PROVE FALSE
    <3>1. Cardinality(S) = 0
      BY <1>1, <2>1
    <3> QED BY <3>1
  <2> QED BY <2>1, GreatestExists
<1>3. Above(S, top) = {}
  <2>1. top \in 1..n /\ \A d \in S : d \in 1..n /\ ~(top < d)
    BY <1>2
  <2> QED BY <2>1, AboveHas
<1>4. top \in T
  BY <1>1, <1>3 DEF Rank
<1>5. PICK m \in T : \A d \in T : m <= d
  BY <1>4, LeastExists
<1>6. m \in S /\ m \in 1..n /\ Rank(S, m) <= r /\ Rank(S, m) \in Nat
  BY <1>5, RankCounted
<1>7. SUFFICES ASSUME Rank(S, m) + 1 <= r PROVE FALSE
  BY <1>6
<1> DEFINE B == {i \in S : i < m}
<1>8. Above(S, m) \in SUBSET (1..n) /\ m \notin Above(S, m)
  BY <1>6, AboveHas
<1>9. Cardinality(Above(S, m) \cup {m}) = Rank(S, m) + 1
  BY <1>6, <1>8, OneMore DEF Rank
<1>10. CASE B = {}
  <2>1. \A j \in S : j \in 1..n /\ (m < j \/ j = m)
    BY <1>6, <1>10
  <2>2. S = Above(S, m) \cup {m}
    BY <1>6, <2>1, AboveHas
  <2> QED BY <1>6, <1>7, <1>9, <2>2
<1>11. CASE B # {}
  <2>1. PICK g \in B : \A d \in B : d <= g
    BY <1>11, GreatestExists
  <2>2. Above(S, g) = Above(S, m) \cup {m}
    <3>1. g \in 1..n /\ g < m /\ \A j \in S : j \in 1..n /\ (g < j <=> m < j \/ j = m)
      BY <1>6, <2>1
    <3>2. /\ Above(S, g) \subseteq S /\ Above(S, m) \subseteq S /\ m \in S
          /\ \A j \in S : j \in Above(S, g) <=> g < j
          /\ \A j \in S : j \in Above(S, m) <=> m < j
      BY <1>6, <3>1, AboveHas
    <3> QED BY <3>1, <3>2
  <2>3. Rank(S, g) <= r
    BY <1>7, <1>9, <2>2 DEF Rank
  <2>4. g \in T /\ g < m
    BY <2>1, <2>3
  <2> QED BY <1>5, <1>6, <2>1, <2>4
<1> QED BY <1>10, <1>11

\* What Descending gives is each of S, the later the sooner.
LEMMA DescendingLists ==
  ASSUME NEW S \in SUBSET Reports!Captures
  PROVE  /\ Cardinality(S) \in Nat /\ Reports!Cardinality(S) = Cardinality(S)
         /\ \A k \in 1..Cardinality(S) : Reports!Descending(S)[k] \in S
         /\ \A j, k \in 1..Cardinality(S) :
              j < k => Reports!Descending(S)[j] > Reports!Descending(S)[k]
         /\ \A i \in S : \E k \in 1..Cardinality(S) : Reports!Descending(S)[k] = i
<1> DEFINE n == MaxReported
           D == Reports!Descending(S)
<1>1. n \in Nat /\ S \in SUBSET (1..n)
  BY ReportFacts
<1> HIDE DEF n
<1>2. Cardinality(S) \in Nat /\ Reports!Cardinality(S) = Cardinality(S)
  BY <1>1, Counted, ReportsCount
<1>3. \A k \in 1..Cardinality(S) : D[k] = CHOOSE i \in S : Rank(S, i) = k - 1
  BY <1>2, ReportsCount DEF Reports!Descending, Rank, Above
<1> HIDE DEF D
<1>4. \A k \in 1..Cardinality(S) : D[k] \in S /\ Rank(S, D[k]) = k - 1
  <2> SUFFICES ASSUME NEW k \in 1..Cardinality(S) PROVE D[k] \in S /\ Rank(S, D[k]) = k - 1
    OBVIOUS
  <2>1. k - 1 \in Nat /\ (k - 1) + 1 <= Cardinality(S)
    BY <1>2
  <2>2. \E i \in S : Rank(S, i) = k - 1
    BY <1>1, <2>1, RankTaken
  <2> QED BY <1>3, <2>2
<1>5. ASSUME NEW j \in 1..Cardinality(S), NEW k \in 1..Cardinality(S), j < k
      PROVE  D[j] > D[k]
  <2>1. D[j] \in S /\ D[k] \in S /\ Rank(S, D[j]) = j - 1 /\ Rank(S, D[k]) = k - 1
    BY <1>4
  <2>2. D[j] \in 1..n /\ D[k] \in 1..n
    BY <1>1, <2>1
  <2>3. ~(D[j] < D[k])
    <3> SUFFICES ASSUME D[j] < D[k] PROVE FALSE
      OBVIOUS
    <3>1. Rank(S, D[k]) + 1 <= Rank(S, D[j])
      BY <1>1, <2>1, <2>2, RankDrops
    <3> QED BY <1>2, <1>5, <2>1, <3>1
  <2>4. D[j] # D[k]
    BY <1>2, <1>5, <2>1
  <2> QED BY <1>1, <2>2, <2>3, <2>4
<1>6. ASSUME NEW i \in S PROVE \E k \in 1..Cardinality(S) : D[k] = i
  <2>1. i \in 1..n /\ Rank(S, i) \in Nat /\ Rank(S, i) + 1 <= Cardinality(S)
    BY <1>1, RankCounted
  <2> DEFINE k == Rank(S, i) + 1
  <2>2. k \in 1..Cardinality(S) /\ k - 1 = Rank(S, i)
    BY <1>2, <2>1
  <2> HIDE DEF k
  <2>3. D[k] \in S /\ Rank(S, D[k]) = Rank(S, i) /\ D[k] \in 1..n
    BY <1>1, <1>4, <2>2
  <2>4. ~(D[k] < i) /\ ~(i < D[k])
    <3>1. ASSUME D[k] < i PROVE FALSE
      <4>1. Rank(S, i) + 1 <= Rank(S, D[k])
        BY <1>1, <2>3, <3>1, RankDrops
      <4> QED BY <2>1, <2>3, <4>1
    <3>2. ASSUME i < D[k] PROVE FALSE
      <4>1. Rank(S, D[k]) + 1 <= Rank(S, i)
        BY <1>1, <2>1, <2>3, <3>2, RankDrops
      <4> QED BY <2>1, <2>3, <4>1
    <3> QED BY <3>1, <3>2
  <2>5. D[k] = i
    BY <1>1, <2>1, <2>3, <2>4
  <2> QED BY <2>2, <2>5
<1> QED BY <1>2, <1>4, <1>5, <1>6 DEF D

\* The first rows are those of a rank below their number; if there are fewer,
\* they are all.
LEMMA FirstRows ==
  ASSUME NEW S \in SUBSET Reports!Captures, NEW m \in Nat
  PROVE  /\ Reports!First(S, m) = {i \in S : Rank(S, i) < m}
         /\ Reports!First(S, m) \in SUBSET S
         /\ \A i \in Reports!First(S, m), j \in S : j > i => j \in Reports!First(S, m)
         /\ Cardinality(Reports!First(S, m)) < m => Reports!First(S, m) = S
<1> DEFINE n == MaxReported
           F == Reports!First(S, m)
<1>1. n \in Nat /\ S \in SUBSET (1..n)
  BY ReportFacts
<1> HIDE DEF n
<1>2. F = {i \in S : Rank(S, i) < m}
  BY ReportsCount DEF Reports!First, Rank, Above
<1> HIDE DEF F
<1>3. F \in SUBSET S /\ F \in SUBSET (1..n)
  BY <1>1, <1>2
<1>4. ASSUME NEW i \in F, NEW j \in S, j > i PROVE j \in F
  <2>1. Rank(S, j) + 1 <= Rank(S, i) /\ Rank(S, j) \in Nat /\ Rank(S, i) \in Nat
    <3>1. i \in 1..n /\ j \in 1..n /\ i < j
      BY <1>1, <1>3, <1>4
    <3> QED BY <1>1, <3>1, RankDrops, RankCounted
  <2> QED BY <1>2, <2>1
<1>5. ASSUME Cardinality(F) < m PROVE F = S
  <2> SUFFICES ASSUME F # S PROVE FALSE
    OBVIOUS
  <2>1. S \ F # {} /\ S \ F \in SUBSET (1..n)
    BY <1>1, <1>3
  <2>2. PICK g \in S \ F : \A d \in S \ F : d <= g
    BY <1>1, <2>1, GreatestExists
  <2>3. Above(S, g) \in SUBSET F
    <3>1. g \in 1..n /\ \A j \in S : j \in 1..n /\ (g < j => j \in F)
      BY <1>1, <2>2
    <3>2. Above(S, g) \subseteq S /\ \A j \in S : j \in Above(S, g) <=> g < j
      BY <1>1, <3>1, AboveHas
    <3> QED BY <3>1, <3>2
  <2>4. Rank(S, g) <= Cardinality(F) /\ Rank(S, g) \in Nat /\ Cardinality(F) \in Nat
    <3>1. g \in 1..n
      BY <1>1, <2>2
    <3> QED BY <1>1, <1>3, <2>3, <3>1, FewerInPart, RankCounted, Counted DEF Rank
  <2>5. Rank(S, g) < m
    BY <1>5, <2>4
  <2> QED BY <1>2, <2>2, <2>5
<1> QED BY <1>2, <1>3, <1>4, <1>5 DEF F

-----------------------------------------------------------------------------
(* The reports: rows, headers and answers *)

LEMMA CaptureNumbers ==
  /\ \A i \in Reports!Captures : i \in Nat /\ i >= 1 /\ i <= MaxReported
  /\ \A q \in Reports!Questions : q[1] \in Keys /\ q[1] \in Int
<1>1. \A i \in Reports!Captures : i \in Nat /\ i >= 1 /\ i <= MaxReported
  BY ReportFacts
<1>2. \A q \in Reports!Questions : q[1] \in Keys
  BY DEF Reports!Questions
<1> QED BY <1>1, <1>2, ReportFacts

LEMMA ResponseRows ==
  ASSUME TablesTyped
  PROVE  /\ Len(response) \in Nat
         /\ \A r \in 1..Len(response) :
              response[r].questions \in SUBSET Reports!Questions
<1>1. response \in Seq(Response)
  BY DEF TablesTyped
<1>2. ASSUME NEW r \in 1..Len(response)
      PROVE  response[r].questions \in SUBSET Reports!Questions
  <2>1. response[r] \in Response
    BY <1>1
  <2> QED BY <2>1, Zenon DEF Response
<1> QED BY <1>1, <1>2

\* Rows one for each of S, in the order of Descending.
RowsFor(T, S) ==
  /\ T \in Seq(ReportRow) /\ Len(T) = Cardinality(S)
  /\ \A k \in 1..Len(T) : T[k].capture = Reports!Descending(S)[k]

LEMMA RowsForTell ==
  ASSUME NEW S \in SUBSET Reports!Captures, NEW T, RowsFor(T, S)
  PROVE  Descends(T) /\ ToldOf(T) = S
<1>1. Len(T) = Cardinality(S) /\ Cardinality(S) \in Nat
  BY DescendingLists DEF RowsFor
<1>2. \A k \in 1..Cardinality(S) : T[k].capture = Reports!Descending(S)[k]
  BY <1>1 DEF RowsFor
<1>3. Descends(T)
  BY <1>1, <1>2, DescendingLists DEF Descends
<1>4. \A k \in 1..Len(T) : T[k].capture \in S
  BY <1>1, <1>2, DescendingLists
<1>5. \A i \in S : \E k \in 1..Len(T) : T[k].capture = i
  BY <1>1, <1>2, DescendingLists
<1> QED BY <1>3, <1>4, <1>5 DEF ToldOf

LEMMA RowsFollow ==
  ASSUME NEW T \in Seq(ReportRow), NEW V \in Seq(ReportRow)
  PROVE  /\ T \o V \in Seq(ReportRow)
         /\ ToldOf(T \o V) = ToldOf(T) \cup ToldOf(V)
         /\ \A R, L, U, O : RowsRight(T, R, L, U, O) /\ RowsRight(V, R, L, U, O)
                              => RowsRight(T \o V, R, L, U, O)
<1> DEFINE W == T \o V
<1>1. /\ W \in Seq(ReportRow) /\ Len(W) = Len(T) + Len(V) /\ Len(T) \in Nat /\ Len(V) \in Nat
      /\ \A k \in 1..Len(W) : W[k] = IF k <= Len(T) THEN T[k] ELSE V[k - Len(T)]
  OBVIOUS
<1> HIDE DEF W
<1>2. \A k \in 1..Len(T) : k \in 1..Len(W) /\ W[k] = T[k]
  BY <1>1
<1>3. \A k \in 1..Len(V) : k + Len(T) \in 1..Len(W) /\ W[k + Len(T)] = V[k]
  BY <1>1
<1>4. \A k \in 1..Len(W) : \/ k \in 1..Len(T) /\ W[k] = T[k]
                           \/ k - Len(T) \in 1..Len(V) /\ W[k] = V[k - Len(T)]
  BY <1>1
<1>5. ToldOf(W) = ToldOf(T) \cup ToldOf(V)
  <2>1. ToldOf(T) \subseteq ToldOf(W)
    BY <1>2 DEF ToldOf
  <2>2. ToldOf(V) \subseteq ToldOf(W)
    BY <1>3 DEF ToldOf
  <2>3. ToldOf(W) \subseteq ToldOf(T) \cup ToldOf(V)
    BY <1>4 DEF ToldOf
  <2> QED BY <2>1, <2>2, <2>3
<1>6. ASSUME NEW R, NEW L, NEW U, NEW O, RowsRight(T, R, L, U, O), RowsRight(V, R, L, U, O)
      PROVE  RowsRight(W, R, L, U, O)
  BY <1>4, <1>6 DEF RowsRight
<1> QED BY <1>1, <1>5, <1>6 DEF W

LEMMA RowsDescend ==
  ASSUME NEW T \in Seq(ReportRow), NEW V \in Seq(ReportRow), Descends(T), Descends(V),
         NEW c \in Nat, \A k \in 1..Len(T) : T[k].capture >= c,
         \A k \in 1..Len(V) : V[k].capture < c
  PROVE  Descends(T \o V)
<1> DEFINE W == T \o V
<1>1. /\ Len(W) = Len(T) + Len(V) /\ Len(T) \in Nat /\ Len(V) \in Nat
      /\ \A k \in 1..Len(W) : W[k] = IF k <= Len(T) THEN T[k] ELSE V[k - Len(T)]
  OBVIOUS
<1>2. /\ \A k \in 1..Len(T) : T[k].capture \in Nat
      /\ \A k \in 1..Len(V) : V[k].capture \in Nat
  <2>1. \A row \in ReportRow : row.capture \in Nat
    BY CaptureNumbers, Zenon DEF ReportRow
  <2> QED BY <2>1
<1> HIDE DEF W
<1> SUFFICES ASSUME NEW j \in 1..Len(W), NEW k \in 1..Len(W), j < k
             PROVE  W[j].capture > W[k].capture
  BY DEF Descends, W
<1>3. CASE k <= Len(T)
  BY <1>1, <1>3 DEF Descends
<1>4. CASE j <= Len(T) /\ k > Len(T)
  <2>1. j \in 1..Len(T) /\ k - Len(T) \in 1..Len(V)
    BY <1>1, <1>4
  <2>2. W[j] = T[j] /\ W[k] = V[k - Len(T)]
    BY <1>1, <1>4
  <2>3. T[j].capture \in Nat /\ V[k - Len(T)].capture \in Nat
    BY <1>2, <2>1
  <2>4. T[j].capture >= c /\ V[k - Len(T)].capture < c
    BY <2>1
  <2> QED BY <2>2, <2>3, <2>4
<1>5. CASE j > Len(T)
  <2>1. j - Len(T) \in 1..Len(V) /\ k - Len(T) \in 1..Len(V) /\ j - Len(T) < k - Len(T)
    BY <1>1, <1>5
  <2>2. W[j] = V[j - Len(T)] /\ W[k] = V[k - Len(T)]
    BY <1>1, <1>5
  <2> QED BY <2>1, <2>2 DEF Descends
<1> QED BY <1>1, <1>3, <1>4, <1>5

\* The headers that were picked cover the latest responses of S.
LEMMA PicksHead ==
  ASSUME TablesTyped, NEW S \in SUBSET Reports!Captures,
         NEW P \in Reports!HeaderPicks(Reports!Answered(Reports!LatestOf(S))), NEW U
  PROVE  /\ Reports!Labelled(P) \in SUBSET Keys
         /\ \A i \in S : Headed(i, response, latest, label, Reports!Labelled(P), U)
<1> DEFINE A == Reports!Answered(Reports!LatestOf(S))
<1>1. Reports!LatestOf(S) = {latest[i] : i \in S} \ {0}
  BY DEF Reports!LatestOf
<1>2. \A r \in Reports!LatestOf(S) : r \in 1..Len(response)
  BY <1>1 DEF TablesTyped
<1>3. \A r \in 1..Len(response) : response[r].questions \subseteq Reports!Questions
  BY ResponseRows
<1>4. \A q : q \in A <=> \E r \in Reports!LatestOf(S) : q \in response[r].questions
  BY DEF Reports!Answered
<1>5. A \subseteq Reports!Questions
  BY <1>2, <1>3, <1>4
<1>6. P \in SUBSET A /\ \A q \in A : \E p \in P : p[1] = q[1]
  BY DEF Reports!HeaderPicks, Reports!Key
<1> HIDE DEF A
<1>7. Reports!Labelled(P) = {label[q] : q \in P}
  BY DEF Reports!Labelled
<1>8. Reports!Labelled(P) \in SUBSET Keys
  BY <1>5, <1>6, <1>7 DEF TablesTyped
<1>9. ASSUME NEW i \in S, latest[i] # 0, NEW q \in response[latest[i]].questions
      PROVE  label[q] \in Reports!Labelled(P) \/ Excused(q, label, U)
  <2>1. q \in A
    BY <1>1, <1>4, <1>9
  <2>2. PICK p \in P : p[1] = q[1]
    BY <1>6, <2>1
  <2>3. label[p] \in Reports!Labelled(P) /\ p \in Reports!Questions
    BY <1>5, <1>6, <1>7
  <2>4. CASE label[p] = label[q]
    BY <2>3, <2>4
  <2>5. CASE label[p] # label[q]
    BY <2>2, <2>3, <2>5 DEF Excused, Clashing
  <2> QED BY <2>4, <2>5
<1> QED BY <1>8, <1>9 DEF Headed

\* An answer under a header is shown, unless another with its label is.
LEMMA HeadedShown ==
  ASSUME TablesTyped, NEW i \in Reports!Captures, latest[i] # 0, NEW H, NEW U,
         Headed(i, response, latest, label, H, U),
         NEW q \in response[latest[i]].questions
  PROVE  q \in Reports!Shown(latest[i], H) \/ Excused(q, label, U)
<1>1. latest[i] \in 1..Len(response) /\ response[latest[i]].questions \subseteq Reports!Questions
  <2>1. latest[i] \in 1..Len(response)
    BY ResponseRows DEF TablesTyped
  <2> QED BY <2>1, ResponseRows
<1>2. SUFFICES ASSUME ~Excused(q, label, U) PROVE q \in Reports!Shown(latest[i], H)
  OBVIOUS
<1>3. label[q] \in H
  BY <1>2 DEF Headed
<1>4. ASSUME NEW p \in response[latest[i]].questions, label[p] = label[q]
      PROVE  p[1] <= q[1]
  <2>1. p \in Reports!Questions
    BY <1>1
  <2>2. p[1] = q[1]
    BY <1>2, <1>4, <2>1 DEF Excused, Clashing
  <2>3. p[1] \in Int
    BY <2>1, CaptureNumbers
  <2> QED BY <2>2, <2>3
<1> QED BY <1>3, <1>4 DEF Reports!Shown, Reports!Key

LEMMA RowsToldRight ==
  ASSUME TablesTyped, reader.rows \in SUBSET Reports!Captures, NEW H, NEW U, NEW O,
         \A i \in reader.rows : Headed(i, response, latest, label, H, U)
  PROVE  /\ RowsFor(Reports!RowsTold(H), reader.rows)
         /\ RowsRight(Reports!RowsTold(H), response, label, U, O)
<1> DEFINE S == reader.rows
           T == Reports!RowsTold(H)
           D == Reports!Descending(S)
           row(k) == [capture |-> D[k], scored |-> latest[D[k]], answered |-> latest[D[k]],
                      shown |-> IF latest[D[k]] = 0 THEN {} ELSE Reports!Shown(latest[D[k]], H)]
<1>1. T = [k \in 1..Cardinality(S) |-> row(k)]
  BY ReportsCount DEF Reports!RowsTold
<1>2. Cardinality(S) \in Nat /\ \A k \in 1..Cardinality(S) : D[k] \in S
  BY DescendingLists
<1> HIDE DEF D, T
<1>3. ASSUME NEW k \in 1..Cardinality(S)
      PROVE  row(k) \in ReportRow /\ RowRight(row(k), response, label, U, O)
  <2> DEFINE i == D[k]
  <2>1. i \in S /\ i \in Reports!Captures
    BY <1>2
  <2> HIDE DEF i
  <2> DEFINE shown == IF latest[i] = 0 THEN {} ELSE Reports!Shown(latest[i], H)
  <2>2. latest[i] \in 0..Len(response) /\ Len(response) \in Nat
    BY <2>1 DEF TablesTyped
  <2>3. shown \in SUBSET Reports!Questions
    <3>1. CASE latest[i] # 0
      <4>1. response[latest[i]].questions \subseteq Reports!Questions
        BY <2>2, <3>1, ResponseRows
      <4> QED BY <4>1 DEF Reports!Shown
    <3> QED BY <3>1
  <2>4. ASSUME latest[i] # 0, NEW q \in response[latest[i]].questions
        PROVE  q \in shown \/ Excused(q, label, U)
    <3>1. Headed(i, response, latest, label, H, U)
      BY <2>1
    <3> QED BY <2>1, <2>4, <3>1, HeadedShown
  <2> DEFINE x == [capture |-> i, scored |-> latest[i], answered |-> latest[i], shown |-> shown]
  <2>5. x = row(k)
    BY DEF i
  <2>6. x.capture = i /\ x.scored = latest[i] /\ x.answered = latest[i] /\ x.shown = shown
    OBVIOUS
  <2>7. x \in ReportRow
    BY <2>1, <2>2, <2>3 DEF ReportRow
  <2> HIDE DEF x, shown
  <2>8. RowRight(x, response, label, U, O)
    BY <2>2, <2>4, <2>6 DEF RowRight
  <2> QED BY <2>5, <2>7, <2>8
<1> HIDE DEF row
<1>4. T \in Seq(ReportRow) /\ Len(T) = Cardinality(S)
      /\ \A k \in 1..Cardinality(S) : T[k] = row(k)
  BY <1>1, <1>2, <1>3
<1>5. RowsRight(T, response, label, U, O)
  BY <1>3, <1>4 DEF RowsRight
<1>6. \A k \in 1..Cardinality(S) : T[k].capture = D[k]
  BY <1>4 DEF row
<1> QED BY <1>4, <1>5, <1>6 DEF RowsFor, T, D

-----------------------------------------------------------------------------
(* The reports: what goes on meanwhile *)

\* Rows stay right as responses, questions that came late and captures answered
\* again become more.
LEMMA RowsStayRight ==
  ASSUME NEW T, NEW R, NEW V, NEW L, NEW U, NEW W, NEW O, NEW Q,
         RowsRight(T, R, L, U, O), Len(R) \in Nat, Len(V) \in Nat, Len(R) <= Len(V),
         \A k \in 1..Len(R) : V[k] = R[k], U \subseteq W, O \subseteq Q
  PROVE  RowsRight(T, V, L, W, Q)
<1> SUFFICES ASSUME NEW k \in 1..Len(T) PROVE RowRight(T[k], V, L, W, Q)
  BY DEF RowsRight
<1> DEFINE row == T[k]
<1>1. RowRight(row, R, L, U, O)
  BY DEF RowsRight
<1> HIDE DEF row
<1>2. row.answered \in 0..Len(R) /\ row.answered \in 0..Len(V)
  BY <1>1 DEF RowRight
<1>3. row.scored = row.answered \/ row.capture \in Q
  BY <1>1 DEF RowRight
<1>4. ASSUME row.answered # 0, NEW q \in V[row.answered].questions
      PROVE  q \in row.shown \/ Excused(q, L, W)
  <2>1. row.answered \in 1..Len(R)
    BY <1>2, <1>4
  <2>2. V[row.answered] = R[row.answered]
    BY <2>1
  <2>3. q \in R[row.answered].questions
    BY <1>4, <2>2
  <2>4. q \in row.shown \/ Excused(q, L, U)
    BY <1>1, <1>4, <2>3 DEF RowRight
  <2> QED BY <2>4 DEF Excused
<1> QED BY <1>2, <1>3, <1>4 DEF RowRight, row

\* What a change to the captures leaves of what the report covers.
LEMMA NoticedCovers ==
  ASSUME ReportsInv, NEW C, Reports!Noticed(C)
  PROVE  /\ constant' \subseteq Listed(C, reader.filter)
         /\ Covers(reader, report, constant', C, shaken')
<1> DEFINE A == Listed(reported, reader.filter)
           B == Listed(C, reader.filter)
<1>1. constant' = constant \cap B
  BY DEF Reports!Noticed, Reports!Matching, Listed
<1>2. shaken => shaken'
  BY Zenon DEF Reports!Noticed
<1>3. ASSUME reader.kind = "pages", ~shaken'
      PROVE  A \subseteq B /\ (reader.at = "total" => A = B)
  <2>1. ~(A \ B # {}) /\ ~(reader.at = "total" /\ A # B)
    BY <1>3, Zenon DEF Reports!Noticed, Reports!Matching, Listed
  <2> QED BY <2>1
<1>4. Covers(reader, report, constant, reported, shaken)
  BY DEF ReportsInv
<1>5. A \subseteq Reports!Captures /\ B \subseteq Reports!Captures
  BY DEF Listed
<1>6. ASSUME reader.kind = "file", reader.at # "done" PROVE FileCovers(reader, report, constant')
  BY <1>1, <1>4, <1>6 DEF Covers, FileCovers
<1>7. ASSUME reader.kind = "whole", reader.at # "done" PROVE constant' \subseteq reader.rows
  BY <1>1, <1>4, <1>7 DEF Covers
<1>8. ASSUME reader.kind = "pages", reader.at # "done", ~shaken'
      PROVE  PagesCover(reader, report, constant', C)
  <2>1. PagesCover(reader, report, constant, reported)
    BY <1>2, <1>4, <1>8 DEF Covers
  <2>2. A \subseteq B /\ (reader.at = "total" => A = B)
    BY <1>3, <1>8
  <2>3. ASSUME NEW c \in constant'
        PROVE  \/ c \in ToldOf(report)
               \/ Cardinality(Later(C, reader.filter, c)) >= PagesRead(reader) * BatchSize
    <3>1. CASE c \in ToldOf(report)
      BY <3>1
    <3>2. CASE Cardinality(Later(reported, reader.filter, c)) >= PagesRead(reader) * BatchSize
      <4> DEFINE E == Later(reported, reader.filter, c)
                 F == Later(C, reader.filter, c)
      <4>1. E \in SUBSET F /\ F \in SUBSET (1..MaxReported) /\ E \in SUBSET (1..MaxReported)
        BY <1>5, <2>2, ReportFacts DEF Later
      <4>2. Cardinality(E) <= Cardinality(F) /\ Cardinality(E) \in Nat /\ Cardinality(F) \in Nat
        BY <4>1, FewerInPart, Counted, ReportFacts
      <4>3. PagesRead(reader) * BatchSize \in Int
        <5>1. PagesRead(reader) \in Int
          BY DEF ReportsInv, ReaderTyped, ReaderRow, PagesRead
        <5> QED BY <5>1, ReportFacts
      <4> QED BY <3>2, <4>2, <4>3
    <3> QED BY <1>1, <2>1, <2>3, <3>1, <3>2 DEF PagesCover
  <2>4. reader.at = "total" => reader.total = Cardinality(B)
    BY <2>1, <2>2 DEF PagesCover
  <2> QED BY <2>3, <2>4 DEF PagesCover
<1>9. ASSUME reader.at = "done", reader.kind # "feed"
      PROVE  constant' \subseteq ToldOf(report) \/ shaken'
  BY <1>1, <1>2, <1>4, <1>9 DEF Covers
<1> QED BY <1>1, <1>6, <1>7, <1>8, <1>9 DEF Covers

\* A capture, its version or its contact changes, and nothing else.
CapturesChange ==
  /\ reported' \in [Reports!Captures -> CaptureRow]
  /\ \A i \in Reports!Captures : reported[i].state = "stored" =>
       /\ reported'[i].state = "stored" /\ (reported[i].version => reported'[i].version)
  /\ UNCHANGED <<response, latest, label, reader, report, unheaded, superseded>>

LEMMA ChangeKeeps ==
  ASSUME ReportsInv, CapturesChange,
         constant' \subseteq Listed(reported', reader.filter),
         Covers(reader, report, constant', reported', shaken')
  PROVE  ReportsInv'
<1>1. TablesTyped'
  BY DEF ReportsInv, TablesTyped, CapturesChange
<1>2. ReaderTyped'
  BY DEF ReportsInv, ReaderTyped, ReaderRow, CapturesChange
<1>3. LatestStored(latest, reported')
  BY DEF ReportsInv, LatestStored, CapturesChange
<1>4. UNCHANGED <<response, latest, label, reader, report, unheaded, superseded>>
  BY DEF CapturesChange
<1> QED BY <1>1, <1>2, <1>3, <1>4 DEF ReportsInv

LEMMA RegisterKeeps ==
  ASSUME ReportsInv, NEW i \in Reports!Captures, NEW version \in BOOLEAN,
         Reports!Register(i, version)
  PROVE  ReportsInv'
<1>1. /\ reported[i].state = "none"
      /\ reported' = [reported EXCEPT ![i] = [@ EXCEPT !.state = "open", !.version = version]]
      /\ UNCHANGED <<response, latest, label, reader, report, constant, unheaded, superseded,
                     shaken>>
  BY DEF Reports!Register
<1>2. reported \in [Reports!Captures -> CaptureRow]
  BY DEF ReportsInv, TablesTyped
<1> DEFINE row == [reported[i] EXCEPT !.state = "open", !.version = version]
<1>3. row \in CaptureRow /\ row.state = "open"
  BY <1>2 DEF CaptureRow
<1>4. reported' = [reported EXCEPT ![i] = row]
  BY <1>1
<1> HIDE DEF row
<1>5. reported' \in [Reports!Captures -> CaptureRow]
  BY <1>2, <1>3, <1>4
<1>6. reported'[i] = row /\ \A j \in Reports!Captures \ {i} : reported'[j] = reported[j]
  BY <1>2, <1>4
<1>7. CapturesChange
  BY <1>1, <1>5, <1>6 DEF CapturesChange
<1>8. Listed(reported', reader.filter) = Listed(reported, reader.filter)
  <2>1. \A j \in Reports!Captures :
          reported'[j].state = "stored" /\ Reports!Meets(reported'[j], reader.filter)
            <=> reported[j].state = "stored" /\ Reports!Meets(reported[j], reader.filter)
    <3> SUFFICES ASSUME NEW j \in Reports!Captures
                 PROVE  reported'[j].state = "stored" /\ Reports!Meets(reported'[j], reader.filter)
                          <=> reported[j].state = "stored" /\ Reports!Meets(reported[j], reader.filter)
      OBVIOUS
    <3>1. CASE j = i
      BY <1>1, <1>3, <1>6, <3>1
    <3>2. CASE j # i
      BY <1>6, <3>2
    <3> QED BY <3>1, <3>2
  <2> QED BY <2>1 DEF Listed
<1>9. constant' \subseteq Listed(reported', reader.filter)
  BY <1>1, <1>8 DEF ReportsInv
<1>10. Covers(reader, report, constant', reported', shaken')
  BY <1>1, <1>8 DEF ReportsInv, Covers, PagesCover, Later
<1> QED BY <1>7, <1>9, <1>10, ChangeKeeps

LEMMA CommitReportKeeps ==
  ASSUME ReportsInv, NEW i \in Reports!Captures, Reports!Commit(i)
  PROVE  ReportsInv'
<1>1. /\ reported' = [reported EXCEPT ![i].state = "stored"] /\ Reports!Noticed(reported')
      /\ UNCHANGED <<response, latest, label, reader, report, unheaded, superseded>>
  BY DEF Reports!Commit
<1>2. CapturesChange
  BY <1>1 DEF ReportsInv, TablesTyped, CaptureRow, CapturesChange
<1> QED BY <1>1, <1>2, NoticedCovers, ChangeKeeps

LEMMA AttachKeeps ==
  ASSUME ReportsInv, NEW i \in Reports!Captures, Reports!Attach(i)
  PROVE  ReportsInv'
<1>1. /\ reported' = [reported EXCEPT ![i].contact = TRUE] /\ Reports!Noticed(reported')
      /\ UNCHANGED <<response, latest, label, reader, report, unheaded, superseded>>
  BY DEF Reports!Attach
<1>2. CapturesChange
  BY <1>1 DEF ReportsInv, TablesTyped, CaptureRow, CapturesChange
<1> QED BY <1>1, <1>2, NoticedCovers, ChangeKeeps

LEMMA HeadedStays ==
  ASSUME NEW i, NEW R, NEW V, NEW N, NEW M, NEW L, NEW H, NEW U, NEW W,
         Headed(i, R, N, L, H, U), M[i] = N[i], N[i] # 0 => V[N[i]] = R[N[i]], U \subseteq W
  PROVE  Headed(i, V, M, L, H, W)
BY DEF Headed, Excused

LEMMA RespondKeeps ==
  ASSUME ReportsInv, NEW i \in Reports!Captures, NEW f \in QuizForms, NEW K \in SUBSET Keys,
         NEW last \in BOOLEAN, Reports!Respond(i, f, K, last)
  PROVE  ReportsInv'
<1> DEFINE row == [capture |-> i, questions |-> K \X {f}]
           Q == K \X {f}
           n == Len(response)
<1>1. /\ reported[i].state = "stored" /\ response' = Append(response, row)
      /\ reported' = [reported EXCEPT ![i].version = TRUE] /\ Reports!Noticed(reported')
      /\ UNCHANGED <<label, reader, report>>
  BY DEF Reports!Respond
<1>2. \/ /\ latest' = [latest EXCEPT ![i] = n + 1]
         /\ unheaded' = IF reader = Reports!NoReader THEN {} ELSE unheaded \cup Q
         /\ superseded' = IF reader.at = "answers" THEN superseded \cup {i} ELSE superseded
      \/ UNCHANGED <<latest, unheaded, superseded>>
  BY DEF Reports!Respond, Reports!Unheaded
<1>3. TablesTyped /\ ReaderTyped
  BY DEF ReportsInv
<1>4. row \in Response /\ row.questions = Q
  <2>1. Q \in SUBSET Reports!Questions
    BY DEF Reports!Questions
  <2> QED BY <2>1 DEF Response
<1> HIDE DEF row, Q
<1>5. /\ n \in Nat /\ response' \in Seq(Response) /\ Len(response') = n + 1
      /\ \A r \in 1..n : response'[r] = response[r]
      /\ response'[n + 1] = row
  <2>1. response \in Seq(Response)
    BY <1>3 DEF TablesTyped
  <2> QED BY <1>1, <1>4, <2>1
<1>6. /\ \A j \in Reports!Captures : latest[j] \in 0..n
      /\ \A j \in Reports!Captures \ {i} : latest'[j] = latest[j]
      /\ latest'[i] = latest[i] \/ latest'[i] = n + 1
      /\ latest' \in [Reports!Captures -> 0 .. n + 1]
  BY <1>2, <1>3, <1>5 DEF TablesTyped
<1> HIDE DEF n
<1>7. /\ reported' \in [Reports!Captures -> CaptureRow]
      /\ reported'[i].state = "stored" /\ reported'[i].version
      /\ \A j \in Reports!Captures \ {i} : reported'[j] = reported[j]
  BY <1>1, <1>3 DEF TablesTyped, CaptureRow
<1>8. TablesTyped'
  BY <1>1, <1>3, <1>5, <1>6, <1>7 DEF TablesTyped
<1>9. ReaderTyped'
  BY <1>1, <1>3 DEF ReaderTyped, ReaderRow
<1>10. LatestStored(latest', reported')
  BY <1>6, <1>7 DEF ReportsInv, LatestStored
<1>11. constant' \subseteq Listed(reported', reader.filter)
       /\ Covers(reader, report, constant', reported', shaken')
  BY <1>1, NoticedCovers
<1>12. CASE reader.kind = "none"
  <2>1. report = <<>> /\ reader.kind # "file" /\ reader.kind # "feed"
    BY <1>3, <1>12 DEF ReportsInv, Ordered, ReaderTyped, ReaderRow, Phase
  <2>2. RowsRight(report, response', label, unheaded', superseded')
    BY <2>1 DEF RowsRight
  <2>3. FeedScored(reader, latest', superseded')
    BY <2>1 DEF FeedScored
  <2> QED BY <1>1, <1>8, <1>9, <1>10, <1>11, <2>1, <2>2, <2>3 DEF ReportsInv
<1>13. CASE reader.kind # "none"
  <2>1. reader # Reports!NoReader
    BY <1>13 DEF Reports!NoReader
  <2>2. unheaded \subseteq unheaded' /\ superseded \subseteq superseded'
    BY <1>2, <2>1
  <2>3. RowsRight(report, response', label, unheaded', superseded')
    <3>1. RowsRight(report, response, label, unheaded, superseded)
      BY DEF ReportsInv
    <3>2. Len(response) \in Nat /\ Len(response') \in Nat /\ Len(response) <= Len(response')
      BY <1>5 DEF n
    <3>3. \A r \in 1..Len(response) : response'[r] = response[r]
      BY <1>5 DEF n
    <3> QED BY <2>2, <3>1, <3>2, <3>3, RowsStayRight
  <2>4. ASSUME reader.kind = "file", reader.at # "done"
        PROVE  FileHeaded(reader, response', latest', label, unheaded')
    <3> SUFFICES ASSUME NEW j \in Reports!Captures,
                        reader.filter # "unanswered" \/ j \in reader.rows
                 PROVE  Headed(j, response', latest', label, reader.headers, unheaded')
      BY DEF FileHeaded
    <3>1. Headed(j, response, latest, label, reader.headers, unheaded)
      BY <2>4 DEF ReportsInv, FileHeaded
    <3>2. CASE latest'[j] = latest[j]
      <4>1. latest[j] # 0 => response'[latest[j]] = response[latest[j]]
        BY <1>5, <1>6
      <4> QED BY <2>2, <3>1, <3>2, <4>1, HeadedStays
    <3>3. CASE latest'[j] # latest[j]
      <4>1. latest'[j] = n + 1 /\ response'[n + 1].questions = Q
        BY <1>4, <1>5, <1>6, <3>3
      <4>2. Q \subseteq unheaded'
        BY <1>2, <2>1, <3>3
      <4> QED BY <4>1, <4>2 DEF Headed, Excused
    <3> QED BY <3>2, <3>3
  <2>5. FeedScored(reader, latest', superseded')
    <3> SUFFICES ASSUME reader.kind = "feed", reader.at = "answers", NEW j \in reader.rows
                 PROVE  reader.scored[j] = latest'[j] \/ j \in superseded'
      BY DEF FeedScored
    <3>1. reader.scored[j] = latest[j] \/ j \in superseded
      BY DEF ReportsInv, FeedScored
    <3>2. j \in Reports!Captures
      BY <1>3 DEF ReaderTyped, ReaderRow
    <3>3. CASE latest'[j] = latest[j]
      BY <2>2, <3>1, <3>3
    <3>4. CASE latest'[j] # latest[j]
      BY <1>2, <1>6, <3>2, <3>4
    <3> QED BY <3>3, <3>4
  <2> QED BY <1>1, <1>8, <1>9, <1>10, <1>11, <2>3, <2>4, <2>5 DEF ReportsInv
<1> QED BY <1>12, <1>13

\* A question of which neither the text before an edit nor the one after it is
\* the text remains as it was.
LEMMA EditExcuses ==
  ASSUME label \in [Reports!Questions -> Keys], NEW r \in Reports!Questions, NEW k \in Keys,
         NEW U, NEW q \in Reports!Questions, label[q] # k, label[q] # label[r],
         Excused(q, label, U)
  PROVE  Excused(q, [label EXCEPT ![r] = k], U)
<1> DEFINE L == [label EXCEPT ![r] = k]
<1>1. L[r] = k /\ L[q] = label[q] /\ \A p \in Reports!Questions \ {r} : L[p] = label[p]
  OBVIOUS
<1> HIDE DEF L
<1>2. CASE q \in U
  BY <1>2 DEF Excused
<1>3. CASE Clashing(q, label)
  <2>1. PICK p \in Reports!Questions : (p[1] = q[1]) # (label[p] = label[q])
    BY <1>3, Zenon DEF Clashing
  <2>2. CASE p = r
    <3>1. label[p] # label[q] /\ L[p] # L[q]
      BY <1>1, <2>2
    <3>2. p[1] = q[1]
      BY <2>1, <3>1
    <3>3. (p[1] = q[1]) # (L[p] = L[q])
      BY <3>1, <3>2
    <3> QED BY <3>3, Zenon DEF Excused, Clashing
  <2>3. CASE p # r
    <3>1. L[p] = label[p] /\ L[q] = label[q]
      BY <1>1, <2>3
    <3>2. (p[1] = q[1]) # (L[p] = L[q])
      BY <2>1, <3>1
    <3> QED BY <3>2, Zenon DEF Excused, Clashing
  <2> QED BY <2>2, <2>3
<1> QED BY <1>2, <1>3 DEF Excused, L

LEMMA EditTextKeeps ==
  ASSUME ReportsInv, NEW r \in Reports!Questions, NEW k \in Keys, Reports!EditText(r, k)
  PROVE  ReportsInv'
<1> DEFINE Q == {p \in Reports!Questions : label[p] \in {k, label[r]}}
<1>1. /\ label' = [label EXCEPT ![r] = k]
      /\ unheaded' = IF reader = Reports!NoReader THEN {} ELSE unheaded \cup Q
      /\ UNCHANGED <<reported, response, latest, reader, report, constant, superseded, shaken>>
  BY DEF Reports!EditText, Reports!Unheaded
<1>2. TablesTyped /\ ReaderTyped /\ label \in [Reports!Questions -> Keys]
  BY DEF ReportsInv, TablesTyped
<1>3. TablesTyped'
  BY <1>1, <1>2 DEF TablesTyped
<1>4. ReaderTyped'
  BY <1>1, <1>2 DEF ReaderTyped, ReaderRow
<1>5. /\ LatestStored(latest, reported) /\ constant \subseteq Listed(reported, reader.filter)
      /\ Ordered(reader, report) /\ FeedScored(reader, latest, superseded)
      /\ Covers(reader, report, constant, reported, shaken)
  BY DEF ReportsInv
<1>6. CASE reader.kind = "none"
  <2>1. report = <<>> /\ reader.kind # "file"
    BY <1>2, <1>6 DEF ReportsInv, Ordered, ReaderTyped, ReaderRow, Phase
  <2>2. RowsRight(report, response, label', unheaded', superseded)
    BY <2>1 DEF RowsRight
  <2> QED BY <1>1, <1>3, <1>4, <1>5, <2>1, <2>2 DEF ReportsInv
<1>7. CASE reader.kind # "none"
  <2>1. reader # Reports!NoReader
    BY <1>7 DEF Reports!NoReader
  <2>2. unheaded' = unheaded \cup Q
    BY <1>1, <2>1
  <2>3. ASSUME NEW q \in Reports!Questions, Excused(q, label, unheaded)
        PROVE  Excused(q, label', unheaded')
    <3>1. CASE q \in Q
      BY <2>2, <3>1 DEF Excused
    <3>2. CASE q \notin Q
      <4>1. label[q] # k /\ label[q] # label[r]
        BY <3>2
      <4>2. Excused(q, label', unheaded)
        BY <1>1, <1>2, <2>3, <4>1, EditExcuses
      <4> QED BY <2>2, <4>2 DEF Excused
    <3> QED BY <3>1, <3>2
  <2>4. ASSUME NEW q \in Reports!Questions, NEW H, label[q] \in H
        PROVE  label'[q] \in H \/ Excused(q, label', unheaded')
    <3>1. CASE q = r
      <4>1. q \in Q
        BY <3>1
      <4> QED BY <2>2, <4>1 DEF Excused
    <3>2. CASE q # r
      BY <1>1, <1>2, <2>4, <3>2
    <3> QED BY <3>1, <3>2
  <2>5. \A a \in 1..Len(response) : response[a].questions \in SUBSET Reports!Questions
    BY <1>2, ResponseRows
  <2> HIDE DEF Q
  <2>6. RowsRight(report, response, label', unheaded', superseded)
    <3> SUFFICES ASSUME NEW j \in 1..Len(report)
                 PROVE  RowRight(report[j], response, label', unheaded', superseded)
      BY DEF RowsRight
    <3> DEFINE row == report[j]
    <3>1. RowRight(row, response, label, unheaded, superseded)
      BY DEF ReportsInv, RowsRight
    <3> HIDE DEF row
    <3>2. ASSUME row.answered # 0, NEW q \in response[row.answered].questions
          PROVE  q \in row.shown \/ Excused(q, label', unheaded')
      <4>1. row.answered \in 1..Len(response)
        BY <1>2, <3>1, <3>2, ResponseRows DEF RowRight
      <4>2. q \in Reports!Questions
        BY <2>5, <3>2, <4>1
      <4>3. q \in row.shown \/ Excused(q, label, unheaded)
        BY <3>1, <3>2 DEF RowRight
      <4> QED BY <2>3, <4>2, <4>3
    <3> QED BY <3>1, <3>2 DEF RowRight, row
  <2>7. ASSUME reader.kind = "file", reader.at # "done"
        PROVE  FileHeaded(reader, response, latest, label', unheaded')
    <3> SUFFICES ASSUME NEW j \in Reports!Captures,
                        reader.filter # "unanswered" \/ j \in reader.rows,
                        latest[j] # 0, NEW q \in response[latest[j]].questions
                 PROVE  label'[q] \in reader.headers \/ Excused(q, label', unheaded')
      BY DEF FileHeaded, Headed
    <3>1. label[q] \in reader.headers \/ Excused(q, label, unheaded)
      BY <2>7 DEF ReportsInv, FileHeaded, Headed
    <3>2. latest[j] \in 1..Len(response)
      BY <1>2, ResponseRows DEF TablesTyped
    <3>3. q \in Reports!Questions
      BY <2>5, <3>2
    <3> QED BY <2>3, <2>4, <3>1, <3>3
  <2> QED BY <1>1, <1>3, <1>4, <1>5, <2>6, <2>7 DEF ReportsInv
<1> QED BY <1>6, <1>7

-----------------------------------------------------------------------------
(* The reports: how they begin *)

\* A step of a report leaves the tables, and what was noticed of them.
LEMMA ReportMoves ==
  ASSUME ReportsInv,
         UNCHANGED <<reported, response, latest, label, unheaded, superseded, shaken>>,
         ReaderTyped', constant' \subseteq Listed(reported, reader'.filter),
         RowsRight(report', response, label, unheaded, superseded), Ordered(reader', report'),
         reader'.kind = "file" /\ reader'.at # "done" =>
           FileHeaded(reader', response, latest, label, unheaded),
         FeedScored(reader', latest, superseded),
         Covers(reader', report', constant', reported, shaken)
  PROVE  ReportsInv'
BY DEF ReportsInv, TablesTyped

\* The reader of a report that begins.
ReaderAt(kind, at, filter, H, S) ==
  [kind |-> kind, at |-> at, filter |-> filter, headers |-> H, rows |-> S,
   cursor |-> MaxReported + 1, scored |-> [i \in Reports!Captures |-> 0], page |-> 1,
   total |-> 0]

LEMMA ReaderBegins ==
  ASSUME ReportsInv, reader = Reports!NoReader, NEW kind \in {"file", "whole", "feed", "pages"},
         NEW at \in Phase[kind], NEW filter \in Reports!Filters, NEW H \in SUBSET Keys,
         NEW S \in SUBSET Reports!Captures, reader' = ReaderAt(kind, at, filter, H, S),
         UNCHANGED report
  PROVE  /\ ReaderTyped' /\ report' = <<>> /\ reader'.cursor = MaxReported + 1
         /\ reader'.page = 1 /\ reader'.kind = kind /\ reader'.at = at
         /\ reader'.filter = filter /\ reader'.headers = H /\ reader'.rows = S
<1>1. report = <<>>
  BY DEF ReportsInv, Ordered, Reports!NoReader
<1>2. at \in {"idle", "rows", "quiz", "answers", "page", "total", "done"}
  BY DEF Phase
<1>3. MaxReported + 1 \in Nat /\ 1 \in Nat \ {0} /\ 0 \in Nat
  BY ReportFacts
<1> DEFINE zero == [i \in Reports!Captures |-> 0]
<1>4. zero \in [Reports!Captures -> Nat]
  OBVIOUS
<1> HIDE DEF zero
<1>5. reader' = [kind |-> kind, at |-> at, filter |-> filter, headers |-> H, rows |-> S,
                 cursor |-> MaxReported + 1, scored |-> zero, page |-> 1, total |-> 0]
  BY DEF ReaderAt, zero
<1>6. report \in Seq(ReportRow)
  BY <1>1
<1>7. /\ reader'.cursor = MaxReported + 1
      /\ reader'.page = 1 /\ reader'.kind = kind /\ reader'.at = at
      /\ reader'.filter = filter /\ reader'.headers = H /\ reader'.rows = S
  BY <1>5
<1>8. reader'.at \in Phase[reader'.kind]
  BY <1>7
<1>9. reader' \in ReaderRow
  BY <1>2, <1>3, <1>4, <1>5 DEF ReaderRow
<1> QED BY <1>1, <1>6, <1>7, <1>8, <1>9 DEF ReaderTyped, ReaderRow

LEMMA BeginFileKeeps ==
  ASSUME ReportsInv, NEW filter \in {"all", "answered", "unanswered"}, Reports!BeginFile(filter)
  PROVE  ReportsInv'
<1> DEFINE K == Listed(reported, filter)
<1>1. /\ reader = Reports!NoReader /\ constant' = K
      /\ UNCHANGED <<reported, response, latest, label, report, unheaded, superseded, shaken>>
  BY DEF Reports!BeginFile, Reports!Begun, Reports!tables, Listed
<1>2. PICK P \in Reports!HeaderPicks(Reports!Answered(Reports!LatestOf(K))) :
        reader' = [Reports!NoReader EXCEPT !.kind = "file", !.at = "rows", !.filter = filter,
                                           !.headers = Reports!Labelled(P)]
  BY <1>1 DEF Reports!BeginFile
<1>3. K \in SUBSET Reports!Captures
  BY DEF Listed
<1> HIDE DEF K
<1> DEFINE H == Reports!Labelled(P)
<1>4. TablesTyped
  BY DEF ReportsInv
<1>5. H \in SUBSET Keys /\ \A i \in K : Headed(i, response, latest, label, H, unheaded)
  BY <1>2, <1>3, <1>4, PicksHead
<1> HIDE DEF H
<1>6. reader' = ReaderAt("file", "rows", filter, H, {})
  BY <1>2 DEF ReaderAt, Reports!NoReader, H
<1>7. /\ ReaderTyped' /\ report' = <<>> /\ reader'.cursor = MaxReported + 1
      /\ reader'.kind = "file" /\ reader'.at = "rows" /\ reader'.filter = filter
      /\ reader'.headers = H /\ reader'.rows = {}
  <2>1. "rows" \in Phase["file"] /\ filter \in Reports!Filters
    BY DEF Phase, Reports!Filters
  <2> QED BY <1>1, <1>5, <1>6, <2>1, ReaderBegins
<1>8. constant' \subseteq Listed(reported, reader'.filter)
  BY <1>1, <1>7 DEF K
<1>9. FileHeaded(reader', response, latest, label, unheaded)
  <2> SUFFICES ASSUME NEW i \in Reports!Captures, filter # "unanswered"
               PROVE  Headed(i, response, latest, label, H, unheaded)
    BY <1>7 DEF FileHeaded
  <2>1. CASE latest[i] = 0
    BY <2>1 DEF Headed
  <2>2. CASE latest[i] # 0
    <3>1. reported[i].state = "stored" /\ reported[i].version
      BY <2>2 DEF ReportsInv, LatestStored
    <3>2. Reports!Meets(reported[i], filter)
      BY <3>1 DEF Reports!Meets
    <3>3. i \in K
      BY <3>1, <3>2 DEF K, Listed
    <3> QED BY <1>5, <3>3
  <2> QED BY <2>1, <2>2
<1>10. RowsRight(report', response, label, unheaded, superseded) /\ Ordered(reader', report')
  BY <1>7 DEF RowsRight, Ordered, Descends, FileOrdered
<1>11. FeedScored(reader', latest, superseded)
  BY <1>7 DEF FeedScored
<1>12. Covers(reader', report', constant', reported, shaken)
  <2>1. \A c \in constant' : c < reader'.cursor
    BY <1>1, <1>3, <1>7, CaptureNumbers, ReportFacts
  <2> QED BY <1>7, <2>1 DEF Covers, FileCovers
<1> QED BY <1>1, <1>7, <1>8, <1>9, <1>10, <1>11, <1>12, ReportMoves

LEMMA BeginWholeKeeps ==
  ASSUME ReportsInv, NEW filter \in {"all", "answered", "unanswered"}, Reports!BeginWhole(filter)
  PROVE  ReportsInv'
<1> DEFINE K == Listed(reported, filter)
<1>1. /\ reader = Reports!NoReader /\ constant' = K
      /\ UNCHANGED <<reported, response, latest, label, report, unheaded, superseded, shaken>>
      /\ reader' = [Reports!NoReader EXCEPT !.kind = "whole", !.at = "quiz",
                                            !.filter = filter, !.rows = constant']
  BY DEF Reports!BeginWhole, Reports!Begun, Reports!tables, Listed
<1>2. K \in SUBSET Reports!Captures
  BY DEF Listed
<1> HIDE DEF K
<1>3. reader' = ReaderAt("whole", "quiz", filter, {}, K)
  BY <1>1 DEF ReaderAt, Reports!NoReader
<1>4. /\ ReaderTyped' /\ report' = <<>>
      /\ reader'.kind = "whole" /\ reader'.at = "quiz" /\ reader'.filter = filter
      /\ reader'.headers = {} /\ reader'.rows = K
  <2>1. "quiz" \in Phase["whole"] /\ filter \in Reports!Filters /\ {} \in SUBSET Keys
    BY DEF Phase, Reports!Filters
  <2> QED BY <1>1, <1>2, <1>3, <2>1, ReaderBegins
<1>5. constant' \subseteq Listed(reported, reader'.filter)
  BY <1>1, <1>4 DEF K
<1>6. RowsRight(report', response, label, unheaded, superseded) /\ Ordered(reader', report')
  BY <1>4 DEF RowsRight, Ordered, Descends
<1>7. FeedScored(reader', latest, superseded) /\ reader'.kind # "file"
      /\ Covers(reader', report', constant', reported, shaken)
  BY <1>1, <1>4 DEF FeedScored, Covers
<1> QED BY <1>1, <1>4, <1>5, <1>6, <1>7, ReportMoves

LEMMA BeginPagesKeeps ==
  ASSUME ReportsInv, NEW filter \in Reports!Filters, Reports!BeginPages(filter)
  PROVE  ReportsInv'
<1> DEFINE K == Listed(reported, filter)
<1>1. /\ reader = Reports!NoReader /\ constant' = K
      /\ UNCHANGED <<reported, response, latest, label, report, unheaded, superseded, shaken>>
      /\ reader' = [Reports!NoReader EXCEPT !.kind = "pages", !.at = "page", !.filter = filter]
  BY DEF Reports!BeginPages, Reports!Begun, Reports!tables, Listed
<1>2. K \in SUBSET Reports!Captures
  BY DEF Listed
<1> HIDE DEF K
<1>3. reader' = ReaderAt("pages", "page", filter, {}, {})
  BY <1>1 DEF ReaderAt, Reports!NoReader
<1>4. /\ ReaderTyped' /\ report' = <<>> /\ reader'.page = 1
      /\ reader'.kind = "pages" /\ reader'.at = "page" /\ reader'.filter = filter
      /\ reader'.headers = {} /\ reader'.rows = {}
  <2>1. "page" \in Phase["pages"] /\ {} \in SUBSET Keys /\ {} \in SUBSET Reports!Captures
    BY DEF Phase
  <2> QED BY <1>1, <1>3, <2>1, ReaderBegins
<1>5. constant' \subseteq Listed(reported, reader'.filter)
  BY <1>1, <1>4 DEF K
<1>6. RowsRight(report', response, label, unheaded, superseded) /\ Ordered(reader', report')
  BY <1>4 DEF RowsRight, Ordered
<1>7. PagesCover(reader', report', constant', reported)
  <2>1. PagesRead(reader') * BatchSize = 0
    BY <1>4, ReportFacts DEF PagesRead
  <2>2. ASSUME NEW c \in constant' PROVE Cardinality(Later(reported, filter, c)) >= 0
    <3>1. Later(reported, filter, c) \in SUBSET (1..MaxReported)
      BY ReportFacts DEF Later, Listed
    <3>2. Cardinality(Later(reported, filter, c)) \in Nat
      BY <3>1, Counted, ReportFacts
    <3> QED BY <3>2
  <2> QED BY <1>4, <2>1, <2>2 DEF PagesCover
<1>8. FeedScored(reader', latest, superseded) /\ reader'.kind # "file"
      /\ Covers(reader', report', constant', reported, shaken)
  BY <1>4, <1>7 DEF FeedScored, Covers
<1> QED BY <1>1, <1>4, <1>5, <1>6, <1>8, ReportMoves

LEMMA BeginFeedKeeps ==
  ASSUME ReportsInv, Reports!BeginFeed
  PROVE  ReportsInv'
<1> DEFINE K == Listed(reported, "all")
           S == Reports!First(K, BatchSize)
<1>1. /\ reader = Reports!NoReader /\ constant' = K
      /\ UNCHANGED <<reported, response, latest, label, report, unheaded, superseded, shaken>>
      /\ reader' = [Reports!NoReader EXCEPT !.kind = "feed", !.at = "quiz",
                                            !.rows = Reports!First(constant', BatchSize)]
  BY DEF Reports!BeginFeed, Reports!Begun, Reports!tables, Listed
<1>2. K \in SUBSET Reports!Captures
  BY DEF Listed
<1>3. S \in SUBSET Reports!Captures
  <2> HIDE DEF K
  <2> QED BY <1>2, FirstRows, ReportFacts
<1>4. "all" \in Reports!Filters
  BY DEF Reports!Filters
<1> HIDE DEF K, S
<1>5. reader' = ReaderAt("feed", "quiz", "all", {}, S)
  BY <1>1 DEF ReaderAt, Reports!NoReader, S
<1>6. /\ ReaderTyped' /\ report' = <<>>
      /\ reader'.kind = "feed" /\ reader'.at = "quiz" /\ reader'.filter = "all"
      /\ reader'.headers = {} /\ reader'.rows = S
  <2>1. "quiz" \in Phase["feed"] /\ {} \in SUBSET Keys
    BY DEF Phase
  <2> QED BY <1>1, <1>3, <1>4, <1>5, <2>1, ReaderBegins
<1>7. constant' \subseteq Listed(reported, reader'.filter)
  BY <1>1, <1>6 DEF K
<1>8. RowsRight(report', response, label, unheaded, superseded) /\ Ordered(reader', report')
  BY <1>6 DEF RowsRight, Ordered, Descends
<1>9. FeedScored(reader', latest, superseded) /\ reader'.kind # "file"
      /\ Covers(reader', report', constant', reported, shaken)
  BY <1>6 DEF FeedScored, Covers
<1> QED BY <1>1, <1>6, <1>7, <1>8, <1>9, ReportMoves

-----------------------------------------------------------------------------
(* The reports: what they read and write *)

LEMMA ReadBatchKeeps ==
  ASSUME ReportsInv, Reports!ReadBatch
  PROVE  ReportsInv'
<1> DEFINE M == Listed(reported, reader.filter)
           S == {i \in M : i < reader.cursor}
           F == Reports!First(S, BatchSize)
<1>1. /\ reader.kind = "file" /\ reader.at = "rows"
      /\ reader' = IF F = {} THEN [reader EXCEPT !.at = "done"]
                   ELSE [reader EXCEPT !.at = "quiz", !.rows = F]
      /\ UNCHANGED <<reported, response, latest, label, report, constant, unheaded, superseded,
                     shaken>>
  BY DEF Reports!ReadBatch, Reports!Matching, Reports!Beyond, Reports!tables, Listed
<1>2. TablesTyped /\ ReaderTyped
  BY DEF ReportsInv
<1>3. M \in SUBSET Reports!Captures /\ S \in SUBSET M
  BY DEF Listed
<1> HIDE DEF M
<1>4. S \in SUBSET Reports!Captures
  BY <1>3
<1>5. /\ F \in SUBSET S
      /\ \A i \in F, j \in S : j > i => j \in F
      /\ Cardinality(F) < BatchSize => F = S
      /\ Cardinality(F) \in Nat
  <2> HIDE DEF S
  <2> QED BY <1>4, FirstRows, ReportFacts, DescendingLists
<1>6. constant \subseteq M /\ \A c \in constant : c \in ToldOf(report) \/ c \in S
  BY <1>1 DEF ReportsInv, Covers, FileCovers, M
<1>7. \A i \in S : i < reader.cursor
  OBVIOUS
<1> HIDE DEF S, F
<1>8. /\ reader'.kind = "file" /\ reader'.filter = reader.filter
      /\ reader'.headers = reader.headers /\ reader'.cursor = reader.cursor
      /\ F = {} => reader'.at = "done"
      /\ F # {} => reader'.at = "quiz" /\ reader'.rows = F
  BY <1>1, <1>2 DEF ReaderTyped, ReaderRow
<1>9. ReaderTyped'
  <2>1. reader' \in ReaderRow
    BY <1>1, <1>2, <1>4, <1>5 DEF ReaderTyped, ReaderRow
  <2>2. reader'.at \in Phase[reader'.kind]
    BY <1>1, <1>2, <1>4, <1>5, <1>8 DEF Phase
  <2>3. report' \in Seq(ReportRow)
    BY <1>1, <1>2, <1>4, <1>5 DEF ReaderTyped, ReaderRow
  <2> QED BY <2>1, <2>2, <2>3 DEF ReaderTyped, ReaderRow
<1>10. constant' \subseteq Listed(reported, reader'.filter)
  BY <1>1, <1>6, <1>8 DEF M
<1>11. RowsRight(report', response, label, unheaded, superseded)
  BY <1>1 DEF ReportsInv
<1>12. FeedScored(reader', latest, superseded)
  BY <1>8 DEF FeedScored
<1>13. Descends(report) /\ \A k \in 1..Len(report) : report[k].capture >= reader.cursor
  BY <1>1 DEF ReportsInv, Ordered, FileOrdered
<1>14. ASSUME reader'.at # "done"
       PROVE  FileHeaded(reader', response, latest, label, unheaded)
  <2> SUFFICES ASSUME NEW i \in Reports!Captures, reader.filter # "unanswered" \/ i \in F
               PROVE  Headed(i, response, latest, label, reader.headers, unheaded)
    BY <1>8, <1>14 DEF FileHeaded
  <2>1. CASE reader.filter # "unanswered"
    BY <1>1, <2>1 DEF ReportsInv, FileHeaded
  <2>2. CASE reader.filter = "unanswered" /\ i \in F
    <3>1. ~reported[i].version
      BY <1>3, <1>5, <2>2 DEF M, Listed, Reports!Meets
    <3>2. latest[i] = 0
      BY <3>1 DEF ReportsInv, LatestStored
    <3> QED BY <3>2 DEF Headed
  <2> QED BY <2>1, <2>2
<1>15. CASE F = {}
  <2>1. S = {}
    <3>1. Cardinality(F) = 0
      BY <1>15, FS_EmptySet
    <3> QED BY <1>5, <1>15, <3>1, ReportFacts
  <2>2. constant' \subseteq ToldOf(report)
    BY <1>1, <1>6, <2>1
  <2>3. Covers(reader', report', constant', reported, shaken)
    BY <1>1, <1>8, <1>15, <2>2 DEF Covers
  <2>4. Ordered(reader', report')
    BY <1>1, <1>8, <1>13, <1>15 DEF Ordered
  <2> QED BY <1>1, <1>8, <1>9, <1>10, <1>11, <1>12, <1>15, <2>3, <2>4, ReportMoves
<1>16. CASE F # {}
  <2>1. reader'.at = "quiz" /\ reader'.rows = F
    BY <1>8, <1>16
  <2>2. Ordered(reader', report')
    BY <1>1, <1>5, <1>7, <1>8, <1>13, <2>1 DEF Ordered, FileOrdered
  <2>3. ASSUME NEW c \in constant
        PROVE  \/ c \in ToldOf(report) \/ c \in F
               \/ Cardinality(F) >= BatchSize /\ \A i \in F : c < i
    <3> SUFFICES ASSUME c \in S, c \notin F
                 PROVE  Cardinality(F) >= BatchSize /\ \A i \in F : c < i
      BY <1>6
    <3>1. Cardinality(F) >= BatchSize
      BY <1>5, ReportFacts
    <3>2. ASSUME NEW i \in F PROVE c < i
      <4>1. ~(c > i) /\ c # i /\ i \in S
        BY <1>5
      <4>2. c \in Nat /\ i \in Nat
        BY <1>4, <4>1, CaptureNumbers
      <4> QED BY <4>1, <4>2
    <3> QED BY <3>1, <3>2
  <2>4. Covers(reader', report', constant', reported, shaken)
    BY <1>1, <1>8, <1>16, <2>1, <2>3 DEF Covers, FileCovers
  <2> QED BY <1>1, <1>8, <1>9, <1>10, <1>11, <1>12, <1>14, <2>2, <2>4, ReportMoves
<1> QED BY <1>15, <1>16

LEMMA ReadQuizKeeps ==
  ASSUME ReportsInv, Reports!ReadQuiz
  PROVE  ReportsInv'
<1> DEFINE S == reader.rows
           V == Reports!RowsTold(reader.headers)
           low == Reports!Min(reader.rows)
           at == IF Reports!Cardinality(reader.rows) < BatchSize THEN "done" ELSE "rows"
<1>1. /\ reader.kind = "file" /\ reader.at = "quiz" /\ report' = report \o V
      /\ reader' = [reader EXCEPT !.cursor = low, !.rows = {}, !.at = at]
      /\ UNCHANGED <<reported, response, latest, label, constant, unheaded, superseded, shaken>>
  BY DEF Reports!ReadQuiz, Reports!tables
<1>2. TablesTyped /\ ReaderTyped
  BY DEF ReportsInv
<1>3. S \in SUBSET Reports!Captures /\ report \in Seq(ReportRow) /\ reader.cursor \in Nat
  BY <1>2 DEF ReaderTyped, ReaderRow
<1>4. \A i \in S : Headed(i, response, latest, label, reader.headers, unheaded)
  BY <1>1, <1>3 DEF ReportsInv, FileHeaded
<1>5. RowsFor(V, S) /\ RowsRight(V, response, label, unheaded, superseded)
  BY <1>2, <1>3, <1>4, RowsToldRight
<1>6. V \in Seq(ReportRow) /\ Descends(V) /\ ToldOf(V) = S
  BY <1>3, <1>5, RowsForTell DEF RowsFor
<1>7. low \in S /\ \A i \in S : low <= i
  <2>1. S # {}
    BY <1>1 DEF ReportsInv, Covers, FileCovers
  <2>2. \E c \in S : \A d \in S : c <= d
    BY <1>3, <2>1, LeastExists, ReportFacts
  <2>3. low = CHOOSE c \in S : \A d \in S : c <= d
    BY DEF Reports!Min
  <2> HIDE DEF low
  <2> QED BY <2>2, <2>3, Zenon
<1>8. /\ FileOrdered(reader, report) /\ FileCovers(reader, report, constant) /\ Descends(report)
  BY <1>1 DEF ReportsInv, Ordered, Covers
<1>9. Reports!Cardinality(S) = Cardinality(S)
  BY ReportsCount
<1>10. at \in {"done", "rows"} /\ (at = "rows" <=> ~(Cardinality(S) < BatchSize))
  BY <1>9
<1> HIDE DEF V, low, at
<1>11. /\ reader'.kind = "file" /\ reader'.filter = reader.filter
       /\ reader'.headers = reader.headers /\ reader'.cursor = low /\ reader'.rows = {}
       /\ reader'.at = at
  BY <1>1, <1>2 DEF ReaderTyped, ReaderRow
<1>12. low \in Nat /\ \A i \in S : i \in Nat /\ i < reader.cursor
  BY <1>3, <1>7, <1>8, CaptureNumbers DEF FileOrdered
<1>13. report' \in Seq(ReportRow) /\ ToldOf(report') = ToldOf(report) \cup S
       /\ RowsRight(report', response, label, unheaded, superseded)
  BY <1>1, <1>3, <1>5, <1>6, RowsFollow DEF ReportsInv
<1>14. ReaderTyped'
  <2>1. reader' \in ReaderRow
    BY <1>1, <1>2, <1>10, <1>11, <1>12, <1>13 DEF ReaderTyped, ReaderRow
  <2>2. reader'.at \in Phase[reader'.kind]
    BY <1>1, <1>2, <1>10, <1>11, <1>12, <1>13 DEF Phase
  <2>3. report' \in Seq(ReportRow)
    BY <1>1, <1>2, <1>10, <1>11, <1>12, <1>13 DEF ReaderTyped, ReaderRow
  <2> QED BY <2>1, <2>2, <2>3 DEF ReaderTyped, ReaderRow
<1>15. constant' \subseteq Listed(reported, reader'.filter)
  BY <1>1, <1>11 DEF ReportsInv
<1>16. FileHeaded(reader', response, latest, label, unheaded)
  BY <1>1, <1>11 DEF ReportsInv, FileHeaded
<1>17. FeedScored(reader', latest, superseded)
  BY <1>11 DEF FeedScored
<1>18. \A k \in 1..Len(V) : V[k].capture \in S
  BY <1>6 DEF ToldOf
<1>19. Descends(report')
  <2>1. \A k \in 1..Len(report) : report[k].capture >= reader.cursor
    BY <1>8 DEF FileOrdered
  <2>2. \A k \in 1..Len(V) : V[k].capture < reader.cursor
    BY <1>12, <1>18
  <2> QED BY <1>1, <1>3, <1>6, <1>8, <2>1, <2>2, RowsDescend
<1>20. \A k \in 1..Len(report') : report'[k].capture >= low
  <2> SUFFICES ASSUME NEW k \in 1..Len(report') PROVE report'[k].capture >= low
    OBVIOUS
  <2> DEFINE c == report'[k].capture
  <2>1. c \in ToldOf(report) \cup S
    BY <1>13 DEF ToldOf
  <2> HIDE DEF c
  <2>2. CASE c \in S
    BY <1>7, <1>12, <2>2 DEF c
  <2>3. CASE c \in ToldOf(report)
    <3>1. c >= reader.cursor
      BY <1>8, <2>3 DEF ToldOf, FileOrdered
    <3>2. c \in Nat
      <4>1. \A row \in ReportRow : row.capture \in Nat
        BY CaptureNumbers, Zenon DEF ReportRow
      <4> QED BY <1>3, <2>3, <4>1 DEF ToldOf
    <3>3. low < reader.cursor
      BY <1>7, <1>12
    <3>4. c >= low
      BY <1>3, <1>12, <3>1, <3>2, <3>3
    <3> QED BY <3>4 DEF c
  <2> QED BY <2>1, <2>2, <2>3
<1>21. Ordered(reader', report')
  BY <1>11, <1>19, <1>20 DEF Ordered, FileOrdered
<1>22. Covers(reader', report', constant', reported, shaken)
  <2>1. \A c \in constant :
          \/ c \in ToldOf(report')
          \/ Cardinality(S) >= BatchSize /\ \A i \in S : c < i
    BY <1>1, <1>8, <1>13 DEF FileCovers
  <2>2. CASE at = "done"
    <3>1. Cardinality(S) < BatchSize /\ Cardinality(S) \in Nat
      BY <1>3, <1>10, <2>2, DescendingLists
    <3>2. constant \subseteq ToldOf(report')
      BY <2>1, <3>1, ReportFacts
    <3> QED BY <1>1, <1>11, <2>2, <3>2 DEF Covers
  <2>3. CASE at = "rows"
    <3>1. \A c \in constant : c \in ToldOf(report') \/ c < low
      BY <1>7, <2>1
    <3> QED BY <1>1, <1>11, <2>3, <3>1 DEF Covers, FileCovers
  <2> QED BY <1>10, <2>2, <2>3
<1> QED BY <1>1, <1>11, <1>13, <1>14, <1>15, <1>16, <1>17, <1>21, <1>22, ReportMoves

LEMMA ReadQuizWholeKeeps ==
  ASSUME ReportsInv, Reports!ReadQuizWhole
  PROVE  ReportsInv'
<1> DEFINE S == reader.rows
<1>1. /\ reader.kind = "whole" /\ reader.at = "quiz"
      /\ reader' = [reader EXCEPT !.at = "done", !.rows = {}]
      /\ UNCHANGED <<reported, response, latest, label, constant, unheaded, superseded, shaken>>
  BY DEF Reports!ReadQuizWhole, Reports!tables
<1>2. PICK P \in Reports!HeaderPicks(Reports!Answered(Reports!LatestOf(S))) :
        report' = Reports!RowsTold(Reports!Labelled(P))
  BY DEF Reports!ReadQuizWhole
<1> DEFINE H == Reports!Labelled(P)
           V == Reports!RowsTold(H)
<1>3. TablesTyped /\ ReaderTyped /\ S \in SUBSET Reports!Captures
  BY DEF ReportsInv, ReaderTyped, ReaderRow
<1>4. \A i \in S : Headed(i, response, latest, label, H, unheaded)
  BY <1>2, <1>3, PicksHead
<1>5. RowsFor(V, S) /\ RowsRight(V, response, label, unheaded, superseded)
  BY <1>3, <1>4, RowsToldRight
<1>6. V \in Seq(ReportRow) /\ Descends(V) /\ ToldOf(V) = S
  BY <1>3, <1>5, RowsForTell DEF RowsFor
<1>7. report' = V
  BY <1>2
<1> HIDE DEF V, H
<1>8. reader'.kind = "whole" /\ reader'.at = "done" /\ reader'.filter = reader.filter
  BY <1>1, <1>3 DEF ReaderTyped, ReaderRow
<1>9. ReaderTyped'
  <2>1. reader' \in ReaderRow
    BY <1>1, <1>3, <1>6, <1>7 DEF ReaderTyped, ReaderRow
  <2>2. reader'.at \in Phase[reader'.kind]
    BY <1>1, <1>3, <1>6, <1>7, <1>8 DEF Phase
  <2>3. report' \in Seq(ReportRow)
    BY <1>1, <1>3, <1>6, <1>7 DEF ReaderTyped, ReaderRow
  <2> QED BY <2>1, <2>2, <2>3 DEF ReaderTyped, ReaderRow
<1>10. constant' \subseteq Listed(reported, reader'.filter)
  BY <1>1, <1>8 DEF ReportsInv
<1>11. constant' \subseteq ToldOf(report')
  BY <1>1, <1>6, <1>7 DEF ReportsInv, Covers
<1>12. /\ Ordered(reader', report') /\ FeedScored(reader', latest, superseded)
       /\ Covers(reader', report', constant', reported, shaken)
  BY <1>6, <1>7, <1>8, <1>11 DEF Ordered, FeedScored, Covers
<1> QED BY <1>1, <1>5, <1>7, <1>8, <1>9, <1>10, <1>12, ReportMoves

LEMMA ReadScoresKeeps ==
  ASSUME ReportsInv, Reports!ReadScores
  PROVE  ReportsInv'
<1> DEFINE scored == [i \in Reports!Captures |-> IF i \in reader.rows THEN latest[i] ELSE 0]
<1>1. /\ reader.kind = "feed" /\ reader.at = "quiz"
      /\ reader' = [reader EXCEPT !.at = "answers", !.scored = scored]
      /\ UNCHANGED <<reported, response, latest, label, report, constant, unheaded, superseded,
                     shaken>>
  BY DEF Reports!ReadScores, Reports!tables
<1>2. TablesTyped /\ ReaderTyped
  BY DEF ReportsInv
<1>3. \A i \in Reports!Captures : latest[i] \in Nat
  BY <1>2, ResponseRows DEF TablesTyped
<1>4. scored \in [Reports!Captures -> Nat]
  BY <1>3
<1>5. \A i \in reader.rows : scored[i] = latest[i]
  BY <1>2 DEF ReaderTyped, ReaderRow
<1> HIDE DEF scored
<1>6. /\ reader'.kind = "feed" /\ reader'.at = "answers" /\ reader'.filter = reader.filter
      /\ reader'.rows = reader.rows /\ reader'.scored = scored
  BY <1>1, <1>2 DEF ReaderTyped, ReaderRow
<1>7. ReaderTyped'
  <2>1. reader' \in ReaderRow
    BY <1>1, <1>2, <1>4 DEF ReaderTyped, ReaderRow
  <2>2. reader'.at \in Phase[reader'.kind]
    BY <1>1, <1>2, <1>4, <1>6 DEF Phase
  <2>3. report' \in Seq(ReportRow)
    BY <1>1, <1>2, <1>4 DEF ReaderTyped, ReaderRow
  <2> QED BY <2>1, <2>2, <2>3 DEF ReaderTyped, ReaderRow
<1>8. constant' \subseteq Listed(reported, reader'.filter)
  BY <1>1, <1>6 DEF ReportsInv
<1>9. Ordered(reader', report') /\ RowsRight(report', response, label, unheaded, superseded)
  BY <1>1, <1>6 DEF ReportsInv, Ordered
<1>10. /\ FeedScored(reader', latest, superseded)
       /\ Covers(reader', report', constant', reported, shaken)
  BY <1>5, <1>6 DEF FeedScored, Covers
<1> QED BY <1>1, <1>6, <1>7, <1>8, <1>9, <1>10, ReportMoves

LEMMA ReadAnswersKeeps ==
  ASSUME ReportsInv, Reports!ReadAnswers
  PROVE  ReportsInv'
<1> DEFINE S == reader.rows
           D == Reports!Descending(S)
           row(k) == [capture |-> D[k], scored |-> reader.scored[D[k]], answered |-> latest[D[k]],
                      shown |-> IF latest[D[k]] = 0 THEN {} ELSE response[latest[D[k]]].questions]
           V == [k \in 1..Cardinality(S) |-> row(k)]
<1>1. /\ reader.kind = "feed" /\ reader.at = "answers"
      /\ reader' = [reader EXCEPT !.at = "done", !.rows = {}]
      /\ UNCHANGED <<reported, response, latest, label, constant, unheaded, superseded, shaken>>
  BY DEF Reports!ReadAnswers, Reports!tables
<1>2. report' = V
  BY ReportsCount DEF Reports!ReadAnswers
<1>3. TablesTyped /\ ReaderTyped
  BY DEF ReportsInv
<1>4. S \in SUBSET Reports!Captures
  BY <1>3 DEF ReaderTyped, ReaderRow
<1>5. Cardinality(S) \in Nat /\ \A k \in 1..Cardinality(S) : D[k] \in S
  BY <1>4, DescendingLists
<1>6. \A i \in S : reader.scored[i] \in Nat /\ (reader.scored[i] = latest[i] \/ i \in superseded)
  BY <1>1, <1>3, <1>4 DEF ReportsInv, FeedScored, ReaderTyped, ReaderRow
<1> HIDE DEF D, V
<1>7. ASSUME NEW k \in 1..Cardinality(S)
      PROVE  row(k) \in ReportRow /\ RowRight(row(k), response, label, unheaded, superseded)
  <2> DEFINE i == D[k]
  <2>1. i \in S /\ i \in Reports!Captures
    BY <1>4, <1>5
  <2> HIDE DEF i
  <2> DEFINE shown == IF latest[i] = 0 THEN {} ELSE response[latest[i]].questions
  <2>2. latest[i] \in 0..Len(response) /\ Len(response) \in Nat
    BY <1>3, <2>1, ResponseRows DEF TablesTyped
  <2>3. shown \in SUBSET Reports!Questions
    BY <1>3, <2>2, ResponseRows
  <2>4. ASSUME latest[i] # 0, NEW q \in response[latest[i]].questions PROVE q \in shown
    BY <2>4
  <2> DEFINE x == [capture |-> i, scored |-> reader.scored[i], answered |-> latest[i],
                   shown |-> shown]
  <2>5. x = row(k)
    BY DEF i
  <2>6. /\ x.capture = i /\ x.scored = reader.scored[i] /\ x.answered = latest[i]
        /\ x.shown = shown
    OBVIOUS
  <2>7. x \in ReportRow
    BY <1>6, <2>1, <2>2, <2>3 DEF ReportRow
  <2> HIDE DEF x, shown
  <2>8. RowRight(x, response, label, unheaded, superseded)
    BY <1>6, <2>1, <2>2, <2>4, <2>6 DEF RowRight
  <2> QED BY <2>5, <2>7, <2>8
<1> HIDE DEF row
<1>8. V \in Seq(ReportRow) /\ Len(V) = Cardinality(S) /\ \A k \in 1..Cardinality(S) : V[k] = row(k)
  BY <1>5, <1>7 DEF V
<1>9. RowsRight(V, response, label, unheaded, superseded)
  BY <1>7, <1>8 DEF RowsRight
<1>10. \A k \in 1..Cardinality(S) : V[k].capture = D[k]
  BY <1>8 DEF row
<1>11. Descends(V)
  <2>1. RowsFor(V, S)
    BY <1>8, <1>10 DEF RowsFor, D
  <2> QED BY <1>4, <2>1, RowsForTell
<1>12. reader'.kind = "feed" /\ reader'.at = "done" /\ reader'.filter = reader.filter
  BY <1>1, <1>3 DEF ReaderTyped, ReaderRow
<1>13. ReaderTyped'
  <2>1. reader' \in ReaderRow
    BY <1>1, <1>3 DEF ReaderTyped, ReaderRow
  <2>2. reader'.at \in Phase[reader'.kind]
    BY <1>12 DEF Phase
  <2> QED BY <1>2, <1>8, <2>1, <2>2 DEF ReaderTyped
<1>14. constant' \subseteq Listed(reported, reader'.filter)
  BY <1>1, <1>12 DEF ReportsInv
<1>15. /\ Ordered(reader', report') /\ FeedScored(reader', latest, superseded)
       /\ Covers(reader', report', constant', reported, shaken)
  BY <1>2, <1>11, <1>12 DEF Ordered, FeedScored, Covers
<1> QED BY <1>1, <1>2, <1>9, <1>12, <1>13, <1>14, <1>15, ReportMoves

-----------------------------------------------------------------------------
(* The reports: pages *)

\* The rows before and on the page that is read.
RowsUpTo(rd) == rd.page * BatchSize

LEMMA PageCounts ==
  ASSUME ReaderTyped
  PROVE  /\ RowsUpTo(reader) \in Nat /\ RowsUpTo(reader) - BatchSize \in Nat
         /\ (reader.page - 1) * BatchSize = RowsUpTo(reader) - BatchSize
<1>1. reader.page \in Nat /\ reader.page >= 1
  BY DEF ReaderTyped, ReaderRow
<1> DEFINE p == reader.page
<1>2. \A a, b \in Nat : a >= 1 /\ b >= 1 =>
        a * b \in Nat /\ (a - 1) * b = a * b - b /\ (a - 1) * b \in Nat
  OBVIOUS
<1> QED BY <1>1, <1>2, ReportFacts DEF RowsUpTo

LEMMA ListRanks ==
  ASSUME NEW C, NEW filter, NEW c \in Listed(C, filter)
  PROVE  /\ Listed(C, filter) \in SUBSET Reports!Captures
         /\ Later(C, filter, c) = Above(Listed(C, filter), c)
         /\ Cardinality(Later(C, filter, c)) = Rank(Listed(C, filter), c)
         /\ Rank(Listed(C, filter), c) \in Nat /\ Cardinality(Listed(C, filter)) \in Nat
         /\ Rank(Listed(C, filter), c) + 1 <= Cardinality(Listed(C, filter))
<1> DEFINE M == Listed(C, filter)
<1>1. M \in SUBSET Reports!Captures
  BY DEF Listed
<1>2. Later(C, filter, c) = Above(M, c)
  BY DEF Later, Above
<1> HIDE DEF M
<1>3. M \in SUBSET (1..MaxReported) /\ c \in M /\ c \in 1..MaxReported
  BY <1>1, ReportFacts DEF M
<1>4. Rank(M, c) \in Nat /\ Rank(M, c) + 1 <= Cardinality(M)
  BY <1>3, RankCounted, ReportFacts
<1>5. Cardinality(M) \in Nat
  BY <1>3, Counted, ReportFacts
<1> QED BY <1>1, <1>2, <1>4, <1>5 DEF M, Rank

\* Of what is there all along, what the pages up to this one did not tell of
\* comes after as many as they have rows.
LEMMA ListedPage == ReaderTyped => Reports!PageRows \in SUBSET Reports!Captures
<1> SUFFICES ASSUME ReaderTyped PROVE Reports!PageRows \in SUBSET Reports!Captures
  OBVIOUS
<1> DEFINE M == Listed(reported, reader.filter)
           n == RowsUpTo(reader)
<1>1. Reports!PageRows = Reports!First(M, n) \ Reports!First(M, n - BatchSize)
  BY DEF Reports!PageRows, Reports!Matching, Listed, RowsUpTo
<1>2. M \in SUBSET Reports!Captures
  BY DEF Listed
<1> HIDE DEF M, n
<1>3. n \in Nat
  BY PageCounts DEF n
<1>4. Reports!First(M, n) \in SUBSET M
  BY <1>2, <1>3, FirstRows
<1> QED BY <1>1, <1>2, <1>4

LEMMA PageTells ==
  ASSUME ReportsInv, reader.kind = "pages", reader.at \in {"page", "total"}, ~shaken,
         NEW c \in constant, c \notin ToldOf(report), c \notin Reports!PageRows
  PROVE  Cardinality(Later(reported, reader.filter, c)) >= RowsUpTo(reader)
<1> DEFINE M == Listed(reported, reader.filter)
           n == RowsUpTo(reader)
<1>1. c \in M /\ ReaderTyped
  BY DEF ReportsInv
<1>2. M \in SUBSET Reports!Captures /\ Rank(M, c) \in Nat
      /\ Cardinality(Later(reported, reader.filter, c)) = Rank(M, c)
  BY <1>1, ListRanks
<1>3. PagesCover(reader, report, constant, reported) /\ PagesRead(reader) = reader.page - 1
  BY DEF ReportsInv, Covers, PagesRead
<1>4. n \in Nat /\ n - BatchSize \in Nat /\ (reader.page - 1) * BatchSize = n - BatchSize
  BY <1>1, PageCounts
<1>5. Rank(M, c) >= n - BatchSize
  BY <1>2, <1>3, <1>4 DEF PagesCover
<1>6. Reports!PageRows = Reports!First(M, n) \ Reports!First(M, n - BatchSize)
  BY DEF Reports!PageRows, Reports!Matching, Listed, RowsUpTo
<1> HIDE DEF M, n
<1>7. /\ Reports!First(M, n) = {i \in M : Rank(M, i) < n}
      /\ Reports!First(M, n - BatchSize) = {i \in M : Rank(M, i) < n - BatchSize}
  BY <1>2, <1>4, FirstRows
<1>8. ~(Rank(M, c) < n)
  BY <1>1, <1>2, <1>4, <1>5, <1>6, <1>7 DEF M
<1> QED BY <1>2, <1>4, <1>8 DEF M, n

\* The reader after a page, or the number of pages, was the last to come.
LEMMA NextPages ==
  ASSUME ReportsInv, reader.kind = "pages", NEW total \in Nat,
         reader' = Reports!NextPage(total), report' \in Seq(ReportRow),
         UNCHANGED <<reported, constant>>,
         \A c \in constant \ ToldOf(report') :
           shaken \/ /\ total = Cardinality(Listed(reported, reader.filter))
                     /\ Cardinality(Later(reported, reader.filter, c)) >= RowsUpTo(reader)
  PROVE  /\ ReaderTyped' /\ reader'.kind = "pages" /\ reader'.filter = reader.filter
         /\ reader'.at \in {"page", "done"}
         /\ Covers(reader', report', constant', reported, shaken)
<1> DEFINE n == RowsUpTo(reader)
<1>1. ReaderTyped /\ n \in Nat /\ constant \subseteq Listed(reported, reader.filter)
  BY PageCounts DEF ReportsInv
<1>2. reader' = IF n >= total THEN [reader EXCEPT !.at = "done", !.total = total]
                ELSE [reader EXCEPT !.at = "page", !.page = @ + 1, !.total = total]
  BY DEF Reports!NextPage, RowsUpTo
<1>3. reader.page \in Nat \ {0} /\ reader.page + 1 \in Nat \ {0}
  BY <1>1 DEF ReaderTyped, ReaderRow
<1> HIDE DEF n
<1>4. /\ reader'.kind = "pages" /\ reader'.filter = reader.filter
      /\ n >= total => reader'.at = "done"
      /\ ~(n >= total) => reader'.at = "page" /\ reader'.page = reader.page + 1
  BY <1>1, <1>2 DEF ReaderTyped, ReaderRow
<1>5. ReaderTyped'
  <2>1. reader' \in ReaderRow
    <3>1. reader \in ReaderRow /\ total \in Nat
      BY <1>1 DEF ReaderTyped, ReaderRow
    <3>2. CASE n >= total
      BY <1>2, <3>1, <3>2 DEF ReaderRow
    <3>3. CASE ~(n >= total)
      BY <1>2, <1>3, <3>1, <3>3 DEF ReaderRow
    <3> QED BY <3>2, <3>3
  <2>2. reader'.at \in Phase[reader'.kind]
    BY <1>4 DEF Phase
  <2> QED BY <2>1, <2>2 DEF ReaderTyped
<1>6. ASSUME ~shaken, NEW c \in constant \ ToldOf(report') PROVE ~(n >= total)
  <2>1. /\ total = Cardinality(Listed(reported, reader.filter))
        /\ Cardinality(Later(reported, reader.filter, c)) >= n
    BY <1>6 DEF n
  <2>2. c \in Listed(reported, reader.filter)
    BY <1>1
  <2> QED BY <1>1, <2>1, <2>2, ListRanks
<1>7. CASE n >= total
  <2>1. reader'.at = "done" /\ reader'.kind = "pages"
    BY <1>4, <1>7
  <2>2. shaken \/ constant' \subseteq ToldOf(report')
    BY <1>6, <1>7
  <2> QED BY <1>4, <1>5, <2>1, <2>2 DEF Covers
<1>8. CASE ~(n >= total)
  <2>1. PagesRead(reader') * BatchSize = n
    BY <1>3, <1>4, <1>8 DEF PagesRead, RowsUpTo, n
  <2>2. ~shaken => PagesCover(reader', report', constant', reported)
    BY <1>4, <1>8, <2>1 DEF PagesCover, n
  <2>3. reader'.at = "page" /\ reader'.kind = "pages"
    BY <1>4, <1>8
  <2> QED BY <1>4, <1>5, <2>2, <2>3 DEF Covers
<1> QED BY <1>4, <1>5, <1>7, <1>8

LEMMA ReadPageKeeps ==
  ASSUME ReportsInv, Reports!ReadPage
  PROVE  ReportsInv'
<1> DEFINE S == Reports!PageRows
           D == Reports!Descending(S)
           row(k) == [capture |-> D[k], scored |-> 0, answered |-> 0, shown |-> {}]
           V == [k \in 1..Cardinality(S) |-> row(k)]
<1>1. /\ reader.kind = "pages" /\ reader.at \in {"page", "total"} /\ report' = report \o V
      /\ reader' = IF reader.at = "page" THEN [reader EXCEPT !.at = "rows"]
                   ELSE Reports!NextPage(reader.total)
      /\ UNCHANGED <<reported, response, latest, label, constant, unheaded, superseded, shaken>>
  BY ReportsCount DEF Reports!ReadPage, Reports!tables
<1>2. TablesTyped /\ ReaderTyped /\ report \in Seq(ReportRow)
  BY DEF ReportsInv, ReaderTyped
<1>3. S \in SUBSET Reports!Captures
  BY <1>2, ListedPage
<1> HIDE DEF S
<1>4. Cardinality(S) \in Nat /\ \A k \in 1..Cardinality(S) : D[k] \in S
  BY <1>3, DescendingLists
<1> HIDE DEF D
<1>5. \A k \in 1..Cardinality(S) : row(k) \in ReportRow /\ row(k).capture = D[k]
        /\ row(k).scored = 0 /\ row(k).answered = 0
  BY <1>3, <1>4 DEF ReportRow
<1> HIDE DEF row
<1>6. V \in Seq(ReportRow) /\ Len(V) = Cardinality(S) /\ \A k \in 1..Cardinality(S) : V[k] = row(k)
  BY <1>4, <1>5
<1> HIDE DEF V
<1>7. RowsRight(V, response, label, unheaded, superseded)
  BY <1>2, <1>5, <1>6, ResponseRows DEF RowsRight, RowRight
<1>8. ToldOf(V) = S
  <2>1. RowsFor(V, S)
    BY <1>5, <1>6 DEF RowsFor, D
  <2> QED BY <1>3, <2>1, RowsForTell
<1>9. report' \in Seq(ReportRow) /\ ToldOf(report') = ToldOf(report) \cup S
      /\ RowsRight(report', response, label, unheaded, superseded)
  BY <1>1, <1>2, <1>6, <1>7, <1>8, RowsFollow DEF ReportsInv
<1>10. ASSUME ~shaken, NEW c \in constant \ ToldOf(report')
       PROVE  Cardinality(Later(reported, reader.filter, c)) >= RowsUpTo(reader)
  BY <1>1, <1>9, <1>10, PageTells DEF S
<1>11. CASE reader.at = "page"
  <2>1. reader' = [reader EXCEPT !.at = "rows"]
    BY <1>1, <1>11
  <2>2. /\ reader'.kind = "pages" /\ reader'.at = "rows" /\ reader'.filter = reader.filter
        /\ reader'.page = reader.page
    BY <1>1, <1>2, <2>1 DEF ReaderTyped, ReaderRow
  <2>3. ReaderTyped'
    <3>1. reader' \in ReaderRow
      BY <1>2, <2>1 DEF ReaderTyped, ReaderRow
    <3>2. reader'.at \in Phase[reader'.kind]
      BY <2>2 DEF Phase
    <3> QED BY <1>9, <3>1, <3>2 DEF ReaderTyped
  <2>4. PagesRead(reader') * BatchSize = RowsUpTo(reader)
    BY <2>2 DEF PagesRead, RowsUpTo
  <2>5. ~shaken => PagesCover(reader', report', constant', reported)
    BY <1>1, <1>10, <2>2, <2>4 DEF PagesCover
  <2>6. Covers(reader', report', constant', reported, shaken)
    BY <2>2, <2>5 DEF Covers
  <2>7. Ordered(reader', report') /\ FeedScored(reader', latest, superseded)
    BY <2>2 DEF Ordered, FeedScored
  <2>8. constant' \subseteq Listed(reported, reader'.filter)
    BY <1>1, <2>2 DEF ReportsInv
  <2> QED BY <1>1, <1>9, <2>2, <2>3, <2>6, <2>7, <2>8, ReportMoves
<1>12. CASE reader.at = "total"
  <2>1. reader' = Reports!NextPage(reader.total)
    BY <1>1, <1>12
  <2>2. reader.total \in Nat
    BY <1>2 DEF ReaderTyped, ReaderRow
  <2>3. ~shaken => reader.total = Cardinality(Listed(reported, reader.filter))
    BY <1>1, <1>12 DEF ReportsInv, Covers, PagesCover
  <2>4. /\ ReaderTyped' /\ reader'.kind = "pages" /\ reader'.filter = reader.filter
        /\ reader'.at \in {"page", "done"}
        /\ Covers(reader', report', constant', reported, shaken)
    BY <1>1, <1>9, <1>10, <2>1, <2>2, <2>3, NextPages
  <2>5. Ordered(reader', report') /\ FeedScored(reader', latest, superseded)
    BY <2>4 DEF Ordered, FeedScored
  <2>6. constant' \subseteq Listed(reported, reader'.filter)
    BY <1>1, <2>4 DEF ReportsInv
  <2> QED BY <1>1, <1>9, <2>4, <2>5, <2>6, ReportMoves
<1> QED BY <1>1, <1>11, <1>12

LEMMA CountPagesKeeps ==
  ASSUME ReportsInv, Reports!CountPages
  PROVE  ReportsInv'
<1> DEFINE M == Listed(reported, reader.filter)
           total == Cardinality(M)
<1>1. /\ reader.kind = "pages" /\ reader.at \in {"page", "rows"}
      /\ reader' = IF reader.at = "page" THEN [reader EXCEPT !.at = "total", !.total = total]
                   ELSE Reports!NextPage(total)
      /\ UNCHANGED <<reported, response, latest, label, report, constant, unheaded, superseded,
                     shaken>>
  BY ReportsCount DEF Reports!CountPages, Reports!tables, Reports!Matching, Listed
<1>2. TablesTyped /\ ReaderTyped /\ report \in Seq(ReportRow) /\ constant \subseteq M
  BY DEF ReportsInv, ReaderTyped
<1>3. total \in Nat
  <2>1. M \in SUBSET (1..MaxReported)
    BY ReportFacts DEF Listed
  <2> QED BY <2>1, Counted, ReportFacts
<1>4. ~shaken => PagesCover(reader, report, constant, reported)
  BY <1>1 DEF ReportsInv, Covers
<1> HIDE DEF total, M
<1>5. RowsRight(report', response, label, unheaded, superseded)
  BY <1>1 DEF ReportsInv
<1>6. CASE reader.at = "page"
  <2>1. reader' = [reader EXCEPT !.at = "total", !.total = total]
    BY <1>1, <1>6
  <2>2. /\ reader'.kind = "pages" /\ reader'.at = "total" /\ reader'.filter = reader.filter
        /\ reader'.page = reader.page /\ reader'.total = total
    BY <1>1, <1>2, <2>1 DEF ReaderTyped, ReaderRow
  <2>3. ReaderTyped'
    <3>1. reader' \in ReaderRow
      BY <1>2, <1>3, <2>1 DEF ReaderTyped, ReaderRow
    <3>2. reader'.at \in Phase[reader'.kind]
      BY <2>2 DEF Phase
    <3> QED BY <1>1, <1>2, <3>1, <3>2 DEF ReaderTyped
  <2>4. PagesRead(reader') = PagesRead(reader)
    BY <1>6, <2>2 DEF PagesRead
  <2>5. ~shaken => PagesCover(reader', report', constant', reported)
    BY <1>1, <1>4, <2>2, <2>4 DEF PagesCover, total, M
  <2>6. Covers(reader', report', constant', reported, shaken)
    BY <2>2, <2>5 DEF Covers
  <2>7. Ordered(reader', report') /\ FeedScored(reader', latest, superseded)
    BY <2>2 DEF Ordered, FeedScored
  <2>8. constant' \subseteq Listed(reported, reader'.filter)
    BY <1>1, <2>2 DEF ReportsInv
  <2> QED BY <1>1, <1>5, <2>2, <2>3, <2>6, <2>7, <2>8, ReportMoves
<1>7. CASE reader.at = "rows"
  <2>1. reader' = Reports!NextPage(total)
    BY <1>1, <1>7
  <2>2. PagesRead(reader) * BatchSize = RowsUpTo(reader)
    BY <1>7 DEF PagesRead, RowsUpTo
  <2>3. ASSUME ~shaken, NEW c \in constant \ ToldOf(report')
        PROVE  Cardinality(Later(reported, reader.filter, c)) >= RowsUpTo(reader)
    BY <1>1, <1>4, <2>2, <2>3 DEF PagesCover
  <2>4. /\ ReaderTyped' /\ reader'.kind = "pages" /\ reader'.filter = reader.filter
        /\ reader'.at \in {"page", "done"}
        /\ Covers(reader', report', constant', reported, shaken)
    <3>1. total = Cardinality(Listed(reported, reader.filter))
      BY DEF total, M
    <3> QED BY <1>1, <1>2, <1>3, <2>1, <2>3, <3>1, NextPages
  <2>5. Ordered(reader', report') /\ FeedScored(reader', latest, superseded)
    BY <2>4 DEF Ordered, FeedScored
  <2>6. constant' \subseteq Listed(reported, reader'.filter)
    BY <1>1, <2>4 DEF ReportsInv
  <2> QED BY <1>1, <1>5, <2>4, <2>5, <2>6, ReportMoves
<1> QED BY <1>1, <1>6, <1>7

-----------------------------------------------------------------------------
(* The reports: the invariant *)

LEMMA ReportsBegin == Reports!Init => ReportsInv
<1> SUFFICES ASSUME Reports!Init PROVE ReportsInv
  OBVIOUS
<1> DEFINE none == [state |-> "none", version |-> FALSE, contact |-> FALSE]
           zero == [i \in Reports!Captures |-> 0]
<1>1. /\ reported = [i \in Reports!Captures |-> none] /\ response = <<>> /\ latest = zero
      /\ label = [q \in Reports!Questions |-> q[1]] /\ reader = Reports!NoReader
      /\ report = <<>> /\ constant = {}
  BY DEF Reports!Init, Reports!Key
<1>2. none \in CaptureRow
  BY DEF CaptureRow
<1> HIDE DEF none
<1>3. TablesTyped
  <2>1. reported \in [Reports!Captures -> CaptureRow]
    BY <1>1, <1>2
  <2>2. response \in Seq(Response) /\ latest \in [Reports!Captures -> 0..Len(response)]
    BY <1>1
  <2>3. label \in [Reports!Questions -> Keys]
    BY <1>1, CaptureNumbers
  <2> QED BY <2>1, <2>2, <2>3 DEF TablesTyped
<1>4. reader = ReaderAt("none", "idle", "all", {}, {})
  BY <1>1 DEF ReaderAt, Reports!NoReader
<1>5. zero \in [Reports!Captures -> Nat]
  OBVIOUS
<1> HIDE DEF zero
<1>6. MaxReported + 1 \in Nat /\ 1 \in Nat \ {0} /\ 0 \in Nat /\ "all" \in Reports!Filters
  BY ReportFacts DEF Reports!Filters
<1>7. reader \in ReaderRow
  <2>1. reader = [kind |-> "none", at |-> "idle", filter |-> "all", headers |-> {}, rows |-> {},
                  cursor |-> MaxReported + 1, scored |-> zero, page |-> 1, total |-> 0]
    BY <1>4 DEF ReaderAt, zero
  <2> QED BY <1>5, <1>6, <2>1 DEF ReaderRow
<1>8. reader.kind = "none" /\ reader.at = "idle"
  BY <1>4 DEF ReaderAt
<1>9. ReaderTyped
  <2>1. reader.at \in Phase[reader.kind]
    BY <1>8 DEF Phase
  <2>2. report \in Seq(ReportRow)
    BY <1>1
  <2> QED BY <1>7, <2>1, <2>2 DEF ReaderTyped
<1>10. LatestStored(latest, reported)
  BY <1>1 DEF LatestStored, zero
<1>11. /\ constant \subseteq Listed(reported, reader.filter)
       /\ RowsRight(report, response, label, unheaded, superseded)
       /\ Ordered(reader, report) /\ FeedScored(reader, latest, superseded)
       /\ Covers(reader, report, constant, reported, shaken)
  BY <1>1, <1>8 DEF RowsRight, Ordered, Descends, FeedScored, Covers
<1> QED BY <1>3, <1>8, <1>9, <1>10, <1>11 DEF ReportsInv

LEMMA ReportsStep == ReportsInv /\ Reports!Next => ReportsInv'
<1> SUFFICES ASSUME ReportsInv, Reports!Next PROVE ReportsInv'
  OBVIOUS
<1>1. CASE \E i \in Reports!Captures :
             \/ \E version \in BOOLEAN : Reports!Register(i, version)
             \/ Reports!Commit(i) \/ Reports!Attach(i)
             \/ \E f \in QuizForms, K \in (SUBSET Keys) \ {{}}, last \in BOOLEAN :
                  Reports!Respond(i, f, K, last)
  <2>1. PICK i \in Reports!Captures :
             \/ \E version \in BOOLEAN : Reports!Register(i, version)
             \/ Reports!Commit(i) \/ Reports!Attach(i)
             \/ \E f \in QuizForms, K \in (SUBSET Keys) \ {{}}, last \in BOOLEAN :
                  Reports!Respond(i, f, K, last)
    BY <1>1
  <2>2. CASE \E version \in BOOLEAN : Reports!Register(i, version)
    BY <2>2, RegisterKeeps
  <2>3. CASE Reports!Commit(i) \/ Reports!Attach(i)
    BY <2>3, CommitReportKeeps, AttachKeeps
  <2>4. CASE \E f \in QuizForms, K \in (SUBSET Keys) \ {{}}, last \in BOOLEAN :
               Reports!Respond(i, f, K, last)
    <3>1. PICK f \in QuizForms, K \in (SUBSET Keys) \ {{}}, last \in BOOLEAN :
               Reports!Respond(i, f, K, last)
      BY <2>4
    <3>2. K \in SUBSET Keys
      OBVIOUS
    <3> QED BY <3>1, <3>2, RespondKeeps
  <2> QED BY <2>1, <2>2, <2>3, <2>4
<1>2. CASE \E q \in Reports!Questions, k \in Keys : Reports!EditText(q, k)
  BY <1>2, EditTextKeeps
<1>3. CASE \E filter \in {"all", "answered", "unanswered"} :
             Reports!BeginFile(filter) \/ Reports!BeginWhole(filter)
  BY <1>3, BeginFileKeeps, BeginWholeKeeps
<1>4. CASE \E filter \in Reports!Filters : Reports!BeginPages(filter)
  BY <1>4, BeginPagesKeeps
<1>5. CASE Reports!BeginFeed \/ Reports!ReadScores \/ Reports!ReadAnswers
  BY <1>5, BeginFeedKeeps, ReadScoresKeeps, ReadAnswersKeeps
<1>6. CASE Reports!ReadBatch \/ Reports!ReadQuiz \/ Reports!ReadQuizWhole
  BY <1>6, ReadBatchKeeps, ReadQuizKeeps, ReadQuizWholeKeeps
<1>7. CASE Reports!ReadPage \/ Reports!CountPages
  BY <1>7, ReadPageKeeps, CountPagesKeeps
<1> QED BY <1>1, <1>2, <1>3, <1>4, <1>5, <1>6, <1>7 DEF Reports!Next

LEMMA ReportsKept ==
  (part = "reports" => ReportsInv) /\ [Next]_vars => (part' = "reports" => ReportsInv')
<1> SUFFICES ASSUME part = "reports", ReportsInv, [Next]_vars PROVE ReportsInv'
  BY DEF Next, Step, vars
<1>1. CASE Reports!Next
  BY <1>1, ReportsStep
<1>2. CASE UNCHANGED reportVars
  BY <1>2 DEF reportVars, ReportsInv, TablesTyped, ReaderTyped
<1> QED BY <1>1, <1>2 DEF Next, Step, vars

LEMMA ReportsHold == ReportsInv => Reports!ToldInFull
<1> SUFFICES ASSUME ReportsInv PROVE Reports!ToldInFull
  OBVIOUS
<1>1. reader.at = "done" /\ reader.kind # "feed" => constant \subseteq Reports!Told \/ shaken
  BY DEF ReportsInv, Covers, ToldOf, Reports!Told
<1>2. reader.kind # "pages" =>
        \A j, k \in 1..Len(report) : j < k => report[j].capture > report[k].capture
  BY DEF ReportsInv, Ordered, Descends
<1>3. ASSUME NEW k \in 1..Len(report)
      PROVE  /\ report[k].scored = report[k].answered \/ report[k].capture \in superseded
             /\ report[k].answered = 0 \/
                  \A q \in response[report[k].answered].questions :
                    q \in report[k].shown \/ Reports!Clash(q) \/ q \in unheaded
  <2>1. RowRight(report[k], response, label, unheaded, superseded)
    BY DEF ReportsInv, RowsRight
  <2>2. \A q : Excused(q, label, unheaded) => Reports!Clash(q) \/ q \in unheaded
    BY Zenon DEF Excused, Clashing, Reports!Clash, Reports!Key
  <2> QED BY <2>1, <2>2 DEF RowRight
<1> QED BY <1>1, <1>2, <1>3, Zenon DEF Reports!ToldInFull

-----------------------------------------------------------------------------
(* The theorem *)

\* The feed skips no capture unless it was committed late, and a file or a list
\* paged through tells of each capture that was there all along, in order and with
\* the answers of its latest response, unless something changed in the middle:
\* listCapturesForSync, streamCapturesExcel, listCaptures.
THEOREM NothingMissed == Spec => []ReadersMissNothing
<1> DEFINE I == (part = "feed" => FeedInv) /\ (part = "reports" => ReportsInv)
<1>1. Init => I
  BY FeedBegins, ReportsBegin DEF Init
<1>2. I /\ [Next]_vars => I'
  BY FeedKept, ReportsKept
<1>3. I => ReadersMissNothing
  BY FeedHolds, ReportsHold DEF ReadersMissNothing
<1> QED BY <1>1, <1>2, <1>3, PTL DEF Spec

-----------------------------------------------------------------------------
(* Votes: the inductive invariant *)

CategoryRow == [campaign : Campaigns, active : BOOLEAN]
VotingRequest == Voting!EditCampaign \cup Voting!CastVote \cup {Voting!Idle}

VotingTables ==
  /\ campaign \in [Campaigns -> Voting!Campaign \cup {Absent}]
  /\ category \in [Categories -> CategoryRow \cup {Absent}]
  /\ candidate \in [Candidates -> Voting!Candidate \cup {Absent}]
  /\ voters \in 0..MaxVoters
  /\ voter \in [Voting!Ids -> Voting!Voter \cup {Absent}]
  /\ \A i \in 1..voters : voter[i] # Absent
  /\ votes \subseteq Voting!Vote
VotingTyped == VotingTables /\ voting \in [Clients -> VotingRequest]

Casts(t) == t.op \in {"find", "voter", "vote"}

\* A request about a campaign, by the table C of campaigns, K of rows two had in hand.
EditorWell(t, C, K) ==
  t.op = "campaign" =>
    /\ C[t.key] # Absent /\ Voting!InOrder(t.want)
    /\ t.key \in K \/ t.loaded \in {Absent, C[t.key]}

\* A vote by the tables N of candidates, V of n voters.
CasterWell(t, N, V, n, K) ==
  Casts(t) =>
    /\ N[t.candidate] # Absent /\ N[t.candidate].campaign = t.campaign
    /\ t.key \in 0..n /\ (t.op = "find" => t.key = 0) /\ (t.op = "vote" => t.key # 0)
    /\ t.key = 0 => t.loaded = Absent
    /\ t.key # 0 /\ t.key \notin K =>
         /\ t.op = "voter" => t.loaded \in {Absent, V[t.key]}
         /\ t.op = "vote" => V[t.key] = t.want
HandWell(t, C, N, V, n, K) == EditorWell(t, C, K) /\ CasterWell(t, N, V, n, K)

Edits(t, c) == t.op = "campaign" /\ t.key = c
CastsAs(t, i) == Casts(t) /\ t.key = i
OneEditor(c, T) == \A a, b \in Clients : Edits(T[a], c) /\ Edits(T[b], c) => a = b
OneCaster(i, T) == \A a, b \in Clients : CastsAs(T[a], i) /\ CastsAs(T[b], i) => a = b

\* What is voted for, and the category it is in, are of one campaign.
VoteWell(v, N) == N[v.candidate] # Absent /\ N[v.candidate].campaign = v.campaign
CampaignWell(c, C) == C[c] # Absent => Voting!InOrder(C[c])
CandidateWell(n, N, G) ==
  N[n] # Absent => G[N[n].category] # Absent /\ G[N[n].category].campaign = N[n].campaign

VotingInv ==
  /\ VotingTyped
  /\ \A a \in Clients : HandWell(voting[a], campaign, candidate, voter, voters, crowded)
  /\ \A c \in Campaigns \ crowded :
       OneEditor(c, voting) /\ CampaignWell(c, campaign)
  /\ \A i \in Voting!Ids \ crowded : OneCaster(i, voting)
  /\ \A v \in votes : VoteWell(v, candidate)
  /\ \A n \in Candidates : CandidateWell(n, candidate, category)

-----------------------------------------------------------------------------
(* Votes: the steps *)

LEMMA VotingFacts ==
  /\ Campaigns # {} /\ Categories # {} /\ Candidates # {} /\ MaxVoters \in Nat /\ Times \subseteq Int
  /\ Absent \notin Voting!Campaign /\ Absent \notin Voting!Candidate /\ Absent \notin Voting!Voter
  /\ Absent \notin CategoryRow /\ Voting!Ids = 1..MaxVoters /\ Voting!Ids \subseteq Nat
BY AddressConstants DEF CategoryRow, Voting!Ids

\* What a request in progress looks like.
LEMMA VotingRequestIs ==
  ASSUME NEW t \in VotingRequest
  PROVE  /\ t = Voting!Idle \/ t.op = "campaign" \/ Casts(t)
         /\ t.op = "campaign" => t \in Voting!EditCampaign
         /\ Casts(t) => t \in Voting!CastVote
         /\ t \in Voting!EditCampaign => t.op = "campaign" /\ ~Casts(t)
         /\ t \in Voting!CastVote => Casts(t) /\ t.op # "campaign"
         /\ ~Casts(Voting!Idle) /\ Voting!Idle.op # "campaign"
BY DEF VotingRequest, Voting!EditCampaign, Voting!CastVote, Voting!Idle, Casts

LEMMA StartsBeforeEnd == Voting!Start \in Times /\ Voting!End \in Times /\ Voting!Start <= Voting!End
<1>1. PICK s \in Times, e \in Times : \A t \in Times : s <= t /\ t <= e
  BY AddressConstants
<1>2. Voting!Start \in Times /\ \A u \in Times : Voting!Start <= u
  BY <1>1 DEF Voting!Start
<1>3. Voting!End \in Times /\ \A u \in Times : u <= Voting!End
  BY <1>1 DEF Voting!End
<1> QED BY <1>2, <1>3

LEMMA VotingBegins == Voting!Init => VotingInv
<1> SUFFICES ASSUME Voting!Init PROVE VotingInv
  OBVIOUS
<1> DEFINE c == CHOOSE c \in Campaigns : TRUE
           k == CHOOSE k \in Categories : TRUE
           n == CHOOSE n \in Candidates : TRUE
<1>1. c \in Campaigns /\ k \in Categories /\ n \in Candidates
  BY VotingFacts
<1>2. /\ campaign = [d \in Campaigns |->
           IF d = c THEN [starts |-> Voting!Start, ends |-> Voting!End, open |-> TRUE] ELSE Absent]
      /\ category = [l \in Categories |->
           IF l = k THEN [campaign |-> c, active |-> TRUE] ELSE Absent]
      /\ candidate = [m \in Candidates |->
           IF m = n THEN [campaign |-> c, category |-> k, active |-> TRUE] ELSE Absent]
  BY DEF Voting!Init
<1>3. /\ voter = [i \in Voting!Ids |-> Absent] /\ voters = 0 /\ votes = {}
      /\ voting = [a \in Clients |-> Voting!Idle]
  BY DEF Voting!Init
<1> HIDE DEF c, k, n
<1>4. [starts |-> Voting!Start, ends |-> Voting!End, open |-> TRUE] \in Voting!Campaign
  BY StartsBeforeEnd DEF Voting!Campaign
<1>5. [campaign |-> c, active |-> TRUE] \in CategoryRow
  BY <1>1 DEF CategoryRow
<1>6. [campaign |-> c, category |-> k, active |-> TRUE] \in Voting!Candidate
  BY <1>1 DEF Voting!Candidate
<1>7. VotingTyped
  BY <1>2, <1>3, <1>4, <1>5, <1>6, VotingFacts DEF VotingTyped, VotingTables, VotingRequest
<1>8. \A a \in Clients : ~Casts(voting[a]) /\ voting[a].op # "campaign"
  BY <1>3 DEF Casts, Voting!Idle
<1>9. \A d \in Campaigns : CampaignWell(d, campaign)
  BY <1>2, <1>4, StartsBeforeEnd, VotingFacts DEF CampaignWell, Voting!InOrder
<1>10. \A m \in Candidates : CandidateWell(m, candidate, category)
  BY <1>1, <1>2, <1>5, <1>6, VotingFacts DEF CandidateWell
<1> QED BY <1>3, <1>7, <1>8, <1>9, <1>10
        DEF VotingInv, HandWell, EditorWell, CasterWell, OneEditor, OneCaster, Edits, CastsAs

\* a goes on to t, with rows in hand that nobody else has or that are given up as crowded.
LEMMA VotingGoesOn ==
  ASSUME VotingInv, NEW a \in Clients, NEW t \in VotingRequest,
         voting' = [voting EXCEPT ![a] = t], crowded \subseteq crowded',
         t.op = "campaign" /\ t.key \notin crowded' =>
           \A b \in Clients \ {a} : ~Edits(voting[b], t.key),
         Casts(t) /\ t.key \in Voting!Ids \ crowded' =>
           \A b \in Clients \ {a} : ~CastsAs(voting[b], t.key)
  PROVE  /\ voting' \in [Clients -> VotingRequest]
         /\ voting'[a] = t /\ \A b \in Clients \ {a} : voting'[b] = voting[b]
         /\ \A c \in Campaigns \ crowded' : OneEditor(c, voting')
         /\ \A i \in Voting!Ids \ crowded' : OneCaster(i, voting')
<1>1. voting \in [Clients -> VotingRequest]
  BY DEF VotingInv, VotingTyped
<1>2. /\ voting' \in [Clients -> VotingRequest]
      /\ voting'[a] = t /\ \A b \in Clients \ {a} : voting'[b] = voting[b]
  BY <1>1
<1>3. ASSUME NEW c \in Campaigns \ crowded' PROVE OneEditor(c, voting')
  <2>1. OneEditor(c, voting)
    BY <1>3 DEF VotingInv
  <2> QED BY <1>2, <1>3, <2>1 DEF OneEditor, Edits
<1>4. ASSUME NEW i \in Voting!Ids \ crowded' PROVE OneCaster(i, voting')
  <2>1. OneCaster(i, voting)
    BY <1>4 DEF VotingInv
  <2> QED BY <1>2, <1>4, <2>1 DEF OneCaster, CastsAs
<1> QED BY <1>2, <1>3, <1>4

\* A row given up as crowded excuses more.
LEMMA HandExcused ==
  ASSUME NEW t, NEW C, NEW N, NEW V, NEW n, NEW K, NEW L, K \subseteq L, HandWell(t, C, N, V, n, K)
  PROVE  HandWell(t, C, N, V, n, L)
BY DEF HandWell, EditorWell, CasterWell

\* A step that leaves the tables, but for votes.
LEMMA VotingKeepsTables ==
  ASSUME VotingInv, NEW a \in Clients, NEW t \in VotingRequest,
         voting' = [voting EXCEPT ![a] = t], crowded \subseteq crowded',
         t.op = "campaign" /\ t.key \notin crowded' =>
           \A b \in Clients \ {a} : ~Edits(voting[b], t.key),
         Casts(t) /\ t.key \in Voting!Ids \ crowded' =>
           \A b \in Clients \ {a} : ~CastsAs(voting[b], t.key),
         UNCHANGED <<campaign, category, candidate, voter, voters>>,
         HandWell(t, campaign, candidate, voter, voters, crowded'),
         votes' \subseteq Voting!Vote, \A v \in votes' : VoteWell(v, candidate)
  PROVE  VotingInv'
<1>1. /\ voting' \in [Clients -> VotingRequest]
      /\ voting'[a] = t /\ \A b \in Clients \ {a} : voting'[b] = voting[b]
      /\ \A c \in Campaigns \ crowded' : OneEditor(c, voting')
      /\ \A i \in Voting!Ids \ crowded' : OneCaster(i, voting')
  BY VotingGoesOn
<1>2. VotingTyped'
  BY <1>1 DEF VotingInv, VotingTyped, VotingTables
<1>3. \A b \in Clients : HandWell(voting'[b], campaign, candidate, voter, voters, crowded')
  <2> TAKE b \in Clients
  <2>1. HandWell(voting[b], campaign, candidate, voter, voters, crowded')
    BY HandExcused DEF VotingInv
  <2> QED BY <1>1, <2>1
<1>4. /\ \A c \in Campaigns \ crowded' : CampaignWell(c, campaign)
      /\ \A n \in Candidates : CandidateWell(n, candidate, category)
  BY DEF VotingInv
<1> QED BY <1>1, <1>2, <1>3, <1>4 DEF VotingInv

LEMMA CreateCampaignKeeps ==
  ASSUME VotingInv, NEW a \in Clients, NEW c \in Campaigns, NEW new \in Voting!Campaign,
         Voting!CreateCampaign(a, c, new)
  PROVE  VotingInv'
<1>1. /\ campaign[c] = Absent /\ Voting!InOrder(new) /\ campaign' = [campaign EXCEPT ![c] = new]
      /\ UNCHANGED <<category, candidate, voter, voters, votes, voting, crowded>>
  BY DEF Voting!CreateCampaign, Voting!Exists
<1>2. campaign \in [Campaigns -> Voting!Campaign \cup {Absent}]
  BY DEF VotingInv, VotingTyped, VotingTables
<1>3. VotingTyped'
  BY <1>1, <1>2 DEF VotingInv, VotingTyped, VotingTables
<1>4. \A d \in Campaigns : campaign[d] # Absent => campaign'[d] = campaign[d]
  BY <1>1, <1>2
<1>5. \A b \in Clients : HandWell(voting[b], campaign', candidate, voter, voters, crowded)
  <2> TAKE b \in Clients
  <2>1. HandWell(voting[b], campaign, candidate, voter, voters, crowded)
    BY DEF VotingInv
  <2>2. voting[b].op = "campaign" => voting[b].key \in Campaigns
    <3>1. voting[b] \in VotingRequest
      BY DEF VotingInv, VotingTyped
    <3> QED BY <3>1, VotingRequestIs DEF Voting!EditCampaign
  <2> QED BY <1>4, <2>1, <2>2 DEF HandWell, EditorWell
<1>6. \A d \in Campaigns \ crowded : CampaignWell(d, campaign')
  <2> TAKE d \in Campaigns \ crowded
  <2>1. CampaignWell(d, campaign)
    BY DEF VotingInv
  <2>2. campaign'[d] = IF d = c THEN new ELSE campaign[d]
    BY <1>1, <1>2
  <2> QED BY <1>1, <2>1, <2>2 DEF CampaignWell
<1> QED BY <1>1, <1>3, <1>5, <1>6 DEF VotingInv

LEMMA UpdateCampaignKeeps ==
  ASSUME VotingInv, NEW a \in Clients, NEW c \in Campaigns, NEW want \in Voting!Campaign,
         Voting!UpdateCampaign(a, c, want)
  PROVE  VotingInv'
<1> DEFINE t == [op |-> "campaign", key |-> c, want |-> want, loaded |-> Absent]
<1>1. /\ campaign[c] # Absent /\ Voting!InOrder(want) /\ voting' = [voting EXCEPT ![a] = t]
      /\ Voting!Crowd(a, c) /\ UNCHANGED <<campaign, category, candidate, voter, voters, votes>>
  BY DEF Voting!UpdateCampaign, Voting!Exists, Voting!Do
<1>2. t \in VotingRequest /\ t.op = "campaign" /\ t.key = c /\ ~Casts(t)
  BY DEF VotingRequest, Voting!EditCampaign, Casts
<1>3. crowded \subseteq crowded' /\ (c \notin crowded' => \A b \in Clients \ {a} : ~Edits(voting[b], c))
  BY <1>1 DEF Voting!Crowd, Edits
<1>4. HandWell(t, campaign, candidate, voter, voters, crowded')
  BY <1>1, <1>2 DEF HandWell, EditorWell, CasterWell
<1>5. votes' \subseteq Voting!Vote /\ \A v \in votes' : VoteWell(v, candidate)
  BY <1>1 DEF VotingInv, VotingTyped, VotingTables
<1> HIDE DEF t
<1> QED BY <1>1, <1>2, <1>3, <1>4, <1>5, VotingKeepsTables

\* What is known of a request in hand.
LEMMA EditorKnown ==
  ASSUME VotingInv, NEW a \in Clients, voting[a] \in Voting!EditCampaign
  PROVE  /\ voting[a].op = "campaign" /\ voting[a].key \in Campaigns
         /\ voting[a].want \in Voting!Campaign /\ Voting!InOrder(voting[a].want)
         /\ voting[a].loaded \in Voting!Campaign \cup {Absent}
         /\ campaign[voting[a].key] \in Voting!Campaign
         /\ voting[a].key \in crowded \/ voting[a].loaded \in {Absent, campaign[voting[a].key]}
         /\ voting[a].key \notin crowded => \A b \in Clients \ {a} : ~Edits(voting[b], voting[a].key)
<1>1. HandWell(voting[a], campaign, candidate, voter, voters, crowded)
  BY DEF VotingInv
<1>2. campaign \in [Campaigns -> Voting!Campaign \cup {Absent}]
  BY DEF VotingInv, VotingTyped, VotingTables
<1>3. voting[a].op = "campaign" /\ voting[a].key \in Campaigns
      /\ voting[a].want \in Voting!Campaign /\ voting[a].loaded \in Voting!Campaign \cup {Absent}
  BY DEF Voting!EditCampaign
<1>4. voting[a].key \notin crowded => OneEditor(voting[a].key, voting)
  BY <1>3 DEF VotingInv
<1> QED BY <1>1, <1>2, <1>3, <1>4 DEF HandWell, EditorWell, OneEditor, Edits

LEMMA LoadCampaignKeeps ==
  ASSUME VotingInv, NEW a \in Clients, Voting!LoadCampaign(a)
  PROVE  VotingInv'
<1> DEFINE u == voting[a]
           t == [u EXCEPT !.loaded = campaign[u.key]]
<1>1. /\ u \in Voting!EditCampaign /\ voting' = [voting EXCEPT ![a] = t]
      /\ UNCHANGED <<campaign, category, candidate, voter, voters, votes, crowded>>
  BY DEF Voting!LoadCampaign, Voting!Do
<1>2. /\ u.op = "campaign" /\ u.key \in Campaigns /\ campaign[u.key] \in Voting!Campaign
      /\ Voting!InOrder(u.want)
      /\ u.key \notin crowded => \A b \in Clients \ {a} : ~Edits(voting[b], u.key)
  BY <1>1, EditorKnown
<1>3. /\ t \in Voting!EditCampaign /\ t.op = "campaign" /\ t.key = u.key /\ t.want = u.want
      /\ t.loaded = campaign[u.key] /\ ~Casts(t)
  BY <1>1, <1>2 DEF Voting!EditCampaign, Casts
<1> HIDE DEF t, u
<1>4. HandWell(t, campaign, candidate, voter, voters, crowded)
  BY <1>2, <1>3, VotingFacts DEF HandWell, EditorWell, CasterWell
<1>5. votes \subseteq Voting!Vote /\ \A v \in votes : VoteWell(v, candidate)
  BY DEF VotingInv, VotingTyped, VotingTables
<1>6. t \in VotingRequest
  BY <1>3 DEF VotingRequest
<1> QED BY <1>1, <1>2, <1>3, <1>4, <1>5, <1>6, VotingKeepsTables

LEMMA CampaignWritten ==
  ASSUME NEW old \in Voting!Campaign, NEW loaded \in Voting!Campaign, NEW want \in Voting!Campaign
  PROVE  /\ Voting!Written(old, loaded, want) \in Voting!Campaign
         /\ old = loaded => Voting!Written(old, loaded, want) = want
BY DEF Voting!Written, Voting!Campaign

LEMMA SaveCampaignKeeps ==
  ASSUME VotingInv, NEW a \in Clients, Voting!SaveCampaign(a)
  PROVE  VotingInv'
<1> DEFINE u == voting[a]
           c == u.key
           new == Voting!Written(campaign[c], u.loaded, u.want)
<1>1. /\ u \in Voting!EditCampaign /\ u.loaded # Absent
      /\ campaign' = [campaign EXCEPT ![c] = new] /\ voting' = [voting EXCEPT ![a] = Voting!Idle]
      /\ UNCHANGED <<category, candidate, voter, voters, votes, crowded>>
  BY DEF Voting!SaveCampaign, Voting!Do, Voting!Exists
<1>2. /\ u.op = "campaign" /\ c \in Campaigns /\ campaign[c] \in Voting!Campaign
      /\ u.want \in Voting!Campaign /\ Voting!InOrder(u.want)
      /\ u.loaded \in Voting!Campaign
      /\ c \in crowded \/ u.loaded = campaign[c]
      /\ c \notin crowded => \A b \in Clients \ {a} : ~Edits(voting[b], c)
  BY <1>1, EditorKnown
<1>3. new \in Voting!Campaign /\ (c \notin crowded => new = u.want)
  BY <1>2, CampaignWritten
<1>4. campaign \in [Campaigns -> Voting!Campaign \cup {Absent}]
  BY DEF VotingInv, VotingTyped, VotingTables
<1> HIDE DEF u, c, new
<1>5. \A d \in Campaigns : campaign'[d] = IF d = c THEN new ELSE campaign[d]
  BY <1>1, <1>4
<1>6. Voting!Idle \in VotingRequest /\ ~Casts(Voting!Idle) /\ Voting!Idle.op # "campaign"
  BY DEF VotingRequest, Voting!Idle, Casts
<1>7. /\ voting' \in [Clients -> VotingRequest]
      /\ voting'[a] = Voting!Idle /\ \A b \in Clients \ {a} : voting'[b] = voting[b]
      /\ \A d \in Campaigns \ crowded' : OneEditor(d, voting')
      /\ \A i \in Voting!Ids \ crowded' : OneCaster(i, voting')
  BY <1>1, <1>6, VotingGoesOn
<1>8. VotingTyped'
  BY <1>1, <1>3, <1>4, <1>7 DEF VotingInv, VotingTyped, VotingTables
<1>9. \A b \in Clients : HandWell(voting'[b], campaign', candidate, voter, voters, crowded)
  <2> TAKE b \in Clients
  <2>1. CASE b = a
    BY <1>6, <1>7, <2>1 DEF HandWell, EditorWell, CasterWell
  <2>2. CASE b # a
    <3>1. HandWell(voting[b], campaign, candidate, voter, voters, crowded) /\ voting'[b] = voting[b]
      BY <1>7, <2>2 DEF VotingInv
    <3>2. voting[b].op = "campaign" => voting[b].key \in Campaigns
      <4>1. voting[b] \in VotingRequest
        BY DEF VotingInv, VotingTyped
      <4> QED BY <4>1, VotingRequestIs DEF Voting!EditCampaign
    <3>3. voting[b].op = "campaign" /\ voting[b].key = c => c \in crowded
      BY <1>2, <2>2 DEF Edits
    <3> QED BY <1>3, <1>5, <3>1, <3>2, <3>3, VotingFacts DEF HandWell, EditorWell
  <2> QED BY <2>1, <2>2
<1>10. \A d \in Campaigns \ crowded : CampaignWell(d, campaign')
  <2> TAKE d \in Campaigns \ crowded
  <2>1. CampaignWell(d, campaign)
    BY DEF VotingInv
  <2> QED BY <1>2, <1>3, <1>5, <2>1 DEF CampaignWell
<1>11. /\ \A v \in votes : VoteWell(v, candidate)
       /\ \A n \in Candidates : CandidateWell(n, candidate, category)
  BY DEF VotingInv
<1> QED BY <1>1, <1>7, <1>8, <1>9, <1>10, <1>11 DEF VotingInv

LEMMA PutCategoryKeeps ==
  ASSUME VotingInv, NEW a \in Clients, NEW k \in Categories, NEW c \in Campaigns, NEW on \in BOOLEAN,
         Voting!PutCategory(a, k, c, on)
  PROVE  VotingInv'
<1> DEFINE new == [campaign |-> c, active |-> on]
<1>1. /\ category[k] # Absent => category[k].campaign = c
      /\ category' = [category EXCEPT ![k] = new]
      /\ UNCHANGED <<campaign, candidate, voter, voters, votes, voting, crowded>>
  BY DEF Voting!PutCategory, Voting!Exists
<1>2. new \in CategoryRow /\ new.campaign = c
  BY DEF CategoryRow
<1>3. category \in [Categories -> CategoryRow \cup {Absent}]
      /\ candidate \in [Candidates -> Voting!Candidate \cup {Absent}]
  BY DEF VotingInv, VotingTyped, VotingTables
<1> HIDE DEF new
<1>4. VotingTyped'
  BY <1>1, <1>2, <1>3 DEF VotingInv, VotingTyped, VotingTables
<1>5. \A n \in Candidates : CandidateWell(n, candidate, category')
  <2> TAKE n \in Candidates
  <2>1. CandidateWell(n, candidate, category)
    BY DEF VotingInv
  <2>2. candidate[n] # Absent => candidate[n].category \in Categories
    BY <1>3 DEF Voting!Candidate
  <2>3. \A l \in Categories : category'[l] = IF l = k THEN new ELSE category[l]
    BY <1>1, <1>3
  <2> QED BY <1>1, <1>2, <2>1, <2>2, <2>3, VotingFacts DEF CandidateWell
<1>6. /\ \A b \in Clients : HandWell(voting[b], campaign, candidate, voter, voters, crowded)
      /\ \A d \in Campaigns \ crowded : OneEditor(d, voting) /\ CampaignWell(d, campaign)
      /\ \A i \in Voting!Ids \ crowded : OneCaster(i, voting)
      /\ \A v \in votes : VoteWell(v, candidate)
  BY DEF VotingInv
<1> QED BY <1>1, <1>4, <1>5, <1>6 DEF VotingInv

LEMMA PutCandidateKeeps ==
  ASSUME VotingInv, NEW a \in Clients, NEW n \in Candidates, NEW c \in Campaigns,
         NEW k \in Categories, NEW on \in BOOLEAN, Voting!PutCandidate(a, n, c, k, on)
  PROVE  VotingInv'
<1> DEFINE new == [campaign |-> c, category |-> k, active |-> on]
<1>1. /\ category[k] # Absent /\ category[k].campaign = c
      /\ candidate[n] # Absent => candidate[n].campaign = c
      /\ candidate' = [candidate EXCEPT ![n] = new]
      /\ UNCHANGED <<campaign, category, voter, voters, votes, voting, crowded>>
  BY DEF Voting!PutCandidate, Voting!Exists
<1>2. new \in Voting!Candidate /\ new.campaign = c /\ new.category = k
  BY DEF Voting!Candidate
<1>3. candidate \in [Candidates -> Voting!Candidate \cup {Absent}] /\ votes \subseteq Voting!Vote
  BY DEF VotingInv, VotingTyped, VotingTables
<1> HIDE DEF new
<1>4. VotingTyped'
  BY <1>1, <1>2, <1>3 DEF VotingInv, VotingTyped, VotingTables
<1>5. \A m \in Candidates : candidate'[m] = IF m = n THEN new ELSE candidate[m]
  BY <1>1, <1>3
<1>6. \A m \in Candidates : CandidateWell(m, candidate', category)
  <2> TAKE m \in Candidates
  <2>1. CandidateWell(m, candidate, category)
    BY DEF VotingInv
  <2> QED BY <1>1, <1>2, <1>5, <2>1 DEF CandidateWell
<1>7. \A m \in Candidates : candidate[m] # Absent =>
        candidate'[m] # Absent /\ candidate'[m].campaign = candidate[m].campaign
  BY <1>1, <1>2, <1>5, VotingFacts
<1>8. \A b \in Clients : HandWell(voting[b], campaign, candidate', voter, voters, crowded)
  <2> TAKE b \in Clients
  <2>1. HandWell(voting[b], campaign, candidate, voter, voters, crowded)
    BY DEF VotingInv
  <2>2. Casts(voting[b]) => voting[b].candidate \in Candidates
    <3>1. voting[b] \in VotingRequest
      BY DEF VotingInv, VotingTyped
    <3> QED BY <3>1, VotingRequestIs DEF Voting!CastVote
  <2> QED BY <1>7, <2>1, <2>2 DEF HandWell, CasterWell
<1>9. \A v \in votes : VoteWell(v, candidate')
  <2> TAKE v \in votes
  <2>1. VoteWell(v, candidate) /\ v.candidate \in Candidates
    BY <1>3 DEF VotingInv, Voting!Vote
  <2> QED BY <1>7, <2>1 DEF VoteWell
<1>10. /\ \A d \in Campaigns \ crowded : OneEditor(d, voting) /\ CampaignWell(d, campaign)
       /\ \A i \in Voting!Ids \ crowded : OneCaster(i, voting)
  BY DEF VotingInv
<1> QED BY <1>1, <1>4, <1>6, <1>8, <1>9, <1>10 DEF VotingInv

-----------------------------------------------------------------------------
(* Votes: the steps of a vote *)

LEMMA RegisterVoteKeeps ==
  ASSUME VotingInv, NEW a \in Clients, NEW c \in Campaigns, NEW n \in Candidates, NEW now,
         NEW want \in Voting!Voter, Voting!RegisterVote(a, c, n, now, want)
  PROVE  VotingInv'
<1> DEFINE t == [op |-> "find", key |-> 0, campaign |-> c, candidate |-> n, want |-> want,
                 loaded |-> Absent]
<1>1. /\ candidate[n] # Absent /\ candidate[n].campaign = c /\ voting' = [voting EXCEPT ![a] = t]
      /\ UNCHANGED <<campaign, category, candidate, voter, voters, votes, crowded>>
  BY DEF Voting!RegisterVote, Voting!Exists, Voting!Do
<1>2. /\ t \in VotingRequest /\ t.op = "find" /\ t.key = 0 /\ t.campaign = c /\ t.candidate = n
      /\ Casts(t) /\ t.op # "campaign" /\ t.key \notin Voting!Ids /\ t.loaded = Absent
  BY VotingFacts DEF VotingRequest, Voting!CastVote, Casts
<1>3. votes \subseteq Voting!Vote /\ (\A v \in votes : VoteWell(v, candidate)) /\ voters \in Nat
  BY VotingFacts DEF VotingInv, VotingTyped, VotingTables
<1> HIDE DEF t
<1>4. HandWell(t, campaign, candidate, voter, voters, crowded)
  BY <1>1, <1>2, <1>3 DEF HandWell, EditorWell, CasterWell
<1> QED BY <1>1, <1>2, <1>3, <1>4, VotingKeepsTables

\* What is known of a vote in hand.
LEMMA CasterKnown ==
  ASSUME VotingInv, NEW a \in Clients, voting[a] \in Voting!CastVote
  PROVE  /\ Casts(voting[a]) /\ voting[a].op # "campaign"
         /\ voting[a].op = "find" => voting[a].key = 0
         /\ voting[a].key = 0 => voting[a].loaded = Absent
         /\ candidate[voting[a].candidate] # Absent
         /\ candidate[voting[a].candidate].campaign = voting[a].campaign
         /\ voting[a].candidate \in Candidates /\ voting[a].campaign \in Campaigns
         /\ voting[a].key \in 0..voters /\ voters \in Nat /\ voters <= MaxVoters
         /\ voting[a].want \in Voting!Voter /\ voting[a].loaded \in Voting!Voter \cup {Absent}
         /\ voting[a].op = "vote" => voting[a].key # 0
         /\ voting[a].key # 0 =>
              /\ voting[a].key \in Voting!Ids /\ voter[voting[a].key] \in Voting!Voter
              /\ voting[a].key \in crowded \/ voting[a].op # "voter"
                   \/ voting[a].loaded \in {Absent, voter[voting[a].key]}
              /\ voting[a].key \notin crowded =>
                   \A b \in Clients \ {a} : ~CastsAs(voting[b], voting[a].key)
<1> DEFINE u == voting[a]
<1>1. HandWell(u, campaign, candidate, voter, voters, crowded)
  BY DEF VotingInv
<1>2. /\ voter \in [Voting!Ids -> Voting!Voter \cup {Absent}] /\ voters \in 0..MaxVoters
      /\ \A i \in 1..voters : voter[i] # Absent
  BY DEF VotingInv, VotingTyped, VotingTables
<1>3. Casts(u) /\ u.op # "campaign" /\ u.candidate \in Candidates /\ u.campaign \in Campaigns
      /\ u.want \in Voting!Voter /\ u.loaded \in Voting!Voter \cup {Absent}
  BY DEF Voting!CastVote, Casts
<1>4. u.key \in 0..voters /\ voters \in Nat /\ voters <= MaxVoters
  BY <1>1, <1>2, <1>3, VotingFacts DEF HandWell, CasterWell
<1>5. u.key # 0 => u.key \in Voting!Ids /\ u.key \in 1..voters
  BY <1>4, VotingFacts
<1>6. u.key \in Voting!Ids \ crowded => OneCaster(u.key, voting)
  BY DEF VotingInv
<1>7. u.key \in Voting!Ids \ crowded => \A b \in Clients \ {a} : ~CastsAs(voting[b], u.key)
  BY <1>3, <1>6 DEF OneCaster, CastsAs
<1>8. u.key # 0 => voter[u.key] \in Voting!Voter
  BY <1>2, <1>5
<1> HIDE DEF u
<1>9. /\ candidate[u.candidate] # Absent /\ candidate[u.candidate].campaign = u.campaign
      /\ u.op = "vote" => u.key # 0
      /\ u.op = "find" => u.key = 0
      /\ u.key = 0 => u.loaded = Absent
      /\ u.key # 0 /\ u.key \notin crowded /\ u.op = "voter" => u.loaded \in {Absent, voter[u.key]}
  BY <1>1, <1>3 DEF HandWell, CasterWell
<1> QED BY <1>3, <1>4, <1>5, <1>7, <1>8, <1>9 DEF u

\* Where a request ends.
LEMMA EndKeeps ==
  ASSUME VotingInv, NEW a \in Clients, voting' = [voting EXCEPT ![a] = Voting!Idle],
         crowded' = crowded, UNCHANGED <<campaign, category, candidate, voter, voters>>,
         votes' \subseteq Voting!Vote, \A v \in votes' : VoteWell(v, candidate)
  PROVE  VotingInv'
<1>1. Voting!Idle \in VotingRequest /\ ~Casts(Voting!Idle) /\ Voting!Idle.op # "campaign"
  BY DEF VotingRequest, Voting!Idle, Casts
<1>2. HandWell(Voting!Idle, campaign, candidate, voter, voters, crowded)
  BY <1>1 DEF HandWell, EditorWell, CasterWell
<1> QED BY <1>1, <1>2, VotingKeepsTables

LEMMA VotesKept ==
  ASSUME VotingInv PROVE votes \subseteq Voting!Vote /\ \A v \in votes : VoteWell(v, candidate)
BY DEF VotingInv, VotingTyped, VotingTables

LEMMA FindVoterKeeps ==
  ASSUME VotingInv, NEW a \in Clients, Voting!FindVoter(a)
  PROVE  VotingInv'
<1> DEFINE u == voting[a]
           found == Voting!With(u.want)
           t == [u EXCEPT !.op = "voter"]
           s(i) == [u EXCEPT !.op = "voter", !.key = i]
<1>1. /\ u \in Voting!CastVote /\ u.op = "find"
      /\ UNCHANGED <<campaign, category, candidate, voter, voters, votes>>
      /\ \/ voting' = [voting EXCEPT ![a] = Voting!Idle] /\ crowded' = crowded
         \/ voting' = [voting EXCEPT ![a] = t] /\ crowded' = crowded
         \/ \E i \in found : voting' = [voting EXCEPT ![a] = s(i)] /\ Voting!Crowd(a, i)
  BY DEF Voting!FindVoter, Voting!Do
<1>2. /\ candidate[u.candidate] # Absent /\ candidate[u.candidate].campaign = u.campaign
      /\ u.key \in 0..voters /\ voters \in Nat /\ voters <= MaxVoters
      /\ u.want \in Voting!Voter
  BY <1>1, CasterKnown
<1>3. u.key = 0 /\ u.loaded = Absent
  BY <1>1, CasterKnown
<1>4. CASE voting' = [voting EXCEPT ![a] = Voting!Idle] /\ crowded' = crowded
  BY <1>1, <1>4, EndKeeps, VotesKept
<1>5. CASE voting' = [voting EXCEPT ![a] = t] /\ crowded' = crowded
  <2>1. /\ t \in Voting!CastVote /\ t.op = "voter" /\ t.key = 0 /\ t.campaign = u.campaign
        /\ t.candidate = u.candidate /\ t.loaded = Absent
    BY <1>1, <1>3 DEF Voting!CastVote
  <2> HIDE DEF t, u
  <2>2. t \in VotingRequest /\ t.op # "campaign" /\ t.key \notin Voting!Ids
    BY <2>1, VotingFacts DEF VotingRequest
  <2>3. HandWell(t, campaign, candidate, voter, voters, crowded)
    BY <1>2, <2>1 DEF HandWell, EditorWell, CasterWell, Casts
  <2> QED BY <1>1, <1>5, <2>2, <2>3, VotesKept, VotingKeepsTables
<1>6. ASSUME NEW i \in found, voting' = [voting EXCEPT ![a] = s(i)], Voting!Crowd(a, i)
      PROVE  VotingInv'
  <2> DEFINE v == s(i)
  <2>1. i \in 1..voters /\ i \in Voting!Ids /\ i # 0
    BY <1>2, VotingFacts DEF Voting!With
  <2>2. /\ v \in Voting!CastVote /\ v.op = "voter" /\ v.key = i /\ v.campaign = u.campaign
        /\ v.candidate = u.candidate /\ v.loaded = u.loaded
    BY <1>1, <2>1 DEF Voting!CastVote
  <2>3. u.loaded = Absent
    BY <1>3
  <2>4. crowded \subseteq crowded'
        /\ (i \notin crowded' => \A b \in Clients \ {a} : ~CastsAs(voting[b], i))
    <3>1. ASSUME NEW b \in Clients, CastsAs(voting[b], i) PROVE voting[b].key = i /\ voting[b].op # "find"
      <4>1. HandWell(voting[b], campaign, candidate, voter, voters, crowded)
        BY DEF VotingInv
      <4> QED BY <2>1, <3>1, <4>1 DEF HandWell, CasterWell, CastsAs
    <3> QED BY <1>6, <3>1 DEF Voting!Crowd
  <2>5. voting' = [voting EXCEPT ![a] = v]
    BY <1>6
  <2> HIDE DEF v, u
  <2>6. HandWell(v, campaign, candidate, voter, voters, crowded')
    BY <1>2, <2>1, <2>2, <2>3 DEF HandWell, EditorWell, CasterWell, Casts
  <2>7. v \in VotingRequest /\ v.op # "campaign"
    BY <2>2 DEF VotingRequest
  <2> QED BY <1>1, <2>2, <2>4, <2>5, <2>6, <2>7, VotesKept, VotingKeepsTables
<1> QED BY <1>1, <1>4, <1>5, <1>6

LEMMA LoadVoterKeeps ==
  ASSUME VotingInv, NEW a \in Clients, Voting!LoadVoter(a)
  PROVE  VotingInv'
<1> DEFINE u == voting[a]
           t == [u EXCEPT !.loaded = voter[u.key]]
<1>1. /\ u \in Voting!CastVote /\ u.op = "voter" /\ u.key # 0 /\ voting' = [voting EXCEPT ![a] = t]
      /\ UNCHANGED <<campaign, category, candidate, voter, voters, votes, crowded>>
  BY DEF Voting!LoadVoter, Voting!Do
<1>2. /\ candidate[u.candidate] # Absent /\ candidate[u.candidate].campaign = u.campaign
      /\ u.key \in 0..voters /\ voter[u.key] \in Voting!Voter
      /\ u.key \notin crowded => \A b \in Clients \ {a} : ~CastsAs(voting[b], u.key)
  BY <1>1, CasterKnown
<1>3. /\ t \in Voting!CastVote /\ t.op = "voter" /\ t.key = u.key /\ t.campaign = u.campaign
      /\ t.candidate = u.candidate /\ t.loaded = voter[u.key]
  BY <1>1, <1>2 DEF Voting!CastVote
<1> HIDE DEF t, u
<1>4. HandWell(t, campaign, candidate, voter, voters, crowded)
  BY <1>1, <1>2, <1>3 DEF HandWell, EditorWell, CasterWell, Casts
<1>5. t \in VotingRequest /\ t.op # "campaign"
  BY <1>3 DEF VotingRequest
<1> QED BY <1>1, <1>2, <1>3, <1>4, <1>5, VotesKept, VotingKeepsTables

LEMMA SaveVoteKeeps ==
  ASSUME VotingInv, NEW a \in Clients, Voting!SaveVote(a)
  PROVE  VotingInv'
<1> DEFINE u == voting[a]
           v == [campaign |-> u.campaign, candidate |-> u.candidate, voter |-> u.key]
<1>1. /\ u \in Voting!CastVote /\ u.op = "vote" /\ votes' = votes \cup {v}
      /\ voting' = [voting EXCEPT ![a] = Voting!Idle]
      /\ UNCHANGED <<campaign, category, candidate, voter, voters, crowded>>
  BY DEF Voting!SaveVote, Voting!Do
<1>2. /\ candidate[u.candidate] # Absent /\ candidate[u.candidate].campaign = u.campaign
      /\ u.key \in Voting!Ids /\ u.candidate \in Candidates /\ u.campaign \in Campaigns
  BY <1>1, CasterKnown
<1>3. v \in Voting!Vote /\ VoteWell(v, candidate)
  BY <1>2 DEF Voting!Vote, VoteWell
<1> HIDE DEF u, v
<1> QED BY <1>1, <1>3, VotesKept, EndKeeps

\* A step that writes row i of the voters and leaves nobody else with it in hand.
LEMMA VoterWrites ==
  ASSUME VotingInv, NEW a \in Clients, NEW t \in VotingRequest, NEW i \in Voting!Ids,
         NEW new \in Voting!Voter, voting' = [voting EXCEPT ![a] = t],
         voter' = [voter EXCEPT ![i] = new],
         voters' \in 0..MaxVoters, i \in 1..voters', voters <= voters',
         \A j \in 1..voters' : j = i \/ j \in 1..voters,
         i \in crowded \/ \A b \in Clients \ {a} : ~CastsAs(voting[b], i),
         t.op # "campaign", Casts(t) => t.key = i \/ t.key = 0,
         UNCHANGED <<campaign, category, candidate, votes, crowded>>,
         HandWell(t, campaign, candidate, voter', voters', crowded)
  PROVE  VotingInv'
<1>1. /\ voter \in [Voting!Ids -> Voting!Voter \cup {Absent}] /\ voters \in 0..MaxVoters
      /\ \A j \in 1..voters : voter[j] # Absent
  BY DEF VotingInv, VotingTyped, VotingTables
<1>2. /\ voting' \in [Clients -> VotingRequest]
      /\ voting'[a] = t /\ \A b \in Clients \ {a} : voting'[b] = voting[b]
      /\ \A c \in Campaigns \ crowded' : OneEditor(c, voting')
      /\ \A j \in Voting!Ids \ crowded' : OneCaster(j, voting')
  <2>1. crowded \subseteq crowded' /\ 0 \notin Voting!Ids
    BY VotingFacts
  <2>2. Casts(t) /\ t.key \in Voting!Ids \ crowded' =>
          \A b \in Clients \ {a} : ~CastsAs(voting[b], t.key)
    BY <2>1
  <2> QED BY <2>1, <2>2, VotingGoesOn
<1>3. \A j \in Voting!Ids : voter'[j] = IF j = i THEN new ELSE voter[j]
  BY <1>1
<1>4. VotingTyped'
  <2>1. voter' \in [Voting!Ids -> Voting!Voter \cup {Absent}]
    BY <1>1
  <2>2. \A j \in 1..voters' : voter'[j] # Absent
    BY <1>1, <1>3, VotingFacts
  <2> QED BY <1>2, <2>1, <2>2 DEF VotingInv, VotingTyped, VotingTables
<1>5. \A b \in Clients : HandWell(voting'[b], campaign, candidate, voter', voters', crowded)
  <2> TAKE b \in Clients
  <2>1. CASE b = a
    BY <1>2, <2>1
  <2>2. CASE b # a
    <3>1. HandWell(voting[b], campaign, candidate, voter, voters, crowded) /\ voting'[b] = voting[b]
      BY <1>2, <2>2 DEF VotingInv
    <3>2. ASSUME Casts(voting[b]) PROVE CasterWell(voting[b], candidate, voter', voters', crowded)
      <4>1. CasterWell(voting[b], candidate, voter, voters, crowded)
        BY <3>1 DEF HandWell
      <4>2. voting[b].key = i => i \in crowded
        BY <2>2, <3>2 DEF CastsAs
      <4>3. voting[b].key \in 0..voters' /\ (voting[b].key # 0 => voting[b].key \in Voting!Ids)
        BY <1>1, <3>2, <4>1, VotingFacts DEF CasterWell
      <4>4. voting[b].key # 0 /\ voting[b].key \notin crowded =>
              voter'[voting[b].key] = voter[voting[b].key]
        BY <1>3, <4>2, <4>3
      <4> QED BY <4>1, <4>3, <4>4 DEF CasterWell
    <3>3. CasterWell(voting[b], candidate, voter', voters', crowded)
      BY <3>2 DEF CasterWell
    <3> QED BY <3>1, <3>3 DEF HandWell
  <2> QED BY <2>1, <2>2
<1>6. /\ \A d \in Campaigns \ crowded : CampaignWell(d, campaign)
      /\ \A v \in votes : VoteWell(v, candidate)
      /\ \A n \in Candidates : CandidateWell(n, candidate, category)
  BY DEF VotingInv
<1> QED BY <1>2, <1>4, <1>5, <1>6 DEF VotingInv

LEMMA CreateVoterKeeps ==
  ASSUME VotingInv, NEW a \in Clients, Voting!CreateVoter(a)
  PROVE  VotingInv'
<1> DEFINE u == voting[a]
           i == voters + 1
           t == [u EXCEPT !.op = "vote", !.key = i]
<1>1. /\ u \in Voting!CastVote /\ u.op = "voter" /\ u.key = 0
      /\ UNCHANGED <<campaign, category, candidate, votes, crowded>>
      /\ \/ /\ voters < MaxVoters /\ voters' = i
            /\ voter' = [voter EXCEPT ![i] = u.want] /\ voting' = [voting EXCEPT ![a] = t]
         \/ voting' = [voting EXCEPT ![a] = Voting!Idle] /\ UNCHANGED <<voter, voters>>
  BY DEF Voting!CreateVoter, Voting!Do
<1>2. /\ candidate[u.candidate] # Absent /\ candidate[u.candidate].campaign = u.campaign
      /\ voters \in Nat /\ voters <= MaxVoters /\ u.want \in Voting!Voter
  BY <1>1, CasterKnown
<1>3. CASE voting' = [voting EXCEPT ![a] = Voting!Idle] /\ UNCHANGED <<voter, voters>>
  BY <1>1, <1>3, EndKeeps, VotesKept
<1>4. CASE /\ voters < MaxVoters /\ voters' = i
           /\ voter' = [voter EXCEPT ![i] = u.want] /\ voting' = [voting EXCEPT ![a] = t]
  <2>1. i \in Voting!Ids /\ i # 0 /\ i \in 1..i /\ i \in 0..MaxVoters /\ voters <= i
        /\ \A j \in 1..i : j = i \/ j \in 1..voters
    BY <1>2, <1>4, VotingFacts
  <2>2. /\ t \in Voting!CastVote /\ t.op = "vote" /\ t.key = i /\ t.campaign = u.campaign
        /\ t.candidate = u.candidate /\ t.want = u.want
    BY <1>1, <2>1 DEF Voting!CastVote
  <2>3. \A b \in Clients \ {a} : ~CastsAs(voting[b], i)
    <3> SUFFICES ASSUME NEW b \in Clients \ {a}, CastsAs(voting[b], i) PROVE FALSE
      OBVIOUS
    <3>1. HandWell(voting[b], campaign, candidate, voter, voters, crowded)
      BY DEF VotingInv
    <3>2. i \in 0..voters
      BY <3>1 DEF HandWell, CasterWell, CastsAs
    <3> QED BY <1>2, <3>2
  <2>4. voter'[i] = u.want
    BY <1>4, <2>1 DEF VotingInv, VotingTyped, VotingTables
  <2> HIDE DEF t, u, i
  <2>5. t \in VotingRequest /\ t.op # "campaign"
    BY <2>2 DEF VotingRequest
  <2>6. HandWell(t, campaign, candidate, voter', voters', crowded)
    <3>1. i \in 0..i
      BY <2>1, VotingFacts
    <3> QED BY <1>2, <1>4, <2>1, <2>2, <2>4, <3>1 DEF HandWell, EditorWell, CasterWell, Casts
  <2> QED BY <1>1, <1>2, <1>4, <2>1, <2>2, <2>3, <2>5, <2>6, VoterWrites
<1> QED BY <1>1, <1>3, <1>4

LEMMA VoterWritten ==
  ASSUME NEW old \in Voting!Voter, NEW loaded \in Voting!Voter, NEW want \in Voting!Voter
  PROVE  /\ Voting!Written(old, loaded, want) \in Voting!Voter
         /\ old = loaded => Voting!Written(old, loaded, want) = want
BY DEF Voting!Written, Voting!Voter

LEMMA SaveVoterKeeps ==
  ASSUME VotingInv, NEW a \in Clients, Voting!SaveVoter(a)
  PROVE  VotingInv'
<1> DEFINE u == voting[a]
           i == u.key
           new == Voting!Written(voter[i], u.loaded, u.want)
           t == [u EXCEPT !.op = "vote", !.loaded = Absent]
<1>1. /\ u \in Voting!CastVote /\ u.op = "voter" /\ u.loaded # Absent
      /\ UNCHANGED <<campaign, category, candidate, voters, votes, crowded>>
      /\ \/ voter' = [voter EXCEPT ![i] = new] /\ voting' = [voting EXCEPT ![a] = t]
         \/ voting' = [voting EXCEPT ![a] = Voting!Idle] /\ UNCHANGED voter
  BY DEF Voting!SaveVoter, Voting!Do, Voting!Exists, Voting!NewFace
<1>2. /\ candidate[u.candidate] # Absent /\ candidate[u.candidate].campaign = u.campaign
      /\ i \in 0..voters /\ voters \in Nat /\ voters <= MaxVoters
      /\ u.want \in Voting!Voter /\ u.loaded \in Voting!Voter \cup {Absent}
      /\ i = 0 => u.loaded = Absent
      /\ i # 0 => /\ i \in Voting!Ids /\ voter[i] \in Voting!Voter
                  /\ i \in crowded \/ u.loaded \in {Absent, voter[i]}
                  /\ i \notin crowded => \A b \in Clients \ {a} : ~CastsAs(voting[b], i)
  BY <1>1, CasterKnown
<1>3. CASE voting' = [voting EXCEPT ![a] = Voting!Idle] /\ UNCHANGED voter
  BY <1>1, <1>3, EndKeeps, VotesKept
<1>4. CASE voter' = [voter EXCEPT ![i] = new] /\ voting' = [voting EXCEPT ![a] = t]
  <2>1. i # 0
    BY <1>1, <1>2
  <2>2. new \in Voting!Voter /\ (i \notin crowded => new = u.want)
    BY <1>1, <1>2, <2>1, VoterWritten
  <2>3. /\ t \in Voting!CastVote /\ t.op = "vote" /\ t.key = i /\ t.campaign = u.campaign
        /\ t.candidate = u.candidate /\ t.want = u.want
    BY <1>1 DEF Voting!CastVote
  <2>4. voter'[i] = new
    BY <1>2, <1>4, <2>1 DEF VotingInv, VotingTyped, VotingTables
  <2>5. i \in 1..voters /\ voters \in 0..MaxVoters
    BY <1>2, <2>1, VotingFacts
  <2> HIDE DEF t, u, i, new
  <2>6. t \in VotingRequest /\ t.op # "campaign"
    BY <2>3 DEF VotingRequest
  <2>7. HandWell(t, campaign, candidate, voter', voters, crowded)
    BY <1>2, <2>1, <2>2, <2>3, <2>4 DEF HandWell, EditorWell, CasterWell, Casts
  <2>8. voters' = voters /\ voters <= voters
    BY <1>1, <1>2
  <2>9. HandWell(t, campaign, candidate, voter', voters', crowded)
    BY <2>7, <2>8
  <2> QED BY <1>1, <1>2, <1>4, <2>1, <2>2, <2>3, <2>5, <2>6, <2>8, <2>9, VoterWrites
<1> QED BY <1>1, <1>3, <1>4

LEMMA VotingKept == (part = "voting" => VotingInv) /\ [Next]_vars => (part' = "voting" => VotingInv')
<1> SUFFICES ASSUME part = "voting", VotingInv, [Next]_vars PROVE VotingInv'
  BY DEF Next, Step, vars
<1>1. CASE Voting!Next
  <2>1. PICK a \in Clients :
          \/ \E c \in Campaigns, new \in Voting!Campaign :
               Voting!CreateCampaign(a, c, new) \/ Voting!UpdateCampaign(a, c, new)
          \/ Voting!LoadCampaign(a) \/ Voting!SaveCampaign(a)
          \/ \E k \in Categories, c \in Campaigns, on \in BOOLEAN : Voting!PutCategory(a, k, c, on)
          \/ \E n \in Candidates, c \in Campaigns, k \in Categories, on \in BOOLEAN :
               Voting!PutCandidate(a, n, c, k, on)
          \/ \E c \in Campaigns, n \in Candidates, now \in Times, want \in Voting!Voter :
               Voting!RegisterVote(a, c, n, now, want)
          \/ Voting!FindVoter(a) \/ Voting!CreateVoter(a) \/ Voting!LoadVoter(a)
          \/ Voting!SaveVoter(a) \/ Voting!SaveVote(a)
    BY <1>1 DEF Voting!Next
  <2>2. CASE \/ \E c \in Campaigns, new \in Voting!Campaign :
                  Voting!CreateCampaign(a, c, new) \/ Voting!UpdateCampaign(a, c, new)
             \/ Voting!LoadCampaign(a) \/ Voting!SaveCampaign(a)
    BY <2>2, CreateCampaignKeeps, UpdateCampaignKeeps, LoadCampaignKeeps, SaveCampaignKeeps
  <2>3. CASE \/ \E k \in Categories, c \in Campaigns, on \in BOOLEAN : Voting!PutCategory(a, k, c, on)
             \/ \E n \in Candidates, c \in Campaigns, k \in Categories, on \in BOOLEAN :
                  Voting!PutCandidate(a, n, c, k, on)
    BY <2>3, PutCategoryKeeps, PutCandidateKeeps
  <2>4. CASE \E c \in Campaigns, n \in Candidates, now \in Times, want \in Voting!Voter :
               Voting!RegisterVote(a, c, n, now, want)
    BY <2>4, RegisterVoteKeeps
  <2>5. CASE \/ Voting!FindVoter(a) \/ Voting!CreateVoter(a) \/ Voting!LoadVoter(a)
             \/ Voting!SaveVoter(a) \/ Voting!SaveVote(a)
    BY <2>5, FindVoterKeeps, CreateVoterKeeps, LoadVoterKeeps, SaveVoterKeeps, SaveVoteKeeps
  <2> QED BY <2>1, <2>2, <2>3, <2>4, <2>5
<1>2. CASE UNCHANGED votingVars
  BY <1>2 DEF votingVars, VotingInv, VotingTyped, VotingTables
<1> QED BY <1>1, <1>2 DEF Next, Step, vars

LEMMA VotingHolds == VotingInv => Voting!SoundUnlessCrowded
<1> SUFFICES ASSUME VotingInv PROVE Voting!SoundUnlessCrowded
  OBVIOUS
<1>1. ASSUME NEW a \in Clients, voting[a].op = "vote", voting[a].key \notin crowded
      PROVE  voter[voting[a].key] = voting[a].want
  <2>1. CasterWell(voting[a], candidate, voter, voters, crowded)
    BY DEF VotingInv, HandWell
  <2> QED BY <1>1, <2>1 DEF CasterWell, Casts
<1>2. \A c \in Campaigns \ crowded : campaign[c] # Absent => Voting!InOrder(campaign[c])
  BY DEF VotingInv, CampaignWell
<1>3. \A v \in votes : candidate[v.candidate].campaign = v.campaign
  BY DEF VotingInv, VoteWell
<1>4. \A n \in Candidates : candidate[n] # Absent =>
        category[candidate[n].category].campaign = candidate[n].campaign
  BY DEF VotingInv, CandidateWell
<1> QED BY <1>1, <1>2, <1>3, <1>4 DEF Voting!SoundUnlessCrowded, Voting!Exists

-----------------------------------------------------------------------------
(* Pages: the inductive invariant *)

PageRequest ==
  Pages!Creating \cup Pages!Updating \cup Pages!Adding \cup Pages!Refused \cup {Pages!Idle}

PagesTyped ==
  /\ pages \in 1..MaxPages
  /\ page \in [Pages!PageIds -> Pages!Page \cup {Absent}]
  /\ items \in [Pages!Kinds -> [Pages!PageIds -> SUBSET Pages!Item]]
  /\ season \in [Seasons -> Launches \cup {Absent}]
  /\ client \in [Clients -> PageRequest]

\* Numbers of pages differ, in a table T with n of them so far.
PagesNumbered(T, n) ==
  \A p \in Pages!PageIds : T[p] # Absent =>
    p <= n /\ \A q \in Pages!PageIds \ {p} : T[q] # Absent => T[q].number # T[p].number

\* The season of a row is of its launch, by a table S of seasons.
Tied(row, S) ==
  row.launch # Absent /\ row.season # Absent /\ S[row.season] # Absent => S[row.season] = row.launch

\* A row as it is wanted for page p, with those in B excused.
WantWell(row, p, S, B) ==
  /\ row.version = row.form
  /\ row.active => row.launch # Absent
  /\ {p, row.season} \cap B = {} => Tied(row, S)

\* A row that nothing in a table T, beside p, or in the launches L is in the way of.
Welcome(row, p, T, L) ==
  /\ row.launch # Absent => row.launch \in L
  /\ row.active => \A q \in Pages!PageIds \ {p} :
       T[q] # Absent => ~T[q].active \/ T[q].launch # row.launch

\* Requests, by a table T of pages, S of seasons, I of items, launches L.
CreatorWell(t, T, S, L, B) ==
  t.op = "page" =>
    /\ WantWell(t.want, t.want.season, S, B)
    /\ t.alone => /\ Welcome(t.want, 0, T, L)
                  /\ t.numbered => \A q \in Pages!PageIds :
                       T[q] # Absent => T[q].number # t.want.number

\* What was loaded is there, less its launch if that was removed.
StillThere(t, T, F) ==
  t.at = "loaded" /\ t.loaded # Absent /\ T[t.page] # Absent =>
    \/ T[t.page] = t.loaded
    \/ T[t.page] = [t.loaded EXCEPT !.launch = Absent] /\ t.page \in F

UpdaterWell(t, T, n, S, L, K, F, B) ==
  t.op = "update" =>
    /\ t.page <= n
    /\ WantWell(t.want, t.page, S, B)
    /\ t.page \in K \/ StillThere(t, T, F)
    /\ t.alone => /\ T[t.page] # Absent /\ T[t.page].number = t.want.number
                  /\ Welcome(t.want, t.page, T, L)
                  /\ t.at = "loaded" => t.loaded = T[t.page]

AdderWell(t, T, I) ==
  t.op = "item" /\ t.alone =>
    /\ T[t.page] # Absent
    /\ t.abbreviation # 0 => \A i \in I[t.kind][t.page] : i.abbreviation # t.abbreviation
    /\ t.number # 0 /\ ~t.given => \A i \in I[t.kind][t.page] : i.number # t.number

RefusedWell(t) == t.op = "refused" => ~t.alone

RequestWell(t, T, n, S, I, L, K, F, B) ==
  /\ CreatorWell(t, T, S, L, B) /\ UpdaterWell(t, T, n, S, L, K, F, B)
  /\ AdderWell(t, T, I) /\ RefusedWell(t)

Updates(t, p) == t.op = "update" /\ t.page = p
OneUpdater(p, T) == \A a, b \in Clients : Updates(T[a], p) /\ Updates(T[b], p) => a = b

\* Page p of a table T, if it is there.
PageWell(p, T, S, K, F, B) ==
  T[p] # Absent =>
    /\ p \notin K => T[p].version = T[p].form
    /\ p \notin K \cup F /\ T[p].active => T[p].launch # Absent
    /\ {p, T[p].season} \cap B = {} => Tied(T[p], S)

Astray == crowdedPages \cup loose

PagesInv ==
  /\ PagesTyped /\ PagesNumbered(page, pages)
  /\ \A a \in Clients :
       RequestWell(client[a], page, pages, season, items, launches, crowdedPages, bereft, Astray)
  /\ \A p \in Pages!PageIds \ crowdedPages : OneUpdater(p, client)
  /\ \A p \in Pages!PageIds : PageWell(p, page, season, crowdedPages, bereft, Astray)

-----------------------------------------------------------------------------
(* Pages: what requests know *)

LEMMA PagesFacts ==
  /\ Launches # {} /\ Forms # {} /\ MaxPages \in Nat /\ MaxPages # 0 /\ MaxNumber \in Nat
  /\ MaxNumber >= 2 /\ Absent \notin Launches /\ Absent \notin Pages!Page
  /\ Pages!PageIds = 1..MaxPages /\ Pages!PageIds \subseteq Nat /\ 0 \notin Pages!PageIds
  /\ Pages!Numbers = 1..MaxNumber
BY AddressConstants DEF Pages!PageIds, Pages!Numbers

LEMMA PageRequestIs ==
  ASSUME NEW t \in PageRequest
  PROVE  /\ t.op \in {"idle", "page", "update", "item", "refused"}
         /\ t.op = "idle" => t = Pages!Idle
         /\ t.op = "page" => t \in Pages!Creating
         /\ t.op = "update" => t \in Pages!Updating
         /\ t.op = "item" => t \in Pages!Adding
         /\ t.op = "refused" => t \in Pages!Refused
BY DEF PageRequest, Pages!Creating, Pages!Updating, Pages!Adding, Pages!Refused, Pages!Idle

LEMMA IdleWell ==
  /\ Pages!Idle \in PageRequest /\ Pages!Idle.op = "idle"
  /\ \A T, n, S, I, L, K, F, B : RequestWell(Pages!Idle, T, n, S, I, L, K, F, B)
BY DEF PageRequest, Pages!Idle, RequestWell, CreatorWell, UpdaterWell, AdderWell, RefusedWell

\* The number given is after those there are.
LEMMA NextIsFree ==
  ASSUME NEW S \in SUBSET (1..MaxNumber)
  PROVE  Pages!NextAfter(S) \in Nat \ {0} /\ \A x \in S : x # Pages!NextAfter(S)
<1> DEFINE T == {x + 1 : x \in S \cup {0}}
<1>1. MaxNumber \in Nat /\ MaxNumber + 1 \in Nat
  BY PagesFacts
<1>2. T \in SUBSET (1..(MaxNumber + 1)) /\ T # {}
  <2>1. \A x \in S \cup {0} : x + 1 \in 1..(MaxNumber + 1)
    BY <1>1
  <2> QED BY <2>1
<1>3. PICK m \in T : \A y \in T : y <= m
  BY <1>1, <1>2, GreatestExists
<1>4. PICK x \in S \cup {0} : m = x + 1
  OBVIOUS
<1>5. \A y \in S \cup {0} : y \in Nat /\ x >= y
  <2> TAKE y \in S \cup {0}
  <2>1. y + 1 <= m /\ y \in Nat /\ x \in Nat
    BY <1>1, <1>3
  <2> QED BY <1>4, <2>1
<1> HIDE DEF T
<1>6. Pages!Max(S \cup {0}) \in S \cup {0} /\ \A y \in S \cup {0} : Pages!Max(S \cup {0}) >= y
  BY <1>5 DEF Pages!Max
<1> DEFINE top == Pages!Max(S \cup {0})
<1>7. Pages!NextAfter(S) = top + 1 /\ top \in Nat /\ \A y \in S : top >= y /\ y \in Nat
  BY <1>5, <1>6 DEF Pages!NextAfter
<1> HIDE DEF top
<1> QED BY <1>7

\* A request is not alone any more.
Joined(t) == IF t.op \in {"page", "update", "item"} THEN [t EXCEPT !.alone = FALSE] ELSE t

LEMMA JoinedIs ==
  ASSUME NEW t \in PageRequest
  PROVE  /\ Joined(t) \in PageRequest /\ Joined(t).op = t.op
         /\ t.op = "page" => Joined(t).want = t.want /\ ~Joined(t).alone
         /\ t.op = "update" => /\ Joined(t).want = t.want /\ Joined(t).page = t.page
                               /\ Joined(t).loaded = t.loaded /\ Joined(t).at = t.at
                               /\ ~Joined(t).alone
         /\ t.op = "item" => ~Joined(t).alone
         /\ t.op \notin {"page", "update", "item"} => Joined(t) = t
<1>1. CASE t.op = "page"
  <2>1. t \in Pages!Creating
    BY <1>1, PageRequestIs
  <2> QED BY <1>1, <2>1 DEF Joined, PageRequest, Pages!Creating
<1>2. CASE t.op = "update"
  <2>1. t \in Pages!Updating
    BY <1>2, PageRequestIs
  <2> QED BY <1>2, <2>1 DEF Joined, PageRequest, Pages!Updating
<1>3. CASE t.op = "item"
  <2>1. t \in Pages!Adding
    BY <1>3, PageRequestIs
  <2> QED BY <1>3, <2>1 DEF Joined, PageRequest, Pages!Adding
<1>4. CASE t.op \notin {"page", "update", "item"}
  BY <1>4 DEF Joined
<1> QED BY <1>1, <1>2, <1>3, <1>4

\* What is wanted stays so where launches go, and where seasons go elsewhere it is excused.
LEMMA WantStays ==
  ASSUME NEW w, NEW p, NEW S, NEW B, WantWell(w, p, S, B), w.season \in Seasons \cup {Absent},
         NEW R, NEW D, B \subseteq D, \A s \in Seasons \ D : R[s] \in {S[s], Absent}
  PROVE  WantWell(w, p, R, D)
<1>1. {p, w.season} \cap D = {} => {p, w.season} \cap B = {}
  OBVIOUS
<1>2. {p, w.season} \cap D = {} /\ w.season # Absent => w.season \in Seasons \ D
  OBVIOUS
<1> QED BY <1>1, <1>2 DEF WantWell, Tied

LEMMA PageStays ==
  ASSUME NEW p, NEW T, NEW S, NEW K, NEW F, NEW B, PageWell(p, T, S, K, F, B),
         T[p] # Absent => T[p].season \in Seasons \cup {Absent},
         NEW R, NEW J, NEW G, NEW D, K \subseteq J, F \subseteq G, B \subseteq D,
         \A s \in Seasons \ D : R[s] \in {S[s], Absent}
  PROVE  PageWell(p, T, R, J, G, D)
<1> SUFFICES ASSUME T[p] # Absent
             PROVE  /\ p \notin J => T[p].version = T[p].form
                    /\ p \notin J \cup G /\ T[p].active => T[p].launch # Absent
                    /\ {p, T[p].season} \cap D = {} => Tied(T[p], R)
  BY DEF PageWell
<1>1. p \notin J => T[p].version = T[p].form
  BY DEF PageWell
<1>2. p \notin J \cup G /\ T[p].active => T[p].launch # Absent
  BY DEF PageWell
<1>3. {p, T[p].season} \cap D = {} => Tied(T[p], R)
  BY DEF PageWell, Tied
<1> QED BY <1>1, <1>2, <1>3

\* Nothing about a request changes for the worse where rows stay and more is excused.
LEMMA RequestStays ==
  ASSUME NEW t \in PageRequest, NEW T, NEW n, NEW S, NEW I, NEW L, NEW K, NEW F, NEW B,
         RequestWell(t, T, n, S, I, L, K, F, B),
         NEW R, NEW J, NEW G, NEW D, K \subseteq J, F \subseteq G, B \subseteq D,
         \A s \in Seasons \ D : R[s] \in {S[s], Absent}
  PROVE  RequestWell(t, T, n, R, I, L, J, G, D)
<1>1. CreatorWell(t, T, R, L, D)
  <2> SUFFICES ASSUME t.op = "page"
               PROVE  WantWell(t.want, t.want.season, R, D)
    BY DEF RequestWell, CreatorWell
  <2>1. t.want.season \in Seasons \cup {Absent}
    BY PageRequestIs DEF Pages!Creating, Pages!Page
  <2> QED BY <2>1, WantStays DEF RequestWell, CreatorWell
<1>2. UpdaterWell(t, T, n, R, L, J, G, D)
  <2> SUFFICES ASSUME t.op = "update"
               PROVE  /\ WantWell(t.want, t.page, R, D)
                      /\ t.page \in J \/ StillThere(t, T, G)
    BY DEF RequestWell, UpdaterWell
  <2>1. t.want.season \in Seasons \cup {Absent}
    BY PageRequestIs DEF Pages!Updating, Pages!Page
  <2>2. WantWell(t.want, t.page, R, D)
    BY <2>1, WantStays DEF RequestWell, UpdaterWell
  <2> QED BY <2>2 DEF RequestWell, UpdaterWell, StillThere
<1> QED BY <1>1, <1>2 DEF RequestWell

-----------------------------------------------------------------------------
(* Pages: the steps *)

LEMMA PagesBegin == Pages!Init => PagesInv
<1> SUFFICES ASSUME Pages!Init PROVE PagesInv
  OBVIOUS
<1> DEFINE f == CHOOSE f \in Forms : TRUE
           l == CHOOSE l \in Launches : TRUE
           first == [number |-> 1, launch |-> l, season |-> Absent, form |-> f, version |-> f,
                     active |-> TRUE]
<1>1. f \in Forms /\ l \in Launches /\ l # Absent
  BY PagesFacts
<1>2. /\ page = [p \in Pages!PageIds |-> IF p = 1 THEN first ELSE Absent]
      /\ season = [s \in Seasons |-> l] /\ pages = 1
      /\ items = [k \in Pages!Kinds |-> [p \in Pages!PageIds |->
           IF p = 1 THEN {[abbreviation |-> 2, number |-> 2]} ELSE {}]]
      /\ client = [a \in Clients |-> Pages!Idle]
  BY DEF Pages!Init
<1>3. first \in Pages!Page
  BY <1>1, PagesFacts DEF Pages!Page
<1>4. first.version = first.form /\ first.launch # Absent /\ first.season = Absent
  BY <1>1
<1> HIDE DEF f, l, first
<1>5. [abbreviation |-> 2, number |-> 2] \in Pages!Item
  BY PagesFacts DEF Pages!Item
<1>6. PagesTyped
  <2>1. page \in [Pages!PageIds -> Pages!Page \cup {Absent}]
    BY <1>2, <1>3
  <2>2. items \in [Pages!Kinds -> [Pages!PageIds -> SUBSET Pages!Item]]
    BY <1>2, <1>5
  <2>3. season \in [Seasons -> Launches \cup {Absent}] /\ client \in [Clients -> PageRequest]
    BY <1>1, <1>2, IdleWell
  <2>4. pages \in 1..MaxPages
    BY <1>2, PagesFacts
  <2> QED BY <2>1, <2>2, <2>3, <2>4 DEF PagesTyped
<1>7. PagesNumbered(page, pages)
  BY <1>2, PagesFacts DEF PagesNumbered
<1>8. \A a \in Clients :
        /\ RequestWell(client[a], page, pages, season, items, launches, crowdedPages, bereft, Astray)
        /\ client[a].op = "idle"
  BY <1>2, IdleWell
<1>9. \A p \in Pages!PageIds : PageWell(p, page, season, crowdedPages, bereft, Astray)
  BY <1>2, <1>4 DEF PageWell, Tied
<1> QED BY <1>6, <1>7, <1>8, <1>9 DEF PagesInv, OneUpdater, Updates

\* A step of a that leaves the tables.
LEMMA PagesKeepTables ==
  ASSUME PagesInv, NEW a \in Clients, NEW t \in PageRequest, client' = [client EXCEPT ![a] = t],
         UNCHANGED <<page, pages, items, season, launches, bereft>>,
         crowdedPages \subseteq crowdedPages', loose \subseteq loose',
         RequestWell(t, page, pages, season, items, launches, crowdedPages', bereft, Astray'),
         t.op = "update" /\ t.page \notin crowdedPages' =>
           \A b \in Clients \ {a} : ~Updates(client[b], t.page)
  PROVE  PagesInv'
<1>1. client \in [Clients -> PageRequest]
  BY DEF PagesInv, PagesTyped
<1>2. Astray \subseteq Astray' /\ \A s \in Seasons : season[s] \in {season[s], Absent}
  BY DEF Astray
<1>3. client' \in [Clients -> PageRequest] /\ client'[a] = t
      /\ \A b \in Clients \ {a} : client'[b] = client[b]
  BY <1>1
<1>4. PagesTyped'
  BY <1>3 DEF PagesInv, PagesTyped
<1>5. \A b \in Clients :
        RequestWell(client'[b], page, pages, season, items, launches, crowdedPages', bereft, Astray')
  <2> TAKE b \in Clients
  <2>1. CASE b = a
    BY <1>3, <2>1
  <2>2. CASE b # a
    <3>1. RequestWell(client[b], page, pages, season, items, launches, crowdedPages, bereft, Astray)
          /\ client[b] \in PageRequest
      BY <1>1 DEF PagesInv
    <3>2. RequestWell(client[b], page, pages, season, items, launches, crowdedPages', bereft, Astray')
      BY <1>2, <3>1, RequestStays
    <3> QED BY <1>3, <2>2, <3>2
  <2> QED BY <2>1, <2>2
<1>6. \A p \in Pages!PageIds \ crowdedPages' : OneUpdater(p, client')
  <2> TAKE p \in Pages!PageIds \ crowdedPages'
  <2>1. OneUpdater(p, client)
    BY DEF PagesInv
  <2> QED BY <1>3, <2>1 DEF OneUpdater, Updates
<1>7. \A p \in Pages!PageIds : PageWell(p, page, season, crowdedPages', bereft, Astray')
  <2> TAKE p \in Pages!PageIds
  <2>1. PageWell(p, page, season, crowdedPages, bereft, Astray)
    BY DEF PagesInv
  <2>2. page[p] # Absent => page[p].season \in Seasons \cup {Absent}
    BY DEF PagesInv, PagesTyped, Pages!Page
  <2> QED BY <1>2, <2>1, <2>2, PageStays
<1>8. PagesNumbered(page, pages)
  BY DEF PagesInv
<1> QED BY <1>4, <1>5, <1>6, <1>7, <1>8 DEF PagesInv

\* A step that writes rows, of a unless nobody did: those that go by the rows are not
\* alone any more.
LEMMA PagesRewritten ==
  ASSUME PagesInv, NEW a,
         client' = [b \in Clients |-> IF b = a THEN Pages!Idle ELSE Joined(client[b])],
         page' \in [Pages!PageIds -> Pages!Page \cup {Absent}], PagesNumbered(page', pages'),
         pages' \in 1..MaxPages, pages <= pages',
         items' \in [Pages!Kinds -> [Pages!PageIds -> SUBSET Pages!Item]],
         season' \in [Seasons -> Launches \cup {Absent}],
         \A s \in Seasons : season'[s] \in {season[s], Absent},
         crowdedPages' = crowdedPages, loose' = loose, bereft \subseteq bereft',
         \A p \in Pages!PageIds : PageWell(p, page', season', crowdedPages, bereft', Astray),
         \A b \in Clients : b # a /\ client[b].op = "update" =>
           client[b].page \in crowdedPages \/ StillThere(client[b], page', bereft')
  PROVE  PagesInv'
<1>1. client \in [Clients -> PageRequest] /\ pages \in Nat /\ pages' \in Nat
  BY PagesFacts DEF PagesInv, PagesTyped
<1>2. \A b \in Clients : client'[b] = IF b = a THEN Pages!Idle ELSE Joined(client[b])
  OBVIOUS
<1>3. client' \in [Clients -> PageRequest]
  BY <1>1, JoinedIs, IdleWell
<1>4. Astray' = Astray
  BY DEF Astray
<1>5. ASSUME NEW b \in Clients
      PROVE  RequestWell(client'[b], page', pages', season', items', launches', crowdedPages,
                         bereft', Astray)
  <2>1. CASE b = a
    BY <1>2, <2>1, IdleWell
  <2>2. CASE b # a
    <3> DEFINE u == client[b]
               t == client'[b]
    <3>1. u \in PageRequest /\ t = Joined(u)
          /\ RequestWell(u, page, pages, season, items, launches, crowdedPages, bereft, Astray)
      BY <1>1, <1>2, <2>2 DEF PagesInv
    <3>2. u.op = "update" => u.page \in crowdedPages \/ StillThere(u, page', bereft')
      BY <2>2
    <3> SUFFICES RequestWell(t, page', pages', season', items', launches', crowdedPages, bereft',
                             Astray)
      OBVIOUS
    <3> HIDE DEF t, u
    <3>3. t.op = u.op
      BY <3>1, JoinedIs
    <3>4. CASE u.op = "page"
      <4>1. t.want = u.want /\ ~t.alone /\ u.want.season \in Seasons \cup {Absent}
        BY <3>1, <3>4, JoinedIs, PageRequestIs DEF Pages!Creating, Pages!Page
      <4>2. WantWell(u.want, u.want.season, season', Astray)
        BY <3>1, <3>4, <4>1, WantStays DEF RequestWell, CreatorWell
      <4> QED BY <3>3, <3>4, <4>1, <4>2
              DEF RequestWell, CreatorWell, UpdaterWell, AdderWell, RefusedWell
    <3>5. CASE u.op = "update"
      <4>1. /\ t.want = u.want /\ t.page = u.page /\ t.loaded = u.loaded /\ t.at = u.at /\ ~t.alone
            /\ u.want.season \in Seasons \cup {Absent} /\ u.page \in Nat
        BY <3>1, <3>5, JoinedIs, PageRequestIs, PagesFacts DEF Pages!Updating, Pages!Page
      <4>2. WantWell(u.want, u.page, season', Astray)
        BY <3>1, <3>5, <4>1, WantStays DEF RequestWell, UpdaterWell
      <4>3. t.page <= pages'
        BY <1>1, <3>1, <3>5, <4>1 DEF RequestWell, UpdaterWell
      <4>4. t.page \in crowdedPages \/ StillThere(t, page', bereft')
        BY <3>2, <3>5, <4>1 DEF StillThere
      <4> QED BY <3>3, <3>5, <4>1, <4>2, <4>3, <4>4
              DEF RequestWell, CreatorWell, UpdaterWell, AdderWell, RefusedWell
    <3>6. CASE u.op = "item"
      BY <3>1, <3>3, <3>6, JoinedIs DEF RequestWell, CreatorWell, UpdaterWell, AdderWell, RefusedWell
    <3>7. CASE u.op \notin {"page", "update", "item"}
      BY <3>1, <3>7, JoinedIs DEF RequestWell, CreatorWell, UpdaterWell, AdderWell, RefusedWell
    <3> QED BY <3>4, <3>5, <3>6, <3>7
  <2> QED BY <2>1, <2>2
<1>6. \A p \in Pages!PageIds \ crowdedPages : OneUpdater(p, client')
  <2> TAKE p \in Pages!PageIds \ crowdedPages
  <2>1. OneUpdater(p, client)
    BY DEF PagesInv
  <2>2. \A b \in Clients : Updates(client'[b], p) => Updates(client[b], p)
    BY <1>1, <1>2, JoinedIs, IdleWell DEF Updates
  <2> QED BY <2>1, <2>2 DEF OneUpdater
<1>7. PagesTyped'
  BY <1>3 DEF PagesTyped
<1> QED BY <1>4, <1>5, <1>6, <1>7 DEF PagesInv

-----------------------------------------------------------------------------
(* Pages: their creation and updates *)

\* What is known of a request: its fields, and what is well with it.
LEMMA PageRequestKnown ==
  ASSUME PagesInv, NEW a \in Clients
  PROVE  /\ client[a] \in PageRequest
         /\ client[a].op = "page" =>
              client[a] \in Pages!Creating /\ CreatorWell(client[a], page, season, launches, Astray)
         /\ client[a].op = "update" =>
              /\ client[a] \in Pages!Updating /\ client[a].page \in Pages!PageIds
              /\ UpdaterWell(client[a], page, pages, season, launches, crowdedPages, bereft, Astray)
              /\ client[a].page \notin crowdedPages =>
                   \A b \in Clients \ {a} : ~Updates(client[b], client[a].page)
         /\ client[a].op = "item" =>
              client[a] \in Pages!Adding /\ AdderWell(client[a], page, items)
<1>1. client[a] \in PageRequest
      /\ RequestWell(client[a], page, pages, season, items, launches, crowdedPages, bereft, Astray)
  BY DEF PagesInv, PagesTyped
<1>2. client[a].op = "update" => client[a] \in Pages!Updating /\ client[a].page \in Pages!PageIds
  BY <1>1, PageRequestIs DEF Pages!Updating
<1>3. client[a].op = "update" /\ client[a].page \notin crowdedPages =>
        \A b \in Clients \ {a} : ~Updates(client[b], client[a].page)
  <2> SUFFICES ASSUME client[a].op = "update", client[a].page \notin crowdedPages
               PROVE  \A b \in Clients \ {a} : ~Updates(client[b], client[a].page)
    OBVIOUS
  <2>1. OneUpdater(client[a].page, client)
    BY <1>2 DEF PagesInv
  <2> QED BY <2>1 DEF OneUpdater, Updates
<1> QED BY <1>1, <1>2, <1>3, PageRequestIs DEF RequestWell

LEMMA PageTable ==
  ASSUME PagesInv
  PROVE  /\ page \in [Pages!PageIds -> Pages!Page \cup {Absent}] /\ pages \in 1..MaxPages
         /\ items \in [Pages!Kinds -> [Pages!PageIds -> SUBSET Pages!Item]]
         /\ season \in [Seasons -> Launches \cup {Absent}] /\ PagesNumbered(page, pages)
         /\ \A p \in Pages!PageIds : PageWell(p, page, season, crowdedPages, bereft, Astray)
         /\ \A b \in Clients : client[b].op = "update" =>
              client[b].page \in crowdedPages \/ StillThere(client[b], page, bereft)
BY PageRequestKnown DEF PagesInv, PagesTyped, UpdaterWell

\* A step of a that is about its request alone.
LEMMA PagesGoOn ==
  ASSUME PagesInv, NEW a \in Clients, NEW t \in PageRequest, client' = [client EXCEPT ![a] = t],
         UNCHANGED <<page, pages, items, season, launches, crowdedPages, bereft, loose>>,
         RequestWell(t, page, pages, season, items, launches, crowdedPages, bereft, Astray),
         t.op = "update" => Updates(client[a], t.page)
  PROVE  PagesInv'
<1>1. Astray' = Astray
  BY DEF Astray
<1>2. t.op = "update" /\ t.page \notin crowdedPages => \A b \in Clients \ {a} : ~Updates(client[b], t.page)
  BY PageRequestKnown DEF Updates
<1> QED BY <1>1, <1>2, PagesKeepTables

\* Nothing else is asked of a request to create, to add, or that was refused.
LEMMA CreatorRequest ==
  ASSUME NEW t \in Pages!Creating, NEW T, NEW n, NEW S, NEW I, NEW L, NEW K, NEW F, NEW B,
         CreatorWell(t, T, S, L, B)
  PROVE  t \in PageRequest /\ t.op = "page" /\ RequestWell(t, T, n, S, I, L, K, F, B)
BY DEF PageRequest, Pages!Creating, RequestWell, UpdaterWell, AdderWell, RefusedWell

LEMMA UpdaterRequest ==
  ASSUME NEW t \in Pages!Updating, NEW T, NEW n, NEW S, NEW I, NEW L, NEW K, NEW F, NEW B,
         UpdaterWell(t, T, n, S, L, K, F, B)
  PROVE  t \in PageRequest /\ t.op = "update" /\ RequestWell(t, T, n, S, I, L, K, F, B)
BY DEF PageRequest, Pages!Updating, RequestWell, CreatorWell, AdderWell, RefusedWell

LEMMA AdderRequest ==
  ASSUME NEW t \in Pages!Adding, NEW T, NEW n, NEW S, NEW I, NEW L, NEW K, NEW F, NEW B,
         AdderWell(t, T, I)
  PROVE  t \in PageRequest /\ t.op = "item" /\ RequestWell(t, T, n, S, I, L, K, F, B)
BY DEF PageRequest, Pages!Adding, RequestWell, CreatorWell, UpdaterWell, RefusedWell

LEMMA RefusalKeeps ==
  ASSUME PagesInv, NEW a \in Clients, NEW lone, lone = FALSE,
         client' = [client EXCEPT ![a] = [op |-> "refused", alone |-> lone]],
         UNCHANGED <<page, pages, items, season, launches, crowdedPages, bereft, loose>>
  PROVE  PagesInv'
<1> DEFINE t == [op |-> "refused", alone |-> lone]
<1>1. t \in PageRequest /\ t.op = "refused" /\ ~t.alone
  BY DEF PageRequest, Pages!Refused
<1>2. RequestWell(t, page, pages, season, items, launches, crowdedPages, bereft, Astray)
  BY DEF RequestWell, CreatorWell, UpdaterWell, AdderWell, RefusedWell
<1> HIDE DEF t
<1> QED BY <1>1, <1>2, PagesGoOn DEF t

LEMMA CreatePageKeeps ==
  ASSUME PagesInv, NEW a \in Clients, NEW want \in Pages!Page, Pages!CreatePage(a, want)
  PROVE  PagesInv'
<1> DEFINE t == [op |-> "page", want |-> want, alone |-> TRUE, numbered |-> FALSE]
<1>1. /\ client' = [client EXCEPT ![a] = t]
      /\ UNCHANGED <<page, pages, items, season, launches, crowdedPages, bereft, loose>>
  BY DEF Pages!CreatePage, Pages!Do, Pages!tables, Pages!ghosts
<1>2. /\ Tied(want, season) /\ want.version = want.form
      /\ want.active => want.launch # Absent
      /\ Welcome(want, 0, page, launches)
  BY DEF Pages!CreatePage, Pages!SeasonOfLaunch, Pages!VersionOfForm, Pages!ActivePageCanUseLaunch,
         Pages!References, Pages!Exists, Tied, Welcome
<1>3. t \in Pages!Creating /\ t.want = want /\ ~t.numbered
  BY DEF Pages!Creating
<1> HIDE DEF t
<1>4. CreatorWell(t, page, season, launches, Astray)
  BY <1>2, <1>3 DEF CreatorWell, WantWell
<1>5. t \in PageRequest /\ t.op = "page"
      /\ RequestWell(t, page, pages, season, items, launches, crowdedPages, bereft, Astray)
  BY <1>3, <1>4, CreatorRequest
<1> QED BY <1>1, <1>5, PagesGoOn

LEMMA NumberPageKeeps ==
  ASSUME PagesInv, NEW a \in Clients, Pages!NumberPage(a)
  PROVE  PagesInv'
<1> DEFINE u == client[a]
           S == {page[p].number : p \in {q \in Pages!PageIds : page[q] # Absent}}
           n == Pages!NextAfter(S)
           t == [u EXCEPT !.want.number = n, !.numbered = TRUE]
<1>1. /\ u.op = "page" /\ n <= MaxNumber /\ client' = [client EXCEPT ![a] = t]
      /\ UNCHANGED <<page, pages, items, season, launches, crowdedPages, bereft, loose>>
  BY DEF Pages!NumberPage, Pages!Allowed, Pages!Exists, Pages!Do, Pages!tables, Pages!ghosts
<1>2. u \in Pages!Creating /\ CreatorWell(u, page, season, launches, Astray)
  BY <1>1, PageRequestKnown
<1>3. S \in SUBSET (1..MaxNumber)
  BY PageTable, PagesFacts DEF Pages!Page
<1>4. n \in 1..MaxNumber /\ \A x \in S : x # n
  <2>1. n \in Nat \ {0} /\ \A x \in S : x # n
    BY <1>3, NextIsFree
  <2> HIDE DEF n
  <2> QED BY <1>1, <2>1, PagesFacts
<1>5. \A q \in Pages!PageIds : page[q] # Absent => page[q].number # n
  BY <1>4
<1>6. /\ t \in Pages!Creating /\ t.alone = u.alone /\ t.want.number = n
      /\ t.want.version = u.want.version /\ t.want.form = u.want.form
      /\ t.want.active = u.want.active /\ t.want.launch = u.want.launch
      /\ t.want.season = u.want.season
  <2> HIDE DEF n, u
  <2>1. n \in Pages!Numbers
    BY <1>4, PagesFacts
  <2>2. u.want \in Pages!Page
    BY <1>2 DEF Pages!Creating
  <2>3. [u.want EXCEPT !.number = n] \in Pages!Page
    BY <2>1, <2>2 DEF Pages!Page
  <2>4. t \in Pages!Creating /\ t.alone = u.alone /\ t.want = [u.want EXCEPT !.number = n]
    BY <1>2, <2>3 DEF Pages!Creating
  <2> QED BY <2>2, <2>4 DEF Pages!Page
<1> HIDE DEF t, n, S, u
<1>7. CreatorWell(t, page, season, launches, Astray)
  <2>1. u.op = "page" /\ WantWell(u.want, u.want.season, season, Astray)
        /\ (u.alone => Welcome(u.want, 0, page, launches))
    BY <1>1, <1>2 DEF CreatorWell
  <2>2. WantWell(t.want, t.want.season, season, Astray)
    BY <1>6, <2>1 DEF WantWell, Tied
  <2>3. t.alone => Welcome(t.want, 0, page, launches)
    BY <1>6, <2>1 DEF Welcome
  <2> QED BY <1>5, <1>6, <2>2, <2>3 DEF CreatorWell
<1>8. t \in PageRequest /\ t.op = "page"
      /\ RequestWell(t, page, pages, season, items, launches, crowdedPages, bereft, Astray)
  BY <1>6, <1>7, CreatorRequest
<1> QED BY <1>1, <1>8, PagesGoOn

LEMMA InsertPageKeeps ==
  ASSUME PagesInv, NEW a \in Clients, Pages!InsertPage(a)
  PROVE  PagesInv'
<1> DEFINE u == client[a]
           p == pages + 1
<1>1. /\ u.op = "page" /\ u.numbered
      /\ UNCHANGED <<items, season, launches, crowdedPages, bereft, loose>>
  BY DEF Pages!InsertPage, Pages!ghosts
<1>2. u \in Pages!Creating /\ CreatorWell(u, page, season, launches, Astray)
  BY <1>1, PageRequestKnown
<1>3. pages \in Nat /\ pages <= MaxPages /\ pages # 0 /\ PagesNumbered(page, pages)
      /\ page \in [Pages!PageIds -> Pages!Page \cup {Absent}]
  BY PageTable, PagesFacts
<1>4. CASE ~Pages!Accepted(u.want, 0)
  <2>1. client' = [client EXCEPT ![a] = [op |-> "refused", alone |-> u.alone]]
        /\ UNCHANGED <<page, pages>>
    BY <1>4 DEF Pages!InsertPage, Pages!Do
  <2>2. ~u.alone
    <3> SUFFICES ASSUME u.alone PROVE FALSE
      OBVIOUS
    <3>1. Welcome(u.want, 0, page, launches)
          /\ \A q \in Pages!PageIds : page[q] # Absent => page[q].number # u.want.number
      BY <1>1, <1>2 DEF CreatorWell
    <3> QED BY <1>4, <3>1 DEF Welcome, Pages!Accepted, Pages!Exists
  <2>3. u.alone = FALSE
    BY <1>2, <2>2 DEF Pages!Creating
  <2> QED BY <1>1, <2>1, <2>3, RefusalKeeps
<1>5. CASE Pages!Accepted(u.want, 0)
  <2>1. /\ pages < MaxPages /\ pages' = p /\ page' = [page EXCEPT ![p] = u.want]
        /\ client' = [b \in Clients |-> IF b = a THEN Pages!Idle ELSE Joined(client[b])]
    BY <1>5 DEF Pages!InsertPage, Pages!DoAmong, Pages!GoesByPages, Joined
  <2>2. p \in Pages!PageIds /\ p \in 1..MaxPages /\ pages <= p /\ p \in Nat
    BY <1>3, <2>1, PagesFacts
  <2>3. u.want \in Pages!Page /\ WantWell(u.want, u.want.season, season, Astray)
    BY <1>1, <1>2 DEF Pages!Creating, CreatorWell
  <2>4. \A q \in Pages!PageIds : page'[q] = IF q = p THEN u.want ELSE page[q]
    BY <1>3, <2>1
  <2>5. \A q \in Pages!PageIds : page[q] # Absent => page[q].number # u.want.number
    BY <1>5, PagesFacts DEF Pages!Accepted, Pages!Exists
  <2> HIDE DEF u, p
  <2>6. page' \in [Pages!PageIds -> Pages!Page \cup {Absent}]
    BY <1>3, <2>1, <2>3
  <2>7. PagesNumbered(page', p)
    <3> SUFFICES ASSUME NEW q \in Pages!PageIds, page'[q] # Absent
                 PROVE  /\ q <= p
                        /\ \A r \in Pages!PageIds \ {q} :
                             page'[r] # Absent => page'[r].number # page'[q].number
      BY DEF PagesNumbered
    <3>1. q <= p
      <4>1. q = p \/ q <= pages
        BY <1>3, <2>4 DEF PagesNumbered
      <4> QED BY <1>3, <2>2, <4>1, PagesFacts
    <3>2. ASSUME NEW r \in Pages!PageIds \ {q}, page'[r] # Absent
          PROVE  page'[r].number # page'[q].number
      BY <1>3, <2>4, <2>5, <3>2 DEF PagesNumbered
    <3> QED BY <3>1, <3>2
  <2>8. \A q \in Pages!PageIds : PageWell(q, page', season, crowdedPages, bereft, Astray)
    <3> TAKE q \in Pages!PageIds
    <3>1. CASE q = p
      <4>1. page'[q] = u.want
        BY <2>4, <3>1
      <4>2. {q, u.want.season} \cap Astray = {} => {u.want.season, u.want.season} \cap Astray = {}
        OBVIOUS
      <4> QED BY <2>3, <4>1, <4>2 DEF PageWell, WantWell
    <3>2. CASE q # p
      <4>1. PageWell(q, page, season, crowdedPages, bereft, Astray) /\ page'[q] = page[q]
        BY <2>4, <3>2, PageTable
      <4> QED BY <4>1 DEF PageWell
    <3> QED BY <3>1, <3>2
  <2>9. ASSUME NEW b \in Clients, client[b].op = "update"
        PROVE  client[b].page \in crowdedPages \/ StillThere(client[b], page', bereft)
    <3>1. client[b].page \in Pages!PageIds /\ client[b].page <= pages
      BY <2>9, PageRequestKnown DEF UpdaterWell
    <3>2. client[b].page # p
      BY <1>3, <2>1, <2>2, <3>1, PagesFacts DEF p
    <3>3. page'[client[b].page] = page[client[b].page]
      BY <2>4, <3>1, <3>2
    <3>4. client[b].page \in crowdedPages \/ StillThere(client[b], page, bereft)
      BY <2>9, PageTable
    <3> QED BY <3>3, <3>4 DEF StillThere
  <2>10. /\ items \in [Pages!Kinds -> [Pages!PageIds -> SUBSET Pages!Item]]
         /\ season \in [Seasons -> Launches \cup {Absent}]
         /\ \A s \in Seasons : season[s] \in {season[s], Absent}
    BY PageTable
  <2> QED BY <1>1, <2>1, <2>2, <2>6, <2>7, <2>8, <2>9, <2>10, PagesRewritten
<1> QED BY <1>4, <1>5

LEMMA UpdatePageKeeps ==
  ASSUME PagesInv, NEW a \in Clients, NEW p \in Pages!PageIds, NEW want \in Pages!Page,
         NEW given_ \in BOOLEAN, Pages!UpdatePage(a, p, want, given_)
  PROVE  PagesInv'
<1> DEFINE t == [op |-> "update", page |-> p, want |-> want, loaded |-> Absent, at |-> "read",
                 alone |-> TRUE]
<1>1. /\ page[p] # Absent /\ want.number = page[p].number
      /\ client' = [client EXCEPT ![a] = t]
      /\ crowdedPages' = IF \E b \in Clients : client[b].op = "update" /\ client[b].page = p
                         THEN crowdedPages \cup {p} ELSE crowdedPages
      /\ loose' = IF ~given_ /\ want.launch # page[p].launch THEN loose \cup {p} ELSE loose
      /\ UNCHANGED <<page, pages, items, season, launches, bereft>>
  BY DEF Pages!UpdatePage, Pages!Exists, Pages!Do, Pages!tables
<1>2. /\ IF given_ THEN Tied(want, season) ELSE want.season = page[p].season
      /\ want.version = want.form /\ (want.active => want.launch # Absent)
      /\ Welcome(want, p, page, launches)
  BY DEF Pages!UpdatePage, Pages!SeasonOfLaunch, Pages!VersionOfForm,
         Pages!ActivePageCanUseLaunch, Pages!References, Pages!Exists, Tied, Welcome
<1>3. t \in Pages!Updating /\ t.want = want /\ t.page = p /\ t.at = "read"
  BY DEF Pages!Updating
<1> HIDE DEF t
<1>4. crowdedPages \subseteq crowdedPages' /\ loose \subseteq loose' /\ Astray' = crowdedPages' \cup loose'
      /\ Astray \subseteq Astray'
  BY <1>1 DEF Astray
<1>5. p \notin crowdedPages' => \A b \in Clients \ {a} : ~Updates(client[b], p)
  BY <1>1 DEF Updates
<1>6. {p, want.season} \cap Astray' = {} => Tied(want, season)
  <2> SUFFICES ASSUME p \notin Astray', want.season \notin Astray', ~given_
               PROVE  Tied(want, season)
    BY <1>2
  <2>1. want.launch = page[p].launch /\ want.season = page[p].season
    BY <1>1, <1>2, <1>4
  <2>2. {p, page[p].season} \cap Astray = {}
    BY <1>4, <2>1
  <2>3. Tied(page[p], season)
    BY <1>1, <2>2, PageTable DEF PageWell
  <2> QED BY <2>1, <2>3 DEF Tied
<1>7. p <= pages
  BY <1>1, PageTable DEF PagesNumbered
<1>8. UpdaterWell(t, page, pages, season, launches, crowdedPages', bereft, Astray')
  BY <1>1, <1>2, <1>3, <1>6, <1>7 DEF UpdaterWell, WantWell, StillThere
<1>9. t \in PageRequest /\ t.op = "update"
      /\ RequestWell(t, page, pages, season, items, launches, crowdedPages', bereft, Astray')
  BY <1>3, <1>8, UpdaterRequest
<1> QED BY <1>1, <1>3, <1>4, <1>5, <1>9, PagesKeepTables

LEMMA LoadPageKeeps ==
  ASSUME PagesInv, NEW a \in Clients, Pages!LoadPage(a)
  PROVE  PagesInv'
<1> DEFINE u == client[a]
           t == [u EXCEPT !.loaded = page[u.page], !.at = "loaded"]
<1>1. /\ u.op = "update" /\ client' = [client EXCEPT ![a] = t]
      /\ UNCHANGED <<page, pages, items, season, launches, crowdedPages, bereft, loose>>
  BY DEF Pages!LoadPage, Pages!Do, Pages!tables, Pages!ghosts
<1>2. /\ u \in Pages!Updating /\ u.page \in Pages!PageIds
      /\ UpdaterWell(u, page, pages, season, launches, crowdedPages, bereft, Astray)
  BY <1>1, PageRequestKnown
<1>3. page[u.page] \in Pages!Page \cup {Absent}
  BY <1>2, PageTable
<1>4. /\ t \in Pages!Updating /\ t.op = u.op /\ t.page = u.page /\ t.want = u.want
      /\ t.loaded = page[u.page] /\ t.alone = u.alone
  BY <1>2, <1>3 DEF Pages!Updating
<1>5. Updates(client[a], u.page)
  BY <1>1 DEF Updates
<1> HIDE DEF t, u
<1>6. UpdaterWell(t, page, pages, season, launches, crowdedPages, bereft, Astray)
  BY <1>1, <1>2, <1>4 DEF UpdaterWell, StillThere
<1>7. t \in PageRequest /\ t.op = "update"
      /\ RequestWell(t, page, pages, season, items, launches, crowdedPages, bereft, Astray)
  BY <1>4, <1>6, UpdaterRequest
<1> QED BY <1>1, <1>4, <1>5, <1>7, PagesGoOn

LEMMA EndOfPageRequest ==
  ASSUME PagesInv, NEW a \in Clients, client' = [client EXCEPT ![a] = Pages!Idle],
         UNCHANGED <<page, pages, items, season, launches, crowdedPages, bereft, loose>>
  PROVE  PagesInv'
<1>1. Pages!Idle \in PageRequest /\ Pages!Idle.op # "update"
      /\ RequestWell(Pages!Idle, page, pages, season, items, launches, crowdedPages, bereft, Astray)
  BY IdleWell
<1> QED BY <1>1, PagesGoOn

\* The row as a save leaves it.
LEMMA PageWritten ==
  ASSUME NEW old \in Pages!Page \cup {Absent}, NEW loaded \in Pages!Page \cup {Absent},
         NEW want \in Pages!Page, loaded # Absent <=> old # Absent
  PROVE  LET new == Pages!Written(old, loaded, want) IN
           /\ new \in Pages!Page
           /\ old = loaded => new = want
           /\ old # Absent /\ old = [loaded EXCEPT !.launch = Absent] =>
                /\ new.version = want.version /\ new.form = want.form /\ new.season = want.season
                /\ new.launch \in {want.launch, Absent}
<1> DEFINE new == Pages!Written(old, loaded, want)
<1>1. CASE loaded = Absent
  <2>1. new = want /\ old = Absent
    BY <1>1 DEF Pages!Written, Pages!Exists
  <2> QED BY <2>1
<1>2. CASE loaded # Absent
  <2>1. old \in Pages!Page /\ loaded \in Pages!Page
    BY <1>2
  <2>2. DOMAIN old = {"number", "launch", "season", "form", "version", "active"}
    BY <2>1 DEF Pages!Page
  <2>3. new = [f \in {"number", "launch", "season", "form", "version", "active"} |->
                 IF want[f] # loaded[f] THEN want[f] ELSE old[f]]
    BY <1>2, <2>2 DEF Pages!Written, Pages!Exists
  <2> HIDE DEF new
  <2>4. new \in Pages!Page
    BY <2>1, <2>3 DEF Pages!Page
  <2>5. old = loaded => new = want
    BY <2>1, <2>3 DEF Pages!Page
  <2>6. ASSUME old = [loaded EXCEPT !.launch = Absent]
        PROVE  /\ new.version = want.version /\ new.form = want.form /\ new.season = want.season
               /\ new.launch \in {want.launch, Absent}
    <3>1. /\ old.version = loaded.version /\ old.form = loaded.form /\ old.season = loaded.season
          /\ old.launch = Absent
      BY <2>1, <2>6 DEF Pages!Page
    <3>2. new.version = want.version /\ new.form = want.form /\ new.season = want.season
      BY <2>3, <3>1
    <3>3. new.launch \in {want.launch, Absent}
      BY <2>3, <3>1
    <3> QED BY <3>2, <3>3
  <2> QED BY <2>4, <2>5, <2>6 DEF new
<1> QED BY <1>1, <1>2

LEMMA SavePageKeeps ==
  ASSUME PagesInv, NEW a \in Clients, Pages!SavePage(a)
  PROVE  PagesInv'
<1> DEFINE u == client[a]
           p == u.page
           new == Pages!Written(page[p], u.loaded, u.want)
           mayWrite == (page[p] # Absent => u.loaded # Absent) /\ Pages!Accepted(new, p)
           gone == u.loaded # Absent /\ page[p] = Absent
<1>1. /\ u.op = "update" /\ u.at = "loaded"
      /\ UNCHANGED <<pages, items, season, launches, crowdedPages, bereft, loose>>
  BY DEF Pages!SavePage, Pages!ghosts
<1>2. /\ u \in Pages!Updating /\ p \in Pages!PageIds
      /\ UpdaterWell(u, page, pages, season, launches, crowdedPages, bereft, Astray)
      /\ p \notin crowdedPages => \A b \in Clients \ {a} : ~Updates(client[b], p)
  BY <1>1, PageRequestKnown
<1>3. /\ page \in [Pages!PageIds -> Pages!Page \cup {Absent}] /\ PagesNumbered(page, pages)
      /\ pages \in Nat
  BY PageTable, PagesFacts
<1>4. u.want \in Pages!Page /\ u.loaded \in Pages!Page \cup {Absent} /\ u.alone \in BOOLEAN
      /\ page[p] \in Pages!Page \cup {Absent}
  BY <1>2, <1>3 DEF Pages!Updating
<1>5. CASE gone
  <2>1. client' = [client EXCEPT ![a] = Pages!Idle] /\ UNCHANGED page
    BY <1>5 DEF Pages!SavePage, Pages!Exists, Pages!Do
  <2> QED BY <1>1, <2>1, EndOfPageRequest
<1>6. CASE ~gone /\ ~mayWrite
  <2>1. client' = [client EXCEPT ![a] = [op |-> "refused", alone |-> u.alone]] /\ UNCHANGED page
    BY <1>6 DEF Pages!SavePage, Pages!Exists, Pages!Do
  <2>2. ~u.alone
    <3> SUFFICES ASSUME u.alone PROVE FALSE
      OBVIOUS
    <3>1. /\ page[p] # Absent /\ page[p].number = u.want.number /\ u.loaded = page[p]
          /\ Welcome(u.want, p, page, launches)
      BY <1>1, <1>2 DEF UpdaterWell
    <3>2. new = u.want
      BY <1>4, <3>1, PageWritten
    <3>3. \A q \in Pages!PageIds \ {p} : page[q] # Absent => page[q].number # u.want.number
      BY <1>2, <1>3, <3>1 DEF PagesNumbered
    <3>4. Pages!Accepted(new, p)
      BY <3>1, <3>2, <3>3 DEF Welcome, Pages!Accepted, Pages!Exists
    <3> QED BY <1>6, <3>1, <3>4
  <2>3. u.alone = FALSE
    BY <1>4, <2>2
  <2> QED BY <1>1, <2>1, <2>3, RefusalKeeps
<1>7. CASE ~gone /\ mayWrite
  <2>1. /\ page' = [page EXCEPT ![p] = new]
        /\ client' = [b \in Clients |-> IF b = a THEN Pages!Idle ELSE Joined(client[b])]
    BY <1>7 DEF Pages!SavePage, Pages!Exists, Pages!DoAmong, Pages!GoesByPages, Joined
  <2>2. u.loaded # Absent <=> page[p] # Absent
    BY <1>7
  <2>3. /\ new \in Pages!Page
        /\ page[p] = u.loaded => new = u.want
        /\ page[p] # Absent /\ page[p] = [u.loaded EXCEPT !.launch = Absent] =>
             /\ new.version = u.want.version /\ new.form = u.want.form
             /\ new.season = u.want.season
             /\ new.launch \in {u.want.launch, Absent}
    BY <1>4, <2>2, PageWritten
  <2>4. \A q \in Pages!PageIds : page'[q] = IF q = p THEN new ELSE page[q]
    BY <1>3, <2>1
  <2>5. \A q \in Pages!PageIds \ {p} : page[q] # Absent => page[q].number # new.number
    BY <1>7 DEF Pages!Accepted, Pages!Exists
  <2>6. WantWell(u.want, p, season, Astray) /\ p <= pages
        /\ (p \in crowdedPages \/ StillThere(u, page, bereft))
    BY <1>1, <1>2 DEF UpdaterWell
  <2>7. p \notin crowdedPages =>
          \/ new = u.want
          \/ /\ new.version = u.want.version /\ new.form = u.want.form
             /\ new.season = u.want.season
             /\ new.launch \in {u.want.launch, Absent} /\ p \in bereft
    BY <1>1, <2>2, <2>3, <2>6 DEF StillThere
  <2>8. \A b \in Clients : client[b].op = "update" =>
          /\ client[b].page \in Pages!PageIds
          /\ client[b].page \in crowdedPages \/ StillThere(client[b], page, bereft)
    BY PageRequestKnown, PageTable
  <2>9. \A b \in Clients : b # a /\ client[b].op = "update" =>
          client[b].page \in crowdedPages \/ client[b].page # p
    BY <1>2 DEF Updates
  <2> HIDE DEF u, p, new, mayWrite, gone
  <2>10. page' \in [Pages!PageIds -> Pages!Page \cup {Absent}]
    BY <1>2, <1>3, <2>1, <2>3
  <2>11. PagesNumbered(page', pages)
    <3> SUFFICES ASSUME NEW q \in Pages!PageIds, page'[q] # Absent
                 PROVE  /\ q <= pages
                        /\ \A r \in Pages!PageIds \ {q} :
                             page'[r] # Absent => page'[r].number # page'[q].number
      BY DEF PagesNumbered
    <3>1. q <= pages
      BY <1>3, <2>4, <2>6 DEF PagesNumbered
    <3>2. ASSUME NEW r \in Pages!PageIds \ {q}, page'[r] # Absent
          PROVE  page'[r].number # page'[q].number
      BY <1>3, <2>4, <2>5, <3>2 DEF PagesNumbered
    <3> QED BY <3>1, <3>2
  <2>12. \A q \in Pages!PageIds : PageWell(q, page', season, crowdedPages, bereft, Astray)
    <3> TAKE q \in Pages!PageIds
    <3>1. CASE q = p
      <4>1. page'[q] = new
        BY <2>4, <3>1
      <4>2. q \in crowdedPages => q \in Astray
        BY DEF Astray
      <4>3. q \notin crowdedPages /\ new = u.want => PageWell(q, page', season, crowdedPages, bereft, Astray)
        BY <2>6, <3>1, <4>1 DEF PageWell, WantWell
      <4>4. ASSUME q \notin crowdedPages, q \in bereft, new.version = u.want.version,
                   new.form = u.want.form, new.season = u.want.season,
                   new.launch \in {u.want.launch, Absent}
            PROVE  PageWell(q, page', season, crowdedPages, bereft, Astray)
        <5>1. new.version = new.form
          BY <2>6, <4>4 DEF WantWell
        <5>2. {q, new.season} \cap Astray = {} => Tied(new, season)
          BY <2>6, <3>1, <4>4 DEF WantWell, Tied
        <5> QED BY <4>1, <4>4, <5>1, <5>2 DEF PageWell
      <4>5. q \in crowdedPages => PageWell(q, page', season, crowdedPages, bereft, Astray)
        BY <4>2 DEF PageWell
      <4> QED BY <2>7, <3>1, <4>3, <4>4, <4>5
    <3>2. CASE q # p
      <4>1. PageWell(q, page, season, crowdedPages, bereft, Astray) /\ page'[q] = page[q]
        BY <2>4, <3>2, PageTable
      <4> QED BY <4>1 DEF PageWell
    <3> QED BY <3>1, <3>2
  <2>13. \A b \in Clients : b # a /\ client[b].op = "update" =>
           client[b].page \in crowdedPages \/ StillThere(client[b], page', bereft)
    <3> SUFFICES ASSUME NEW b \in Clients, b # a, client[b].op = "update",
                        client[b].page \notin crowdedPages
                 PROVE  StillThere(client[b], page', bereft)
      OBVIOUS
    <3>1. page'[client[b].page] = page[client[b].page]
      BY <2>4, <2>8, <2>9
    <3>2. StillThere(client[b], page, bereft)
      BY <2>8
    <3> QED BY <3>1, <3>2 DEF StillThere
  <2>14. /\ items \in [Pages!Kinds -> [Pages!PageIds -> SUBSET Pages!Item]]
         /\ season \in [Seasons -> Launches \cup {Absent}] /\ pages \in 1..MaxPages
         /\ \A s \in Seasons : season[s] \in {season[s], Absent}
    BY PageTable
  <2>15. pages <= pages
    BY <1>3
  <2> QED BY <1>1, <2>1, <2>10, <2>11, <2>12, <2>13, <2>14, <2>15, PagesRewritten
<1> QED BY <1>5, <1>6, <1>7

LEMMA RemovePageKeeps ==
  ASSUME PagesInv, NEW p \in Pages!PageIds, Pages!RemovePage(p)
  PROVE  PagesInv'
<1>1. /\ page' = [page EXCEPT ![p] = Absent]
      /\ items' = [k \in Pages!Kinds |-> [items[k] EXCEPT ![p] = {}]]
      /\ client' = [b \in Clients |-> IF b = Absent THEN Pages!Idle ELSE Joined(client[b])]
      /\ UNCHANGED <<pages, season, launches, crowdedPages, bereft, loose>>
  BY DEF Pages!RemovePage, Pages!DoAmong, Pages!GoesByPages, Pages!ghosts, Joined
<1>2. /\ page \in [Pages!PageIds -> Pages!Page \cup {Absent}] /\ pages \in 1..MaxPages
      /\ pages <= pages /\ PagesNumbered(page, pages)
      /\ items \in [Pages!Kinds -> [Pages!PageIds -> SUBSET Pages!Item]]
      /\ season \in [Seasons -> Launches \cup {Absent}]
      /\ \A s \in Seasons : season[s] \in {season[s], Absent}
  BY PageTable, PagesFacts
<1>3. \A q \in Pages!PageIds : page'[q] = IF q = p THEN Absent ELSE page[q]
  BY <1>1, <1>2
<1>4. page' \in [Pages!PageIds -> Pages!Page \cup {Absent}]
      /\ items' \in [Pages!Kinds -> [Pages!PageIds -> SUBSET Pages!Item]]
  BY <1>1, <1>2
<1>5. PagesNumbered(page', pages)
  BY <1>2, <1>3 DEF PagesNumbered
<1>6. \A q \in Pages!PageIds : PageWell(q, page', season, crowdedPages, bereft, Astray)
  BY <1>3, PageTable DEF PageWell
<1>7. \A b \in Clients : b # Absent /\ client[b].op = "update" =>
        client[b].page \in crowdedPages \/ StillThere(client[b], page', bereft)
  <2> SUFFICES ASSUME NEW b \in Clients, client[b].op = "update", client[b].page \notin crowdedPages
               PROVE  StillThere(client[b], page', bereft)
    OBVIOUS
  <2>1. client[b].page \in Pages!PageIds
    BY PageRequestKnown
  <2>2. StillThere(client[b], page, bereft)
    BY PageTable
  <2>3. page'[client[b].page] \in {Absent, page[client[b].page]}
    BY <1>3, <2>1
  <2> QED BY <2>2, <2>3 DEF StillThere
<1> QED BY <1>1, <1>2, <1>4, <1>5, <1>6, <1>7, PagesRewritten

LEMMA RemoveLaunchKeeps ==
  ASSUME PagesInv, NEW l \in Launches, Pages!RemoveLaunch(l)
  PROVE  PagesInv'
<1> DEFINE K == {p \in Pages!PageIds : page[p] # Absent /\ page[p].launch = l}
<1>1. /\ page' = [p \in Pages!PageIds |->
           IF page[p] # Absent /\ page[p].launch = l
           THEN [page[p] EXCEPT !.launch = Absent] ELSE page[p]]
      /\ season' = [s \in Seasons |-> IF season[s] = l THEN Absent ELSE season[s]]
      /\ bereft' = bereft \cup K
      /\ client' = [b \in Clients |-> IF b = Absent THEN Pages!Idle ELSE Joined(client[b])]
      /\ UNCHANGED <<pages, items, crowdedPages, loose>>
  BY DEF Pages!RemoveLaunch, Pages!DoAmong, Pages!GoesByPages, Pages!Exists, Joined
<1>2. /\ page \in [Pages!PageIds -> Pages!Page \cup {Absent}] /\ pages \in 1..MaxPages
      /\ pages <= pages /\ PagesNumbered(page, pages)
      /\ items \in [Pages!Kinds -> [Pages!PageIds -> SUBSET Pages!Item]]
      /\ season \in [Seasons -> Launches \cup {Absent}]
  BY PageTable, PagesFacts
<1>3. \A q \in Pages!PageIds :
        IF q \in K THEN page'[q] = [page[q] EXCEPT !.launch = Absent] /\ page[q] \in Pages!Page
        ELSE page'[q] = page[q]
  BY <1>1, <1>2
<1>4. \A q \in K : /\ page'[q] \in Pages!Page /\ page'[q] # Absent /\ page[q] # Absent
                   /\ page'[q].launch = Absent /\ page'[q].number = page[q].number
                   /\ page'[q].version = page[q].version /\ page'[q].form = page[q].form
                   /\ page'[q].season = page[q].season
  <2> TAKE q \in K
  <2>1. page'[q] = [page[q] EXCEPT !.launch = Absent] /\ page[q] \in Pages!Page
    BY <1>3
  <2> QED BY <2>1, PagesFacts DEF Pages!Page
<1>5. /\ page' \in [Pages!PageIds -> Pages!Page \cup {Absent}]
      /\ season' \in [Seasons -> Launches \cup {Absent}]
      /\ \A s \in Seasons : season'[s] \in {season[s], Absent}
      /\ bereft \subseteq bereft' /\ K \subseteq bereft'
  <2>1. \A q \in Pages!PageIds : page'[q] \in Pages!Page \cup {Absent}
    BY <1>2, <1>3, <1>4
  <2>2. page' = [q \in Pages!PageIds |-> page'[q]]
    BY <1>1
  <2>3. page' \in [Pages!PageIds -> Pages!Page \cup {Absent}]
    BY <2>1, <2>2
  <2> QED BY <1>1, <1>2, <2>3
<1> HIDE DEF K
<1>6. PagesNumbered(page', pages)
  <2>1. \A q \in Pages!PageIds : page'[q] # Absent => page[q] # Absent /\ page'[q].number = page[q].number
    BY <1>3, <1>4
  <2> QED BY <1>2, <2>1 DEF PagesNumbered
<1>7. \A q \in Pages!PageIds : PageWell(q, page', season', crowdedPages, bereft', Astray)
  <2> TAKE q \in Pages!PageIds
  <2>1. PageWell(q, page, season, crowdedPages, bereft, Astray)
    BY PageTable
  <2>2. CASE q \in K
    BY <1>4, <1>5, <2>1, <2>2 DEF PageWell, Tied
  <2>3. CASE q \notin K
    <3>1. page'[q] = page[q]
      BY <1>3, <2>3
    <3>2. page[q] # Absent => page[q].season \in Seasons \cup {Absent}
      BY <1>2 DEF Pages!Page
    <3>3. PageWell(q, page, season', crowdedPages, bereft', Astray)
      BY <1>5, <2>1, <3>2, PageStays
    <3> QED BY <3>1, <3>3 DEF PageWell
  <2> QED BY <2>2, <2>3
<1>8. \A b \in Clients : b # Absent /\ client[b].op = "update" =>
        client[b].page \in crowdedPages \/ StillThere(client[b], page', bereft')
  <2> SUFFICES ASSUME NEW b \in Clients, client[b].op = "update", client[b].page \notin crowdedPages
               PROVE  StillThere(client[b], page', bereft')
    OBVIOUS
  <2> DEFINE u == client[b]
             q == u.page
  <2>1. u.page \in Pages!PageIds /\ u \in Pages!Updating
    BY PageRequestKnown
  <2>2. StillThere(u, page, bereft)
    BY PageTable
  <2>3. u.loaded \in Pages!Page \cup {Absent}
    BY <2>1 DEF Pages!Updating
  <2> HIDE DEF u
  <2>4. CASE q \notin K
    <3>1. page'[u.page] = page[u.page]
      BY <1>3, <2>1, <2>4
    <3>2. StillThere(u, page', bereft')
      BY <1>5, <2>2, <3>1 DEF StillThere
    <3> QED BY <3>2 DEF u
  <2>5. CASE q \in K
    <3> SUFFICES ASSUME u.at = "loaded", u.loaded # Absent
                 PROVE  page'[q] = [u.loaded EXCEPT !.launch = Absent] /\ q \in bereft'
      BY DEF StillThere, u
    <3>1. page'[q] = [page[q] EXCEPT !.launch = Absent] /\ page[q] # Absent
      BY <1>3, <1>4, <2>1, <2>5
    <3>2. page[q] = u.loaded \/ page[q] = [u.loaded EXCEPT !.launch = Absent]
      BY <2>2, <3>1 DEF StillThere
    <3>3. u.loaded \in Pages!Page
      BY <2>3
    <3>4. page'[q] = [u.loaded EXCEPT !.launch = Absent]
      BY <3>1, <3>2, <3>3 DEF Pages!Page
    <3> QED BY <1>5, <2>5, <3>4
  <2> QED BY <2>4, <2>5 DEF u
<1> QED BY <1>1, <1>2, <1>5, <1>6, <1>7, <1>8, PagesRewritten

-----------------------------------------------------------------------------
(* Pages: headlines and versions, and the seasons they are tied to *)

LEMMA CreateItemKeeps ==
  ASSUME PagesInv, NEW a \in Clients, NEW k \in Pages!Kinds, NEW p \in Pages!PageIds,
         NEW place \in 0..MaxNumber, Pages!CreateItem(a, k, p, place)
  PROVE  PagesInv'
<1> DEFINE t == [op |-> "item", kind |-> k, page |-> p, abbreviation |-> 0, number |-> place,
                 given |-> place # 0, alone |-> TRUE]
<1>1. /\ page[p] # Absent /\ client' = [client EXCEPT ![a] = t]
      /\ UNCHANGED <<page, pages, items, season, launches, crowdedPages, bereft, loose>>
  BY DEF Pages!CreateItem, Pages!Exists, Pages!Do, Pages!tables, Pages!ghosts
<1>2. t \in Pages!Adding
  <2>1. 0 \in 0..MaxNumber /\ (place # 0) \in BOOLEAN
    BY PagesFacts
  <2> QED BY <2>1 DEF Pages!Adding
<1>3. t.page = p /\ t.abbreviation = 0 /\ (t.number # 0 => t.given)
  OBVIOUS
<1> HIDE DEF t
<1>4. AdderWell(t, page, items)
  BY <1>1, <1>3 DEF AdderWell
<1>5. t \in PageRequest /\ t.op = "item"
      /\ RequestWell(t, page, pages, season, items, launches, crowdedPages, bereft, Astray)
  BY <1>2, <1>4, AdderRequest
<1> QED BY <1>1, <1>5, PagesGoOn

LEMMA ReadAbbreviationKeeps ==
  ASSUME PagesInv, NEW a \in Clients, Pages!ReadAbbreviation(a)
  PROVE  PagesInv'
<1> DEFINE u == client[a]
           S == {i.abbreviation : i \in items[u.kind][u.page]}
           n == Pages!NextAfter(S)
           t == [u EXCEPT !.abbreviation = n]
<1>1. /\ u.op = "item" /\ n <= MaxNumber /\ client' = [client EXCEPT ![a] = t]
      /\ UNCHANGED <<page, pages, items, season, launches, crowdedPages, bereft, loose>>
  BY DEF Pages!ReadAbbreviation, Pages!Allowed, Pages!Do, Pages!tables, Pages!ghosts
<1>2. u \in Pages!Adding /\ AdderWell(u, page, items)
  BY <1>1, PageRequestKnown
<1>3. u.kind \in Pages!Kinds /\ u.page \in Pages!PageIds
  BY <1>2 DEF Pages!Adding
<1>4. S \in SUBSET (1..MaxNumber)
  BY <1>3, PageTable, PagesFacts DEF Pages!Item
<1>5. n \in Nat \ {0} /\ \A x \in S : x # n
  BY <1>4, NextIsFree
<1> HIDE DEF n
<1>6. n \in 0..MaxNumber /\ \A i \in items[u.kind][u.page] : i.abbreviation # n
  BY <1>1, <1>5, PagesFacts
<1>7. /\ t \in Pages!Adding /\ t.kind = u.kind /\ t.page = u.page /\ t.abbreviation = n
      /\ t.number = u.number /\ t.given = u.given /\ t.alone = u.alone
  BY <1>2, <1>6 DEF Pages!Adding
<1> HIDE DEF t, u, S
<1>8. AdderWell(t, page, items)
  BY <1>1, <1>2, <1>6, <1>7 DEF AdderWell
<1>9. t \in PageRequest /\ t.op = "item"
      /\ RequestWell(t, page, pages, season, items, launches, crowdedPages, bereft, Astray)
  BY <1>7, <1>8, AdderRequest
<1> QED BY <1>1, <1>9, PagesGoOn

LEMMA ReadNumberKeeps ==
  ASSUME PagesInv, NEW a \in Clients, Pages!ReadNumber(a)
  PROVE  PagesInv'
<1> DEFINE u == client[a]
           S == {i.number : i \in items[u.kind][u.page]}
           n == Pages!NextAfter(S)
           t == [u EXCEPT !.number = n]
<1>1. /\ u.op = "item" /\ n <= MaxNumber /\ client' = [client EXCEPT ![a] = t]
      /\ UNCHANGED <<page, pages, items, season, launches, crowdedPages, bereft, loose>>
  BY DEF Pages!ReadNumber, Pages!Allowed, Pages!Do, Pages!tables, Pages!ghosts
<1>2. u \in Pages!Adding /\ AdderWell(u, page, items)
  BY <1>1, PageRequestKnown
<1>3. u.kind \in Pages!Kinds /\ u.page \in Pages!PageIds
  BY <1>2 DEF Pages!Adding
<1>4. S \in SUBSET (1..MaxNumber)
  BY <1>3, PageTable, PagesFacts DEF Pages!Item
<1>5. n \in Nat \ {0} /\ \A x \in S : x # n
  BY <1>4, NextIsFree
<1> HIDE DEF n
<1>6. n \in 0..MaxNumber /\ \A i \in items[u.kind][u.page] : i.number # n
  BY <1>1, <1>5, PagesFacts
<1>7. /\ t \in Pages!Adding /\ t.kind = u.kind /\ t.page = u.page /\ t.number = n
      /\ t.abbreviation = u.abbreviation /\ t.given = u.given /\ t.alone = u.alone
  BY <1>2, <1>6 DEF Pages!Adding
<1> HIDE DEF t, u, S
<1>8. AdderWell(t, page, items)
  BY <1>1, <1>2, <1>6, <1>7 DEF AdderWell
<1>9. t \in PageRequest /\ t.op = "item"
      /\ RequestWell(t, page, pages, season, items, launches, crowdedPages, bereft, Astray)
  BY <1>7, <1>8, AdderRequest
<1> QED BY <1>1, <1>9, PagesGoOn

\* A request about the items of kind k of page q.
AboutItems(t, k, q) == t.op = "item" /\ t.kind = k /\ t.page = q

\* A step that writes the items of a page, of a unless nobody did.
LEMMA ItemsRewritten ==
  ASSUME PagesInv, NEW a, NEW k \in Pages!Kinds, NEW q \in Pages!PageIds,
         NEW S \in SUBSET Pages!Item, Pages!ItemsChange(a, Pages!Idle, k, q, S),
         UNCHANGED <<page, pages, season, launches, crowdedPages, bereft, loose>>
  PROVE  PagesInv'
<1>1. /\ items' = [items EXCEPT ![k][q] = S]
      /\ client' = [b \in Clients |-> IF b = a THEN Pages!Idle
                    ELSE IF AboutItems(client[b], k, q) THEN [client[b] EXCEPT !.alone = FALSE]
                    ELSE client[b]]
  BY DEF Pages!ItemsChange, Pages!DoAmong, AboutItems
<1>2. items \in [Pages!Kinds -> [Pages!PageIds -> SUBSET Pages!Item]]
      /\ client \in [Clients -> PageRequest]
  BY DEF PagesInv, PagesTyped
<1>3. items' \in [Pages!Kinds -> [Pages!PageIds -> SUBSET Pages!Item]]
  <2>1. [items[k] EXCEPT ![q] = S] \in [Pages!PageIds -> SUBSET Pages!Item]
    BY <1>2
  <2> QED BY <1>1, <1>2, <2>1
<1>4. \A j \in Pages!Kinds, p \in Pages!PageIds :
        j # k \/ p # q => items'[j][p] = items[j][p]
  BY <1>1, <1>2
<1>5. ASSUME NEW b \in Clients
      PROVE  \/ client'[b] = Pages!Idle
             \/ client'[b] = Joined(client[b]) /\ client[b].op = "item"
             \/ client'[b] = client[b] /\ ~AboutItems(client[b], k, q)
  BY <1>1 DEF Joined, AboutItems
<1>6. Astray' = Astray
  BY DEF Astray
<1>7. ASSUME NEW b \in Clients
      PROVE  /\ client'[b] \in PageRequest
             /\ RequestWell(client'[b], page, pages, season, items', launches, crowdedPages, bereft,
                            Astray)
             /\ client'[b].op = "update" => client'[b] = client[b]
  <2>1. client[b] \in PageRequest
        /\ RequestWell(client[b], page, pages, season, items, launches, crowdedPages, bereft, Astray)
    BY <1>2 DEF PagesInv
  <2>2. CASE client'[b] = Pages!Idle
    BY <2>2, IdleWell
  <2>3. CASE client'[b] = Joined(client[b]) /\ client[b].op = "item"
    BY <2>1, <2>3, JoinedIs DEF RequestWell, CreatorWell, UpdaterWell, AdderWell, RefusedWell
  <2>4. CASE client'[b] = client[b] /\ ~AboutItems(client[b], k, q)
    <3> DEFINE u == client[b]
    <3>1. u.op = "item" => items'[u.kind][u.page] = items[u.kind][u.page]
      <4>1. u.op = "item" => u.kind \in Pages!Kinds /\ u.page \in Pages!PageIds
        BY PageRequestKnown DEF Pages!Adding
      <4> QED BY <1>4, <2>4, <4>1 DEF AboutItems
    <3>2. AdderWell(u, page, items')
      BY <2>1, <3>1 DEF RequestWell, AdderWell
    <3> QED BY <2>1, <2>4, <3>2 DEF RequestWell
  <2> QED BY <1>5, <2>2, <2>3, <2>4
<1>8. client' \in [Clients -> PageRequest]
  <2>1. client' = [b \in Clients |-> client'[b]]
    BY <1>1
  <2> QED BY <1>7, <2>1
<1>9. \A p \in Pages!PageIds \ crowdedPages : OneUpdater(p, client')
  <2> TAKE p \in Pages!PageIds \ crowdedPages
  <2>1. OneUpdater(p, client)
    BY DEF PagesInv
  <2>2. \A b \in Clients : Updates(client'[b], p) => Updates(client[b], p)
    BY <1>7 DEF Updates
  <2> QED BY <2>1, <2>2 DEF OneUpdater
<1>10. PagesTyped'
  BY <1>3, <1>8 DEF PagesInv, PagesTyped
<1> QED BY <1>6, <1>7, <1>9, <1>10 DEF PagesInv

LEMMA InsertItemKeeps ==
  ASSUME PagesInv, NEW a \in Clients, Pages!InsertItem(a)
  PROVE  PagesInv'
<1> DEFINE u == client[a]
           S == items[u.kind][u.page]
           new == [abbreviation |-> u.abbreviation, number |-> u.number]
           free == /\ page[u.page] # Absent
                   /\ \A i \in S : i.abbreviation # u.abbreviation /\ i.number # u.number
<1>1. /\ u.op = "item" /\ u.abbreviation # 0 /\ u.number # 0
      /\ UNCHANGED <<page, pages, season, launches, crowdedPages, bereft, loose>>
  BY DEF Pages!InsertItem, Pages!ghosts
<1>2. u \in Pages!Adding /\ AdderWell(u, page, items)
  BY <1>1, PageRequestKnown
<1>3. /\ u.kind \in Pages!Kinds /\ u.page \in Pages!PageIds /\ u.alone \in BOOLEAN /\ u.given \in BOOLEAN
      /\ u.abbreviation \in 0..MaxNumber /\ u.number \in 0..MaxNumber
  BY <1>2 DEF Pages!Adding
<1>4. CASE free
  <2>1. Pages!ItemsChange(a, Pages!Idle, u.kind, u.page, S \cup {new})
    BY <1>4 DEF Pages!InsertItem, Pages!Exists
  <2>2. u.abbreviation \in Pages!Numbers /\ u.number \in Pages!Numbers
    BY <1>1, <1>3, PagesFacts
  <2>3. S \cup {new} \in SUBSET Pages!Item
    BY <1>3, <2>2, PageTable DEF Pages!Item
  <2> HIDE DEF u, S, new
  <2> QED BY <1>1, <1>3, <2>1, <2>3, ItemsRewritten
<1>5. CASE ~free
  <2>1. client' = [client EXCEPT ![a] = [op |-> "refused", alone |-> u.alone /\ ~u.given]]
        /\ UNCHANGED items
    BY <1>5 DEF Pages!InsertItem, Pages!Exists, Pages!Do
  <2>2. ~(u.alone /\ ~u.given)
    BY <1>1, <1>2, <1>5 DEF AdderWell
  <2>3. (u.alone /\ ~u.given) = FALSE
    BY <1>3, <2>2
  <2> QED BY <1>1, <2>1, <2>3, RefusalKeeps
<1> QED BY <1>4, <1>5

LEMMA UpdateHeadlineKeeps ==
  ASSUME PagesInv, NEW p \in Pages!PageIds, NEW i \in Pages!Item, NEW place \in Pages!Numbers,
         Pages!UpdateHeadline(p, i, place)
  PROVE  PagesInv'
<1> DEFINE S == (items["headline"][p] \ {i}) \cup {[i EXCEPT !.number = place]}
<1>1. /\ Pages!ItemsChange(Absent, Pages!Idle, "headline", p, S)
      /\ UNCHANGED <<page, pages, season, launches, crowdedPages, bereft, loose>>
  BY DEF Pages!UpdateHeadline, Pages!ghosts
<1>2. "headline" \in Pages!Kinds
  BY DEF Pages!Kinds
<1>3. [i EXCEPT !.number = place] \in Pages!Item
  BY DEF Pages!Item
<1>4. S \in SUBSET Pages!Item
  BY <1>2, <1>3, PageTable
<1> HIDE DEF S
<1> QED BY <1>1, <1>2, <1>4, ItemsRewritten

LEMMA RemoveItemKeeps ==
  ASSUME PagesInv, NEW k \in Pages!Kinds, NEW p \in Pages!PageIds, NEW i \in Pages!Item,
         Pages!RemoveItem(k, p, i)
  PROVE  PagesInv'
<1> DEFINE S == items[k][p] \ {i}
<1>1. /\ Pages!ItemsChange(Absent, Pages!Idle, k, p, S)
      /\ UNCHANGED <<page, pages, season, launches, crowdedPages, bereft, loose>>
  BY DEF Pages!RemoveItem, Pages!ghosts
<1>2. S \in SUBSET Pages!Item
  BY PageTable
<1> HIDE DEF S
<1> QED BY <1>1, <1>2, ItemsRewritten

LEMMA MoveSeasonKeeps ==
  ASSUME PagesInv, NEW s \in Seasons, NEW l \in Launches, Pages!MoveSeason(s, l)
  PROVE  PagesInv'
<1>1. /\ season' = [season EXCEPT ![s] = l] /\ loose' = loose \cup {s}
      /\ UNCHANGED <<page, pages, items, launches, client, crowdedPages, bereft>>
  BY DEF Pages!MoveSeason
<1>2. Astray \subseteq Astray' /\ s \in Astray'
  BY <1>1 DEF Astray
<1>3. season \in [Seasons -> Launches \cup {Absent}]
  BY PageTable
<1>4. season' \in [Seasons -> Launches \cup {Absent}]
      /\ \A r \in Seasons \ Astray' : season'[r] \in {season[r], Absent}
  BY <1>1, <1>2, <1>3
<1>5. \A b \in Clients :
        RequestWell(client[b], page, pages, season', items, launches, crowdedPages, bereft, Astray')
  <2> TAKE b \in Clients
  <2>1. client[b] \in PageRequest
        /\ RequestWell(client[b], page, pages, season, items, launches, crowdedPages, bereft, Astray)
    BY DEF PagesInv, PagesTyped
  <2> QED BY <1>2, <1>4, <2>1, RequestStays
<1>6. \A p \in Pages!PageIds : PageWell(p, page, season', crowdedPages, bereft, Astray')
  <2> TAKE p \in Pages!PageIds
  <2>1. PageWell(p, page, season, crowdedPages, bereft, Astray)
    BY PageTable
  <2>2. page[p] # Absent => page[p].season \in Seasons \cup {Absent}
    BY PageTable DEF Pages!Page
  <2> QED BY <1>2, <1>4, <2>1, <2>2, PageStays
<1>7. PagesTyped'
  BY <1>1, <1>4 DEF PagesInv, PagesTyped
<1> QED BY <1>1, <1>5, <1>6, <1>7 DEF PagesInv

-----------------------------------------------------------------------------
(* Pages: what they add up to *)

LEMMA PagesStep == PagesInv /\ Pages!Next => PagesInv'
<1> SUFFICES ASSUME PagesInv, Pages!Next PROVE PagesInv'
  OBVIOUS
<1>1. ASSUME NEW a \in Clients, NEW want \in Pages!Page, Pages!CreatePage(a, want) PROVE PagesInv'
  BY <1>1, CreatePageKeeps
<1>2. ASSUME NEW a \in Clients, Pages!NumberPage(a) PROVE PagesInv'
  BY <1>2, NumberPageKeeps
<1>3. ASSUME NEW a \in Clients, Pages!InsertPage(a) PROVE PagesInv'
  BY <1>3, InsertPageKeeps
<1>4. ASSUME NEW a \in Clients, NEW p \in Pages!PageIds, NEW want \in Pages!Page,
             NEW seasonGiven \in BOOLEAN, Pages!UpdatePage(a, p, want, seasonGiven)
      PROVE  PagesInv'
  BY <1>4, UpdatePageKeeps
<1>5. ASSUME NEW a \in Clients, Pages!LoadPage(a) PROVE PagesInv'
  BY <1>5, LoadPageKeeps
<1>6. ASSUME NEW a \in Clients, Pages!SavePage(a) PROVE PagesInv'
  BY <1>6, SavePageKeeps
<1>7. ASSUME NEW a \in Clients, NEW k \in Pages!Kinds, NEW p \in Pages!PageIds,
             NEW place \in 0..MaxNumber, Pages!CreateItem(a, k, p, place)
      PROVE  PagesInv'
  BY <1>7, CreateItemKeeps
<1>8. ASSUME NEW a \in Clients, Pages!ReadAbbreviation(a) PROVE PagesInv'
  BY <1>8, ReadAbbreviationKeeps
<1>9. ASSUME NEW a \in Clients, Pages!ReadNumber(a) PROVE PagesInv'
  BY <1>9, ReadNumberKeeps
<1>10. ASSUME NEW a \in Clients, Pages!InsertItem(a) PROVE PagesInv'
  BY <1>10, InsertItemKeeps
<1>11. ASSUME NEW a \in Clients, Pages!Answer(a) PROVE PagesInv'
  <2>1. /\ client' = [client EXCEPT ![a] = Pages!Idle]
        /\ UNCHANGED <<page, pages, items, season, launches, crowdedPages, bereft, loose>>
    BY <1>11 DEF Pages!Answer, Pages!Do, Pages!tables, Pages!ghosts
  <2> QED BY <2>1, EndOfPageRequest
<1>12. ASSUME NEW p \in Pages!PageIds, Pages!RemovePage(p) PROVE PagesInv'
  BY <1>12, RemovePageKeeps
<1>13. ASSUME NEW p \in Pages!PageIds, NEW k \in Pages!Kinds, NEW i \in Pages!Item,
              Pages!RemoveItem(k, p, i)
       PROVE  PagesInv'
  BY <1>13, RemoveItemKeeps
<1>14. ASSUME NEW p \in Pages!PageIds, NEW i \in Pages!Item, NEW place \in Pages!Numbers,
              Pages!UpdateHeadline(p, i, place)
       PROVE  PagesInv'
  BY <1>14, UpdateHeadlineKeeps
<1>15. ASSUME NEW s \in Seasons, NEW l \in Launches, Pages!MoveSeason(s, l) PROVE PagesInv'
  BY <1>15, MoveSeasonKeeps
<1>16. ASSUME NEW l \in Launches, Pages!RemoveLaunch(l) PROVE PagesInv'
  BY <1>16, RemoveLaunchKeeps
<1> QED BY <1>1, <1>2, <1>3, <1>4, <1>5, <1>6, <1>7, <1>8, <1>9, <1>10, <1>11, <1>12, <1>13,
           <1>14, <1>15, <1>16 DEF Pages!Next

LEMMA PagesKept ==
  (part = "pages" => PagesInv) /\ [Next]_vars => (part' = "pages" => PagesInv')
<1> SUFFICES ASSUME part = "pages", PagesInv, [Next]_vars PROVE PagesInv'
  BY DEF Next, Step, vars
<1>1. CASE Pages!Next
  BY <1>1, PagesStep
<1>2. CASE UNCHANGED pageVars
  BY <1>2 DEF pageVars, PagesInv, PagesTyped, Astray
<1> QED BY <1>1, <1>2 DEF Next, Step, vars

LEMMA PagesHold == PagesInv => Pages!ConsistentUnlessRaced
<1> SUFFICES ASSUME PagesInv PROVE Pages!ConsistentUnlessRaced
  OBVIOUS
<1>1. ASSUME NEW p \in Pages!PageIds, page[p] # Absent
      PROVE  /\ p \notin crowdedPages => page[p].version = page[p].form
             /\ {p, page[p].season} \cap (crowdedPages \cup loose) = {} => Tied(page[p], season)
             /\ page[p].active /\ p \notin crowdedPages \cup bereft => page[p].launch # Absent
  BY <1>1, PageTable DEF PageWell, Astray
<1>2. \A a \in Clients : client[a].op = "refused" => ~client[a].alone
  BY DEF PagesInv, RequestWell, RefusedWell
<1> QED BY <1>1, <1>2
        DEF Pages!ConsistentUnlessRaced, Pages!Exists, Pages!VersionOfForm, Pages!SeasonOfLaunch,
            Tied

-----------------------------------------------------------------------------
(* Questions: the inductive invariant *)

EntryRow == Questioning!Row
EntryFields == {"kind", "of", "place", "mark"}

\* A request with rows in hand, of the first n.
SaverTyped(t, n) ==
  t.op = "save" =>
    /\ DOMAIN t.want \subseteq 1..n /\ t.fields \subseteq {"place", "mark"}
    /\ \A r \in DOMAIN t.want : t.want[r] \in EntryRow

ManagerTyped(t, n) ==
  /\ t.op \in {"idle", "save", "place", "insert"}
  /\ SaverTyped(t, n)
  /\ t.op \in {"place", "insert"} => t \in Questioning!Adding

QuestionsTyped ==
  /\ entries \in 0..MaxItems
  /\ entry \in [Questioning!Rows -> EntryRow \cup {Absent}]
  /\ DOMAIN entered = Questioning!Rows
  /\ \A r \in Questioning!Rows : entry[r] # Absent => r <= entries
  /\ appended \subseteq 1..entries
  /\ DOMAIN manager = Clients
  /\ \A a \in Clients : ManagerTyped(manager[a], entries)

IsLink(r, T) == T[r] # Absent /\ T[r].kind = "link"

\* What a request has in hand is in the table T but for what it changes, unless the row is in R.
SaverWell(t, T, R) ==
  t.op = "save" => \A r \in DOMAIN t.want \ R :
    T[r] # Absent /\ \A f \in EntryFields \ t.fields : t.want[r][f] = T[r][f]

\* A link to be added has no other beside it, and goes after them.
LinkerWell(t, T) ==
  t.op \in {"place", "insert"} /\ t.alone =>
    \A l \in Questioning!Rows : IsLink(l, T) =>
      /\ T[l].of # t.want.of
      /\ t.op = "insert" /\ t.last => T[l].place < t.want.place

InHand(r, t) == t.op = "save" /\ r \in DOMAIN t.want
OneSaver(r, K) == \A a, b \in Clients : InHand(r, K[a]) /\ InHand(r, K[b]) => a = b

LinksApart(T, P, R) ==
  \A l, m \in Questioning!Rows \ R : IsLink(l, T) /\ IsLink(m, T) /\ l # m =>
    /\ T[l].of # T[m].of
    /\ l \in P /\ m \in P => T[l].place # T[m].place

QuestionsInv ==
  /\ QuestionsTyped
  /\ \A a \in Clients : SaverWell(manager[a], entry, mingled) /\ LinkerWell(manager[a], entry)
  /\ \A r \in Questioning!Rows \ mingled : entry[r] = entered[r] /\ OneSaver(r, manager)
  /\ LinksApart(entry, appended, mingled)

-----------------------------------------------------------------------------
(* Questions: what requests know *)

LEMMA EntryFacts ==
  /\ MaxItems \in Nat /\ MaxItems >= 3 /\ MaxPlace \in Nat /\ MaxPlace >= 1
  /\ Absent \notin EntryRow /\ Questioning!Rows = 1..MaxItems /\ Questioning!Places = 0..MaxPlace
BY AddressConstants DEF EntryRow, Questioning!Rows, Questioning!Places

LEMMA RowIs ==
  ASSUME NEW x \in EntryRow
  PROVE  /\ x # Absent /\ DOMAIN x = EntryFields /\ x = [f \in EntryFields |-> x[f]]
         /\ x.kind \in {"question", "option", "link"} /\ x.place \in 0..MaxPlace
         /\ x.kind = "question" => x \in Questioning!Question
         /\ x.kind = "option" => x \in Questioning!Option
         /\ x.kind = "link" => x \in Questioning!Link
<1>1. x # Absent /\ MaxPlace \in Nat
  BY EntryFacts
<1>2. CASE x \in Questioning!Question
  BY <1>1, <1>2, EntryFacts DEF Questioning!Question, EntryFields
<1>3. CASE x \in Questioning!Option
  BY <1>1, <1>3, EntryFacts DEF Questioning!Option, EntryFields
<1>4. CASE x \in Questioning!Link
  BY <1>1, <1>4, EntryFacts DEF Questioning!Link, EntryFields
<1> QED BY <1>2, <1>3, <1>4 DEF EntryRow, Questioning!Row

\* A row with the columns F of another and its own beside them, where it has the same there.
LEMMA Overlaid ==
  ASSUME NEW x \in EntryRow, NEW y, NEW F, \A f \in EntryFields \ F : x[f] = y[f]
  PROVE  [f \in DOMAIN x |-> IF f \in F THEN x[f] ELSE y[f]] = x
<1>1. DOMAIN x = EntryFields /\ x = [f \in EntryFields |-> x[f]]
  BY RowIs
<1>2. [f \in DOMAIN x |-> IF f \in F THEN x[f] ELSE y[f]] = [f \in EntryFields |-> x[f]]
  BY <1>1
<1> QED BY <1>1, <1>2

\* A manager is not alone any more.
Apart(t) == IF t.op \in {"place", "insert"} THEN [t EXCEPT !.alone = FALSE] ELSE t

LEMMA ApartIs ==
  ASSUME NEW t, NEW n, ManagerTyped(t, n)
  PROVE  /\ ManagerTyped(Apart(t), n) /\ \A T : LinkerWell(Apart(t), T)
         /\ \A r : InHand(r, Apart(t)) <=> InHand(r, t)
         /\ \A T, R : SaverWell(t, T, R) => SaverWell(Apart(t), T, R)
<1>1. CASE t.op \in {"place", "insert"}
  <2>1. t \in Questioning!Adding
    BY <1>1 DEF ManagerTyped
  <2>2. Apart(t) \in Questioning!Adding /\ Apart(t).op = t.op /\ ~Apart(t).alone
    BY <1>1, <2>1 DEF Apart, Questioning!Adding
  <2> QED BY <1>1, <2>2 DEF ManagerTyped, SaverTyped, LinkerWell, InHand, SaverWell
<1>2. CASE t.op \notin {"place", "insert"}
  <2>1. Apart(t) = t
    BY <1>2 DEF Apart
  <2> QED BY <1>2, <2>1 DEF LinkerWell
<1> QED BY <1>1, <1>2

LEMMA IdleManager ==
  /\ Questioning!Idle.op = "idle"
  /\ \A n : ManagerTyped(Questioning!Idle, n)
  /\ \A T, R : SaverWell(Questioning!Idle, T, R) /\ LinkerWell(Questioning!Idle, T)
  /\ \A r : ~InHand(r, Questioning!Idle)
BY DEF Questioning!Idle, ManagerTyped, SaverTyped, SaverWell, LinkerWell, InHand

LEMMA ManagersAfter ==
  ASSUME NEW a, NEW t, NEW linkSaved, Questioning!Do(a, t, linkSaved)
  PROVE  /\ DOMAIN manager' = Clients
         /\ \A b \in Clients : manager'[b] = IF b = a THEN t
                               ELSE IF linkSaved THEN Apart(manager[b]) ELSE manager[b]
<1>1. \A b \in Clients :
        manager'[b] = CASE b = a -> t
                        [] b # a /\ linkSaved /\ manager[b].op \in {"place", "insert"} ->
                             [manager[b] EXCEPT !.alone = FALSE]
                        [] OTHER -> manager[b]
  BY DEF Questioning!Do
<1>2. DOMAIN manager' = Clients
  BY DEF Questioning!Do
<1>3. ASSUME NEW b \in Clients
      PROVE  manager'[b] = IF b = a THEN t
                           ELSE IF linkSaved THEN Apart(manager[b]) ELSE manager[b]
  <2>1. CASE b = a
    BY <1>1, <2>1
  <2>2. CASE b # a /\ linkSaved /\ manager[b].op \in {"place", "insert"}
    BY <1>1, <2>2 DEF Apart
  <2>3. CASE b # a /\ ~(linkSaved /\ manager[b].op \in {"place", "insert"})
    BY <1>1, <2>3 DEF Apart
  <2> QED BY <2>1, <2>2, <2>3
<1> QED BY <1>2, <1>3

LEMMA ManagerKnown ==
  ASSUME QuestionsInv, NEW a \in Clients
  PROVE  /\ ManagerTyped(manager[a], entries) /\ SaverWell(manager[a], entry, mingled)
         /\ LinkerWell(manager[a], entry) /\ DOMAIN manager = Clients
         /\ manager[a].op \in {"place", "insert"} => manager[a] \in Questioning!Adding
BY DEF QuestionsInv, QuestionsTyped, ManagerTyped

LEMMA EntryTable ==
  ASSUME QuestionsInv
  PROVE  /\ entries \in 0..MaxItems /\ entries \in Nat /\ appended \subseteq 1..entries
         /\ entry \in [Questioning!Rows -> EntryRow \cup {Absent}]
         /\ DOMAIN entered = Questioning!Rows
         /\ \A r \in Questioning!Rows : entry[r] # Absent => r <= entries
         /\ \A r \in Questioning!Rows \ mingled : entry[r] = entered[r] /\ OneSaver(r, manager)
         /\ LinksApart(entry, appended, mingled)
BY EntryFacts DEF QuestionsInv, QuestionsTyped

\* What the others have in hand.
LEMMA HeldIs ==
  ASSUME NEW a, NEW b \in Clients \ {a}, NEW r, InHand(r, manager[b])
  PROVE  r \in Questioning!Held(a)
<1>1. b \in {c \in Clients \ {a} : manager[c].op = "save"} /\ r \in DOMAIN manager[b].want
  BY DEF InHand
<1> QED BY <1>1 DEF Questioning!Held

\* A step of a that is about its request alone.
LEMMA ManagerGoesOn ==
  ASSUME QuestionsInv, NEW a \in Clients, NEW t, Questioning!Do(a, t, FALSE),
         UNCHANGED <<entry, entries, entered, appended>>, mingled \subseteq mingled',
         ManagerTyped(t, entries), SaverWell(t, entry, mingled'), LinkerWell(t, entry),
         \A b \in Clients \ {a}, r \in Questioning!Rows \ mingled' :
           InHand(r, t) => ~InHand(r, manager[b])
  PROVE  QuestionsInv'
<1>1. DOMAIN manager' = Clients /\ \A b \in Clients : manager'[b] = IF b = a THEN t ELSE manager[b]
  BY ManagersAfter
<1>2. QuestionsTyped'
  <2>1. \A b \in Clients : ManagerTyped(manager'[b], entries)
    BY <1>1, ManagerKnown
  <2> QED BY <1>1, <2>1 DEF QuestionsInv, QuestionsTyped
<1>3. ASSUME NEW b \in Clients
      PROVE  SaverWell(manager'[b], entry, mingled') /\ LinkerWell(manager'[b], entry)
  <2>1. CASE b = a
    BY <1>1, <2>1
  <2>2. CASE b # a
    <3>1. SaverWell(manager[b], entry, mingled) /\ LinkerWell(manager[b], entry)
      BY ManagerKnown
    <3>2. SaverWell(manager[b], entry, mingled')
      BY <3>1 DEF SaverWell
    <3> QED BY <1>1, <2>2, <3>1, <3>2
  <2> QED BY <2>1, <2>2
<1>4. ASSUME NEW r \in Questioning!Rows \ mingled'
      PROVE  entry[r] = entered[r] /\ OneSaver(r, manager')
  <2>1. entry[r] = entered[r] /\ OneSaver(r, manager)
    BY EntryTable
  <2>2. \A b \in Clients : InHand(r, manager'[b]) =>
          IF b = a THEN InHand(r, t) ELSE InHand(r, manager[b])
    <3> TAKE b \in Clients
    <3>1. manager'[b] = IF b = a THEN t ELSE manager[b]
      BY <1>1
    <3>2. CASE b = a
      BY <3>1, <3>2 DEF InHand
    <3>3. CASE b # a
      BY <3>1, <3>3 DEF InHand
    <3> QED BY <3>2, <3>3
  <2>3. \A b \in Clients \ {a} : InHand(r, t) => ~InHand(r, manager[b])
    OBVIOUS
  <2>4. OneSaver(r, manager')
    BY <2>1, <2>2, <2>3 DEF OneSaver
  <2> QED BY <2>1, <2>4
<1>5. LinksApart(entry, appended, mingled')
  BY EntryTable DEF LinksApart
<1> QED BY <1>2, <1>3, <1>4, <1>5 DEF QuestionsInv

-----------------------------------------------------------------------------
(* Questions: the steps *)

LEMMA QuestionsBegin == Questioning!Init => QuestionsInv
<1> SUFFICES ASSUME Questioning!Init PROVE QuestionsInv
  OBVIOUS
<1> DEFINE f == CHOOSE f \in Forms : TRUE
           first == [kind |-> "question", of |-> f, place |-> 0, mark |-> FALSE]
           third == [kind |-> "link", of |-> 1, place |-> 1, mark |-> FALSE]
<1>1. /\ entry = [r \in Questioning!Rows |->
           CASE r \in 1..2 -> first [] r = 3 -> third [] OTHER -> Absent]
      /\ entries = 3 /\ manager = [a \in Clients |-> Questioning!Idle]
      /\ entered = entry /\ appended = {} /\ mingled = {}
  BY DEF Questioning!Init, Questioning!Own
<1>2. f \in Forms
  BY AddressConstants
<1>3. first \in EntryRow /\ third \in EntryRow /\ first.kind = "question" /\ third.kind = "link"
  <2> HIDE DEF f
  <2>1. first \in Questioning!Question
    BY <1>2 DEF Questioning!Question
  <2>2. third \in Questioning!Link
    BY EntryFacts DEF Questioning!Link
  <2> QED BY <2>1, <2>2 DEF EntryRow, Questioning!Row
<1> HIDE DEF first, third
<1>4. \A r \in Questioning!Rows :
        entry[r] = IF r \in 1..2 THEN first ELSE IF r = 3 THEN third ELSE Absent
  BY <1>1
<1>5. DOMAIN entry = Questioning!Rows
  BY <1>1
<1>6. entry \in [Questioning!Rows -> EntryRow \cup {Absent}]
  <2>1. entry = [r \in Questioning!Rows |-> entry[r]]
    BY <1>1
  <2> QED BY <1>3, <1>4, <2>1
<1>7. \A r \in Questioning!Rows : entry[r] # Absent => r <= 3
  BY <1>4, EntryFacts
<1>8. \A a \in Clients : manager[a] = Questioning!Idle
  BY <1>1
<1>9. QuestionsTyped
  BY <1>1, <1>5, <1>6, <1>7, <1>8, EntryFacts, IdleManager DEF QuestionsTyped
<1>10. \A a \in Clients : SaverWell(manager[a], entry, mingled) /\ LinkerWell(manager[a], entry)
  BY <1>8, IdleManager
<1>11. \A r \in Questioning!Rows : entry[r] = entered[r] /\ OneSaver(r, manager)
  BY <1>1, <1>8, IdleManager DEF OneSaver
<1>12. \A r \in Questioning!Rows : IsLink(r, entry) => r = 3
  BY <1>3, <1>4 DEF IsLink
<1>13. LinksApart(entry, appended, mingled)
  BY <1>12 DEF LinksApart
<1> QED BY <1>9, <1>10, <1>11, <1>13 DEF QuestionsInv

\* The row a statement inserts.
LEMMA InsertedRow ==
  ASSUME QuestionsInv, NEW new \in EntryRow, Questioning!Insert(new)
  PROVE  /\ entries + 1 \in Questioning!Rows /\ entries' = entries + 1 /\ entries' \in 0..MaxItems
         /\ entries' \in Nat /\ entries < entries'
         /\ entry' \in [Questioning!Rows -> EntryRow \cup {Absent}]
         /\ DOMAIN entered' = Questioning!Rows
         /\ entry[entries'] = Absent /\ entry'[entries'] = new /\ entered'[entries'] = new
         /\ \A r \in Questioning!Rows \ {entries'} :
              entry'[r] = entry[r] /\ entered'[r] = entered[r]
         /\ \A r \in Questioning!Rows : entry'[r] # Absent => r <= entries'
<1> DEFINE e == entries + 1
<1>1. /\ entries < MaxItems /\ entries' = e /\ entry' = [entry EXCEPT ![e] = new]
      /\ entered' = [entered EXCEPT ![e] = new]
  BY DEF Questioning!Insert
<1>2. /\ entries \in Nat /\ entry \in [Questioning!Rows -> EntryRow \cup {Absent}]
      /\ DOMAIN entered = Questioning!Rows
      /\ \A r \in Questioning!Rows : entry[r] # Absent => r <= entries
  BY EntryTable
<1>3. e \in Questioning!Rows /\ e \in Nat /\ e \in 0..MaxItems /\ entries < e
  BY <1>1, <1>2, EntryFacts
<1>4. entry[e] = Absent
  BY <1>2, <1>3
<1>5. \A r \in Questioning!Rows : entry[r] # Absent => r <= e
  BY <1>2, <1>3, EntryFacts
<1> HIDE DEF e
<1> QED BY <1>1, <1>2, <1>3, <1>4, <1>5 DEF e

LEMMA TypedLater ==
  ASSUME NEW t, NEW m \in Nat, NEW n \in Nat, m <= n, ManagerTyped(t, m)
  PROVE  ManagerTyped(t, n)
<1>1. 1..m \subseteq 1..n
  OBVIOUS
<1> QED BY <1>1 DEF ManagerTyped, SaverTyped

\* A question or an option made.
LEMMA EntryMade ==
  ASSUME QuestionsInv, NEW new \in EntryRow, new.kind # "link", Questioning!Insert(new),
         UNCHANGED <<manager, appended, mingled>>
  PROVE  QuestionsInv'
<1>1. /\ entries' \in Nat /\ entries < entries' /\ entries' \in 0..MaxItems
      /\ entry' \in [Questioning!Rows -> EntryRow \cup {Absent}]
      /\ DOMAIN entered' = Questioning!Rows
      /\ entry'[entries'] = new /\ entered'[entries'] = new
      /\ \A r \in Questioning!Rows \ {entries'} : entry'[r] = entry[r] /\ entered'[r] = entered[r]
      /\ \A r \in Questioning!Rows : entry'[r] # Absent => r <= entries'
  BY InsertedRow
<1>2. entries \in Nat /\ entries <= entries' /\ 1..entries \subseteq 1..entries'
  BY <1>1, EntryTable
<1>3. QuestionsTyped'
  <2>1. \A b \in Clients : ManagerTyped(manager[b], entries')
    BY <1>1, <1>2, ManagerKnown, TypedLater
  <2>2. appended \subseteq 1..entries'
    BY <1>2, EntryTable
  <2> QED BY <1>1, <2>1, <2>2 DEF QuestionsInv, QuestionsTyped
<1>4. \A l \in Questioning!Rows : IsLink(l, entry') => l # entries' /\ IsLink(l, entry) /\ entry'[l] = entry[l]
  BY <1>1 DEF IsLink
<1>5. ASSUME NEW b \in Clients
      PROVE  SaverWell(manager[b], entry', mingled) /\ LinkerWell(manager[b], entry')
  <2>1. SaverWell(manager[b], entry, mingled) /\ LinkerWell(manager[b], entry)
        /\ SaverTyped(manager[b], entries)
    BY ManagerKnown DEF ManagerTyped
  <2>2. manager[b].op = "save" => \A r \in DOMAIN manager[b].want : entry'[r] = entry[r]
    <3> SUFFICES ASSUME manager[b].op = "save", NEW r \in DOMAIN manager[b].want
                 PROVE  entry'[r] = entry[r]
      OBVIOUS
    <3>1. r \in 1..entries
      BY <2>1 DEF SaverTyped
    <3>2. r \in Questioning!Rows /\ r # entries'
      BY <1>1, <3>1, EntryTable, EntryFacts
    <3> QED BY <1>1, <3>2
  <2>3. SaverWell(manager[b], entry', mingled)
    BY <2>1, <2>2 DEF SaverWell
  <2>4. LinkerWell(manager[b], entry')
    BY <1>4, <2>1 DEF LinkerWell
  <2> QED BY <2>3, <2>4
<1>6. \A r \in Questioning!Rows \ mingled : entry'[r] = entered'[r] /\ OneSaver(r, manager)
  BY <1>1, EntryTable
<1>7. LinksApart(entry', appended, mingled)
  BY <1>4, EntryTable DEF LinksApart
<1> QED BY <1>3, <1>5, <1>6, <1>7 DEF QuestionsInv

LEMMA CreateQuestionKeeps ==
  ASSUME QuestionsInv, NEW f \in Forms, Questioning!CreateQuestion(f)
  PROVE  QuestionsInv'
<1> DEFINE new == [kind |-> "question", of |-> f, place |-> 0, mark |-> FALSE]
<1>1. Questioning!Insert(new) /\ UNCHANGED <<manager, appended, mingled>>
  BY DEF Questioning!CreateQuestion
<1>2. new \in Questioning!Question /\ new.kind # "link"
  BY DEF Questioning!Question
<1> HIDE DEF new
<1> QED BY <1>1, <1>2, EntryMade DEF EntryRow, Questioning!Row

LEMMA CreateQuestionOptionKeeps ==
  ASSUME QuestionsInv, NEW q \in Questioning!Rows, NEW place \in Questioning!Places,
         Questioning!CreateQuestionOption(q, place)
  PROVE  QuestionsInv'
<1> DEFINE new == [kind |-> "option", of |-> q, place |-> place, mark |-> FALSE]
<1>1. Questioning!Insert(new) /\ UNCHANGED <<manager, appended, mingled>>
  BY DEF Questioning!CreateQuestionOption
<1>2. new \in Questioning!Option /\ new.kind # "link"
  BY DEF Questioning!Option
<1> HIDE DEF new
<1> QED BY <1>1, <1>2, EntryMade DEF EntryRow, Questioning!Row

\* The row a request has read, with the columns changed that it asks for.
LEMMA ChangedRow ==
  ASSUME NEW r, entry[r] \in EntryRow, NEW fields \in SUBSET Questioning!Fields,
         NEW place \in 0..MaxPlace, NEW mark \in BOOLEAN,
         entry[r].kind = "question" => "place" \notin fields
  PROVE  /\ Questioning!Changed(r, fields, place, mark) \in EntryRow
         /\ \A f \in EntryFields \ fields :
              Questioning!Changed(r, fields, place, mark)[f] = entry[r][f]
<1> DEFINE x == entry[r]
           pl == IF "place" \in fields THEN place ELSE x.place
           mk == IF "mark" \in fields THEN mark ELSE x.mark
           new == [x EXCEPT !.place = pl, !.mark = mk]
<1>1. Questioning!Changed(r, fields, place, mark) = new
  BY DEF Questioning!Changed
<1>2. x \in EntryRow /\ DOMAIN x = EntryFields /\ x.place \in 0..MaxPlace
  BY RowIs
<1>3. pl \in 0..MaxPlace /\ (x.kind = "question" => pl = x.place)
  BY <1>2
<1>4. mk \in BOOLEAN
  <2>1. x.mark \in BOOLEAN
    BY <1>2 DEF EntryRow, Questioning!Row, Questioning!Question, Questioning!Option, Questioning!Link
  <2> QED BY <2>1
<1>5. \A f \in EntryFields \ fields : new[f] = x[f]
  <2> TAKE f \in EntryFields \ fields
  <2>1. CASE f = "place"
    <3>1. pl = x.place
      BY <2>1
    <3> HIDE DEF pl, mk
    <3> QED BY <1>2, <2>1, <3>1 DEF EntryFields
  <2>2. CASE f = "mark"
    <3>1. mk = x["mark"]
      BY <2>2
    <3> HIDE DEF pl, mk, x
    <3> QED BY <1>2, <2>2, <3>1 DEF EntryFields
  <2>3. CASE f \notin {"place", "mark"}
    <3> HIDE DEF pl, mk
    <3> QED BY <1>2, <2>3 DEF EntryFields
  <2> QED BY <2>1, <2>2, <2>3
<1> HIDE DEF pl, mk
<1>6. new \in EntryRow
  <2> HIDE DEF x
  <2>1. CASE x.kind = "question"
    <3>1. x \in Questioning!Question /\ pl = x.place
      BY <1>2, <1>3, <2>1, RowIs
    <3> QED BY <1>4, <3>1 DEF EntryRow, Questioning!Row, Questioning!Question
  <2>2. CASE x.kind = "option"
    <3>1. x \in Questioning!Option
      BY <1>2, <2>2, RowIs
    <3> QED BY <1>3, <1>4, <3>1, EntryFacts DEF EntryRow, Questioning!Row, Questioning!Option
  <2>3. CASE x.kind = "link"
    <3>1. x \in Questioning!Link
      BY <1>2, <2>3, RowIs
    <3> QED BY <1>3, <1>4, <3>1, EntryFacts DEF EntryRow, Questioning!Row, Questioning!Link
  <2> QED BY <1>2, <2>1, <2>2, <2>3, RowIs
<1> QED BY <1>1, <1>5, <1>6

\* Rows are read to be changed.
LEMMA ReadKeeps ==
  ASSUME QuestionsInv, NEW a \in Clients, NEW want, NEW fields \in SUBSET Questioning!Fields,
         Questioning!Read(a, want, fields), DOMAIN want \subseteq Questioning!Rows,
         \A r \in DOMAIN want :
           /\ entry[r] # Absent /\ want[r] \in EntryRow
           /\ \A f \in EntryFields \ fields : want[r][f] = entry[r][f]
  PROVE  QuestionsInv'
<1> DEFINE t == [op |-> "save", want |-> want, fields |-> fields]
<1>1. /\ Questioning!Do(a, t, FALSE) /\ UNCHANGED <<entry, entries, entered, appended>>
      /\ mingled' = mingled \cup (DOMAIN want \cap Questioning!Held(a))
  BY DEF Questioning!Read
<1>2. t.op = "save" /\ t.want = want /\ t.fields = fields
  OBVIOUS
<1> HIDE DEF t
<1>3. ManagerTyped(t, entries)
  <2>1. DOMAIN want \subseteq 1..entries
    BY EntryTable, EntryFacts
  <2> QED BY <1>2, <2>1 DEF ManagerTyped, SaverTyped, Questioning!Fields
<1>4. SaverWell(t, entry, mingled') /\ LinkerWell(t, entry)
  BY <1>2 DEF SaverWell, LinkerWell
<1>5. \A b \in Clients \ {a}, r \in Questioning!Rows \ mingled' :
        InHand(r, t) => ~InHand(r, manager[b])
  <2> TAKE b \in Clients \ {a}, r \in Questioning!Rows \ mingled'
  <2>1. InHand(r, t) => r \in DOMAIN want
    BY <1>2 DEF InHand
  <2>2. InHand(r, manager[b]) => r \in Questioning!Held(a)
    BY HeldIs
  <2> QED BY <1>1, <2>1, <2>2
<1>6. mingled \subseteq mingled'
  BY <1>1
<1> QED BY <1>1, <1>3, <1>4, <1>5, <1>6, ManagerGoesOn

LEMMA ReadRowKeeps ==
  ASSUME QuestionsInv, NEW a \in Clients, NEW r \in Questioning!Rows, NEW fields \in SUBSET Questioning!Fields,
         NEW place \in 0..MaxPlace, NEW mark \in BOOLEAN, entry[r] # Absent,
         entry[r].kind = "question" => "place" \notin fields,
         Questioning!Read(a, [s \in {r} |-> Questioning!Changed(s, fields, place, mark)], fields)
  PROVE  QuestionsInv'
<1> DEFINE want == [s \in {r} |-> Questioning!Changed(s, fields, place, mark)]
<1>1. DOMAIN want = {r} /\ want[r] = Questioning!Changed(r, fields, place, mark)
  OBVIOUS
<1>2. entry[r] \in EntryRow
  BY EntryTable
<1>3. want[r] \in EntryRow /\ \A f \in EntryFields \ fields : want[r][f] = entry[r][f]
  BY <1>1, <1>2, ChangedRow
<1> HIDE DEF want
<1> QED BY <1>1, <1>3, ReadKeeps DEF want

LEMMA UpdateQuestionKeeps ==
  ASSUME QuestionsInv, NEW a \in Clients, NEW q \in Questioning!Rows, NEW mark \in BOOLEAN,
         Questioning!UpdateQuestion(a, q, mark)
  PROVE  QuestionsInv'
<1>1. /\ entry[q] # Absent
      /\ Questioning!Read(a, [s \in {q} |-> Questioning!Changed(s, {"mark"}, 0, mark)], {"mark"})
  BY DEF Questioning!UpdateQuestion, Questioning!Is, Questioning!Exists
<1>2. {"mark"} \in SUBSET Questioning!Fields /\ 0 \in 0..MaxPlace /\ "place" \notin {"mark"}
  BY EntryFacts DEF Questioning!Fields
<1> QED BY <1>1, <1>2, ReadRowKeeps

LEMMA UpdateOptionOrLinkKeeps ==
  ASSUME QuestionsInv, NEW a \in Clients, NEW r \in Questioning!Rows,
         NEW fields \in SUBSET Questioning!Fields, NEW place \in Questioning!Places,
         NEW mark \in BOOLEAN,
         \/ Questioning!UpdateQuestionOption(a, r, fields, place, mark)
         \/ Questioning!UpdateFormVersionQuestion(a, r, fields, place, mark)
  PROVE  QuestionsInv'
<1>1. /\ entry[r] # Absent /\ entry[r].kind # "question"
      /\ Questioning!Read(a, [s \in {r} |-> Questioning!Changed(s, fields, place, mark)], fields)
  BY DEF Questioning!UpdateQuestionOption, Questioning!UpdateFormVersionQuestion, Questioning!Is,
         Questioning!Exists
<1>2. place \in 0..MaxPlace
  BY EntryFacts
<1> QED BY <1>1, <1>2, ReadRowKeeps

LEMMA ReorderKeeps ==
  ASSUME QuestionsInv, NEW a \in Clients, NEW S \in SUBSET Questioning!Links,
         NEW place \in [S -> Questioning!Places], NEW fields \in SUBSET Questioning!Fields,
         NEW mark \in BOOLEAN,
         Questioning!ReorderFormVersionQuestions(a, place, fields, mark)
  PROVE  QuestionsInv'
<1> DEFINE want == [r \in DOMAIN place |-> Questioning!Changed(r, fields, place[r], mark)]
<1>1. Questioning!Read(a, want, fields) /\ DOMAIN place = S
  BY DEF Questioning!ReorderFormVersionQuestions
<1>2. \A r \in S : r \in Questioning!Rows /\ IsLink(r, entry)
  BY DEF Questioning!Links, Questioning!Is, Questioning!Exists, IsLink
<1>3. DOMAIN want = S /\ \A r \in S : want[r] = Questioning!Changed(r, fields, place[r], mark)
  BY <1>1
<1> HIDE DEF want
<1>4. ASSUME NEW r \in S
      PROVE  /\ entry[r] # Absent /\ want[r] \in EntryRow
             /\ \A f \in EntryFields \ fields : want[r][f] = entry[r][f]
  <2>1. /\ entry[r] \in EntryRow /\ entry[r] # Absent /\ entry[r].kind # "question"
        /\ place[r] \in 0..MaxPlace
    BY <1>2, EntryTable, EntryFacts DEF IsLink
  <2> QED BY <1>3, <2>1, ChangedRow
<1> QED BY <1>1, <1>2, <1>3, <1>4, ReadKeeps

\* What two rows say of links.
SameLink(x, y) == x.kind = y.kind /\ x.of = y.of

LEMMA SaveRowsKeeps ==
  ASSUME QuestionsInv, NEW a \in Clients, Questioning!SaveRows(a)
  PROVE  QuestionsInv'
<1> DEFINE u == manager[a]
           W == DOMAIN u.want
           done == Questioning!Orphans(u.want) = {}
           after(r) == IF entered[r] = Absent THEN u.want[r]
                       ELSE [f \in DOMAIN u.want[r] |->
                               IF f \in u.fields THEN u.want[r][f] ELSE entered[r][f]]
           linkSaved == done /\ \E r \in W : u.want[r].kind = "link"
<1>1. /\ u.op = "save"
      /\ entry' = [r \in Questioning!Rows |-> IF done /\ r \in W THEN u.want[r] ELSE entry[r]]
      /\ entered' = [r \in Questioning!Rows |-> IF done /\ r \in W THEN after(r) ELSE entered[r]]
      /\ appended' = IF done /\ "place" \in u.fields THEN appended \ W ELSE appended
      /\ Questioning!Do(a, Questioning!Idle, linkSaved)
      /\ entries' = entries /\ mingled' = mingled
  BY DEF Questioning!SaveRows
<1>2. /\ W \subseteq 1..entries /\ u.fields \subseteq {"place", "mark"}
      /\ \A r \in W : u.want[r] \in EntryRow
      /\ SaverWell(u, entry, mingled)
  BY <1>1, ManagerKnown DEF ManagerTyped, SaverTyped
<1>3. W \subseteq Questioning!Rows
  BY <1>2, EntryTable, EntryFacts
<1>4. \A r \in W \ mingled :
        /\ entry[r] # Absent /\ entered[r] = entry[r]
        /\ \A f \in EntryFields \ u.fields : u.want[r][f] = entry[r][f]
        /\ \A b \in Clients \ {a} : ~InHand(r, manager[b])
  <2> TAKE r \in W \ mingled
  <2>1. entered[r] = entry[r] /\ OneSaver(r, manager)
    BY <1>3, EntryTable
  <2>2. InHand(r, manager[a])
    BY <1>1 DEF InHand
  <2>3. \A b \in Clients \ {a} : ~InHand(r, manager[b])
    BY <2>1, <2>2 DEF OneSaver
  <2> QED BY <1>1, <1>2, <2>1, <2>3 DEF SaverWell
<1>5. \A r \in W \ mingled : after(r) = u.want[r]
  <2> TAKE r \in W \ mingled
  <2>1. u.want[r] \in EntryRow /\ entered[r] = entry[r] /\ entry[r] # Absent
        /\ \A f \in EntryFields \ u.fields : u.want[r][f] = entry[r][f]
    BY <1>2, <1>4
  <2>2. [f \in DOMAIN u.want[r] |-> IF f \in u.fields THEN u.want[r][f] ELSE entered[r][f]] = u.want[r]
    BY <2>1, Overlaid
  <2> QED BY <2>2
<1>6. \A r \in Questioning!Rows : entry'[r] = IF done /\ r \in W THEN u.want[r] ELSE entry[r]
  BY <1>1
<1>7. \A r \in Questioning!Rows :
        entered'[r] = IF done /\ r \in W THEN after(r) ELSE entered[r]
  BY <1>1
<1>8. linkSaved <=> done /\ \E r \in W : u.want[r].kind = "link"
  OBVIOUS
<1> HIDE DEF linkSaved
<1>9. DOMAIN manager' = Clients
      /\ \A b \in Clients : manager'[b] = IF b = a THEN Questioning!Idle
                            ELSE IF linkSaved THEN Apart(manager[b]) ELSE manager[b]
  BY <1>1, ManagersAfter
<1>10. DOMAIN entered' = Questioning!Rows /\ entry' \in [Questioning!Rows -> EntryRow \cup {Absent}]
  <2>1. \A r \in Questioning!Rows : entry'[r] \in EntryRow \cup {Absent}
    BY <1>2, <1>6, EntryTable
  <2>2. entry' = [r \in Questioning!Rows |-> entry'[r]]
    BY <1>1
  <2> QED BY <1>1, <2>1, <2>2
<1> HIDE DEF after, done
<1>11. QuestionsTyped'
  <2>1. \A b \in Clients : ManagerTyped(manager'[b], entries)
    BY <1>9, ManagerKnown, IdleManager, ApartIs
  <2>2. \A r \in Questioning!Rows : entry'[r] # Absent => r <= entries
    <3> TAKE r \in Questioning!Rows
    <3>1. CASE r \in W
      BY <1>2, <3>1, EntryTable
    <3>2. CASE r \notin W
      BY <1>6, <3>2, EntryTable
    <3> QED BY <3>1, <3>2
  <2>3. appended' \subseteq 1..entries
    BY <1>1, EntryTable
  <2> QED BY <1>1, <1>9, <1>10, <2>1, <2>2, <2>3, EntryTable DEF QuestionsTyped
<1>12. \A r \in Questioning!Rows \ mingled :
         \/ entry'[r] = entry[r] /\ ~(done /\ r \in W)
         \/ /\ done /\ r \in W /\ entry'[r] = u.want[r] /\ u.want[r] # Absent /\ entry[r] # Absent
            /\ SameLink(entry'[r], entry[r])
            /\ "place" \in u.fields \/ entry'[r].place = entry[r].place
  <2> SUFFICES ASSUME NEW r \in Questioning!Rows \ mingled, done, r \in W
               PROVE  /\ entry'[r] = u.want[r] /\ u.want[r] # Absent /\ entry[r] # Absent
                      /\ SameLink(entry'[r], entry[r])
                      /\ "place" \in u.fields \/ entry'[r].place = entry[r].place
    BY <1>6
  <2>1. entry'[r] = u.want[r] /\ u.want[r] \in EntryRow
    BY <1>2, <1>6
  <2>2. entry[r] # Absent /\ \A f \in EntryFields \ u.fields : u.want[r][f] = entry[r][f]
    BY <1>4
  <2>3. /\ "kind" \in EntryFields \ u.fields /\ "of" \in EntryFields \ u.fields
        /\ "place" \in EntryFields
    BY <1>2 DEF EntryFields
  <2>4. u.want[r]["kind"] = entry[r]["kind"] /\ u.want[r]["of"] = entry[r]["of"]
    BY <2>2, <2>3
  <2>5. "place" \in u.fields \/ u.want[r]["place"] = entry[r]["place"]
    BY <2>2, <2>3
  <2> QED BY <2>1, <2>2, <2>4, <2>5, EntryFacts DEF SameLink
<1>13. ASSUME NEW b \in Clients
       PROVE  SaverWell(manager'[b], entry', mingled) /\ LinkerWell(manager'[b], entry')
  <2>1. CASE b = a
    BY <1>9, <2>1, IdleManager
  <2>2. CASE b # a
    <3> DEFINE t == manager[b]
    <3>1. /\ SaverWell(t, entry, mingled) /\ LinkerWell(t, entry) /\ ManagerTyped(t, entries)
          /\ manager'[b] = IF linkSaved THEN Apart(t) ELSE t
      BY <1>9, <2>2, ManagerKnown
    <3>2. SaverWell(t, entry', mingled)
      <4> SUFFICES ASSUME t.op = "save", NEW r \in DOMAIN t.want \ mingled
                   PROVE  entry'[r] # Absent /\ \A f \in EntryFields \ t.fields : t.want[r][f] = entry'[r][f]
        BY DEF SaverWell
      <4>1. InHand(r, manager[b]) /\ r \in 1..entries
        BY <3>1 DEF InHand, ManagerTyped, SaverTyped
      <4>2. r \notin W
        BY <1>4, <2>2, <4>1
      <4>3. entry'[r] = entry[r]
        BY <1>6, <4>1, <4>2, EntryTable, EntryFacts
      <4> QED BY <3>1, <4>3 DEF SaverWell
    <3>3. CASE linkSaved
      <4>1. manager'[b] = Apart(t)
        BY <3>1, <3>3
      <4> QED BY <3>1, <3>2, <4>1, ApartIs
    <3>4. CASE ~linkSaved
      <4>1. manager'[b] = t
        BY <3>1, <3>4
      <4>2. \A l \in Questioning!Rows : IsLink(l, entry') => IsLink(l, entry) /\ entry'[l] = entry[l]
        BY <1>6, <1>8, <3>4 DEF IsLink
      <4>3. LinkerWell(t, entry')
        BY <3>1, <4>2 DEF LinkerWell
      <4> QED BY <3>2, <4>1, <4>3
    <3> QED BY <3>3, <3>4
  <2> QED BY <2>1, <2>2
<1>14. ASSUME NEW r \in Questioning!Rows \ mingled
       PROVE  entry'[r] = entered'[r] /\ OneSaver(r, manager')
  <2>1. entry[r] = entered[r] /\ OneSaver(r, manager)
    BY EntryTable
  <2>2. entry'[r] = entered'[r]
    BY <1>5, <1>6, <1>7, <2>1
  <2>3. \A b \in Clients : InHand(r, manager'[b]) => InHand(r, manager[b])
    <3> TAKE b \in Clients
    <3>1. \/ manager'[b] = Questioning!Idle \/ manager'[b] = Apart(manager[b])
          \/ manager'[b] = manager[b]
      BY <1>9
    <3>2. ManagerTyped(manager[b], entries)
      BY ManagerKnown
    <3>3. InHand(r, Apart(manager[b])) <=> InHand(r, manager[b])
      BY <3>2, ApartIs
    <3>4. ~InHand(r, Questioning!Idle)
      BY IdleManager
    <3> QED BY <3>1, <3>3, <3>4 DEF InHand
  <2>4. OneSaver(r, manager')
    BY <2>1, <2>3 DEF OneSaver
  <2> QED BY <2>2, <2>4
<1>15. LinksApart(entry', appended', mingled)
  <2> SUFFICES ASSUME NEW l \in Questioning!Rows \ mingled, NEW m \in Questioning!Rows \ mingled,
                      IsLink(l, entry'), IsLink(m, entry'), l # m
               PROVE  /\ entry'[l].of # entry'[m].of
                      /\ l \in appended' /\ m \in appended' => entry'[l].place # entry'[m].place
    BY DEF LinksApart
  <2>1. \A r \in Questioning!Rows \ mingled : IsLink(r, entry') =>
          /\ IsLink(r, entry) /\ entry'[r].of = entry[r].of
          /\ r \in appended' => r \in appended /\ entry'[r].place = entry[r].place
    <3> SUFFICES ASSUME NEW r \in Questioning!Rows \ mingled, IsLink(r, entry')
                 PROVE  /\ IsLink(r, entry) /\ entry'[r].of = entry[r].of
                        /\ r \in appended' => r \in appended /\ entry'[r].place = entry[r].place
      OBVIOUS
    <3>1. CASE entry'[r] = entry[r] /\ ~(done /\ r \in W)
      BY <1>1, <3>1 DEF IsLink
    <3>2. CASE /\ done /\ r \in W /\ entry[r] # Absent /\ SameLink(entry'[r], entry[r])
               /\ "place" \in u.fields \/ entry'[r].place = entry[r].place
      BY <1>1, <3>2 DEF IsLink, SameLink
    <3> QED BY <1>12, <3>1, <3>2
  <2>2. LinksApart(entry, appended, mingled)
    BY EntryTable
  <2> QED BY <2>1, <2>2 DEF LinksApart
<1> QED BY <1>1, <1>11, <1>13, <1>14, <1>15 DEF QuestionsInv

LEMMA RemoveRowKeeps ==
  ASSUME QuestionsInv, NEW a \in Clients, manager[a] = Questioning!Idle, NEW r \in Questioning!Rows,
         Questioning!RemoveRow(a, r)
  PROVE  QuestionsInv'
<1> DEFINE gone == {r} \cup {s \in Questioning!Rows : Questioning!Under(s, r)}
<1>1. /\ entry' = [s \in Questioning!Rows |-> IF s \in gone THEN Absent ELSE entry[s]]
      /\ entered' = [s \in Questioning!Rows |-> IF s \in gone THEN Absent ELSE entered[s]]
      /\ appended' = appended \ gone
      /\ mingled' = mingled \cup (gone \cap Questioning!Held(a))
      /\ UNCHANGED <<entries, manager>>
  BY DEF Questioning!RemoveRow
<1> HIDE DEF gone
<1>2. \A s \in Questioning!Rows : /\ entry'[s] = IF s \in gone THEN Absent ELSE entry[s]
                                  /\ entered'[s] = IF s \in gone THEN Absent ELSE entered[s]
  BY <1>1
<1>3. QuestionsTyped'
  <2>1. DOMAIN entered' = Questioning!Rows /\ entry' \in [Questioning!Rows -> EntryRow \cup {Absent}]
    BY <1>1, EntryTable
  <2>2. \A s \in Questioning!Rows : entry'[s] # Absent => s <= entries
    BY <1>2, EntryTable
  <2> QED BY <1>1, <2>1, <2>2 DEF QuestionsInv, QuestionsTyped
<1>4. \A l \in Questioning!Rows : IsLink(l, entry') => IsLink(l, entry) /\ entry'[l] = entry[l]
  BY <1>2 DEF IsLink
<1>5. ASSUME NEW b \in Clients
      PROVE  SaverWell(manager[b], entry', mingled') /\ LinkerWell(manager[b], entry')
  <2>1. /\ SaverWell(manager[b], entry, mingled) /\ LinkerWell(manager[b], entry)
        /\ ManagerTyped(manager[b], entries)
    BY ManagerKnown
  <2>2. LinkerWell(manager[b], entry')
    BY <1>4, <2>1 DEF LinkerWell
  <2>3. SaverWell(manager[b], entry', mingled')
    <3> SUFFICES ASSUME manager[b].op = "save", NEW s \in DOMAIN manager[b].want \ mingled'
                 PROVE  entry'[s] # Absent
                        /\ \A f \in EntryFields \ manager[b].fields :
                             manager[b].want[s][f] = entry'[s][f]
      BY DEF SaverWell
    <3>1. b # a /\ InHand(s, manager[b]) /\ s \in 1..entries
      BY <2>1, IdleManager DEF InHand, ManagerTyped, SaverTyped
    <3>2. s \in Questioning!Held(a) /\ s \in Questioning!Rows
      BY <3>1, HeldIs, EntryTable, EntryFacts
    <3>3. s \notin gone /\ s \notin mingled
      BY <1>1, <3>2
    <3>4. entry'[s] = entry[s]
      BY <1>2, <3>2, <3>3
    <3> QED BY <2>1, <3>3, <3>4 DEF SaverWell
  <2> QED BY <2>2, <2>3
<1>6. \A s \in Questioning!Rows \ mingled' : entry'[s] = entered'[s] /\ OneSaver(s, manager)
  BY <1>1, <1>2, EntryTable
<1>7. LinksApart(entry', appended', mingled')
  BY <1>1, <1>4, EntryTable DEF LinksApart
<1> QED BY <1>1, <1>3, <1>5, <1>6, <1>7 DEF QuestionsInv

-----------------------------------------------------------------------------
(* Questions: links added, and what the steps add up to *)

LEMMA AddFormVersionQuestionKeeps ==
  ASSUME QuestionsInv, NEW a \in Clients, NEW q \in Questioning!Rows,
         NEW place \in Questioning!Places, NEW mark \in BOOLEAN, NEW last \in BOOLEAN,
         Questioning!AddFormVersionQuestion(a, q, place, mark, last)
  PROVE  QuestionsInv'
<1> DEFINE new == [kind |-> "link", of |-> q, place |-> place, mark |-> mark]
           t == [op |-> IF last THEN "place" ELSE "insert", alone |-> TRUE, last |-> last,
                 want |-> new]
<1>1. /\ Questioning!Do(a, t, FALSE) /\ UNCHANGED <<entry, entries, entered, appended, mingled>>
      /\ ~Questioning!Linked(q)
  BY DEF Questioning!AddFormVersionQuestion
<1>2. new \in Questioning!Link /\ new.of = q
  BY DEF Questioning!Link
<1>3. t \in Questioning!Adding /\ t.want = new /\ t.op \in {"place", "insert"}
      /\ (t.op = "insert" => ~t.last)
  <2> HIDE DEF new
  <2> QED BY <1>2 DEF Questioning!Adding
<1> HIDE DEF t, new
<1>4. \A l \in Questioning!Rows : IsLink(l, entry) => entry[l].of # q
  BY <1>1 DEF Questioning!Linked, Questioning!Links, Questioning!Is, Questioning!Exists, IsLink
<1>5. LinkerWell(t, entry)
  BY <1>2, <1>3, <1>4 DEF LinkerWell
<1>6. ManagerTyped(t, entries) /\ SaverWell(t, entry, mingled') /\ \A r : ~InHand(r, t)
  BY <1>3 DEF ManagerTyped, SaverTyped, SaverWell, InHand
<1>7. mingled \subseteq mingled'
  BY <1>1
<1> QED BY <1>1, <1>5, <1>6, <1>7, ManagerGoesOn

LEMMA NextPlaceIsAfter ==
  ASSUME QuestionsInv, Questioning!NextFormVersionQuestionOrder <= MaxPlace
  PROVE  /\ Questioning!NextFormVersionQuestionOrder \in 0..MaxPlace
         /\ \A l \in Questioning!Rows : IsLink(l, entry) =>
              entry[l].place < Questioning!NextFormVersionQuestionOrder
<1> DEFINE P == {entry[l].place : l \in Questioning!Links} \cup {0}
           top == Questioning!Max(P)
<1>1. MaxPlace \in Nat
  BY EntryFacts
<1>2. \A l \in Questioning!Links : l \in Questioning!Rows /\ IsLink(l, entry)
  BY DEF Questioning!Links, Questioning!Is, Questioning!Exists, IsLink
<1>3. \A l \in Questioning!Links : entry[l].place \in 0..MaxPlace
  BY <1>2, EntryTable, RowIs DEF IsLink
<1>4. P \in SUBSET (0..MaxPlace) /\ P # {}
  BY <1>1, <1>3
<1>5. PICK m \in P : \A y \in P : y <= m
  <2>1. \A y \in P : y + 1 \in 1..(MaxPlace + 1)
    BY <1>1, <1>4
  <2>2. {y + 1 : y \in P} \in SUBSET (1..(MaxPlace + 1)) /\ {y + 1 : y \in P} # {}
    BY <1>4, <2>1
  <2>3. MaxPlace + 1 \in Nat
    BY <1>1
  <2>4. PICK n \in {y + 1 : y \in P} : \A z \in {y + 1 : y \in P} : z <= n
    BY <2>2, <2>3, GreatestExists
  <2>5. PICK m \in P : n = m + 1
    BY <2>4
  <2>6. \A y \in P : y <= m
    <3> TAKE y \in P
    <3>1. y + 1 <= m + 1 /\ y \in Int /\ m \in Int
      BY <1>1, <1>4, <2>4, <2>5
    <3> QED BY <3>1
  <2> QED BY <2>6
<1>6. \A y \in P : y \in 0..MaxPlace /\ m >= y
  BY <1>1, <1>4, <1>5
<1>7. \A l \in Questioning!Links : entry[l].place \in P
  OBVIOUS
<1>8. \A l \in Questioning!Rows : IsLink(l, entry) => l \in Questioning!Links
  BY DEF Questioning!Links, Questioning!Is, Questioning!Exists, IsLink
<1>9. Questioning!NextFormVersionQuestionOrder = top + 1
  BY DEF Questioning!NextFormVersionQuestionOrder
<1> HIDE DEF P
<1>10. top \in P /\ \A y \in P : top >= y
  BY <1>5, <1>6 DEF Questioning!Max
<1> HIDE DEF top
<1>11. top \in 0..MaxPlace
  BY <1>6, <1>10
<1>12. \A y \in P : y < top + 1
  BY <1>1, <1>6, <1>10, <1>11
<1> QED BY <1>1, <1>7, <1>8, <1>9, <1>11, <1>12

LEMMA FindPlaceKeeps ==
  ASSUME QuestionsInv, NEW a \in Clients, Questioning!FindPlace(a)
  PROVE  QuestionsInv'
<1> DEFINE u == manager[a]
           n == Questioning!NextFormVersionQuestionOrder
           t == [u EXCEPT !.op = "insert", !.want.place = n]
<1>1. /\ u.op = "place" /\ n <= MaxPlace /\ Questioning!Do(a, t, FALSE)
      /\ UNCHANGED <<entry, entries, entered, appended, mingled>>
  BY DEF Questioning!FindPlace
<1>2. n \in 0..MaxPlace /\ \A l \in Questioning!Rows : IsLink(l, entry) => entry[l].place < n
  BY <1>1, NextPlaceIsAfter
<1>3. u \in Questioning!Adding /\ LinkerWell(u, entry)
  BY <1>1, ManagerKnown
<1> HIDE DEF n, u
<1>4. u.want \in Questioning!Link
  BY <1>3 DEF Questioning!Adding
<1>5. [u.want EXCEPT !.place = n] \in Questioning!Link /\ [u.want EXCEPT !.place = n].of = u.want.of
      /\ [u.want EXCEPT !.place = n].place = n
  BY <1>2, <1>4, EntryFacts DEF Questioning!Link
<1>6. /\ t \in Questioning!Adding /\ t.op = "insert" /\ t.alone = u.alone
      /\ t.want = [u.want EXCEPT !.place = n]
  BY <1>3, <1>5 DEF Questioning!Adding
<1> HIDE DEF t
<1>7. LinkerWell(t, entry)
  BY <1>1, <1>2, <1>3, <1>5, <1>6 DEF LinkerWell
<1>8. ManagerTyped(t, entries) /\ SaverWell(t, entry, mingled') /\ \A r : ~InHand(r, t)
  BY <1>6 DEF ManagerTyped, SaverTyped, SaverWell, InHand
<1>9. mingled \subseteq mingled'
  BY <1>1
<1> QED BY <1>1, <1>7, <1>8, <1>9, ManagerGoesOn

LEMMA InsertLinkKeeps ==
  ASSUME QuestionsInv, NEW a \in Clients, Questioning!InsertLink(a)
  PROVE  QuestionsInv'
<1> DEFINE u == manager[a]
           e == entries + 1
<1>1. u.op = "insert"
  BY DEF Questioning!InsertLink
<1>2. u \in Questioning!Adding /\ LinkerWell(u, entry)
  BY <1>1, ManagerKnown
<1>3. u.want \in EntryRow /\ u.want.kind = "link"
  BY <1>2 DEF Questioning!Adding, Questioning!Link, EntryRow, Questioning!Row
<1>4. CASE ~Questioning!Exists(u.want.of)
  <2>1. /\ Questioning!Do(a, Questioning!Idle, FALSE)
        /\ UNCHANGED <<entry, entries, entered, appended, mingled>>
    BY <1>4 DEF Questioning!InsertLink
  <2>2. mingled \subseteq mingled'
    BY <2>1
  <2> QED BY <2>1, <2>2, IdleManager, ManagerGoesOn
<1>5. CASE Questioning!Exists(u.want.of)
  <2>1. /\ Questioning!Insert(u.want)
        /\ appended' = IF u.last THEN appended \cup {e} ELSE appended
        /\ mingled' = IF u.alone THEN mingled ELSE mingled \cup {e}
        /\ Questioning!Do(a, Questioning!Idle, TRUE)
    BY <1>5 DEF Questioning!InsertLink
  <2>2. /\ entries' = e /\ e \in Nat /\ entries < e /\ entries' \in 0..MaxItems
        /\ e \in Questioning!Rows
        /\ entry' \in [Questioning!Rows -> EntryRow \cup {Absent}]
        /\ DOMAIN entered' = Questioning!Rows
        /\ entry'[e] = u.want /\ entered'[e] = u.want
        /\ \A r \in Questioning!Rows \ {e} : entry'[r] = entry[r] /\ entered'[r] = entered[r]
        /\ \A r \in Questioning!Rows : entry'[r] # Absent => r <= e
    BY <1>3, <2>1, InsertedRow
  <2>3. entries \in Nat /\ entries <= e /\ 1..entries \subseteq 1..e /\ e \notin 1..entries /\ e \in 1..e
    <3>1. entries \in Nat
      BY EntryTable
    <3> QED BY <2>2, <3>1, EntryFacts
  <2>4. DOMAIN manager' = Clients
        /\ \A b \in Clients : manager'[b] = IF b = a THEN Questioning!Idle ELSE Apart(manager[b])
    BY <2>1, ManagersAfter
  <2>5. e \notin appended
    BY <2>3, EntryTable
  <2> HIDE DEF e, u
  <2>6. QuestionsTyped'
    <3>1. \A b \in Clients : ManagerTyped(manager'[b], e)
      BY <2>2, <2>3, <2>4, ManagerKnown, TypedLater, ApartIs, IdleManager
    <3>2. appended' \subseteq 1..e
      BY <2>1, <2>3, EntryTable
    <3> QED BY <2>2, <2>4, <3>1, <3>2 DEF QuestionsTyped
  <2>7. ASSUME NEW b \in Clients
        PROVE  SaverWell(manager'[b], entry', mingled') /\ LinkerWell(manager'[b], entry')
    <3>1. CASE b = a
      BY <2>4, <3>1, IdleManager
    <3>2. CASE b # a
      <4> DEFINE t == manager[b]
      <4>1. SaverWell(t, entry, mingled) /\ ManagerTyped(t, entries) /\ manager'[b] = Apart(t)
        BY <2>4, <3>2, ManagerKnown
      <4>2. SaverWell(t, entry', mingled')
        <5> SUFFICES ASSUME t.op = "save", NEW r \in DOMAIN t.want \ mingled'
                     PROVE  entry'[r] # Absent
                            /\ \A f \in EntryFields \ t.fields : t.want[r][f] = entry'[r][f]
          BY DEF SaverWell
        <5>1. r \in 1..entries /\ r \notin mingled
          BY <2>1, <4>1 DEF ManagerTyped, SaverTyped
        <5>2. r \in Questioning!Rows /\ r # e
          BY <2>3, <5>1, EntryTable, EntryFacts
        <5>3. entry'[r] = entry[r]
          BY <2>2, <5>2
        <5> QED BY <4>1, <5>1, <5>3 DEF SaverWell
      <4> QED BY <4>1, <4>2, ApartIs
    <3> QED BY <3>1, <3>2
  <2>8. ASSUME NEW r \in Questioning!Rows \ mingled'
        PROVE  entry'[r] = entered'[r] /\ OneSaver(r, manager')
    <3>1. r \notin mingled
      BY <2>1
    <3>2. entry[r] = entered[r] /\ OneSaver(r, manager)
      BY <3>1, EntryTable
    <3>3. entry'[r] = entered'[r]
      BY <2>2, <3>2
    <3>4. \A b \in Clients : InHand(r, manager'[b]) => InHand(r, manager[b])
      <4> TAKE b \in Clients
      <4>1. manager'[b] = Questioning!Idle \/ manager'[b] = Apart(manager[b])
        BY <2>4
      <4>2. ManagerTyped(manager[b], entries)
        BY ManagerKnown
      <4>3. InHand(r, Apart(manager[b])) <=> InHand(r, manager[b])
        BY <4>2, ApartIs
      <4>4. ~InHand(r, Questioning!Idle)
        BY IdleManager
      <4> QED BY <4>1, <4>3, <4>4 DEF InHand
    <3>5. OneSaver(r, manager')
      BY <3>2, <3>4 DEF OneSaver
    <3> QED BY <3>3, <3>5
  <2>9. LinksApart(entry', appended', mingled')
    <3>1. \A l \in Questioning!Rows \ {e} :
            (IsLink(l, entry') => IsLink(l, entry)) /\ entry'[l] = entry[l]
      BY <2>2 DEF IsLink
    <3>2. /\ \A r \in appended' : r # e => r \in appended
          /\ \A r \in Questioning!Rows \ mingled' : r \notin mingled
          /\ e \notin mingled' => u.alone
          /\ e \in appended' => u.last
      BY <2>1, <2>5
    <3>3. ASSUME NEW l \in Questioning!Rows \ {e}, IsLink(l, entry'), e \notin mingled'
          PROVE  /\ entry'[l].of # entry'[e].of
                 /\ e \in appended' => entry'[l].place # entry'[e].place
      <4>1. IsLink(l, entry) /\ entry'[l] = entry[l] /\ entry'[e] = u.want
        BY <2>2, <3>1, <3>3
      <4>2. entry[l].of # u.want.of
        BY <1>1, <1>2, <3>2, <3>3, <4>1 DEF LinkerWell
      <4>3. e \in appended' => entry[l].place < u.want.place
        BY <1>1, <1>2, <3>2, <3>3, <4>1 DEF LinkerWell
      <4>4. entry[l].place \in Int
        <5>1. entry[l] \in EntryRow
          BY <4>1, EntryTable DEF IsLink
        <5> QED BY <5>1, RowIs, EntryFacts
      <4>5. u.want.place \in Int
        BY <1>3, RowIs, EntryFacts
      <4> QED BY <4>1, <4>2, <4>3, <4>4, <4>5
    <3>4. LinksApart(entry, appended, mingled)
      BY EntryTable
    <3> SUFFICES ASSUME NEW l \in Questioning!Rows \ mingled', NEW m \in Questioning!Rows \ mingled',
                        IsLink(l, entry'), IsLink(m, entry'), l # m
                 PROVE  /\ entry'[l].of # entry'[m].of
                        /\ l \in appended' /\ m \in appended' => entry'[l].place # entry'[m].place
      BY DEF LinksApart
    <3>5. CASE l = e
      BY <3>3, <3>5
    <3>6. CASE m = e
      BY <3>3, <3>6
    <3>7. CASE l # e /\ m # e
      BY <3>1, <3>2, <3>4, <3>7 DEF LinksApart
    <3> QED BY <3>5, <3>6, <3>7
  <2> QED BY <2>6, <2>7, <2>8, <2>9 DEF QuestionsInv
<1> QED BY <1>4, <1>5

LEMMA QuestionsStep == QuestionsInv /\ Questioning!Next => QuestionsInv'
<1> SUFFICES ASSUME QuestionsInv, NEW a \in Clients,
                    \/ Questioning!Request(a) \/ Questioning!SaveRows(a)
                    \/ Questioning!FindPlace(a) \/ Questioning!InsertLink(a)
             PROVE  QuestionsInv'
  BY DEF Questioning!Next
<1>1. CASE Questioning!SaveRows(a)
  BY <1>1, SaveRowsKeeps
<1>2. CASE Questioning!FindPlace(a)
  BY <1>2, FindPlaceKeeps
<1>3. CASE Questioning!InsertLink(a)
  BY <1>3, InsertLinkKeeps
<1>4. CASE Questioning!Request(a)
  <2>1. /\ manager[a] = Questioning!Idle
        /\ \/ \E f \in Forms : Questioning!CreateQuestion(f)
           \/ \E q \in Questioning!Rows, place \in Questioning!Places :
                Questioning!CreateQuestionOption(q, place)
           \/ \E q \in Questioning!Rows, mark \in BOOLEAN : Questioning!UpdateQuestion(a, q, mark)
           \/ \E r \in Questioning!Rows, fields \in SUBSET Questioning!Fields,
                 place \in Questioning!Places, mark \in BOOLEAN :
                \/ Questioning!UpdateQuestionOption(a, r, fields, place, mark)
                \/ Questioning!UpdateFormVersionQuestion(a, r, fields, place, mark)
           \/ \E S \in SUBSET Questioning!Links, fields \in SUBSET Questioning!Fields,
                 mark \in BOOLEAN : \E place \in [S -> Questioning!Places] :
                Questioning!ReorderFormVersionQuestions(a, place, fields, mark)
           \/ \E r \in Questioning!Rows : Questioning!RemoveRow(a, r)
           \/ \E q \in Questioning!Rows, place \in Questioning!Places, mark, last \in BOOLEAN :
                Questioning!AddFormVersionQuestion(a, q, place, mark, last)
    BY <1>4 DEF Questioning!Request
  <2> QED BY <2>1, CreateQuestionKeeps, CreateQuestionOptionKeeps, UpdateQuestionKeeps,
             UpdateOptionOrLinkKeeps, ReorderKeeps, RemoveRowKeeps, AddFormVersionQuestionKeeps
<1> QED BY <1>1, <1>2, <1>3, <1>4

LEMMA QuestionsKept ==
  (part = "questions" => QuestionsInv) /\ [Next]_vars => (part' = "questions" => QuestionsInv')
<1> SUFFICES ASSUME part = "questions", QuestionsInv, [Next]_vars PROVE QuestionsInv'
  BY DEF Next, Step, vars
<1>1. CASE Questioning!Next
  BY <1>1, QuestionsStep
<1>2. CASE UNCHANGED questionVars
  BY <1>2 DEF questionVars, QuestionsInv, QuestionsTyped
<1> QED BY <1>1, <1>2 DEF Next, Step, vars

LEMMA QuestionsHold == QuestionsInv => Questioning!QuestionsAsAskedUnlessRaced
<1> SUFFICES ASSUME QuestionsInv PROVE Questioning!QuestionsAsAskedUnlessRaced
  OBVIOUS
<1>1. \A r \in Questioning!Rows \ mingled : entry[r] = entered[r]
  BY EntryTable
<1>2. \A l \in Questioning!Links : l \in Questioning!Rows /\ IsLink(l, entry)
  BY DEF Questioning!Links, Questioning!Is, Questioning!Exists, IsLink
<1>3. LinksApart(entry, appended, mingled)
  BY EntryTable
<1> QED BY <1>1, <1>2, <1>3 DEF Questioning!QuestionsAsAskedUnlessRaced, LinksApart

-----------------------------------------------------------------------------
(* The parts together *)

AddressInv ==
  /\ part = "voting" => VotingInv
  /\ part = "pages" => PagesInv
  /\ part = "questions" => QuestionsInv

\* Whatever the campaigns, pages and questions: unless two requests met, a vote is
\* stored with the voter who gave it, for a candidate of its campaign; a page's
\* version, season and launch go together, and the numbers given to what is created
\* are free; a version has each question once, where and as it was asked to be.
THEOREM ConsistentApart == Spec => []ConsistentUnlessRaced
<1>1. Init => AddressInv
  BY VotingBegins, PagesBegin, QuestionsBegin DEF Init, AddressInv
<1>2. AddressInv /\ [Next]_vars => AddressInv'
  BY VotingKept, PagesKept, QuestionsKept DEF AddressInv
<1>3. AddressInv => ConsistentUnlessRaced
  BY VotingHolds, PagesHold, QuestionsHold DEF AddressInv, ConsistentUnlessRaced
<1> QED BY <1>1, <1>2, <1>3, PTL DEF Spec

-----------------------------------------------------------------------------
(* The feed: types *)

\* The feed stays below its bounds.
FeedBounded ==
  /\ tick <= MaxTick
  /\ \A i \in Feed!Ids : capture[i].at <= MaxTick /\ given[i] <= MaxGiven
  /\ cursor.milli <= MaxTick \div PerMilli /\ cursor.id <= MaxCapture

LEMMA Quotients ==
  ASSUME NEW m \in Nat, NEW n \in Nat, m <= n, NEW d \in Nat \ {0}
  PROVE  m \div d \in Nat /\ m \div d <= n \div d
OBVIOUS

LEMMA FeedBoundedFirst == Feed!Init => FeedBounded
<1> SUFFICES ASSUME Feed!Init PROVE FeedBounded
  OBVIOUS
<1>1. 0 <= MaxTick /\ 0 <= MaxGiven /\ 0 <= MaxCapture
  BY ReaderConstants, AudienceBounds
<1>2. 0 <= MaxTick \div PerMilli
  BY ReaderConstants, Quotients
<1> QED BY <1>1, <1>2 DEF Feed!Init, FeedBounded, Feed!None, Feed!Beginning

LEMMA FeedStaysBounded == FeedInv /\ FeedBounded /\ Feed!Next => FeedBounded'
<1> SUFFICES ASSUME FeedInv, FeedBounded, Feed!Next PROVE FeedBounded'
  OBVIOUS
<1>1. CASE Feed!Tick
  BY <1>1, ReaderConstants DEF Feed!Tick, FeedBounded, FeedInv, FeedTyped
<1>2. ASSUME NEW i \in Feed!Ids, Feed!BeginCapture(i) PROVE FeedBounded'
  <2> DEFINE new == [at |-> tick, state |-> "open"]
  <2>1. capture' = [capture EXCEPT ![i] = new] /\ UNCHANGED <<tick, cursor, given, late>>
    BY <1>2 DEF Feed!BeginCapture
  <2>2. new.at <= MaxTick
    BY DEF FeedBounded
  <2> HIDE DEF new
  <2>3. \A j \in Feed!Ids : capture'[j].at <= MaxTick
    BY <2>1, <2>2 DEF FeedBounded, FeedInv, FeedTyped
  <2> QED BY <2>1, <2>3 DEF FeedBounded
<1>3. ASSUME NEW i \in Feed!Ids, Feed!CommitCapture(i) PROVE FeedBounded'
  <2>1. capture' = [capture EXCEPT ![i].state = "stored"] /\ UNCHANGED <<tick, cursor, given>>
    BY <1>3 DEF Feed!CommitCapture
  <2>2. \A j \in Feed!Ids : capture'[j].at <= MaxTick
    BY <2>1 DEF FeedBounded, FeedInv, FeedTyped
  <2> QED BY <2>1, <2>2 DEF FeedBounded
<1>4. ASSUME NEW limit \in 1..MaxLimit, Feed!ListCapturesForSync(limit) PROVE FeedBounded'
  <2> DEFINE S == Feed!PageRows(limit)
             last == Feed!LastRow(limit)
  <2>1. /\ \A i \in S : given[i] < MaxGiven
        /\ given' = [i \in Feed!Ids |-> IF i \in S THEN given[i] + 1 ELSE given[i]]
        /\ cursor' = [milli |-> Feed!Milli(capture[last].at), id |-> last]
        /\ UNCHANGED <<tick, capture, late>>
    BY <1>4 DEF Feed!ListCapturesForSync
  <2>2. \A i \in Feed!Ids : given'[i] <= MaxGiven
    BY <2>1, AudienceBounds DEF FeedBounded, FeedInv, FeedTyped
  <2>3. last \in Feed!Ids
    <3>1. S # {} /\ S \in SUBSET Feed!Ids
      BY <1>4 DEF Feed!ListCapturesForSync, Feed!PageRows, Feed!Rows
    <3>2. last = CHOOSE i \in S : \A j \in S \ {i} : Feed!Before(j, i)
      BY DEF Feed!LastRow
    <3> HIDE DEF S, last
    <3>3. \E i \in S : \A j \in S \ {i} : Feed!Before(j, i)
      BY <3>1, LastExists DEF FeedInv
    <3>4. last \in S
      BY <3>2, <3>3, Zenon
    <3> QED BY <3>1, <3>4
  <2>4. capture[last].at \in Nat /\ capture[last].at <= MaxTick
    BY <2>3 DEF FeedBounded, FeedInv, FeedTyped
  <2>5. Feed!Milli(capture[last].at) <= MaxTick \div PerMilli
    BY <2>4, Quotients, ReaderConstants DEF Feed!Milli
  <2>6. last <= MaxCapture
    BY <2>3, FeedFacts
  <2> QED BY <2>1, <2>2, <2>5, <2>6 DEF FeedBounded
<1> QED BY <1>1, <1>2, <1>3, <1>4 DEF Feed!Next

LEMMA FeedTypes == FeedInv /\ FeedBounded => Feed!TypeOK
BY DEF FeedInv, FeedTyped, FeedBounded, GivenStored, Feed!TypeOK

-----------------------------------------------------------------------------
(* The reports: types *)

OwnLatest(N, R) == \A i \in Reports!Captures : N[i] # 0 => R[N[i]].capture = i

\* The reports stay below their bounds, and a capture's latest response is its own.
ReportsBounded ==
  /\ Len(response) <= MaxResponses /\ news \in 0..MaxNews
  /\ OwnLatest(latest, response)
  /\ \A i \in Reports!Captures : reader.scored[i] <= MaxResponses
  /\ report \in Seq(Reports!Row)
  /\ unheaded \subseteq Reports!Questions /\ superseded \subseteq Reports!Captures
  /\ shaken \in BOOLEAN

LEMMA RowsFit ==
  ASSUME NEW T \in Seq(ReportRow), MaxResponses \in Nat,
         \A k \in 1..Len(T) : T[k].scored <= MaxResponses /\ T[k].answered <= MaxResponses
  PROVE  T \in Seq(Reports!Row)
<1>1. ASSUME NEW k \in 1..Len(T) PROVE T[k] \in Reports!Row
  <2>1. T[k] \in ReportRow
    OBVIOUS
  <2> QED BY <2>1 DEF ReportRow, Reports!Row
<1> QED BY <1>1

\* Rows of the latest responses are within bounds.
LEMMA RowsToldFit ==
  ASSUME ReportsInv, ReportsBounded, NEW H PROVE Reports!RowsTold(H) \in Seq(Reports!Row)
<1> DEFINE T == Reports!RowsTold(H)
<1>1. TablesTyped /\ reader.rows \in SUBSET Reports!Captures
  BY DEF ReportsInv, ReaderTyped, ReaderRow
<1>2. \A i \in reader.rows : Headed(i, response, latest, label, H, Reports!Questions)
  <2> SUFFICES ASSUME NEW i \in reader.rows, latest[i] # 0,
                      NEW q \in response[latest[i]].questions
               PROVE  q \in Reports!Questions
    BY DEF Headed, Excused
  <2>1. latest[i] \in 1..Len(response)
    BY <1>1, ResponseRows DEF TablesTyped
  <2> QED BY <1>1, <2>1, ResponseRows
<1>3. RowsFor(T, reader.rows) /\ RowsRight(T, response, label, Reports!Questions, {})
  BY <1>1, <1>2, RowsToldRight
<1> HIDE DEF T
<1>4. T \in Seq(ReportRow) /\ MaxResponses \in Nat /\ Len(response) \in Nat
  BY <1>1, <1>3, ResponseRows, AudienceBounds DEF RowsFor
<1>5. \A k \in 1..Len(T) : T[k].answered \in 0..Len(response) /\ T[k].scored = T[k].answered
  BY <1>3 DEF RowsRight, RowRight
<1>6. T \in Seq(Reports!Row)
  BY <1>4, <1>5, RowsFit DEF ReportsBounded
<1> QED BY <1>6 DEF T

LEMMA ReportsBoundedFirst == Reports!Init => ReportsBounded
<1> SUFFICES ASSUME Reports!Init PROVE ReportsBounded
  OBVIOUS
<1>1. MaxResponses \in Nat /\ MaxNews \in Nat
  BY AudienceBounds
<1>2. response = <<>> /\ news = 0 /\ report = <<>> /\ unheaded = {} /\ superseded = {} /\ shaken = FALSE
      /\ latest = [i \in Reports!Captures |-> 0] /\ reader = Reports!NoReader
  BY DEF Reports!Init
<1>3. \A i \in Reports!Captures : reader.scored[i] = 0
  BY <1>2 DEF Reports!NoReader
<1>4. report \in Seq(Reports!Row)
  BY <1>2
<1>5. Len(response) <= MaxResponses /\ news \in 0..MaxNews
  BY <1>1, <1>2
<1>6. OwnLatest(latest, response)
  BY <1>2 DEF OwnLatest
<1> QED BY <1>1, <1>2, <1>3, <1>4, <1>5, <1>6 DEF ReportsBounded

\* A step of a report leaves what is within bounds beside it.
LEMMA ReportStaysBounded ==
  ASSUME ReportsBounded, UNCHANGED <<response, latest, news, unheaded, superseded, shaken>>,
         \A i \in Reports!Captures : reader'.scored[i] <= MaxResponses,
         report' \in Seq(Reports!Row)
  PROVE  ReportsBounded'
BY DEF ReportsBounded

\* And what goes on meanwhile leaves the report.
LEMMA RestStaysBounded ==
  ASSUME ReportsBounded, UNCHANGED <<response, latest, reader, report, superseded>>,
         news' \in 0..MaxNews, unheaded' \subseteq Reports!Questions, shaken' \in BOOLEAN
  PROVE  ReportsBounded'
BY DEF ReportsBounded

LEMMA NewsBounded == ReportsBounded /\ Reports!New => news' \in 0..MaxNews
BY AudienceBounds DEF ReportsBounded, Reports!New

LEMMA NoticedBounded ==
  ASSUME ReportsBounded, NEW C, Reports!Noticed(C) PROVE shaken' \in BOOLEAN
BY Zenon DEF ReportsBounded, Reports!Noticed

LEMMA RegisterStaysBounded ==
  ASSUME ReportsBounded, NEW i, NEW version, Reports!Register(i, version) PROVE ReportsBounded'
BY DEF ReportsBounded, Reports!Register

LEMMA CommitStaysBounded ==
  ASSUME ReportsBounded, NEW i, Reports!Commit(i) PROVE ReportsBounded'
<1>1. UNCHANGED <<response, latest, news, reader, report, unheaded, superseded>>
      /\ Reports!Noticed(reported')
  BY DEF Reports!Commit
<1>2. shaken' \in BOOLEAN
  BY <1>1, NoticedBounded
<1>3. news' \in 0..MaxNews /\ unheaded' \subseteq Reports!Questions
  BY <1>1 DEF ReportsBounded
<1> QED BY <1>1, <1>2, <1>3, RestStaysBounded

LEMMA AttachStaysBounded ==
  ASSUME ReportsBounded, NEW i, Reports!Attach(i) PROVE ReportsBounded'
<1>1. UNCHANGED <<response, latest, reader, report, unheaded, superseded>>
      /\ Reports!Noticed(reported') /\ Reports!New
  BY DEF Reports!Attach
<1>2. shaken' \in BOOLEAN
  BY <1>1, NoticedBounded
<1>3. news' \in 0..MaxNews /\ unheaded' \subseteq Reports!Questions
  BY <1>1, NewsBounded DEF ReportsBounded
<1> QED BY <1>1, <1>2, <1>3, RestStaysBounded

LEMMA EditTextStaysBounded ==
  ASSUME ReportsBounded, NEW r, NEW k, Reports!EditText(r, k) PROVE ReportsBounded'
<1> DEFINE Q == {p \in Reports!Questions : label[p] \in {k, label[r]}}
<1>1. /\ Reports!New /\ unheaded' = IF reader = Reports!NoReader THEN {} ELSE unheaded \cup Q
      /\ UNCHANGED <<response, latest, reader, report, superseded, shaken>>
  BY DEF Reports!EditText, Reports!Unheaded
<1>2. unheaded' \subseteq Reports!Questions /\ shaken' \in BOOLEAN
  BY <1>1 DEF ReportsBounded
<1> QED BY <1>1, <1>2, NewsBounded, RestStaysBounded

LEMMA RespondStaysBounded ==
  ASSUME ReportsInv, ReportsBounded, NEW i \in Reports!Captures, NEW f \in QuizForms,
         NEW K \in SUBSET Keys, NEW last, Reports!Respond(i, f, K, last)
  PROVE  ReportsBounded'
<1> DEFINE row == [capture |-> i, questions |-> K \X {f}]
           Q == K \X {f}
           n == Len(response)
<1>1. /\ n < MaxResponses /\ response' = Append(response, row)
      /\ Reports!Noticed(reported') /\ Reports!New
      /\ UNCHANGED <<reader, report>>
  BY DEF Reports!Respond
<1>2. \/ /\ latest' = [latest EXCEPT ![i] = n + 1]
         /\ unheaded' = IF reader = Reports!NoReader THEN {} ELSE unheaded \cup Q
         /\ superseded' = IF reader.at = "answers" THEN superseded \cup {i} ELSE superseded
      \/ UNCHANGED <<latest, unheaded, superseded>>
  BY DEF Reports!Respond, Reports!Unheaded
<1>3. Q \subseteq Reports!Questions
  BY DEF Reports!Questions
<1>4. row \in Response /\ row.capture = i
  BY <1>3 DEF Response
<1>5. response \in Seq(Response) /\ latest \in [Reports!Captures -> 0..n]
  BY DEF ReportsInv, TablesTyped
<1> HIDE DEF row, Q
<1>6. /\ n \in Nat /\ Len(response') = n + 1 /\ response'[n + 1] = row
      /\ \A r \in 1..n : response'[r] = response[r]
  BY <1>1, <1>4, <1>5
<1>7. /\ \A j \in Reports!Captures : latest[j] \in 0..n
      /\ \A j \in Reports!Captures \ {i} : latest'[j] = latest[j]
      /\ latest'[i] = latest[i] \/ latest'[i] = n + 1
  BY <1>2, <1>5
<1> HIDE DEF n
<1>8. Len(response') <= MaxResponses
  BY <1>1, <1>6, AudienceBounds
<1>9. OwnLatest(latest', response')
  <2> SUFFICES ASSUME NEW j \in Reports!Captures, latest'[j] # 0
               PROVE  response'[latest'[j]].capture = j
    BY DEF OwnLatest
  <2>1. CASE latest'[j] = latest[j]
    <3>1. latest[j] \in 1..n /\ response[latest[j]].capture = j
      BY <1>6, <1>7, <2>1 DEF ReportsBounded, OwnLatest
    <3> QED BY <1>6, <2>1, <3>1
  <2>2. CASE latest'[j] # latest[j]
    BY <1>4, <1>6, <1>7, <2>2
  <2> QED BY <2>1, <2>2
<1>10. shaken' \in BOOLEAN /\ news' \in 0..MaxNews
  BY <1>1, NoticedBounded, NewsBounded
<1>11. unheaded' \subseteq Reports!Questions /\ superseded' \subseteq Reports!Captures
  BY <1>2, <1>3 DEF ReportsBounded
<1>12. report' \in Seq(Reports!Row) /\ \A j \in Reports!Captures : reader'.scored[j] <= MaxResponses
  BY <1>1 DEF ReportsBounded
<1> QED BY <1>8, <1>9, <1>10, <1>11, <1>12 DEF ReportsBounded

LEMMA BeginStaysBounded ==
  ASSUME ReportsInv, ReportsBounded, NEW kind, NEW filter, Reports!Begun(kind, filter),
         reader'.scored = reader.scored
  PROVE  ReportsBounded'
BY DEF ReportsBounded, Reports!Begun, Reports!tables

\* What the reader has read of scores is left by most of its steps.
LEMMA ScoredStays ==
  ASSUME ReportsInv,
         NEW at, NEW rows, NEW low, NEW next, NEW total,
         \/ reader' = [reader EXCEPT !.at = at]
         \/ reader' = [reader EXCEPT !.at = at, !.rows = rows]
         \/ reader' = [reader EXCEPT !.cursor = low, !.rows = rows, !.at = at]
         \/ reader' = [reader EXCEPT !.at = at, !.total = total]
         \/ reader' = [reader EXCEPT !.at = at, !.page = next, !.total = total]
  PROVE  reader'.scored = reader.scored
<1>1. reader \in ReaderRow
  BY DEF ReportsInv, ReaderTyped
<1> QED BY <1>1 DEF ReaderRow

LEMMA ReadStaysBounded ==
  ASSUME ReportsInv, ReportsInv', ReportsBounded,
         Reports!ReadBatch \/ Reports!ReadQuiz \/ Reports!ReadQuizWhole \/ Reports!ReadScores
           \/ Reports!ReadAnswers \/ Reports!ReadPage \/ Reports!CountPages
  PROVE  ReportsBounded'
<1>0. /\ MaxResponses \in Nat /\ Len(response) \in Nat
      /\ \A i \in Reports!Captures : latest[i] \in Nat /\ latest[i] <= MaxResponses
  BY ResponseRows, AudienceBounds DEF ReportsInv, ReportsBounded, TablesTyped
<1>1. /\ UNCHANGED <<response, latest, news, unheaded, superseded, shaken>>
  BY DEF Reports!ReadBatch, Reports!ReadQuiz, Reports!ReadQuizWhole, Reports!ReadScores,
         Reports!ReadAnswers, Reports!ReadPage, Reports!CountPages, Reports!tables
<1>2. ASSUME reader'.scored = reader.scored, report' \in Seq(Reports!Row) PROVE ReportsBounded'
  BY <1>1, <1>2, ReportStaysBounded DEF ReportsBounded
<1>3. report \in Seq(Reports!Row)
  BY DEF ReportsBounded
<1>4. \A T : T \in Seq(Reports!Row) => report \o T \in Seq(Reports!Row)
  BY <1>3
<1>5. CASE Reports!ReadBatch
  <2>1. report' = report /\ \E rows : \/ reader' = [reader EXCEPT !.at = "done"]
                                      \/ reader' = [reader EXCEPT !.at = "quiz", !.rows = rows]
    BY <1>5 DEF Reports!ReadBatch
  <2>2. reader'.scored = reader.scored
    BY <2>1, ScoredStays
  <2> QED BY <1>2, <1>3, <2>1, <2>2
<1>6. CASE Reports!ReadQuiz
  <2>1. \E low, at : reader' = [reader EXCEPT !.cursor = low, !.rows = {}, !.at = at]
    BY <1>6 DEF Reports!ReadQuiz
  <2>2. reader'.scored = reader.scored
    BY <2>1, ScoredStays
  <2>3. report' = report \o Reports!RowsTold(reader.headers)
    BY <1>6 DEF Reports!ReadQuiz
  <2> QED BY <1>2, <1>4, <2>2, <2>3, RowsToldFit
<1>7. CASE Reports!ReadQuizWhole
  <2>1. reader' = [reader EXCEPT !.at = "done", !.rows = {}]
        /\ \E H : report' = Reports!RowsTold(H)
    BY <1>7 DEF Reports!ReadQuizWhole
  <2>2. reader'.scored = reader.scored
    BY <2>1, ScoredStays
  <2> QED BY <1>2, <2>1, <2>2, RowsToldFit
<1>8. CASE Reports!ReadScores
  <2> DEFINE scored == [i \in Reports!Captures |-> IF i \in reader.rows THEN latest[i] ELSE 0]
  <2>1. report' = report /\ reader' = [reader EXCEPT !.at = "answers", !.scored = scored]
    BY <1>8 DEF Reports!ReadScores
  <2>2. \A i \in Reports!Captures : scored[i] <= MaxResponses
    BY <1>0
  <2> HIDE DEF scored
  <2>3. reader'.scored = scored
    BY <2>1 DEF ReportsInv, ReaderTyped, ReaderRow
  <2> QED BY <1>1, <1>3, <2>1, <2>2, <2>3, ReportStaysBounded
<1>9. CASE Reports!ReadAnswers
  <2> DEFINE S == reader.rows
             D == Reports!Descending(S)
             row(k) == [capture |-> D[k], scored |-> reader.scored[D[k]],
                        answered |-> latest[D[k]],
                        shown |-> IF latest[D[k]] = 0 THEN {}
                                  ELSE response[latest[D[k]]].questions]
  <2>1. reader' = [reader EXCEPT !.at = "done", !.rows = {}]
        /\ report' = [k \in 1..Cardinality(S) |-> row(k)]
    BY <1>9, ReportsCount DEF Reports!ReadAnswers
  <2>2. reader'.scored = reader.scored
    BY <2>1, ScoredStays
  <2>3. S \in SUBSET Reports!Captures
    BY DEF ReportsInv, ReaderTyped, ReaderRow
  <2>4. Cardinality(S) \in Nat /\ \A k \in 1..Cardinality(S) : D[k] \in S
    BY <2>3, DescendingLists
  <2> HIDE DEF S, D
  <2>5. \A k \in 1..Cardinality(S) : row(k).scored <= MaxResponses /\ row(k).answered <= MaxResponses
    BY <1>0, <2>3, <2>4 DEF ReportsBounded
  <2> HIDE DEF row
  <2>6. \A k \in 1..Len(report') : report'[k].scored <= MaxResponses
                                   /\ report'[k].answered <= MaxResponses
    BY <2>1, <2>4, <2>5
  <2>7. report' \in Seq(ReportRow)
    BY DEF ReportsInv, ReaderTyped
  <2>8. report' \in Seq(Reports!Row)
    BY <1>0, <2>6, <2>7, RowsFit
  <2> QED BY <1>2, <2>2, <2>8
<1>10. ASSUME NEW total, reader' = Reports!NextPage(total) PROVE reader'.scored = reader.scored
  <2>1. \E next : \/ reader' = [reader EXCEPT !.at = "done", !.total = total]
                  \/ reader' = [reader EXCEPT !.at = "page", !.page = next, !.total = total]
    BY <1>10 DEF Reports!NextPage
  <2> QED BY <2>1, ScoredStays
<1>11. CASE Reports!ReadPage
  <2> DEFINE S == Reports!PageRows
             D == Reports!Descending(S)
             row(k) == [capture |-> D[k], scored |-> 0, answered |-> 0, shown |-> {}]
             V == [k \in 1..Cardinality(S) |-> row(k)]
  <2>1. /\ report' = report \o V
        /\ reader' = [reader EXCEPT !.at = "rows"] \/ reader' = Reports!NextPage(reader.total)
    BY <1>11, ReportsCount DEF Reports!ReadPage
  <2>2. reader'.scored = reader.scored
    BY <1>10, <2>1, ScoredStays
  <2>3. S \in SUBSET Reports!Captures
    BY ListedPage DEF ReportsInv
  <2>4. Cardinality(S) \in Nat /\ \A k \in 1..Cardinality(S) : D[k] \in S
    BY <2>3, DescendingLists
  <2> HIDE DEF S, D
  <2>5. \A k \in 1..Cardinality(S) : row(k) \in Reports!Row
    BY <1>0, <2>3, <2>4 DEF Reports!Row
  <2> HIDE DEF row
  <2>6. V \in Seq(Reports!Row)
    BY <2>4, <2>5
  <2> HIDE DEF V
  <2> QED BY <1>2, <1>4, <2>1, <2>2, <2>6
<1>12. CASE Reports!CountPages
  <2>1. /\ report' = report
        /\ \E total : \/ reader' = [reader EXCEPT !.at = "total", !.total = total]
                      \/ reader' = Reports!NextPage(total)
    BY <1>12 DEF Reports!CountPages
  <2>2. reader'.scored = reader.scored
    BY <1>10, <2>1, ScoredStays
  <2> QED BY <1>2, <1>3, <2>1, <2>2
<1> QED BY <1>5, <1>6, <1>7, <1>8, <1>9, <1>11, <1>12

LEMMA ReportsStayBounded ==
  ASSUME ReportsInv, ReportsInv', ReportsBounded, Reports!Next
  PROVE  ReportsBounded'
<1>1. CASE \E i \in Reports!Captures :
             \/ \E version \in BOOLEAN : Reports!Register(i, version)
             \/ Reports!Commit(i) \/ Reports!Attach(i)
             \/ \E f \in QuizForms, K \in (SUBSET Keys) \ {{}}, last \in BOOLEAN :
                  Reports!Respond(i, f, K, last)
  <2>1. PICK i \in Reports!Captures :
             \/ \E version \in BOOLEAN : Reports!Register(i, version)
             \/ Reports!Commit(i) \/ Reports!Attach(i)
             \/ \E f \in QuizForms, K \in (SUBSET Keys) \ {{}}, last \in BOOLEAN :
                  Reports!Respond(i, f, K, last)
    BY <1>1
  <2>2. CASE \E version \in BOOLEAN : Reports!Register(i, version)
    BY <2>2, RegisterStaysBounded
  <2>3. CASE Reports!Commit(i) \/ Reports!Attach(i)
    BY <2>3, CommitStaysBounded, AttachStaysBounded
  <2>4. CASE \E f \in QuizForms, K \in (SUBSET Keys) \ {{}}, last \in BOOLEAN :
               Reports!Respond(i, f, K, last)
    <3>1. PICK f \in QuizForms, K \in (SUBSET Keys) \ {{}}, last \in BOOLEAN :
               Reports!Respond(i, f, K, last)
      BY <2>4
    <3>2. K \in SUBSET Keys
      OBVIOUS
    <3> QED BY <3>1, <3>2, RespondStaysBounded
  <2> QED BY <2>1, <2>2, <2>3, <2>4
<1>2. CASE \E q \in Reports!Questions, k \in Keys : Reports!EditText(q, k)
  BY <1>2, EditTextStaysBounded
<1>3. ASSUME NEW kind, NEW filter, Reports!Begun(kind, filter),
             reader'.scored = Reports!NoReader.scored
      PROVE  ReportsBounded'
  BY <1>3, BeginStaysBounded DEF Reports!Begun
<1>4. CASE \E filter \in {"all", "answered", "unanswered"} :
             Reports!BeginFile(filter) \/ Reports!BeginWhole(filter)
  <2>1. PICK filter : Reports!BeginFile(filter) \/ Reports!BeginWhole(filter)
    BY <1>4
  <2>2. Reports!Begun("file", filter) \/ Reports!Begun("whole", filter)
    BY <2>1 DEF Reports!BeginFile, Reports!BeginWhole
  <2>3. reader'.scored = Reports!NoReader.scored
    BY <2>1 DEF Reports!BeginFile, Reports!BeginWhole, Reports!NoReader
  <2> QED BY <1>3, <2>2, <2>3
<1>5. CASE \E filter \in Reports!Filters : Reports!BeginPages(filter)
  <2>1. PICK filter : Reports!BeginPages(filter)
    BY <1>5
  <2>2. Reports!Begun("pages", filter) /\ reader'.scored = Reports!NoReader.scored
    BY <2>1 DEF Reports!BeginPages, Reports!NoReader
  <2> QED BY <1>3, <2>2
<1>6. CASE Reports!BeginFeed
  <2>2. Reports!Begun("feed", "all") /\ reader'.scored = Reports!NoReader.scored
    BY <1>6 DEF Reports!BeginFeed, Reports!NoReader
  <2> QED BY <1>3, <2>2
<1>7. CASE Reports!ReadBatch \/ Reports!ReadQuiz \/ Reports!ReadQuizWhole \/ Reports!ReadScores
             \/ Reports!ReadAnswers \/ Reports!ReadPage \/ Reports!CountPages
  BY <1>7, ReadStaysBounded
<1> QED BY <1>1, <1>2, <1>4, <1>5, <1>6, <1>7 DEF Reports!Next

LEMMA ReportsTypes == ReportsInv /\ ReportsBounded => Reports!TypeOK
<1> SUFFICES ASSUME ReportsInv, ReportsBounded PROVE Reports!TypeOK
  OBVIOUS
<1>1. TablesTyped /\ ReaderTyped
  BY DEF ReportsInv
<1>2. response \in Seq([capture : Reports!Captures, questions : SUBSET Reports!Questions])
  BY <1>1 DEF TablesTyped, Response
<1>3. reader.kind \in Reports!Kinds \cup {"none"} /\ reader.filter \in Reports!Filters
      /\ reader.at \in {"idle", "rows", "quiz", "answers", "page", "total", "done"}
  BY <1>1 DEF ReaderTyped, ReaderRow, Reports!Kinds
<1>4. constant \subseteq Reports!Captures
  BY DEF ReportsInv, Listed
<1>5. \A i \in Reports!Captures : latest[i] # 0 =>
        response[latest[i]].capture = i /\ reported[i].version
  BY DEF ReportsInv, ReportsBounded, LatestStored, OwnLatest
<1> QED BY <1>1, <1>2, <1>3, <1>4, <1>5 DEF Reports!TypeOK, TablesTyped, CaptureRow, ReportsBounded

-----------------------------------------------------------------------------
(* Votes: types *)

\* No two of the first n voters of a table V have an e-mail or a phone in common.
VotersApart(V, n) ==
  \A i, j \in 1..n : i # j => V[i].email # V[j].email /\ V[i].phone # V[j].phone

VotingBounded ==
  /\ requests \in 0..MoreRequests
  /\ crowded \subseteq Campaigns \cup Voting!Ids
  /\ VotersApart(voter, voters)

\* What a request does to what is bounded.
OneRequest == requests' = requests \/ (requests < MoreRequests /\ requests' = requests + 1)
CrowdsOne == crowded' = crowded \/ \E k \in Campaigns \cup Voting!Ids : crowded' = crowded \cup {k}
VoterPut(i, new) ==
  /\ i \in 1..voters' /\ voter' = [voter EXCEPT ![i] = new]
  /\ \A j \in (1..voters') \ {i} :
       j <= voters /\ voter[j].email # new.email /\ voter[j].phone # new.phone
VoterStep == UNCHANGED <<voter, voters>> \/ \E i, new : VoterPut(i, new)

LEMMA VoterPutApart ==
  ASSUME VotingInv, VotersApart(voter, voters), VoterStep, voters' \in 0..MaxVoters
  PROVE  VotersApart(voter', voters')
<1>1. ASSUME NEW i, NEW new, VoterPut(i, new) PROVE VotersApart(voter', voters')
  <2>1. i \in Voting!Ids /\ voter'[i] = new /\ \A j \in Voting!Ids \ {i} : voter'[j] = voter[j]
    BY <1>1, VotingFacts DEF VoterPut, VotingInv, VotingTyped, VotingTables, Voting!Ids
  <2>2. \A j \in 1..voters' : j \in Voting!Ids /\ j \in Nat /\ j >= 1
    BY VotingFacts DEF Voting!Ids
  <2>3. \A j \in (1..voters') \ {i} : j \in 1..voters
    BY <1>1, <2>2 DEF VoterPut, VotingInv, VotingTyped, VotingTables
  <2> QED BY <1>1, <2>1, <2>2, <2>3 DEF VoterPut, VotersApart
<1> QED BY <1>1 DEF VoterStep

LEMMA CrowdOne ==
  ASSUME NEW a, NEW k \in Campaigns \cup Voting!Ids, Voting!Crowd(a, k)
  PROVE  CrowdsOne
BY DEF Voting!Crowd, CrowdsOne

LEMMA VotingStepKinds ==
  ASSUME VotingInv, Voting!Next
  PROVE  OneRequest /\ CrowdsOne /\ VoterStep
<1>1. PICK a \in Clients :
        \/ \E c \in Campaigns, new \in Voting!Campaign :
             Voting!CreateCampaign(a, c, new) \/ Voting!UpdateCampaign(a, c, new)
        \/ Voting!LoadCampaign(a) \/ Voting!SaveCampaign(a)
        \/ \E k \in Categories, c \in Campaigns, on \in BOOLEAN : Voting!PutCategory(a, k, c, on)
        \/ \E n \in Candidates, c \in Campaigns, k \in Categories, on \in BOOLEAN :
             Voting!PutCandidate(a, n, c, k, on)
        \/ \E c \in Campaigns, n \in Candidates, now \in Times, want \in Voting!Voter :
             Voting!RegisterVote(a, c, n, now, want)
        \/ Voting!FindVoter(a) \/ Voting!CreateVoter(a) \/ Voting!LoadVoter(a)
        \/ Voting!SaveVoter(a) \/ Voting!SaveVote(a)
  BY DEF Voting!Next
<1>2. CASE \E c \in Campaigns, new \in Voting!Campaign :
             Voting!CreateCampaign(a, c, new) \/ Voting!UpdateCampaign(a, c, new)
  <2>1. PICK c \in Campaigns, new \in Voting!Campaign :
          Voting!CreateCampaign(a, c, new) \/ Voting!UpdateCampaign(a, c, new)
    BY <1>2
  <2>2. OneRequest /\ UNCHANGED <<voter, voters>>
    BY <2>1 DEF Voting!CreateCampaign, Voting!UpdateCampaign, Voting!Asked, OneRequest
  <2>3. CrowdsOne
    BY <2>1, CrowdOne DEF Voting!CreateCampaign, Voting!UpdateCampaign, CrowdsOne
  <2> QED BY <2>2, <2>3 DEF VoterStep
<1>3. CASE Voting!LoadCampaign(a) \/ Voting!SaveCampaign(a)
  BY <1>3 DEF Voting!LoadCampaign, Voting!SaveCampaign, OneRequest, CrowdsOne, VoterStep
<1>4. CASE \/ \E k \in Categories, c \in Campaigns, on \in BOOLEAN : Voting!PutCategory(a, k, c, on)
           \/ \E n \in Candidates, c \in Campaigns, k \in Categories, on \in BOOLEAN :
                Voting!PutCandidate(a, n, c, k, on)
  BY <1>4
  DEF Voting!PutCategory, Voting!PutCandidate, Voting!Asked, OneRequest, CrowdsOne, VoterStep
<1>5. CASE \E c \in Campaigns, n \in Candidates, now \in Times, want \in Voting!Voter :
             Voting!RegisterVote(a, c, n, now, want)
  BY <1>5 DEF Voting!RegisterVote, Voting!Asked, OneRequest, CrowdsOne, VoterStep
<1>6. CASE Voting!FindVoter(a)
  <2>1. OneRequest /\ UNCHANGED <<voter, voters>>
    BY <1>6 DEF Voting!FindVoter, OneRequest
  <2>2. \A i \in Voting!With(voting[a].want) : i \in Voting!Ids
    BY VotingFacts DEF Voting!With, Voting!Ids, VotingInv, VotingTyped, VotingTables
  <2>3. CrowdsOne
    BY <1>6, <2>2, CrowdOne DEF Voting!FindVoter, CrowdsOne
  <2> QED BY <2>1, <2>3 DEF VoterStep
<1>7. CASE Voting!CreateVoter(a)
  <2> DEFINE want == voting[a].want
  <2>1. OneRequest /\ CrowdsOne
    BY <1>7 DEF Voting!CreateVoter, OneRequest, CrowdsOne
  <2>2. \/ UNCHANGED <<voter, voters>>
        \/ /\ Voting!Free(0, want) /\ voters < MaxVoters /\ voters' = voters + 1
           /\ voter' = [voter EXCEPT ![voters + 1] = want]
    BY <1>7 DEF Voting!CreateVoter
  <2>3. voters \in Nat
    BY DEF VotingInv, VotingTyped, VotingTables
  <2> HIDE DEF want
  <2>4. ASSUME Voting!Free(0, want), voters' = voters + 1,
               voter' = [voter EXCEPT ![voters + 1] = want]
        PROVE  VoterPut(voters + 1, want)
    <3>1. \A j \in (1..voters') \ {voters + 1} : j \in (1..voters) \ {0} /\ j <= voters
      BY <2>3, <2>4
    <3>2. voters + 1 \in 1..voters'
      BY <2>3, <2>4
    <3> QED BY <2>4, <3>1, <3>2 DEF VoterPut, Voting!Free
  <2> QED BY <2>1, <2>2, <2>4 DEF VoterStep
<1>8. CASE Voting!SaveVoter(a)
  <2> DEFINE i == voting[a].key
             new == Voting!Written(voter[i], voting[a].loaded, Voting!NewFace(i, voting[a].want))
  <2>1. OneRequest /\ CrowdsOne
    BY <1>8 DEF Voting!SaveVoter, OneRequest, CrowdsOne
  <2>2. /\ voters' = voters
        /\ voter' = voter \/ (Voting!Free(i, new) /\ voter' = [voter EXCEPT ![i] = new])
    BY <1>8 DEF Voting!SaveVoter
  <2>3. i \in 1..voters
    <3>1. CasterWell(voting[a], candidate, voter, voters, crowded) /\ voters \in Nat
      BY DEF VotingInv, VotingTyped, VotingTables, HandWell
    <3>2. voting[a].op = "voter" /\ voting[a].loaded # Absent
      BY <1>8 DEF Voting!SaveVoter, Voting!Exists
    <3>3. i \in 0..voters /\ i # 0
      BY <3>1, <3>2 DEF CasterWell, Casts
    <3> QED BY <3>1, <3>3
  <2>4. voters \in Nat
    BY DEF VotingInv, VotingTyped, VotingTables
  <2> HIDE DEF i, new
  <2>5. ASSUME Voting!Free(i, new), voter' = [voter EXCEPT ![i] = new] PROVE VoterPut(i, new)
    <3>1. \A j \in (1..voters') \ {i} : j \in (1..voters) \ {i} /\ j <= voters
      BY <2>2, <2>4
    <3> QED BY <2>2, <2>3, <2>5, <3>1 DEF VoterPut, Voting!Free
  <2> QED BY <2>1, <2>2, <2>5 DEF VoterStep
<1>9. CASE Voting!LoadVoter(a) \/ Voting!SaveVote(a)
  BY <1>9 DEF Voting!LoadVoter, Voting!SaveVote, OneRequest, CrowdsOne, VoterStep
<1> QED BY <1>1, <1>2, <1>3, <1>4, <1>5, <1>6, <1>7, <1>8, <1>9

LEMMA VotingStaysBounded ==
  ASSUME VotingInv, VotingInv', VotingBounded, Voting!Next
  PROVE  VotingBounded'
<1>1. OneRequest /\ CrowdsOne /\ VoterStep
  BY VotingStepKinds
<1>2. requests' \in 0..MoreRequests
  BY <1>1, AudienceBounds DEF OneRequest, VotingBounded
<1>3. crowded' \subseteq Campaigns \cup Voting!Ids
  BY <1>1 DEF CrowdsOne, VotingBounded
<1>4. voters' \in 0..MaxVoters
  BY DEF VotingInv, VotingTyped, VotingTables
<1> QED BY <1>1, <1>2, <1>3, <1>4, VoterPutApart DEF VotingBounded

LEMMA VotingBoundedFirst == Voting!Init => VotingBounded
BY AudienceBounds DEF Voting!Init, VotingBounded, VotersApart

LEMMA VotingTypes == VotingInv /\ VotingBounded => Voting!TypeOK
BY DEF VotingInv, VotingTyped, VotingTables, VotingBounded, VotersApart, Voting!TypeOK,
       VotingRequest, CategoryRow

-----------------------------------------------------------------------------
(* Pages: types *)

\* Of a table T, two active pages have different launches.
ActiveApart(T) ==
  \A p, q \in Pages!PageIds :
    T[p] # Absent /\ T[q] # Absent /\ p # q /\ T[p].active /\ T[q].active /\ T[p].launch # Absent
      => T[p].launch # T[q].launch

\* What is noted of launches, pages and seasons is of those there may be.
PagesNoted ==
  /\ requests \in 0..MaxRequests
  /\ launches \subseteq Launches
  /\ crowdedPages \subseteq Pages!PageIds /\ bereft \subseteq Pages!PageIds
  /\ loose \subseteq Pages!PageIds \cup Seasons

PagesBounded == PagesNoted /\ ActiveApart(page)

LEMMA PagesBoundedFirst == Pages!Init => PagesBounded
<1> SUFFICES ASSUME Pages!Init PROVE PagesBounded
  OBVIOUS
<1>1. PagesNoted
  BY AudienceBounds DEF Pages!Init, PagesNoted
<1>2. \A p \in Pages!PageIds \ {1} : page[p] = Absent
  BY DEF Pages!Init
<1>3. ActiveApart(page)
  BY <1>2 DEF ActiveApart
<1> QED BY <1>1, <1>3 DEF PagesBounded

\* Where a row is written that no active page is in the way of, they stay apart.
LEMMA ApartAfter ==
  ASSUME NEW T, NEW V, ActiveApart(T), NEW p \in Pages!PageIds,
         \A q \in Pages!PageIds \ {p} : V[q] = T[q],
         \A q \in Pages!PageIds \ {p} : T[q] # Absent =>
           ~(V[p].active /\ T[q].active /\ V[p].launch # Absent /\ T[q].launch = V[p].launch)
  PROVE  ActiveApart(V)
<1> SUFFICES ASSUME NEW q \in Pages!PageIds, NEW r \in Pages!PageIds, q # r, V[q] # Absent,
                    V[r] # Absent, V[q].active, V[r].active, V[q].launch # Absent
             PROVE  V[q].launch # V[r].launch
  BY DEF ActiveApart
<1>1. CASE q = p
  BY <1>1
<1>2. CASE r = p
  BY <1>2
<1>3. CASE q # p /\ r # p
  BY <1>3 DEF ActiveApart
<1> QED BY <1>1, <1>2, <1>3

\* A row the indexes accept.
LEMMA AcceptedApart ==
  ASSUME PagesTyped, ActiveApart(page), NEW row, NEW n, NEW p \in Pages!PageIds,
         Pages!Accepted(row, n), n = p \/ n = 0, page' = [page EXCEPT ![p] = row]
  PROVE  ActiveApart(page')
<1> DEFINE V == page'
<1>1. V[p] = row /\ \A q \in Pages!PageIds \ {p} : V[q] = page[q]
  BY DEF PagesTyped
<1> HIDE DEF V
<1>2. \A q \in Pages!PageIds \ {p} : page[q] # Absent =>
        ~(row.active /\ page[q].active /\ row.launch # Absent /\ page[q].launch = row.launch)
  <2> SUFFICES ASSUME NEW q \in Pages!PageIds \ {p}, page[q] # Absent
               PROVE  ~(row.active /\ page[q].active /\ row.launch # Absent
                          /\ page[q].launch = row.launch)
    OBVIOUS
  <2>1. q \in Pages!PageIds \ {n}
    BY PagesFacts
  <2> QED BY <2>1, Zenon DEF Pages!Accepted, Pages!Exists
<1>3. \A q \in Pages!PageIds \ {p} : page[q] # Absent =>
        ~(V[p].active /\ page[q].active /\ V[p].launch # Absent /\ page[q].launch = V[p].launch)
  BY <1>1, <1>2, Zenon
<1>4. ActiveApart(V)
  BY <1>1, <1>3, ApartAfter, Zenon
<1> QED BY <1>4 DEF V

LEMMA PagesStayApart == PagesInv /\ ActiveApart(page) /\ Pages!Next => ActiveApart(page')
<1> SUFFICES ASSUME PagesInv, ActiveApart(page), Pages!Next PROVE ActiveApart(page')
  OBVIOUS
<1>1. PagesTyped
  BY DEF PagesInv
<1>2. ASSUME NEW a \in Clients, Pages!InsertPage(a) PROVE ActiveApart(page')
  <2>1. CASE UNCHANGED page
    BY <2>1
  <2>2. CASE /\ Pages!Accepted(client[a].want, 0) /\ pages < MaxPages
             /\ page' = [page EXCEPT ![pages + 1] = client[a].want]
    <3>1. pages + 1 \in Pages!PageIds
      BY <1>1, <2>2, PagesFacts DEF PagesTyped
    <3> QED BY <1>1, <2>2, <3>1, AcceptedApart
  <2> QED BY <1>2, <2>1, <2>2 DEF Pages!InsertPage
<1>3. ASSUME NEW a \in Clients, Pages!SavePage(a) PROVE ActiveApart(page')
  <2> DEFINE p == client[a].page
  <2>1. CASE UNCHANGED page
    BY <2>1
  <2>2. CASE \E row : Pages!Accepted(row, p) /\ page' = [page EXCEPT ![p] = row]
    <3>1. p \in Pages!PageIds
      BY <1>1, <1>3, PageRequestIs DEF PagesTyped, Pages!SavePage, Pages!Updating
    <3> QED BY <1>1, <2>2, <3>1, AcceptedApart
  <2> QED BY <1>3, <2>1, <2>2 DEF Pages!SavePage
<1>4. ASSUME NEW p \in Pages!PageIds, Pages!RemovePage(p) PROVE ActiveApart(page')
  <2>1. page' = [page EXCEPT ![p] = Absent]
    BY <1>4 DEF Pages!RemovePage
  <2>2. page'[p] = Absent /\ \A q \in Pages!PageIds \ {p} : page'[q] = page[q]
    BY <1>1, <2>1 DEF PagesTyped
  <2> QED BY <2>2 DEF ActiveApart
<1>5. ASSUME NEW l \in Launches, Pages!RemoveLaunch(l) PROVE ActiveApart(page')
  <2>1. page' = [p \in Pages!PageIds |->
          IF page[p] # Absent /\ page[p].launch = l THEN [page[p] EXCEPT !.launch = Absent]
          ELSE page[p]]
    BY <1>5 DEF Pages!RemoveLaunch, Pages!Exists
  <2>2. \A p \in Pages!PageIds : page'[p] # Absent =>
          /\ page[p] # Absent /\ page'[p].active = page[p].active
          /\ page'[p].launch = page[p].launch \/ page'[p].launch = Absent
    <3> SUFFICES ASSUME NEW p \in Pages!PageIds, page'[p] # Absent
                 PROVE  /\ page[p] # Absent /\ page'[p].active = page[p].active
                        /\ page'[p].launch = page[p].launch \/ page'[p].launch = Absent
      OBVIOUS
    <3>1. page[p] # Absent
      BY <2>1
    <3>2. page[p] \in Pages!Page
      BY <1>1, <3>1 DEF PagesTyped
    <3> QED BY <2>1, <3>1, <3>2 DEF Pages!Page
  <2> QED BY <2>2 DEF ActiveApart
<1>6. CASE UNCHANGED page
  BY <1>6
<1>7. ASSUME NEW a \in Clients,
             \/ \E want \in Pages!Page : Pages!CreatePage(a, want)
             \/ Pages!NumberPage(a)
             \/ \E p \in Pages!PageIds, want \in Pages!Page, own \in BOOLEAN :
                  Pages!UpdatePage(a, p, want, own)
             \/ Pages!LoadPage(a)
             \/ \E k \in Pages!Kinds, p \in Pages!PageIds, place \in 0..MaxNumber :
                  Pages!CreateItem(a, k, p, place)
             \/ Pages!ReadAbbreviation(a) \/ Pages!ReadNumber(a) \/ Pages!InsertItem(a)
             \/ Pages!Answer(a)
      PROVE  UNCHANGED page
  BY <1>7 DEF Pages!CreatePage, Pages!NumberPage, Pages!UpdatePage, Pages!LoadPage,
              Pages!CreateItem, Pages!ReadAbbreviation, Pages!ReadNumber, Pages!InsertItem,
              Pages!Answer, Pages!tables
<1>8. ASSUME \/ \E p \in Pages!PageIds, k \in Pages!Kinds, i \in Pages!Item : Pages!RemoveItem(k, p, i)
             \/ \E p \in Pages!PageIds, i \in Pages!Item, place \in Pages!Numbers :
                  Pages!UpdateHeadline(p, i, place)
             \/ \E s \in Seasons, l \in Launches : Pages!MoveSeason(s, l)
      PROVE  UNCHANGED page
  BY <1>8 DEF Pages!RemoveItem, Pages!UpdateHeadline, Pages!MoveSeason
<1> QED BY <1>2, <1>3, <1>4, <1>5, <1>6, <1>7, <1>8 DEF Pages!Next

LEMMA PagesStayNoted == PagesNoted /\ Pages!Next => PagesNoted'
<1> SUFFICES ASSUME PagesNoted, Pages!Next PROVE PagesNoted'
  OBVIOUS
<1>1. Pages!Asked => requests' \in 0..MaxRequests
  BY AudienceBounds DEF Pages!Asked, PagesNoted
<1>2. UNCHANGED requests => requests' \in 0..MaxRequests
  BY DEF PagesNoted
<1>3. UNCHANGED <<launches, crowdedPages, bereft, loose>> /\ requests' \in 0..MaxRequests
        => PagesNoted'
  BY DEF PagesNoted
<1>4. ASSUME NEW a \in Clients,
             \/ \E want \in Pages!Page : Pages!CreatePage(a, want)
             \/ \E k \in Pages!Kinds, p \in Pages!PageIds, place \in 0..MaxNumber :
                  Pages!CreateItem(a, k, p, place)
             \/ Pages!NumberPage(a) \/ Pages!InsertPage(a)
             \/ Pages!LoadPage(a) \/ Pages!SavePage(a)
             \/ Pages!ReadAbbreviation(a) \/ Pages!ReadNumber(a) \/ Pages!InsertItem(a)
             \/ Pages!Answer(a)
      PROVE  UNCHANGED <<launches, crowdedPages, bereft, loose>>
             /\ (Pages!Asked \/ UNCHANGED requests)
  <2>1. CASE \/ \E want \in Pages!Page : Pages!CreatePage(a, want)
             \/ \E k \in Pages!Kinds, p \in Pages!PageIds, place \in 0..MaxNumber :
                  Pages!CreateItem(a, k, p, place)
    BY <2>1 DEF Pages!CreatePage, Pages!CreateItem, Pages!tables, Pages!ghosts
  <2>2. CASE Pages!NumberPage(a) \/ Pages!LoadPage(a) \/ Pages!ReadAbbreviation(a)
             \/ Pages!ReadNumber(a) \/ Pages!Answer(a)
    BY <2>2 DEF Pages!NumberPage, Pages!LoadPage, Pages!ReadAbbreviation, Pages!ReadNumber,
                Pages!Answer, Pages!tables, Pages!ghosts
  <2>3. CASE Pages!InsertPage(a) \/ Pages!SavePage(a) \/ Pages!InsertItem(a)
    BY <2>3 DEF Pages!InsertPage, Pages!SavePage, Pages!InsertItem, Pages!ghosts
  <2> QED BY <1>4, <2>1, <2>2, <2>3
<1>5. ASSUME NEW a \in Clients, NEW p \in Pages!PageIds, NEW want, NEW own,
             Pages!UpdatePage(a, p, want, own)
      PROVE  PagesNoted'
  <2>1. /\ Pages!Asked /\ UNCHANGED <<launches, bereft>>
        /\ crowdedPages' = crowdedPages \/ crowdedPages' = crowdedPages \cup {p}
        /\ loose' = loose \/ loose' = loose \cup {p}
    BY <1>5 DEF Pages!UpdatePage, Pages!tables
  <2> QED BY <1>1, <2>1 DEF PagesNoted
<1>6. ASSUME NEW p \in Pages!PageIds,
             \/ Pages!RemovePage(p)
             \/ \E k \in Pages!Kinds, i \in Pages!Item : Pages!RemoveItem(k, p, i)
             \/ \E i \in Pages!Item, place \in Pages!Numbers : Pages!UpdateHeadline(p, i, place)
      PROVE  UNCHANGED <<launches, crowdedPages, bereft, loose>> /\ Pages!Asked
  BY <1>6 DEF Pages!RemovePage, Pages!RemoveItem, Pages!UpdateHeadline, Pages!ghosts
<1>7. ASSUME NEW s \in Seasons, NEW l \in Launches, Pages!MoveSeason(s, l) PROVE PagesNoted'
  BY <1>1, <1>7 DEF Pages!MoveSeason, PagesNoted
<1>8. ASSUME NEW l \in Launches, Pages!RemoveLaunch(l) PROVE PagesNoted'
  <2>1. /\ Pages!Asked /\ launches' = launches \ {l} /\ UNCHANGED <<crowdedPages, loose>>
        /\ bereft' = bereft \cup {p \in Pages!PageIds : Pages!Exists(page[p]) /\ page[p].launch = l}
    BY <1>8 DEF Pages!RemoveLaunch
  <2> QED BY <1>1, <2>1 DEF PagesNoted
<1>9. CASE \E a \in Clients :
       \/ \E want \in Pages!Page : want.number = 1 /\ Pages!CreatePage(a, want)
       \/ Pages!NumberPage(a) \/ Pages!InsertPage(a)
       \/ \E p \in Pages!PageIds, want \in Pages!Page, own \in BOOLEAN :
            Pages!UpdatePage(a, p, want, own)
       \/ Pages!LoadPage(a) \/ Pages!SavePage(a)
       \/ \E k \in Pages!Kinds, p \in Pages!PageIds, place \in 0..MaxNumber :
            Pages!CreateItem(a, k, p, place)
       \/ Pages!ReadAbbreviation(a) \/ Pages!ReadNumber(a) \/ Pages!InsertItem(a)
       \/ Pages!Answer(a)
  BY <1>1, <1>2, <1>3, <1>4, <1>5, <1>9
<1>10. CASE \E p \in Pages!PageIds :
       \/ Pages!RemovePage(p)
       \/ \E k \in Pages!Kinds, i \in Pages!Item : Pages!RemoveItem(k, p, i)
       \/ \E i \in Pages!Item, place \in Pages!Numbers : Pages!UpdateHeadline(p, i, place)
  BY <1>1, <1>3, <1>6, <1>10
<1> QED BY <1>7, <1>8, <1>9, <1>10 DEF Pages!Next

LEMMA PagesTypes == PagesInv /\ PagesBounded => Pages!TypeOK
<1> SUFFICES ASSUME PagesInv, PagesBounded PROVE Pages!TypeOK
  OBVIOUS
<1>1. PagesTyped /\ PagesNumbered(page, pages) /\ ActiveApart(page) /\ PagesNoted
  BY DEF PagesInv, PagesBounded
<1>2. \A p, q \in Pages!PageIds : page[p] # Absent /\ page[q] # Absent /\ p # q =>
        /\ page[p].number # page[q].number
        /\ page[p].active /\ page[q].active /\ page[p].launch # Absent
             => page[p].launch # page[q].launch
  BY <1>1 DEF PagesNumbered, ActiveApart
<1>3. pages \in 0..MaxPages
  BY <1>1 DEF PagesTyped
<1> QED BY <1>1, <1>2, <1>3, Zenon DEF Pages!TypeOK, PagesTyped, PagesNoted, PageRequest

-----------------------------------------------------------------------------
(* Questions: types *)

EntryKinds == {"question", "option", "link"}

\* A row under id r by the kind of each id, with n of them given out: an id is of one
\* kind for good, what it belongs to is the id of a question.
Fits(x, r, kinds, n) ==
  /\ x.kind = kinds[r]
  /\ x.kind # "question" => x.of \in 1..n /\ kinds[x.of] = "question"
EntriesFit(T, kinds, n) ==
  \A r \in Questioning!Rows : T[r] # Absent => r \in 1..n /\ Fits(T[r], r, kinds, n)
HandFits(t, kinds, n) ==
  /\ t.op = "save" => \A r \in DOMAIN t.want : Fits(t.want[r], r, kinds, n)
  /\ t.op \in {"place", "insert"} => t.want.of \in 1..n /\ kinds[t.want.of] = "question"
  /\ t.op = "idle" => t = Questioning!Idle
AllFit(T, U, K, n, kinds) ==
  /\ EntriesFit(T, kinds, n) /\ EntriesFit(U, kinds, n)
  /\ \A a \in Clients : HandFits(K[a], kinds, n)
KindsFit(T, U, K, n) == \E kinds \in [Questioning!Rows -> EntryKinds] : AllFit(T, U, K, n, kinds)

\* What an option or a link of the table T belongs to is there.
NoOrphan(T) ==
  \A r \in Questioning!Rows : T[r] # Absent /\ T[r].kind # "question" => T[T[r].of] # Absent

QuestionsFit ==
  /\ entered \in [Questioning!Rows -> EntryRow \cup {Absent}]
  /\ mingled \subseteq Questioning!Rows
  /\ NoOrphan(entry)
  /\ KindsFit(entry, entered, manager, entries)

LEMMA ApartFits ==
  ASSUME NEW t, NEW m, ManagerTyped(t, m), NEW kinds, NEW n, HandFits(t, kinds, n)
  PROVE  HandFits(Apart(t), kinds, n)
<1>1. CASE t.op \in {"place", "insert"}
  <2>1. t \in Questioning!Adding
    BY <1>1 DEF ManagerTyped
  <2>2. Apart(t).op = t.op /\ Apart(t).want = t.want
    BY <1>1, <2>1 DEF Apart, Questioning!Adding
  <2> QED BY <1>1, <2>2 DEF HandFits
<1>2. CASE t.op \notin {"place", "insert"}
  BY <1>2 DEF Apart
<1> QED BY <1>1, <1>2

LEMMA IdleFits == \A kinds, n : HandFits(Questioning!Idle, kinds, n)
BY DEF HandFits, Questioning!Idle

\* One that goes on to what fits leaves the others fitting.
LEMMA HandsFitAfter ==
  ASSUME QuestionsInv, NEW a, NEW t, NEW linkSaved, Questioning!Do(a, t, linkSaved),
         NEW kinds, NEW n, \A b \in Clients : HandFits(manager[b], kinds, n),
         HandFits(t, kinds, n)
  PROVE  \A b \in Clients : HandFits(manager'[b], kinds, n)
<1>1. \A b \in Clients : manager'[b] = IF b = a THEN t
                         ELSE IF linkSaved THEN Apart(manager[b]) ELSE manager[b]
  BY ManagersAfter
<1>2. \A b \in Clients : ManagerTyped(manager[b], entries)
  BY ManagerKnown
<1> QED BY <1>1, <1>2, ApartFits

\* As more ids are given out, and their kinds are known, what fitted fits.
LEMMA FitsLater ==
  ASSUME NEW m \in Nat, NEW n \in Nat, m <= n, NEW kinds, NEW more,
         \A r \in 1..m : more[r] = kinds[r]
  PROVE  /\ \A x, r : r \in 1..m /\ Fits(x, r, kinds, m) => Fits(x, r, more, n)
         /\ \A t : ManagerTyped(t, m) /\ HandFits(t, kinds, m) => HandFits(t, more, n)
<1>1. 1..m \subseteq 1..n
  OBVIOUS
<1>2. ASSUME NEW x, NEW r \in 1..m, Fits(x, r, kinds, m) PROVE Fits(x, r, more, n)
  BY <1>1, <1>2 DEF Fits
<1>3. ASSUME NEW t, ManagerTyped(t, m), HandFits(t, kinds, m) PROVE HandFits(t, more, n)
  <2>1. t.op = "save" => \A r \in DOMAIN t.want : Fits(t.want[r], r, more, n)
    BY <1>2, <1>3 DEF HandFits, ManagerTyped, SaverTyped
  <2> QED BY <1>1, <1>3, <2>1 DEF HandFits
<1> QED BY <1>2, <1>3

\* A row of a kind known before, or of an id that is new.
LEMMA InsertedFits ==
  ASSUME QuestionsInv, QuestionsFit, NEW new \in EntryRow, Questioning!Insert(new),
         new.kind # "question" =>
           new.of \in Questioning!Rows /\ entry[new.of] # Absent /\ entry[new.of].kind = "question",
         mingled' \subseteq Questioning!Rows,
         \A kinds, n : (\A b \in Clients : HandFits(manager[b], kinds, n)) =>
                       \A b \in Clients : HandFits(manager'[b], kinds, n)
  PROVE  QuestionsFit'
<1> DEFINE e == entries + 1
<1>1. /\ e \in Questioning!Rows /\ entries' = e /\ entries \in Nat /\ entries <= e /\ e \in Nat
      /\ entry[e] = Absent /\ entry'[e] = new /\ entered'[e] = new
      /\ \A r \in Questioning!Rows \ {e} : entry'[r] = entry[r] /\ entered'[r] = entered[r]
  BY InsertedRow, EntryTable
<1>2. entered' \in [Questioning!Rows -> EntryRow \cup {Absent}]
  BY <1>1 DEF Questioning!Insert, QuestionsFit
<1>3. PICK kinds \in [Questioning!Rows -> EntryKinds] :
        AllFit(entry, entered, manager, entries, kinds)
  BY DEF QuestionsFit, KindsFit
<1> DEFINE more == [kinds EXCEPT ![e] = new.kind]
<1>4. new.kind \in EntryKinds /\ new # Absent
  BY RowIs DEF EntryKinds
<1>5. /\ more \in [Questioning!Rows -> EntryKinds] /\ more[e] = new.kind
      /\ \A r \in Questioning!Rows \ {e} : more[r] = kinds[r]
  BY <1>1, <1>4
<1> HIDE DEF more
<1>6. \A r \in 1..entries : r \in Questioning!Rows \ {e} /\ more[r] = kinds[r]
  BY <1>1, <1>5, EntryFacts
<1>7. \A r \in Questioning!Rows : entry[r] # Absent => r \in 1..entries
  BY <1>3 DEF AllFit, EntriesFit
<1>8. Fits(new, e, more, e)
  <2>1. ASSUME new.kind # "question" PROVE new.of \in 1..e /\ more[new.of] = "question"
    <3>1. new.of \in 1..entries /\ kinds[new.of] = "question"
      BY <1>3, <1>7, <2>1 DEF AllFit, EntriesFit, Fits
    <3> QED BY <1>1, <1>6, <3>1
  <2> QED BY <1>5, <2>1 DEF Fits
<1>11. \A x, r : r \in 1..entries /\ Fits(x, r, kinds, entries) => Fits(x, r, more, e)
  BY <1>1, <1>6, FitsLater
<1>9. ASSUME NEW T, NEW V, EntriesFit(T, kinds, entries), V[e] = new,
             \A r \in Questioning!Rows \ {e} : V[r] = T[r]
      PROVE  EntriesFit(V, more, e)
  <2>1. ASSUME NEW r \in Questioning!Rows \ {e}, V[r] # Absent
        PROVE  r \in 1..e /\ Fits(V[r], r, more, e)
    <3>1. r \in 1..entries /\ Fits(T[r], r, kinds, entries) /\ V[r] = T[r]
      BY <1>9, <2>1 DEF EntriesFit
    <3>2. r \in 1..e
      BY <1>1, <3>1
    <3> QED BY <1>11, <3>1, <3>2
  <2>2. e \in 1..e
    BY <1>1
  <2> QED BY <1>1, <1>8, <1>9, <2>1, <2>2 DEF EntriesFit
<1>10. EntriesFit(entry', more, e)
  BY <1>1, <1>3, <1>9 DEF AllFit
<1>12. EntriesFit(entered', more, e)
  BY <1>1, <1>3, <1>9 DEF AllFit
<1>13. \A b \in Clients : HandFits(manager'[b], more, e)
  <2>1. \A b \in Clients : ManagerTyped(manager[b], entries) /\ HandFits(manager[b], kinds, entries)
    BY <1>3, ManagerKnown DEF AllFit
  <2>2. \A b \in Clients : HandFits(manager[b], more, e)
    BY <1>1, <1>6, <2>1, FitsLater
  <2> QED BY <2>2
<1>14. KindsFit(entry', entered', manager', entries')
  BY <1>1, <1>5, <1>10, <1>12, <1>13 DEF KindsFit, AllFit
<1>15. NoOrphan(entry')
  <2>1. ASSUME NEW r \in Questioning!Rows, entry'[r] # Absent, entry'[r].kind # "question"
        PROVE  entry'[entry'[r].of] # Absent
    <3>1. CASE r = e
      BY <1>1, <2>1, <3>1
    <3>2. CASE r # e
      <4>1. entry'[r] = entry[r] /\ entry[entry[r].of] # Absent
        BY <1>1, <2>1, <3>2 DEF QuestionsFit, NoOrphan
      <4>2. entry[r].of \in 1..entries
        BY <1>3, <2>1, <4>1 DEF AllFit, EntriesFit, Fits
      <4> QED BY <1>1, <1>6, <4>1, <4>2
    <3> QED BY <3>1, <3>2
  <2> QED BY <2>1 DEF NoOrphan
<1> QED BY <1>2, <1>14, <1>15 DEF QuestionsFit

LEMMA ReadFits ==
  ASSUME QuestionsInv, QuestionsFit, NEW a \in Clients, NEW want, NEW fields,
         Questioning!Read(a, want, fields), DOMAIN want \subseteq Questioning!Rows,
         \A r \in DOMAIN want :
           entry[r] # Absent /\ want[r].kind = entry[r].kind /\ want[r].of = entry[r].of
  PROVE  QuestionsFit'
<1> DEFINE t == [op |-> "save", want |-> want, fields |-> fields]
<1>1. /\ Questioning!Do(a, t, FALSE) /\ UNCHANGED <<entry, entries, entered, appended>>
      /\ mingled' = mingled \cup (DOMAIN want \cap Questioning!Held(a))
  BY DEF Questioning!Read
<1>2. t.op = "save" /\ t.want = want
  OBVIOUS
<1> HIDE DEF t
<1>3. PICK kinds \in [Questioning!Rows -> EntryKinds] :
        AllFit(entry, entered, manager, entries, kinds)
  BY DEF QuestionsFit, KindsFit
<1>4. HandFits(t, kinds, entries)
  <2>1. \A r \in DOMAIN want : Fits(want[r], r, kinds, entries)
    BY <1>3 DEF AllFit, EntriesFit, Fits
  <2> QED BY <1>2, <2>1 DEF HandFits
<1>5. \A b \in Clients : HandFits(manager'[b], kinds, entries)
  BY <1>1, <1>3, <1>4, HandsFitAfter DEF AllFit
<1>6. KindsFit(entry', entered', manager', entries')
  BY <1>1, <1>3, <1>5 DEF KindsFit, AllFit
<1> QED BY <1>1, <1>6 DEF QuestionsFit

LEMMA ChangedSame ==
  ASSUME NEW r, entry[r] \in EntryRow, NEW fields, NEW place, NEW mark
  PROVE  /\ Questioning!Changed(r, fields, place, mark).kind = entry[r].kind
         /\ Questioning!Changed(r, fields, place, mark).of = entry[r].of
<1> DEFINE x == entry[r]
           pl == IF "place" \in fields THEN place ELSE x.place
           mk == IF "mark" \in fields THEN mark ELSE x.mark
           new == [x EXCEPT !.place = pl, !.mark = mk]
<1>1. Questioning!Changed(r, fields, place, mark) = new
  BY DEF Questioning!Changed
<1>2. x = [f \in EntryFields |-> x[f]]
  BY RowIs
<1> HIDE DEF x, pl, mk
<1>3. new.kind = x.kind /\ new.of = x.of
  BY <1>2 DEF EntryFields
<1> QED BY <1>1, <1>3 DEF x

\* A row, or the rows of S, changed in memory.
LEMMA ReadChangedFits ==
  ASSUME QuestionsInv, QuestionsFit, NEW a \in Clients, NEW S \in SUBSET Questioning!Rows,
         NEW fields, NEW place, NEW mark, \A r \in S : entry[r] # Absent,
         Questioning!Read(a, [r \in S |-> Questioning!Changed(r, fields, place[r], mark)], fields)
  PROVE  QuestionsFit'
<1> DEFINE want == [r \in S |-> Questioning!Changed(r, fields, place[r], mark)]
<1>1. DOMAIN want = S /\ \A r \in S : want[r] = Questioning!Changed(r, fields, place[r], mark)
  OBVIOUS
<1>2. \A r \in S : entry[r] \in EntryRow
  BY EntryTable
<1>3. \A r \in DOMAIN want :
        entry[r] # Absent /\ want[r].kind = entry[r].kind /\ want[r].of = entry[r].of
  BY <1>1, <1>2, ChangedSame
<1>4. Questioning!Read(a, want, fields)
  OBVIOUS
<1> HIDE DEF want
<1> QED BY <1>1, <1>3, <1>4, ReadFits

LEMMA ReadOneFits ==
  ASSUME QuestionsInv, QuestionsFit, NEW a \in Clients, NEW q \in Questioning!Rows,
         NEW fields, NEW place, NEW mark, entry[q] # Absent,
         Questioning!Read(a, [r \in {q} |-> Questioning!Changed(r, fields, place, mark)], fields)
  PROVE  QuestionsFit'
<1> DEFINE want == [r \in {q} |-> Questioning!Changed(r, fields, place, mark)]
<1>1. DOMAIN want = {q} /\ want[q] = Questioning!Changed(q, fields, place, mark)
  OBVIOUS
<1>2. entry[q] \in EntryRow
  BY EntryTable
<1>3. \A r \in DOMAIN want :
        entry[r] # Absent /\ want[r].kind = entry[r].kind /\ want[r].of = entry[r].of
  BY <1>1, <1>2, ChangedSame
<1>4. Questioning!Read(a, want, fields)
  OBVIOUS
<1> HIDE DEF want
<1> QED BY <1>1, <1>3, <1>4, ReadFits

\* Of what belongs to what is gone nothing is left, the rest belongs to questions.
LEMMA RemoveRowFits ==
  ASSUME QuestionsInv, QuestionsFit, NEW a \in Clients, NEW r \in Questioning!Rows,
         Questioning!RemoveRow(a, r)
  PROVE  QuestionsFit'
<1> DEFINE gone == {r} \cup {s \in Questioning!Rows : Questioning!Under(s, r)}
<1>1. /\ entry' = [s \in Questioning!Rows |-> IF s \in gone THEN Absent ELSE entry[s]]
      /\ entered' = [s \in Questioning!Rows |-> IF s \in gone THEN Absent ELSE entered[s]]
      /\ mingled' = mingled \cup (gone \cap Questioning!Held(a))
      /\ UNCHANGED <<entries, manager>>
  BY DEF Questioning!RemoveRow
<1>2. gone \subseteq Questioning!Rows
  OBVIOUS
<1>3. \A s \in gone \ {r} : entry[s] # Absent /\ entry[s].kind # "question"
  BY DEF Questioning!Under, Questioning!Exists
<1>4. \A s \in Questioning!Rows \ gone : entry[s] # Absent /\ entry[s].kind # "question"
                                           => entry[s].of # r
  BY DEF Questioning!Under, Questioning!Exists
<1> HIDE DEF gone
<1>5. PICK kinds \in [Questioning!Rows -> EntryKinds] :
        AllFit(entry, entered, manager, entries, kinds)
  BY DEF QuestionsFit, KindsFit
<1>6. EntriesFit(entry', kinds, entries) /\ EntriesFit(entered', kinds, entries)
  BY <1>1, <1>5 DEF AllFit, EntriesFit
<1>7. KindsFit(entry', entered', manager', entries')
  BY <1>1, <1>5, <1>6 DEF KindsFit, AllFit
<1>8. NoOrphan(entry')
  <2>1. ASSUME NEW s \in Questioning!Rows, entry'[s] # Absent, entry'[s].kind # "question"
        PROVE  entry'[entry'[s].of] # Absent
    <3>1. s \notin gone /\ entry'[s] = entry[s]
      BY <1>1, <2>1
    <3>2. entry[s].of # r /\ entry[entry[s].of] # Absent
      BY <1>4, <2>1, <3>1 DEF QuestionsFit, NoOrphan
    <3>3. entry[s].of \in 1..entries /\ kinds[entry[s].of] = "question"
      BY <1>5, <2>1, <3>1 DEF AllFit, EntriesFit, Fits
    <3>4. entry[s].of \in Questioning!Rows
      BY <3>3, EntryTable, EntryFacts
    <3>5. entry[s].of \notin gone
      BY <1>3, <1>5, <3>2, <3>3, <3>4 DEF AllFit, EntriesFit, Fits
    <3> QED BY <1>1, <3>1, <3>2, <3>4, <3>5
  <2> QED BY <2>1 DEF NoOrphan
<1>9. entered' \in [Questioning!Rows -> EntryRow \cup {Absent}]
  BY <1>1 DEF QuestionsFit
<1> QED BY <1>1, <1>2, <1>7, <1>8, <1>9 DEF QuestionsFit

\* What is saved belongs to what is there.
LEMMA SaveRowsFit ==
  ASSUME QuestionsInv, QuestionsFit, NEW a \in Clients, Questioning!SaveRows(a)
  PROVE  QuestionsFit'
<1> DEFINE u == manager[a]
           W == DOMAIN u.want
           done == Questioning!Orphans(u.want) = {}
           after(r) == IF entered[r] = Absent THEN u.want[r]
                       ELSE [f \in DOMAIN u.want[r] |->
                               IF f \in u.fields THEN u.want[r][f] ELSE entered[r][f]]
           linkSaved == done /\ \E r \in W : u.want[r].kind = "link"
<1>1. /\ u.op = "save"
      /\ entry' = [r \in Questioning!Rows |-> IF done /\ r \in W THEN u.want[r] ELSE entry[r]]
      /\ entered' = [r \in Questioning!Rows |-> IF done /\ r \in W THEN after(r) ELSE entered[r]]
      /\ Questioning!Do(a, Questioning!Idle, linkSaved)
      /\ entries' = entries /\ mingled' = mingled
  BY DEF Questioning!SaveRows
<1>2. /\ W \subseteq 1..entries /\ u.fields \subseteq {"place", "mark"}
      /\ \A r \in W : u.want[r] \in EntryRow
  BY <1>1, ManagerKnown DEF ManagerTyped, SaverTyped
<1>3. PICK kinds \in [Questioning!Rows -> EntryKinds] :
        AllFit(entry, entered, manager, entries, kinds)
  BY DEF QuestionsFit, KindsFit
<1>4. \A r \in W : Fits(u.want[r], r, kinds, entries)
  BY <1>1, <1>3 DEF AllFit, HandFits
<1>5. W \subseteq Questioning!Rows
  BY <1>2, EntryTable, EntryFacts
<1>6. \A r \in W : after(r) \in EntryRow /\ Fits(after(r), r, kinds, entries)
  <2>1. ASSUME NEW r \in W, entered[r] # Absent
        PROVE  after(r) \in EntryRow /\ Fits(after(r), r, kinds, entries)
    <3> DEFINE x == u.want[r]
               y == entered[r]
               z == [f \in EntryFields |-> IF f \in u.fields THEN x[f] ELSE y[f]]
    <3>1. x \in EntryRow /\ y \in EntryRow
      BY <1>2, <1>5, <2>1 DEF QuestionsFit
    <3>2. after(r) = z
      BY <2>1, <3>1, RowIs
    <3>3. Fits(x, r, kinds, entries) /\ Fits(y, r, kinds, entries)
      BY <1>3, <1>4, <1>5, <2>1 DEF AllFit, EntriesFit
    <3> HIDE DEF x, y
    <3>4. x.kind = y.kind
      BY <3>3 DEF Fits
    <3>5. /\ z.kind = y.kind /\ z.of = y.of /\ z.place \in {x.place, y.place}
          /\ z.mark \in {x.mark, y.mark} /\ z = [f \in EntryFields |-> z[f]]
      BY <1>2 DEF EntryFields
    <3> HIDE DEF z
    <3>6. z \in EntryRow
      <4>0. z = [kind |-> z.kind, of |-> z.of, place |-> z.place, mark |-> z.mark]
        BY <3>5 DEF EntryFields
      <4>1. CASE y.kind = "question"
        <5>1. x \in Questioning!Question /\ y \in Questioning!Question
          BY <3>1, <3>4, <4>1, RowIs
        <5>2. z.kind \in {"question"} /\ z.of \in Forms /\ z.place \in {0} /\ z.mark \in BOOLEAN
          BY <3>5, <5>1 DEF Questioning!Question
        <5>3. z \in Questioning!Question
          BY <4>0, <5>2 DEF Questioning!Question
        <5> QED BY <5>3 DEF EntryRow, Questioning!Row
      <4>2. CASE y.kind = "option"
        <5>1. x \in Questioning!Option /\ y \in Questioning!Option
          BY <3>1, <3>4, <4>2, RowIs
        <5>2. /\ z.kind \in {"option"} /\ z.of \in Questioning!Rows
              /\ z.place \in Questioning!Places /\ z.mark \in BOOLEAN
          BY <3>5, <5>1 DEF Questioning!Option
        <5>3. z \in Questioning!Option
          BY <4>0, <5>2 DEF Questioning!Option
        <5> QED BY <5>3 DEF EntryRow, Questioning!Row
      <4>3. CASE y.kind = "link"
        <5>1. x \in Questioning!Link /\ y \in Questioning!Link
          BY <3>1, <3>4, <4>3, RowIs
        <5>2. /\ z.kind \in {"link"} /\ z.of \in Questioning!Rows
              /\ z.place \in Questioning!Places /\ z.mark \in BOOLEAN
          BY <3>5, <5>1 DEF Questioning!Link
        <5>3. z \in Questioning!Link
          BY <4>0, <5>2 DEF Questioning!Link
        <5> QED BY <5>3 DEF EntryRow, Questioning!Row
      <4> QED BY <3>1, <4>1, <4>2, <4>3, RowIs
    <3>7. Fits(z, r, kinds, entries)
      BY <3>3, <3>5 DEF Fits
    <3> QED BY <3>2, <3>6, <3>7
  <2>2. ASSUME NEW r \in W, entered[r] = Absent
        PROVE  after(r) \in EntryRow /\ Fits(after(r), r, kinds, entries)
    BY <1>2, <1>4, <2>2
  <2> QED BY <2>1, <2>2
<1>7. done => \A r \in W : u.want[r].kind # "question" => entry[u.want[r].of] # Absent
  BY DEF Questioning!Orphans, Questioning!Exists
<1>8. \A b \in Clients : HandFits(manager'[b], kinds, entries)
  BY <1>1, <1>3, IdleFits, HandsFitAfter DEF AllFit
<1>9. \A r \in Questioning!Rows : entry'[r] = IF done /\ r \in W THEN u.want[r] ELSE entry[r]
  BY <1>1
<1>10. \A r \in Questioning!Rows : entered'[r] = IF done /\ r \in W THEN after(r) ELSE entered[r]
  BY <1>1
<1>11. entered' \in [Questioning!Rows -> EntryRow \cup {Absent}]
  BY <1>1, <1>6 DEF QuestionsFit
<1> HIDE DEF u, W, done, after, linkSaved
<1>12. EntriesFit(entry', kinds, entries)
  BY <1>2, <1>3, <1>4, <1>9 DEF AllFit, EntriesFit
<1>13. EntriesFit(entered', kinds, entries)
  BY <1>2, <1>3, <1>6, <1>10 DEF AllFit, EntriesFit
<1>14. KindsFit(entry', entered', manager', entries')
  BY <1>1, <1>3, <1>8, <1>12, <1>13 DEF KindsFit, AllFit
<1>15. NoOrphan(entry')
  <2>1. ASSUME NEW r \in Questioning!Rows, entry'[r] # Absent, entry'[r].kind # "question"
        PROVE  entry'[entry'[r].of] # Absent
    <3>1. entry'[r].of \in Questioning!Rows
      BY <1>12, <2>1, EntryTable, EntryFacts DEF EntriesFit, Fits
    <3>2. entry[entry'[r].of] # Absent
      BY <1>7, <1>9, <2>1 DEF QuestionsFit, NoOrphan
    <3>3. \A s \in W : u.want[s] # Absent
      BY <1>2, RowIs
    <3> QED BY <1>9, <3>1, <3>2, <3>3
  <2> QED BY <2>1 DEF NoOrphan
<1> QED BY <1>1, <1>11, <1>14, <1>15 DEF QuestionsFit

\* A request that goes on to t, and changes nothing else.
LEMMA HandGoesOnFits ==
  ASSUME QuestionsInv, QuestionsFit, NEW a \in Clients, NEW t, Questioning!Do(a, t, FALSE),
         UNCHANGED <<entry, entries, entered, mingled>>,
         \A kinds : AllFit(entry, entered, manager, entries, kinds) => HandFits(t, kinds, entries)
  PROVE  QuestionsFit'
<1>1. PICK kinds \in [Questioning!Rows -> EntryKinds] :
        AllFit(entry, entered, manager, entries, kinds)
  BY DEF QuestionsFit, KindsFit
<1>2. \A b \in Clients : HandFits(manager'[b], kinds, entries)
  BY <1>1, HandsFitAfter DEF AllFit
<1>3. KindsFit(entry', entered', manager', entries')
  BY <1>1, <1>2 DEF KindsFit, AllFit
<1> QED BY <1>3 DEF QuestionsFit

LEMMA AddFits ==
  ASSUME QuestionsInv, QuestionsFit, NEW a \in Clients, NEW q \in Questioning!Rows, NEW place,
         NEW mark, NEW last, Questioning!AddFormVersionQuestion(a, q, place, mark, last)
  PROVE  QuestionsFit'
<1> DEFINE want == [kind |-> "link", of |-> q, place |-> place, mark |-> mark]
           t == [op |-> IF last THEN "place" ELSE "insert", alone |-> TRUE, last |-> last,
                 want |-> want]
<1>1. /\ entry[q] # Absent /\ entry[q].kind = "question"
      /\ Questioning!Do(a, t, FALSE) /\ UNCHANGED <<entry, entries, entered, mingled>>
  BY DEF Questioning!AddFormVersionQuestion, Questioning!Is, Questioning!Exists
<1>2. t.op \in {"place", "insert"} /\ t.want.of = q
  OBVIOUS
<1> HIDE DEF t
<1>3. ASSUME NEW kinds, AllFit(entry, entered, manager, entries, kinds)
      PROVE  HandFits(t, kinds, entries)
  <2>1. q \in 1..entries /\ kinds[q] = "question"
    BY <1>1, <1>3 DEF AllFit, EntriesFit, Fits
  <2> QED BY <1>2, <2>1 DEF HandFits
<1> QED BY <1>1, <1>3, HandGoesOnFits

LEMMA FindPlaceFits ==
  ASSUME QuestionsInv, QuestionsFit, NEW a \in Clients, Questioning!FindPlace(a)
  PROVE  QuestionsFit'
<1> DEFINE n == Questioning!NextFormVersionQuestionOrder
           t == [manager[a] EXCEPT !.op = "insert", !.want.place = n]
<1>1. /\ manager[a].op = "place" /\ Questioning!Do(a, t, FALSE)
      /\ UNCHANGED <<entry, entries, entered, mingled>>
  BY DEF Questioning!FindPlace
<1>2. manager[a] \in Questioning!Adding
  BY <1>1, ManagerKnown
<1> HIDE DEF n
<1>3. t.op = "insert" /\ t.want.of = manager[a].want.of
  BY <1>2 DEF Questioning!Adding, Questioning!Link
<1> HIDE DEF t
<1>4. ASSUME NEW kinds, AllFit(entry, entered, manager, entries, kinds)
      PROVE  HandFits(t, kinds, entries)
  BY <1>1, <1>3, <1>4 DEF AllFit, HandFits
<1> QED BY <1>1, <1>4, HandGoesOnFits

LEMMA InsertLinkFits ==
  ASSUME QuestionsInv, QuestionsFit, NEW a \in Clients, Questioning!InsertLink(a)
  PROVE  QuestionsFit'
<1> DEFINE t == manager[a]
           e == entries + 1
<1>1. t.op = "insert" /\ t \in Questioning!Adding
  BY ManagerKnown DEF Questioning!InsertLink
<1>2. CASE entry[t.want.of] = Absent
  <2>1. Questioning!Do(a, Questioning!Idle, FALSE) /\ UNCHANGED <<entry, entries, entered, mingled>>
    BY <1>2 DEF Questioning!InsertLink, Questioning!Exists
  <2> QED BY <2>1, IdleFits, HandGoesOnFits
<1>3. CASE entry[t.want.of] # Absent
  <2>1. /\ Questioning!Insert(t.want) /\ Questioning!Do(a, Questioning!Idle, TRUE)
        /\ mingled' = IF t.alone THEN mingled ELSE mingled \cup {e}
    BY <1>3 DEF Questioning!InsertLink, Questioning!Exists
  <2>2. t.want \in EntryRow
    BY <1>1 DEF Questioning!Adding, EntryRow, Questioning!Row
  <2>3. e \in Questioning!Rows
    BY <2>1, <2>2, InsertedRow
  <2>4. mingled' \subseteq Questioning!Rows
    BY <2>1, <2>3 DEF QuestionsFit
  <2>5. t.want.of \in Questioning!Rows /\ entry[t.want.of].kind = "question"
    <3>1. PICK kinds \in [Questioning!Rows -> EntryKinds] :
            AllFit(entry, entered, manager, entries, kinds)
      BY DEF QuestionsFit, KindsFit
    <3>2. t.want.of \in 1..entries /\ kinds[t.want.of] = "question"
      BY <1>1, <3>1 DEF AllFit, HandFits
    <3>3. t.want.of \in Questioning!Rows
      BY <3>2, EntryTable, EntryFacts
    <3> QED BY <1>3, <3>1, <3>2, <3>3 DEF AllFit, EntriesFit, Fits
  <2>6. \A kinds, n : (\A b \in Clients : HandFits(manager[b], kinds, n)) =>
                      \A b \in Clients : HandFits(manager'[b], kinds, n)
    BY <2>1, IdleFits, HandsFitAfter
  <2> HIDE DEF t, e
  <2> QED BY <1>3, <2>1, <2>2, <2>4, <2>5, <2>6, InsertedFits
<1> QED BY <1>2, <1>3

LEMMA CreateFits ==
  ASSUME QuestionsInv, QuestionsFit,
         \/ \E f \in Forms : Questioning!CreateQuestion(f)
         \/ \E q \in Questioning!Rows, place \in Questioning!Places :
              Questioning!CreateQuestionOption(q, place)
  PROVE  QuestionsFit'
<1>1. ASSUME NEW f \in Forms, Questioning!CreateQuestion(f) PROVE QuestionsFit'
  <2> DEFINE new == [kind |-> "question", of |-> f, place |-> 0, mark |-> FALSE]
  <2>1. Questioning!Insert(new) /\ UNCHANGED <<manager, appended, mingled>>
    BY <1>1 DEF Questioning!CreateQuestion
  <2>2. new \in EntryRow /\ new.kind = "question"
    BY DEF EntryRow, Questioning!Row, Questioning!Question
  <2> HIDE DEF new
  <2>3. mingled' \subseteq Questioning!Rows
    BY <2>1 DEF QuestionsFit
  <2> QED BY <2>1, <2>2, <2>3, InsertedFits
<1>2. ASSUME NEW q \in Questioning!Rows, NEW place \in Questioning!Places,
             Questioning!CreateQuestionOption(q, place)
      PROVE  QuestionsFit'
  <2> DEFINE new == [kind |-> "option", of |-> q, place |-> place, mark |-> FALSE]
  <2>1. /\ Questioning!Insert(new) /\ UNCHANGED <<manager, appended, mingled>>
        /\ entry[q] # Absent /\ entry[q].kind = "question"
    BY <1>2 DEF Questioning!CreateQuestionOption, Questioning!Is, Questioning!Exists
  <2>2. new \in EntryRow /\ new.of = q
    BY DEF EntryRow, Questioning!Row, Questioning!Option
  <2> HIDE DEF new
  <2>3. mingled' \subseteq Questioning!Rows
    BY <2>1 DEF QuestionsFit
  <2> QED BY <2>1, <2>2, <2>3, InsertedFits
<1> QED BY <1>1, <1>2

LEMMA UpdateFits ==
  ASSUME QuestionsInv, QuestionsFit, NEW a \in Clients, NEW r \in Questioning!Rows,
         NEW fields, NEW place, NEW mark,
         \/ Questioning!UpdateQuestion(a, r, mark)
         \/ Questioning!UpdateQuestionOption(a, r, fields, place, mark)
         \/ Questioning!UpdateFormVersionQuestion(a, r, fields, place, mark)
  PROVE  QuestionsFit'
<1>1. CASE Questioning!UpdateQuestion(a, r, mark)
  BY <1>1, ReadOneFits DEF Questioning!UpdateQuestion, Questioning!Is, Questioning!Exists
<1>2. CASE Questioning!UpdateQuestionOption(a, r, fields, place, mark)
  BY <1>2, ReadOneFits DEF Questioning!UpdateQuestionOption, Questioning!Is, Questioning!Exists
<1>3. CASE Questioning!UpdateFormVersionQuestion(a, r, fields, place, mark)
  BY <1>3, ReadOneFits DEF Questioning!UpdateFormVersionQuestion, Questioning!Is, Questioning!Exists
<1> QED BY <1>1, <1>2, <1>3

LEMMA ReorderFits ==
  ASSUME QuestionsInv, QuestionsFit, NEW a \in Clients, NEW S \in SUBSET Questioning!Links,
         NEW place \in [S -> Questioning!Places], NEW fields, NEW mark,
         Questioning!ReorderFormVersionQuestions(a, place, fields, mark)
  PROVE  QuestionsFit'
<1>1. /\ DOMAIN place = S
      /\ Questioning!Read(a, [r \in DOMAIN place |->
            Questioning!Changed(r, fields, place[r], mark)], fields)
  BY DEF Questioning!ReorderFormVersionQuestions
<1>2. Questioning!Read(a, [r \in S |-> Questioning!Changed(r, fields, place[r], mark)], fields)
  BY <1>1
<1>3. S \in SUBSET Questioning!Rows /\ \A r \in S : entry[r] # Absent
  BY DEF Questioning!Links, Questioning!Is, Questioning!Exists
<1> QED BY <1>2, <1>3, ReadChangedFits

QuestionsBounded == QuestionsFit /\ requests \in 0..MoreRequests

LEMMA QuestionsStayBounded ==
  ASSUME QuestionsInv, QuestionsBounded, Questioning!Next
  PROVE  QuestionsBounded'
<1>1. PICK a \in Clients : \/ Questioning!Request(a) \/ Questioning!SaveRows(a)
                           \/ Questioning!FindPlace(a) \/ Questioning!InsertLink(a)
  BY DEF Questioning!Next
<1>2. requests' \in 0..MoreRequests
  <2>1. requests' = requests \/ (requests < MoreRequests /\ requests' = requests + 1)
    BY <1>1 DEF Questioning!Request, Questioning!SaveRows, Questioning!FindPlace,
                Questioning!InsertLink
  <2> QED BY <2>1, AudienceBounds DEF QuestionsBounded
<1>3. QuestionsFit
  BY DEF QuestionsBounded
<1>4. CASE Questioning!SaveRows(a) \/ Questioning!FindPlace(a) \/ Questioning!InsertLink(a)
  BY <1>2, <1>3, <1>4, SaveRowsFit, FindPlaceFits, InsertLinkFits DEF QuestionsBounded
<1>5. CASE Questioning!Request(a)
  <2>1. \/ \E f \in Forms : Questioning!CreateQuestion(f)
        \/ \E q \in Questioning!Rows, place \in Questioning!Places :
             Questioning!CreateQuestionOption(q, place)
        \/ \E q \in Questioning!Rows, mark \in BOOLEAN : Questioning!UpdateQuestion(a, q, mark)
        \/ \E r \in Questioning!Rows, fields \in SUBSET Questioning!Fields,
              place \in Questioning!Places, mark \in BOOLEAN :
             \/ Questioning!UpdateQuestionOption(a, r, fields, place, mark)
             \/ Questioning!UpdateFormVersionQuestion(a, r, fields, place, mark)
        \/ \E S \in SUBSET Questioning!Links, fields \in SUBSET Questioning!Fields,
              mark \in BOOLEAN : \E place \in [S -> Questioning!Places] :
             Questioning!ReorderFormVersionQuestions(a, place, fields, mark)
        \/ \E r \in Questioning!Rows : Questioning!RemoveRow(a, r)
        \/ \E q \in Questioning!Rows, place \in Questioning!Places, mark, last \in BOOLEAN :
             Questioning!AddFormVersionQuestion(a, q, place, mark, last)
    BY <1>5 DEF Questioning!Request
  <2>2. QuestionsFit'
    BY <1>3, <2>1, CreateFits, UpdateFits, ReorderFits, RemoveRowFits, AddFits
  <2> QED BY <1>2, <2>2 DEF QuestionsBounded
<1> QED BY <1>1, <1>4, <1>5

LEMMA QuestionsBoundedFirst == Questioning!Init => QuestionsBounded
<1> SUFFICES ASSUME Questioning!Init PROVE QuestionsBounded
  OBVIOUS
<1> DEFINE question == [kind |-> "question", of |-> Questioning!Own, place |-> 0, mark |-> FALSE]
           link == [kind |-> "link", of |-> 1, place |-> 1, mark |-> FALSE]
           kinds == [r \in Questioning!Rows |-> IF r = 3 THEN "link" ELSE "question"]
<1>1. /\ entry = [r \in Questioning!Rows |-> CASE r \in 1..2 -> question [] r = 3 -> link
                                               [] OTHER -> Absent]
      /\ entries = 3 /\ manager = [a \in Clients |-> Questioning!Idle] /\ requests = 0
      /\ entered = entry /\ mingled = {}
  BY DEF Questioning!Init
<1>2. entry \in [Questioning!Rows -> EntryRow \cup {Absent}]
  BY QuestionsBegin DEF QuestionsInv, QuestionsTyped
<1>3. \A r \in 1..3 : r \in Questioning!Rows
  BY EntryFacts
<1>4. \A r \in Questioning!Rows : entry[r] = IF r \in {1, 2} THEN question
                                  ELSE IF r = 3 THEN link ELSE Absent
  <2> TAKE r \in Questioning!Rows
  <2>1. r \in 1..2 <=> r \in {1, 2}
    BY EntryFacts
  <2> QED BY <1>1, <2>1
<1>5. question.kind = "question" /\ link.kind = "link" /\ link.of = 1
  OBVIOUS
<1> HIDE DEF question, link
<1>6. entry[1] = question /\ question # Absent
  <2>1. question \in EntryRow
    BY <1>2, <1>3, <1>4, AddressConstants DEF question, EntryRow, Questioning!Row, Questioning!Question,
       Questioning!Own
  <2> QED BY <1>3, <1>4, <2>1, EntryFacts
<1>7. kinds \in [Questioning!Rows -> EntryKinds] /\ \A r \in Questioning!Rows : kinds[r] = IF r = 3 THEN "link" ELSE "question"
  BY DEF EntryKinds
<1> HIDE DEF kinds
<1>8. EntriesFit(entry, kinds, 3)
  <2> SUFFICES ASSUME NEW r \in Questioning!Rows, entry[r] # Absent
               PROVE  r \in 1..3 /\ Fits(entry[r], r, kinds, 3)
    BY DEF EntriesFit
  <2>1. r \in {1, 2, 3}
    BY <1>4
  <2>2. 1 \in 1..3 /\ kinds[1] = "question"
    BY <1>3, <1>7
  <2> QED BY <1>4, <1>5, <1>7, <2>1, <2>2 DEF Fits
<1>9. KindsFit(entry, entered, manager, entries)
  BY <1>1, <1>7, <1>8, IdleFits DEF KindsFit, AllFit
<1>10. NoOrphan(entry)
  BY <1>3, <1>4, <1>5, <1>6 DEF NoOrphan
<1> QED BY <1>1, <1>2, <1>9, <1>10, AudienceBounds DEF QuestionsBounded, QuestionsFit

LEMMA QuestionsTypes == QuestionsInv /\ QuestionsBounded => Questioning!TypeOK
<1> SUFFICES ASSUME QuestionsInv, QuestionsBounded PROVE Questioning!TypeOK
  OBVIOUS
<1>1. PICK kinds \in [Questioning!Rows -> EntryKinds] :
        AllFit(entry, entered, manager, entries, kinds)
  BY DEF QuestionsBounded, QuestionsFit, KindsFit
<1>2. 1..entries \subseteq Questioning!Rows
  BY EntryTable, EntryFacts
<1>3. ASSUME NEW a \in Clients
      PROVE  \/ manager[a] = Questioning!Idle \/ manager[a] \in Questioning!Adding
             \/ /\ manager[a].op = "save" /\ DOMAIN manager[a].want \subseteq Questioning!Rows
                /\ \A r \in DOMAIN manager[a].want : manager[a].want[r] \in Questioning!Row
  <2>1. ManagerTyped(manager[a], entries)
    BY ManagerKnown
  <2>2. manager[a].op = "idle" => manager[a] = Questioning!Idle
    BY <1>1 DEF AllFit, HandFits
  <2> QED BY <1>2, <2>1, <2>2 DEF ManagerTyped, SaverTyped, EntryRow
<1>4. ASSUME NEW r \in Questioning!Rows, entry[r] \in Questioning!Option \cup Questioning!Link
      PROVE  entry[entry[r].of] \in Questioning!Question
  <2>1. entry[r] \in EntryRow /\ entry[r].kind # "question"
    BY <1>4 DEF EntryRow, Questioning!Row, Questioning!Option, Questioning!Link
  <2>2. entry[r] # Absent
    BY <2>1, RowIs
  <2>3. entry[r].of \in 1..entries /\ kinds[entry[r].of] = "question"
    BY <1>1, <2>1, <2>2 DEF AllFit, EntriesFit, Fits
  <2>4. entry[entry[r].of] # Absent
    BY <2>1, <2>2 DEF QuestionsBounded, QuestionsFit, NoOrphan
  <2>5. entry[entry[r].of] \in EntryRow /\ entry[entry[r].of].kind = "question"
    BY <1>1, <1>2, <2>3, <2>4, EntryTable DEF AllFit, EntriesFit, Fits
  <2> QED BY <2>5, RowIs
<1> QED BY <1>2, <1>3, <1>4, EntryTable
        DEF Questioning!TypeOK, QuestionsBounded, QuestionsFit, EntryRow

-----------------------------------------------------------------------------
(* Every part has its types *)

LEMMA FeedBoundsKept ==
  (part = "feed" => FeedInv /\ FeedBounded) /\ [Next]_vars
    => (part' = "feed" => FeedInv' /\ FeedBounded')
<1> SUFFICES ASSUME part = "feed", FeedInv, FeedBounded, [Next]_vars
             PROVE  FeedInv' /\ FeedBounded'
  BY DEF Next, Step, vars
<1>1. FeedInv'
  <2>1. part' = "feed"
    BY DEF Next, Step, vars
  <2> QED BY <2>1, FeedKept
<1>2. CASE Feed!Next
  BY <1>1, <1>2, FeedStaysBounded
<1>3. CASE UNCHANGED feedVars
  BY <1>1, <1>3 DEF feedVars, FeedBounded
<1> QED BY <1>2, <1>3 DEF Next, Step, vars

LEMMA ReportsBoundsKept ==
  (part = "reports" => ReportsInv /\ ReportsBounded) /\ [Next]_vars
    => (part' = "reports" => ReportsInv' /\ ReportsBounded')
<1> SUFFICES ASSUME part = "reports", ReportsInv, ReportsBounded, [Next]_vars
             PROVE  ReportsInv' /\ ReportsBounded'
  BY DEF Next, Step, vars
<1>1. ReportsInv'
  <2>1. part' = "reports"
    BY DEF Next, Step, vars
  <2> QED BY <2>1, ReportsKept
<1>2. CASE Reports!Next
  BY <1>1, <1>2, ReportsStayBounded
<1>3. CASE UNCHANGED reportVars
  BY <1>1, <1>3 DEF reportVars, ReportsBounded, OwnLatest
<1> QED BY <1>2, <1>3 DEF Next, Step, vars

LEMMA VotingBoundsKept ==
  (part = "voting" => VotingInv /\ VotingBounded) /\ [Next]_vars
    => (part' = "voting" => VotingInv' /\ VotingBounded')
<1> SUFFICES ASSUME part = "voting", VotingInv, VotingBounded, [Next]_vars
             PROVE  VotingInv' /\ VotingBounded'
  BY DEF Next, Step, vars
<1>1. VotingInv'
  <2>1. part' = "voting"
    BY DEF Next, Step, vars
  <2> QED BY <2>1, VotingKept
<1>2. CASE Voting!Next
  BY <1>1, <1>2, VotingStaysBounded
<1>3. CASE UNCHANGED <<requests, votingVars>>
  BY <1>1, <1>3 DEF votingVars, VotingBounded, VotersApart
<1> QED BY <1>2, <1>3 DEF Next, Step, vars

LEMMA PagesBoundsKept ==
  (part = "pages" => PagesInv /\ PagesBounded) /\ [Next]_vars
    => (part' = "pages" => PagesInv' /\ PagesBounded')
<1> SUFFICES ASSUME part = "pages", PagesInv, PagesBounded, [Next]_vars
             PROVE  PagesInv' /\ PagesBounded'
  BY DEF Next, Step, vars
<1>1. PagesInv'
  <2>1. part' = "pages"
    BY DEF Next, Step, vars
  <2> QED BY <2>1, PagesKept
<1>2. CASE Pages!Next
  BY <1>1, <1>2, PagesStayApart, PagesStayNoted DEF PagesBounded, ActiveApart
<1>3. CASE UNCHANGED <<requests, pageVars>>
  BY <1>1, <1>3 DEF pageVars, PagesBounded, PagesNoted, ActiveApart
<1> QED BY <1>2, <1>3 DEF Next, Step, vars

LEMMA QuestionsBoundsKept ==
  (part = "questions" => QuestionsInv /\ QuestionsBounded) /\ [Next]_vars
    => (part' = "questions" => QuestionsInv' /\ QuestionsBounded')
<1> SUFFICES ASSUME part = "questions", QuestionsInv, QuestionsBounded, [Next]_vars
             PROVE  QuestionsInv' /\ QuestionsBounded'
  BY DEF Next, Step, vars
<1>1. QuestionsInv'
  <2>1. part' = "questions"
    BY DEF Next, Step, vars
  <2> QED BY <2>1, QuestionsKept
<1>2. CASE Questioning!Next
  BY <1>1, <1>2, QuestionsStayBounded
<1>3. CASE UNCHANGED <<requests, questionVars>>
  <2>1. UNCHANGED <<requests, entered, mingled, entry, manager, entries>>
    BY <1>3 DEF questionVars
  <2>2. KindsFit(entry, entered, manager, entries)' = KindsFit(entry, entered, manager, entries)
    BY <2>1
  <2> QED BY <1>1, <2>1, <2>2 DEF QuestionsBounded, QuestionsFit, NoOrphan
<1> QED BY <1>2, <1>3 DEF Next, Step, vars

\* The invariants of the forms hold whatever part runs, the requests are theirs if they do.
FormingInv == FormsInv /\ Homes /\ CardsInv /\ (part = "forms" => FormsBounded)

LEMMA FormingKept == FormingInv /\ [Next]_vars => FormingInv'
<1> SUFFICES ASSUME FormingInv, [Next]_vars PROVE FormingInv'
  OBVIOUS
<1>1. FormsInv' /\ AtHomeStep /\ Homes' /\ CardsInv'
  BY FormsKept, StepLoses, HomesKept, CardsKept DEF FormingInv
<1>2. ASSUME part' = "forms" PROVE FormsBounded'
  <2>1. part = "forms" /\ FormsBounded
    BY <1>2 DEF Next, Step, vars, FormingInv
  <2>2. CASE Forming!Next
    BY <1>1, <2>1, <2>2, FormsStayBounded DEF FormingInv
  <2>3. CASE UNCHANGED <<requests, formVars>>
    <3>1. UNCHANGED <<requests, forms, child, children, linked, answered, batches, tx,
                      contended, scoring>>
      BY <2>3 DEF formVars
    <3>2. FormsWhole'
      BY <2>1, <3>1, WholeStays DEF FormsBounded
    <3>3. Levels'
      BY <1>1, <2>1, <3>1, LevelsStay DEF FormsBounded, FormingInv
    <3>4. FormsNoted' /\ VersionsRead'
      BY <2>1, <3>1 DEF FormsBounded, FormsNoted, VersionsRead
    <3> QED BY <3>2, <3>3, <3>4 DEF FormsBounded
  <2> QED BY <2>1, <2>2, <2>3 DEF Next, Step, vars
<1> QED BY <1>1, <1>2 DEF FormingInv

\* All parts within their bounds, each where it runs.
AudienceBounded ==
  /\ FormingInv
  /\ part = "questions" => QuestionsInv /\ QuestionsBounded
  /\ part = "voting" => VotingInv /\ VotingBounded
  /\ part = "pages" => PagesInv /\ PagesBounded
  /\ part = "feed" => FeedInv /\ FeedBounded
  /\ part = "reports" => ReportsInv /\ ReportsBounded

\* Every part keeps its types and bounds, and what goes with them: no version outlives its
\* form, no score its version and no content either; no option or link outlives its
\* question; no two voters share an e-mail or a phone; no two active pages share a
\* launch or two pages a number; and the latest response of a capture is its own.
THEOREM AudienceTypes == Spec => []TypeOK
<1>1. Init => part \in Parts /\ AudienceBounded
  <2> SUFFICES ASSUME Init PROVE part \in Parts /\ AudienceBounded
    OBVIOUS
  <2>1. part \in Parts /\ FormsBounded /\ CardsInv
    BY CardsBegin, FormsBoundedFirst DEF Init
  <2>2. FormsInv /\ Homes
    BY HomesBegin
  <2>3. /\ FeedInv /\ FeedBounded /\ ReportsInv /\ ReportsBounded /\ VotingInv /\ VotingBounded
        /\ PagesInv /\ PagesBounded /\ QuestionsInv /\ QuestionsBounded
    BY FeedBegins, FeedBoundedFirst, ReportsBegin, ReportsBoundedFirst, VotingBegins,
       VotingBoundedFirst, PagesBegin, PagesBoundedFirst, QuestionsBegin, QuestionsBoundedFirst
       DEF Init
  <2> QED BY <2>1, <2>2, <2>3 DEF AudienceBounded, FormingInv
<1>2. AudienceBounded /\ [Next]_vars => AudienceBounded'
  BY FormingKept, QuestionsBoundsKept, VotingBoundsKept, PagesBoundsKept, FeedBoundsKept,
     ReportsBoundsKept DEF AudienceBounded
<1>3. part \in Parts /\ [Next]_vars => (part \in Parts)'
  BY DEF Next, Step, vars, Parts
<1>4. part \in Parts /\ AudienceBounded => TypeOK
  BY FormsTypes, QuestionsTypes, VotingTypes, PagesTypes, FeedTypes, ReportsTypes
     DEF AudienceBounded, FormingInv, TypeOK
<1> QED BY <1>1, <1>2, <1>3, <1>4, PTL DEF Spec
=============================================================================
