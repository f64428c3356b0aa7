------------------------- MODULE FormManagement_proofs -------------------------
(***************************************************************************)
(* Proofs about the forms, with any number of forms, rows, administrators, *)
(* consumers and requests: of what an owner has one child is active and    *)
(* one batch is stored, unless two transactions met at it, an active child *)
(* is lost for a reason, a score goes by one card, and no row outlives     *)
(* what it belongs to.                                                     *)
(***************************************************************************)
EXTENDS Audience, FunctionTheorems, FiniteSetTheorems, TLAPS

-----------------------------------------------------------------------------
(* The inductive invariant *)

Ids == Forming!Ids
Known == usedForms \cup 1..children
Transactions ==
  Forming!CreateTx \cup Forming!EditTx \cup Forming!ReplaceTx \cup Forming!CloneTx

FormsTyped ==
  /\ child \in [Ids -> Forming!Row \cup {Absent}]
  /\ children \in 0..MaxChildren
  /\ usedForms \subseteq EditedForms /\ forms \subseteq usedForms
  /\ DOMAIN batches = Forming!Parts
  /\ \A p \in Forming!Parts : batches[p] \in [Ids -> SUBSET Forming!Batches[p]]
  /\ tx \in [Clients -> Transactions \cup {Absent}]

\* Rows have ids given out, and so have their owners.
RowsKnown ==
  /\ \A r \in Ids : child[r] # Absent => r <= children /\ child[r].owner \in Known
  /\ \A p \in Forming!Parts, r \in Ids : batches[p][r] # {} => r <= children

\* A transaction is on rows known; what it replaces is one batch by one.
TxKnown(t) ==
  /\ t.owner \in Known
  /\ t.op \in {"read", "edit"} => t.id \in Known
  /\ t.op = "replace" => /\ t.new \subseteq Forming!Batches[t.part]
                         /\ \A b, c \in t.new : b = c
TxsKnown == \A a \in Clients : tx[a] # Absent => TxKnown(tx[a])

\* The statement of a transaction that will make a child active saw those
\* that are; a copy into a version finds none.
Sees(t, active) ==
  /\ t.op \in {"create", "edit"} /\ t.flag => active \subseteq t.seen
  /\ t.op = "clone" => IF t.fresh THEN t.flag => active \subseteq t.seen
                                  ELSE active = {}

OneActive(o) ==
  /\ \A r, s \in Forming!Active(o) : r = s
  /\ \A a \in Clients : tx[a] # Absent /\ tx[a].owner = o => Sees(tx[a], Forming!Active(o))

\* Likewise the statement that deletes a batch saw what there is.
OneBatch(s, p) ==
  /\ \A b, c \in batches[p][s] : b = c
  /\ \A a \in Clients :
       tx[a] # Absent /\ tx[a].op = "replace" /\ tx[a].owner = s /\ tx[a].part = p =>
         batches[p][s] \subseteq tx[a].seen

FormsOrdered == FormsTyped /\ RowsKnown /\ TxsKnown
ActiveKept == \A o \in Forming!OwnerIds \ contended : OneActive(o)
BatchesKept == \A s \in Ids \ contended, p \in Forming!Parts : OneBatch(s, p)
FormsInv == FormsOrdered /\ ActiveKept /\ BatchesKept

-----------------------------------------------------------------------------
(* The operators of the model *)

LEMMA FormSets ==
  /\ Ids = 1..MaxChildren /\ MaxChildren \in Nat /\ MaxChildren >= 3
  /\ Forming!OwnerIds = EditedForms \cup Ids /\ EditedForms \cap Ids = {}
  /\ Absent \notin Forming!Row
  /\ Forming!Parts = {"option", "range", "tier"}
  /\ \A p \in Forming!Parts :
       Forming!Batches[p] \subseteq DOMAIN Options \cup DOMAIN Ranges \cup DOMAIN Tiers
  /\ Forming!Batches["option"] = DOMAIN Options /\ Forming!Batches["range"] = DOMAIN Ranges
  /\ Forming!Batches["tier"] = DOMAIN Tiers
BY FormConstants DEF Ids, Forming!Ids, Forming!OwnerIds, Forming!Parts, Forming!Batches

\* What a step may do to the active children of owners and to the batches.
LEMMA ActiveKeeps ==
  ASSUME ActiveKept, contended \subseteq contended',
         \A b \in Clients : tx'[b] \in {tx[b], Absent},
         \A o \in Forming!OwnerIds \ contended' :
           \/ Forming!Active(o)' \subseteq Forming!Active(o)
           \/ /\ \A r, s \in Forming!Active(o)' : r = s
              /\ \A b \in Clients : tx'[b] # Absent /\ tx'[b].owner = o => tx'[b].op = "read"
  PROVE  ActiveKept'
<1> SUFFICES ASSUME NEW o \in Forming!OwnerIds \ contended'
             PROVE  OneActive(o)'
  BY DEF ActiveKept, Forming!OwnerIds
<1>1. o \in Forming!OwnerIds \ contended /\ OneActive(o)
  BY DEF ActiveKept
<1>2. CASE Forming!Active(o)' \subseteq Forming!Active(o)
  BY <1>1, <1>2 DEF OneActive, Sees
<1>3. CASE /\ \A r, s \in Forming!Active(o)' : r = s
           /\ \A b \in Clients : tx'[b] # Absent /\ tx'[b].owner = o => tx'[b].op = "read"
  BY <1>3 DEF OneActive, Sees
<1> QED BY <1>2, <1>3

LEMMA BatchesKeep ==
  ASSUME BatchesKept, contended \subseteq contended',
         \A b \in Clients : tx'[b] \in {tx[b], Absent},
         \A s \in Ids \ contended', p \in Forming!Parts :
           \/ batches'[p][s] \subseteq batches[p][s]
           \/ /\ \A b, c \in batches'[p][s] : b = c
              /\ \A b \in Clients :
                   tx'[b] # Absent /\ tx'[b].owner = s => tx'[b].op # "replace"
  PROVE  BatchesKept'
<1> SUFFICES ASSUME NEW s \in Ids \ contended', NEW p \in Forming!Parts
             PROVE  OneBatch(s, p)'
  BY DEF BatchesKept, Ids
<1>1. OneBatch(s, p)
  BY DEF BatchesKept
<1>2. CASE batches'[p][s] \subseteq batches[p][s]
  BY <1>1, <1>2 DEF OneBatch
<1>3. CASE /\ \A b, c \in batches'[p][s] : b = c
           /\ \A b \in Clients : tx'[b] # Absent /\ tx'[b].owner = s => tx'[b].op # "replace"
  BY <1>3 DEF OneBatch
<1> QED BY <1>2, <1>3

-----------------------------------------------------------------------------
(* Steps that change no row *)

\* Nothing changes, but forms may come and go.
LEMMA FormsSame ==
  ASSUME FormsInv, usedForms \subseteq usedForms', usedForms' \subseteq EditedForms,
         forms' \subseteq usedForms', UNCHANGED <<child, children, batches, tx, contended>>
  PROVE  FormsInv'
<1> USE DEF FormsInv, FormsOrdered
<1>1. FormsTyped'
  BY DEF FormsTyped
<1>2. RowsKnown' /\ TxsKnown'
  BY DEF RowsKnown, TxsKnown, TxKnown, Known
<1>3. ActiveKept'
  BY DEF ActiveKept, OneActive, Forming!Active, Forming!Children, Forming!Exists
<1>4. BatchesKept'
  BY DEF BatchesKept, OneBatch
<1> QED BY <1>1, <1>2, <1>3, <1>4

\* A transaction begins, or makes its statement.
LEMMA BeginKeeps ==
  ASSUME FormsInv, NEW a \in Clients, NEW t \in Transactions, Forming!Start(a, t),
         TxKnown(t),
         t.owner \notin contended => Sees(t, Forming!Active(t.owner)),
         t.op = "replace" => t.seen = batches[t.part][t.owner],
         UNCHANGED <<forms, usedForms, child, children, batches, contended>>
  PROVE  FormsInv'
<1> USE DEF FormsInv, FormsOrdered
<1>1. /\ tx' \in [Clients -> Transactions \cup {Absent}] /\ tx'[a] = t
      /\ \A b \in Clients \ {a} : tx'[b] = tx[b]
  BY DEF Forming!Start, FormsTyped
<1>2. FormsTyped'
  BY <1>1 DEF FormsTyped
<1>3. RowsKnown'
  BY DEF RowsKnown, Known
<1>4. TxsKnown'
  BY <1>1 DEF TxsKnown, TxKnown, Known
<1>5. \A o : Forming!Active(o)' = Forming!Active(o)
  BY DEF Forming!Active, Forming!Children, Forming!Exists
<1>6. ASSUME NEW o \in Forming!OwnerIds \ contended PROVE OneActive(o)'
  <2>1. OneActive(o)
    BY DEF ActiveKept
  <2>2. ASSUME NEW b \in Clients, tx'[b] # Absent, tx'[b].owner = o
        PROVE  Sees(tx'[b], Forming!Active(o))
    BY <1>1, <2>1, <2>2 DEF OneActive
  <2> QED BY <1>5, <2>1, <2>2 DEF OneActive, Sees
<1>7. BatchesKept'
  BY <1>1 DEF BatchesKept, OneBatch
<1> QED BY <1>2, <1>3, <1>4, <1>5, <1>6, <1>7 DEF ActiveKept, Forming!OwnerIds

\* Rows and what they hold are removed.
LEMMA DeleteKeeps ==
  ASSUME FormsInv, NEW gone, Forming!Delete(gone), forms' \subseteq forms,
         UNCHANGED <<usedForms, children, tx, contended>>
  PROVE  FormsInv'
<1> USE DEF FormsInv, FormsOrdered
<1>1. PICK all : /\ child' = [r \in Ids |-> IF r \in all THEN Absent ELSE child[r]]
                 /\ batches' = [p \in Forming!Parts |->
                      [r \in Ids |-> IF r \in all THEN {} ELSE batches[p][r]]]
  BY DEF Forming!Delete, Ids
<1>2. FormsTyped'
  BY <1>1 DEF FormsTyped
<1>3. RowsKnown' /\ TxsKnown'
  BY <1>1 DEF RowsKnown, TxsKnown, TxKnown, Known
<1>4. \A o : Forming!Active(o)' \subseteq Forming!Active(o)
  BY <1>1 DEF Forming!Active, Forming!Children, Forming!Exists, Ids
<1>5. ActiveKept'
  BY <1>4, ActiveKeeps
<1>6. BatchesKept'
  BY <1>1, BatchesKeep
<1> QED BY <1>2, <1>3, <1>5, <1>6

LEMMA CreateFormKeeps ==
  ASSUME FormsInv, NEW a \in Clients, NEW f \in EditedForms, Forming!CreateForm(a, f)
  PROVE  FormsInv'
BY FormsSame DEF Forming!CreateForm, Forming!Unwatched, FormsInv, FormsOrdered, FormsTyped

LEMMA RemovalsKeep ==
  ASSUME FormsInv, NEW a \in Clients,
         \/ \E f \in EditedForms : Forming!RemoveForm(a, f)
         \/ \E r \in Ids : Forming!RemoveVersion(a, r) \/ Forming!RemoveScore(a, r)
  PROVE  FormsInv'
<1>1. ASSUME NEW f \in EditedForms, Forming!RemoveForm(a, f) PROVE FormsInv'
  BY <1>1, DeleteKeeps DEF Forming!RemoveForm
<1>2. ASSUME NEW r \in Ids, Forming!RemoveRow(a, r) PROVE FormsInv'
  BY <1>2, DeleteKeeps DEF Forming!RemoveRow
<1> QED BY <1>1, <1>2 DEF Forming!RemoveVersion, Forming!RemoveScore

LEMMA LinksKeep ==
  ASSUME FormsInv, NEW a \in Clients,
         \E v \in Ids : Forming!LinkQuestion(a, v) \/ Forming!UnlinkQuestion(a, v)
  PROVE  FormsInv'
BY FormsSame DEF Forming!LinkQuestion, Forming!UnlinkQuestion, Forming!Unwatched,
   FormsInv, FormsOrdered, FormsTyped

LEMMA ScoringKeeps ==
  ASSUME FormsInv, NEW w \in Scorers, Forming!Score(w)
  PROVE  FormsInv'
<1>1. UNCHANGED <<forms, usedForms, child, children, batches, tx, contended>>
  BY DEF Forming!Score, Forming!ScoreBegin, Forming!ScorePick, Forming!ScoreOption,
     Forming!ScoreRange, Forming!ScoreTier, Forming!ScoreSave, Forming!Step
<1> QED BY <1>1, FormsSame DEF FormsInv, FormsOrdered, FormsTyped

-----------------------------------------------------------------------------
(* Transactions begin *)

LEMMA ChildrenTyped ==
  ASSUME NEW o
  PROVE  /\ Forming!Children(o) \in SUBSET Forming!Ids
         /\ Forming!Active(o) \subseteq Forming!Children(o)
BY DEF Forming!Active, Forming!Children

LEMMA KnownTyped ==
  ASSUME FormsInv, NEW r \in Ids, child[r] # Absent
  PROVE  /\ child[r] \in Forming!Row /\ child[r].owner \in Forming!OwnerIds
         /\ child[r].active \in BOOLEAN
         /\ r \in Known /\ child[r].owner \in Known
<1>1. child[r] \in Forming!Row /\ r <= children /\ child[r].owner \in Known /\ r \in 1..MaxChildren
  BY FormSets DEF FormsInv, FormsOrdered, FormsTyped, RowsKnown
<1> QED BY <1>1 DEF Forming!Row, Known, FormsInv, FormsOrdered, FormsTyped

LEMMA CreateBeginKeeps ==
  ASSUME FormsInv, NEW a \in Clients, NEW o \in Known \cap Forming!OwnerIds, NEW flag \in BOOLEAN,
         Forming!CreateBegin(a, o, flag)
  PROVE  FormsInv'
<1> DEFINE t == [op |-> "create", owner |-> o, flag |-> flag,
                 seen |-> IF flag THEN Forming!Children(o) ELSE {}]
<1>1. t \in Transactions /\ t.op = "create" /\ t.owner = o
  BY ChildrenTyped DEF Transactions, Forming!CreateTx
<1>2. TxKnown(t)
  BY DEF TxKnown
<1>3. Sees(t, Forming!Active(t.owner))
  BY ChildrenTyped DEF Sees
<1>4. Forming!Start(a, t) /\ UNCHANGED <<forms, usedForms, child, children, batches, contended>>
  BY DEF Forming!CreateBegin, Forming!Unwatched
<1> HIDE DEF t
<1> QED BY <1>1, <1>2, <1>3, <1>4, BeginKeeps

LEMMA CreationsBegin ==
  ASSUME FormsInv, NEW a \in Clients, NEW o \in EditedForms \cup Ids, NEW flag \in BOOLEAN,
         Forming!CreateVersion(a, o, flag) \/ Forming!CreateScore(a, o, flag)
  PROVE  FormsInv'
<1>1. CASE Forming!CreateVersion(a, o, flag)
  <2>1. o \in Known \cap Forming!OwnerIds
    BY <1>1, FormSets DEF Forming!CreateVersion, FormsInv, FormsOrdered, FormsTyped, Known
  <2> QED BY <1>1, <2>1, CreateBeginKeeps DEF Forming!CreateVersion
<1>2. CASE Forming!CreateScore(a, o, flag)
  <2>1. o \in Ids /\ child[o] # Absent
    BY <1>2 DEF Forming!CreateScore, Forming!Versions, Forming!Exists, Ids
  <2>2. o \in Known \cap Forming!OwnerIds
    BY <2>1, KnownTyped, FormSets
  <2> QED BY <1>2, <2>2, CreateBeginKeeps DEF Forming!CreateScore
<1> QED BY <1>1, <1>2

LEMMA EditReadKeeps ==
  ASSUME FormsInv, NEW a \in Clients, NEW r \in Ids, child[r] # Absent,
         NEW asked \in BOOLEAN, NEW flag \in BOOLEAN, Forming!EditRead(a, r, asked, flag)
  PROVE  FormsInv'
<1> DEFINE t == [op |-> "read", id |-> r, owner |-> child[r].owner, flag |-> flag,
                 asked |-> asked, seen |-> {}]
<1>1. t \in Transactions /\ t.op = "read" /\ t.owner = child[r].owner /\ t.id = r
  BY KnownTyped DEF Transactions, Forming!EditTx, Ids
<1>2. TxKnown(t)
  BY KnownTyped DEF TxKnown
<1>3. Sees(t, Forming!Active(t.owner))
  BY DEF Sees
<1>4. Forming!Start(a, t) /\ UNCHANGED <<forms, usedForms, child, children, batches, contended>>
  BY DEF Forming!EditRead, Forming!Unwatched
<1> HIDE DEF t
<1> QED BY <1>1, <1>2, <1>3, <1>4, BeginKeeps

LEMMA EditsBegin ==
  ASSUME FormsInv, NEW a \in Clients, NEW r \in Ids,
         \/ \E off \in BOOLEAN : Forming!UpdateVersion(a, r, off) \/ Forming!UpdateScore(a, r, off)
         \/ Forming!ActivateVersion(a, r) \/ Forming!ActivateScore(a, r)
  PROVE  FormsInv'
<1>1. child[r] # Absent
  BY DEF Forming!UpdateVersion, Forming!UpdateScore, Forming!ActivateVersion,
     Forming!ActivateScore, Forming!Versions, Forming!Scores, Forming!Exists
<1>2. \E asked \in BOOLEAN, flag \in BOOLEAN : Forming!EditRead(a, r, asked, flag)
  <2>1. child[r].active \in BOOLEAN
    BY <1>1, KnownTyped
  <2>2. ASSUME NEW off \in BOOLEAN PROVE (~off /\ child[r].active) \in BOOLEAN
    BY <2>1
  <2> QED BY <2>2 DEF Forming!UpdateVersion, Forming!UpdateScore, Forming!ActivateVersion,
             Forming!ActivateScore
<1> QED BY <1>1, <1>2, EditReadKeeps

LEMMA EditBeginKeeps ==
  ASSUME FormsInv, NEW a \in Clients, Forming!EditBegin(a)
  PROVE  FormsInv'
<1> DEFINE t == [tx[a] EXCEPT !.op = "edit", !.seen = Forming!SeenBy(tx[a])]
<1>1. tx[a] \in Transactions /\ tx[a] # Absent /\ tx[a].op = "read"
  BY DEF Forming!EditBegin, Forming!In, FormsInv, FormsOrdered, FormsTyped
<1>2. tx[a] \in Forming!EditTx
  BY <1>1 DEF Transactions, Forming!CreateTx, Forming!ReplaceTx, Forming!CloneTx
<1>3. Forming!SeenBy(tx[a]) \in SUBSET Forming!Ids
  BY ChildrenTyped DEF Forming!SeenBy
<1>4. /\ t \in Forming!EditTx /\ t.op = "edit" /\ t.owner = tx[a].owner /\ t.flag = tx[a].flag
      /\ t.id = tx[a].id /\ t.seen = Forming!SeenBy(tx[a])
  BY <1>2, <1>3 DEF Forming!EditTx
<1>5. TxKnown(t)
  BY <1>1, <1>4 DEF TxKnown, TxsKnown, FormsInv, FormsOrdered
<1>6. Sees(t, Forming!Active(t.owner))
  BY <1>4, ChildrenTyped DEF Sees, Forming!SeenBy
<1>7. Forming!Start(a, t) /\ UNCHANGED <<forms, usedForms, child, children, batches, contended>>
  BY DEF Forming!EditBegin, Forming!Unwatched
<1>8. t \in Transactions
  BY <1>4 DEF Transactions
<1> HIDE DEF t
<1> QED BY <1>4, <1>5, <1>6, <1>7, <1>8, BeginKeeps

\* A batch of one row at most.
LEMMA OneOrNone ==
  ASSUME NEW S, NEW n \in SUBSET S, IsFiniteSet(S), Forming!Cardinality(n) <= 1
  PROVE  \A b, c \in n : b = c
<1>1. IsFiniteSet(n) /\ Cardinality(n) \in Nat
  BY FS_Subset, FS_CardinalityType
<1>2. Cardinality(n) <= 1
  BY DEF Forming!Cardinality, Cardinality
<1> SUFFICES ASSUME NEW b \in n, NEW c \in n, b # c PROVE FALSE
  OBVIOUS
<1>3. IsFiniteSet(n \ {b}) /\ Cardinality(n \ {b}) = Cardinality(n) - 1
  BY <1>1, FS_RemoveElement
<1>4. Cardinality(n \ {b}) = 0
  BY <1>1, <1>2, <1>3, FS_CardinalityType
<1> QED BY <1>3, <1>4, FS_EmptySet

LEMMA ReplaceBeginKeeps ==
  ASSUME FormsInv, NEW a \in Clients, NEW s \in Ids, NEW kind \in Forming!Parts,
         NEW n \in SUBSET Forming!Batches[kind], \A b, c \in n : b = c,
         Forming!ReplaceBegin(a, s, kind, n)
  PROVE  FormsInv'
<1> DEFINE t == [op |-> "replace", owner |-> s, part |-> kind, new |-> n,
                 seen |-> batches[kind][s]]
<1>1. child[s] # Absent
  BY DEF Forming!ReplaceBegin, Forming!Scores, Forming!Exists
<1>2. batches[kind][s] \in SUBSET (DOMAIN Options \cup DOMAIN Ranges \cup DOMAIN Tiers)
  <2>1. batches[kind][s] \in SUBSET Forming!Batches[kind]
    BY DEF FormsInv, FormsOrdered, FormsTyped
  <2> QED BY <2>1, FormSets
<1>3. t \in Transactions /\ t.op = "replace" /\ t.owner = s /\ t.new = n /\ t.part = kind
      /\ t.seen = batches[t.part][t.owner]
  BY <1>2, FormSets DEF Transactions, Forming!ReplaceTx, Ids
<1>4. TxKnown(t)
  BY <1>1, <1>3, KnownTyped DEF TxKnown
<1>5. Sees(t, Forming!Active(t.owner))
  BY DEF Sees
<1>6. Forming!Start(a, t) /\ UNCHANGED <<forms, usedForms, child, children, batches, contended>>
  BY DEF Forming!ReplaceBegin, Forming!Unwatched
<1> HIDE DEF t
<1> QED BY <1>3, <1>4, <1>5, <1>6, BeginKeeps

LEMMA ReplacementsBegin ==
  ASSUME FormsInv, NEW a \in Clients, NEW s \in Ids,
         \/ \E n \in SUBSET DOMAIN Options :
              Forming!Cardinality(n) <= 1 /\ Forming!ReplaceOptionPoints(a, s, n)
         \/ \E n \in SUBSET DOMAIN Ranges :
              Forming!Cardinality(n) <= 1 /\ Forming!ReplaceRangePoints(a, s, n)
         \/ \E n \in SUBSET DOMAIN Tiers :
              Forming!Cardinality(n) <= 1 /\ Forming!ReplaceTierRules(a, s, n)
  PROVE  FormsInv'
<1>1. ASSUME NEW n \in SUBSET DOMAIN Options, Forming!Cardinality(n) <= 1,
             Forming!ReplaceOptionPoints(a, s, n)
      PROVE  FormsInv'
  BY <1>1, OneOrNone, FormConstants, FormSets, ReplaceBeginKeeps DEF Forming!ReplaceOptionPoints
<1>2. ASSUME NEW n \in SUBSET DOMAIN Ranges, Forming!Cardinality(n) <= 1,
             Forming!ReplaceRangePoints(a, s, n)
      PROVE  FormsInv'
  BY <1>2, OneOrNone, FormConstants, FormSets, ReplaceBeginKeeps DEF Forming!ReplaceRangePoints
<1>3. ASSUME NEW n \in SUBSET DOMAIN Tiers, Forming!Cardinality(n) <= 1,
             Forming!ReplaceTierRules(a, s, n)
      PROVE  FormsInv'
  BY <1>3, OneOrNone, FormConstants, FormSets, ReplaceBeginKeeps DEF Forming!ReplaceTierRules
<1> QED BY <1>1, <1>2, <1>3

LEMMA CloneBeginKeeps ==
  ASSUME FormsInv, NEW a \in Clients, NEW source \in Ids, NEW target \in Ids,
         Forming!CloneBegin(a, source, target)
  PROVE  FormsInv'
<1> DEFINE fresh == target \in linked \cup answered \/ Forming!Children(target) # {}
           owner == IF fresh THEN child[target].owner ELSE target
           flag == child[target].active
           t == [op |-> "clone", owner |-> owner, source |-> source, fresh |-> fresh,
                 flag |-> flag, seen |-> IF fresh /\ flag THEN Forming!Children(owner) ELSE {}]
<1>1. child[target] # Absent
  BY DEF Forming!CloneBegin, Forming!Versions, Forming!Exists
<1>2. owner \in Known \cap Forming!OwnerIds /\ flag \in BOOLEAN /\ fresh \in BOOLEAN
  BY <1>1, KnownTyped, FormSets
<1>3. (IF fresh /\ flag THEN Forming!Children(owner) ELSE {}) \in SUBSET Forming!Ids
  BY ChildrenTyped
<1>4. Forming!Start(a, t) /\ UNCHANGED <<forms, usedForms, child, children, batches, contended>>
  BY DEF Forming!CloneBegin, Forming!Unwatched
<1>5. ~fresh => Forming!Active(owner) = {}
  BY ChildrenTyped
<1> HIDE DEF fresh, owner, flag
<1>6. t \in Transactions /\ t.op = "clone" /\ t.owner = owner
  BY <1>2, <1>3 DEF Transactions, Forming!CloneTx, Ids
<1>7. TxKnown(t)
  BY <1>2 DEF TxKnown
<1>8. Sees(t, Forming!Active(t.owner))
  BY <1>5, ChildrenTyped DEF Sees
<1> HIDE DEF t
<1> QED BY <1>4, <1>6, <1>7, <1>8, BeginKeeps

-----------------------------------------------------------------------------
(* Transactions commit *)

\* What others have behind them when a transaction ends uncontended.
LEMMA NobodyElse ==
  ASSUME NEW a \in Clients, NEW o, ~Forming!OpenOn(a, o),
         \A b \in Clients \ {a} : tx'[b] = tx[b], tx'[a] = Absent
  PROVE  \A b \in Clients : tx'[b] # Absent /\ tx'[b].owner = o => tx'[b].op = "read"
BY DEF Forming!OpenOn

LEMMA Ended ==
  ASSUME FormsInv, NEW a \in Clients, Forming!End(a)
  PROVE  /\ tx' \in [Clients -> Transactions \cup {Absent}]
         /\ tx'[a] = Absent /\ \A b \in Clients \ {a} : tx'[b] = tx[b]
         /\ \A b \in Clients : tx'[b] \in {tx[b], Absent}
BY DEF Forming!End, FormsInv, FormsOrdered, FormsTyped

\* Transactions that go on stay known, while ids are given out.
LEMMA TxsStayKnown ==
  ASSUME TxsKnown, \A b \in Clients : tx'[b] \in {tx[b], Absent}, Known \subseteq Known'
  PROVE  TxsKnown'
BY DEF TxsKnown, TxKnown

LEMMA KnownGrows ==
  ASSUME FormsInv, usedForms \subseteq usedForms', children' \in Nat, children <= children'
  PROVE  Known \subseteq Known'
BY DEF Known, FormsInv, FormsOrdered, FormsTyped

LEMMA DeactivatedRows ==
  ASSUME FormsInv, NEW seen, NEW r \in Ids
  PROVE  LET new == Forming!Deactivated(seen)[r] IN
         /\ new \in Forming!Row \cup {Absent}
         /\ new = Absent <=> child[r] = Absent
         /\ new # Absent => /\ new.owner = child[r].owner
                            /\ new.active <=> (child[r].active /\ r \notin seen)
<1>1. child[r] \in Forming!Row \cup {Absent} /\ Absent \notin Forming!Row
  BY FormSets DEF FormsInv, FormsOrdered, FormsTyped
<1>2. Forming!Deactivated(seen)[r] = IF r \in seen /\ child[r] # Absent
                                       THEN [child[r] EXCEPT !.active = FALSE] ELSE child[r]
  BY DEF Forming!Deactivated, Forming!Exists, Ids
<1>3. CASE child[r] = Absent
  BY <1>2, <1>3
<1>4. CASE child[r] # Absent /\ r \in seen
  <2>1. [child[r] EXCEPT !.active = FALSE] \in Forming!Row
    BY <1>1, <1>4 DEF Forming!Row
  <2>2. /\ [child[r] EXCEPT !.active = FALSE].owner = child[r].owner
        /\ [child[r] EXCEPT !.active = FALSE].active = FALSE
    BY <1>1, <1>4 DEF Forming!Row
  <2> QED BY <1>1, <1>2, <1>4, <2>1, <2>2
<1>5. CASE child[r] # Absent /\ r \notin seen
  BY <1>1, <1>2, <1>5
<1> QED BY <1>3, <1>4, <1>5

LEMMA DeactivatedIsFunction ==
  ASSUME FormsInv, NEW seen
  PROVE  Forming!Deactivated(seen) \in [Ids -> Forming!Row \cup {Absent}]
BY DeactivatedRows DEF Forming!Deactivated, Ids

\* One row is written, as new or over an old one, after its siblings were
\* deactivated.
Writes(seen, id, new) == child' = [Forming!Deactivated(seen) EXCEPT ![id] = new]

LEMMA RowWritten ==
  ASSUME FormsInv, NEW seen, NEW id \in Ids, NEW new \in Forming!Row, Writes(seen, id, new)
  PROVE  /\ child' \in [Ids -> Forming!Row \cup {Absent}]
         /\ child'[id] = new /\ new # Absent
         /\ \A r \in Ids \ {id} : child'[r] = Forming!Deactivated(seen)[r]
BY FormSets, DeactivatedIsFunction DEF Writes

LEMMA OtherRows ==
  ASSUME FormsInv, NEW seen, NEW id \in Ids, NEW new \in Forming!Row, Writes(seen, id, new),
         NEW r \in Ids, r # id
  PROVE  /\ child'[r] # Absent <=> child[r] # Absent
         /\ child'[r] # Absent =>
              /\ child'[r].owner = child[r].owner
              /\ child'[r].active <=> (child[r].active /\ r \notin seen)
<1>1. child'[r] = Forming!Deactivated(seen)[r]
  BY RowWritten
<1> QED BY <1>1, DeactivatedRows

LEMMA OtherOwners ==
  ASSUME FormsInv, NEW seen, NEW id \in Ids, NEW new \in Forming!Row, Writes(seen, id, new),
         NEW r \in Ids, r # id, child'[r] # Absent
  PROVE  child[r] # Absent /\ child'[r].owner = child[r].owner
BY OtherRows

LEMMA ActiveWritten ==
  ASSUME FormsInv, NEW seen, NEW id \in Ids, NEW new \in Forming!Row, Writes(seen, id, new),
         NEW p
  PROVE  Forming!Active(p)' \subseteq
           (Forming!Active(p) \ seen) \cup (IF p = new.owner /\ new.active THEN {id} ELSE {})
<1> SUFFICES ASSUME NEW r \in Forming!Active(p)'
             PROVE  r \in (Forming!Active(p) \ seen)
                            \cup (IF p = new.owner /\ new.active THEN {id} ELSE {})
  OBVIOUS
<1>1. r \in Ids /\ child'[r] # Absent /\ child'[r].owner = p /\ child'[r].active
  BY DEF Forming!Active, Forming!Children, Forming!Exists, Ids
<1>2. CASE r = id
  BY <1>1, <1>2, RowWritten
<1>3. CASE r # id
  <2>1. child[r] # Absent /\ child[r].owner = p /\ child[r].active /\ r \notin seen
    BY <1>1, <1>3, OtherRows
  <2> QED BY <1>1, <2>1 DEF Forming!Active, Forming!Children, Forming!Exists, Ids
<1> QED BY <1>2, <1>3

LEMMA WriteKeeps ==
  ASSUME FormsInv, NEW a \in Clients, NEW seen, NEW id \in Ids, NEW new \in Forming!Row,
         Writes(seen, id, new), new.owner \in Known,
         children' \in 0..MaxChildren, children <= children', id <= children',
         Forming!End(a), Forming!Crowd(a, IF new.active THEN {new.owner} ELSE {}),
         new.active /\ new.owner \notin contended => Forming!Active(new.owner) \subseteq seen,
         UNCHANGED <<forms, usedForms, batches>>
  PROVE  FormsInv'
<1>0. ASSUME NEW p
      PROVE  Forming!Active(p)' \subseteq
           (Forming!Active(p) \ seen) \cup (IF p = new.owner /\ new.active THEN {id} ELSE {})
  BY ActiveWritten
<1>1. /\ child' \in [Ids -> Forming!Row \cup {Absent}] /\ child'[id] = new
  BY RowWritten
<1>2. Known \subseteq Known' /\ children \in Nat /\ children' \in Nat
  BY KnownGrows, FormSets DEF FormsInv, FormsOrdered, FormsTyped
<1>3. /\ tx' \in [Clients -> Transactions \cup {Absent}]
      /\ tx'[a] = Absent /\ \A b \in Clients \ {a} : tx'[b] = tx[b]
      /\ \A b \in Clients : tx'[b] \in {tx[b], Absent}
  BY Ended
<1> USE DEF FormsInv, FormsOrdered
<1>4. FormsTyped'
  BY <1>1, <1>3 DEF FormsTyped
<1>5. RowsKnown'
  <2>1. ASSUME NEW r \in Ids, child'[r] # Absent
        PROVE  r <= children' /\ child'[r].owner \in Known'
    <3>1. CASE r = id
      BY <1>1, <1>2, <3>1
    <3>2. CASE r # id
      <4>1. child[r] # Absent /\ child'[r].owner = child[r].owner
        BY <2>1, <3>2, OtherRows
      <4>2. r <= children /\ child[r].owner \in Known /\ r \in Nat
        BY <4>1, FormSets DEF RowsKnown
      <4> QED BY <1>2, <4>1, <4>2
    <3> QED BY <3>1, <3>2
  <2>2. ASSUME NEW p \in Forming!Parts, NEW r \in Ids, batches'[p][r] # {}
        PROVE  r <= children'
    BY <1>2, <2>2, FormSets DEF RowsKnown
  <2> QED BY <2>1, <2>2 DEF RowsKnown
<1>6. TxsKnown'
  BY <1>2, <1>3, TxsStayKnown
<1>7. /\ contended \subseteq contended'
      /\ new.active /\ new.owner \notin contended' => ~Forming!OpenOn(a, new.owner)
  BY DEF Forming!Crowd
<1>8. ASSUME NEW p \in Forming!OwnerIds \ contended'
      PROVE  \/ Forming!Active(p)' \subseteq Forming!Active(p)
             \/ /\ \A r, s \in Forming!Active(p)' : r = s
                /\ \A b \in Clients : tx'[b] # Absent /\ tx'[b].owner = p => tx'[b].op = "read"
  <2>1. Forming!Active(p)' \subseteq
          (Forming!Active(p) \ seen) \cup (IF p = new.owner /\ new.active THEN {id} ELSE {})
    BY <1>0
  <2>2. CASE p = new.owner /\ new.active
    <3>1. ~Forming!OpenOn(a, p) /\ Forming!Active(p) \subseteq seen
      BY <1>7, <2>2
    <3>2. \A b \in Clients : tx'[b] # Absent /\ tx'[b].owner = p => tx'[b].op = "read"
      BY <1>3, <3>1, NobodyElse
    <3>3. Forming!Active(p)' \subseteq {id}
      BY <2>1, <3>1
    <3> QED BY <3>2, <3>3
  <2>3. CASE ~(p = new.owner /\ new.active)
    BY <2>1, <2>3
  <2> QED BY <2>2, <2>3
<1>9. ActiveKept'
  BY <1>3, <1>7, <1>8, ActiveKeeps
<1>10. BatchesKept'
  BY <1>3, <1>7, BatchesKeep
<1> QED BY <1>4, <1>5, <1>6, <1>9, <1>10

\* A transaction that finds its owner gone is rolled back.
LEMMA RollbackKeeps ==
  ASSUME FormsInv, NEW a \in Clients, Forming!End(a),
         UNCHANGED <<forms, usedForms, child, children, batches, contended>>
  PROVE  FormsInv'
<1> USE DEF FormsInv, FormsOrdered
<1>1. FormsTyped'
  BY Ended DEF FormsTyped
<1>2. RowsKnown' /\ TxsKnown'
  BY Ended DEF RowsKnown, TxsKnown, TxKnown, Known
<1>3. \A o : Forming!Active(o)' \subseteq Forming!Active(o)
  BY DEF Forming!Active, Forming!Children, Forming!Exists
<1>4. ActiveKept'
  BY <1>3, ActiveKeeps, Ended
<1>5. BatchesKept'
  BY BatchesKeep, Ended
<1> QED BY <1>1, <1>2, <1>4, <1>5

\* What the transaction of a has in hand, by what it is for.
LEMMA InHandTyped ==
  ASSUME FormsInv, NEW a \in Clients, tx[a] # Absent
  PROVE  /\ TxKnown(tx[a]) /\ tx[a].owner \in Forming!OwnerIds \cap Known
         /\ tx[a].op = "create" => tx[a] \in Forming!CreateTx
         /\ tx[a].op = "edit" => tx[a] \in Forming!EditTx
         /\ tx[a].op = "replace" => tx[a] \in Forming!ReplaceTx
         /\ tx[a].op = "clone" => tx[a] \in Forming!CloneTx
         /\ tx[a].owner \notin contended => Sees(tx[a], Forming!Active(tx[a].owner))
<1>1. tx[a] \in Transactions /\ TxKnown(tx[a])
  BY DEF FormsInv, FormsOrdered, FormsTyped, TxsKnown
<1>2. /\ tx[a].op = "create" => tx[a] \in Forming!CreateTx
      /\ tx[a].op = "edit" => tx[a] \in Forming!EditTx
      /\ tx[a].op = "replace" => tx[a] \in Forming!ReplaceTx
      /\ tx[a].op = "clone" => tx[a] \in Forming!CloneTx
  BY <1>1 DEF Transactions, Forming!CreateTx, Forming!EditTx, Forming!ReplaceTx, Forming!CloneTx
<1>3. tx[a].owner \in Forming!OwnerIds
  BY <1>1 DEF Transactions, Forming!CreateTx, Forming!EditTx, Forming!ReplaceTx,
     Forming!CloneTx, Forming!OwnerIds
<1>4. tx[a].owner \notin contended => Sees(tx[a], Forming!Active(tx[a].owner))
  BY <1>3 DEF FormsInv, ActiveKept, OneActive
<1> QED BY <1>1, <1>2, <1>3, <1>4 DEF TxKnown

LEMMA CreateCommitKeeps ==
  ASSUME FormsInv, NEW a \in Clients, Forming!CreateCommit(a)
  PROVE  FormsInv'
<1> DEFINE t == tx[a]
           new == [owner |-> t.owner, active |-> t.flag]
<1>1. t # Absent /\ t.op = "create" /\ t \in Forming!CreateTx
      /\ t.owner \in Forming!OwnerIds \cap Known /\ Forming!End(a)
  BY InHandTyped DEF Forming!CreateCommit, Forming!In
<1>2. CASE Forming!OwnerExists(t.owner)
  <2>1. /\ children + 1 \in Ids /\ children + 1 \in 0..MaxChildren /\ children <= children + 1
    BY FormSets DEF Forming!CreateCommit, FormsInv, FormsOrdered, FormsTyped
  <2>2. Writes(t.seen, children + 1, new) /\ children' = children + 1
    BY <1>2 DEF Forming!CreateCommit, Writes
  <2>3. /\ Forming!Crowd(a, IF t.flag THEN {t.owner} ELSE {})
        /\ UNCHANGED <<forms, usedForms, batches>>
    BY <1>2 DEF Forming!CreateCommit, Forming!Unwatched
  <2>4. t.flag /\ t.owner \notin contended => Forming!Active(t.owner) \subseteq t.seen
    BY <1>1, InHandTyped DEF Sees
  <2>5. new \in Forming!Row /\ new.owner = t.owner /\ new.active = t.flag
    BY <1>1 DEF Forming!CreateTx, Forming!Row
  <2> HIDE DEF new
  <2>6. Forming!Crowd(a, IF new.active THEN {new.owner} ELSE {})
    BY <2>3, <2>5
  <2>7. children' \in 0..MaxChildren /\ children <= children' /\ children + 1 <= children'
    BY <2>1, <2>2
  <2> QED BY <1>1, <2>1, <2>2, <2>3, <2>4, <2>5, <2>6, <2>7, WriteKeeps
<1>3. CASE ~Forming!OwnerExists(t.owner)
  <2>1. UNCHANGED <<forms, usedForms, child, children, batches, contended>>
    BY <1>3 DEF Forming!CreateCommit, Forming!Unwatched
  <2> QED BY <1>1, <2>1, RollbackKeeps
<1> QED BY <1>2, <1>3

LEMMA EditCommitKeeps ==
  ASSUME FormsInv, NEW a \in Clients, Forming!EditCommit(a)
  PROVE  FormsInv'
<1> DEFINE t == tx[a]
           new == [owner |-> t.owner, active |-> t.flag]
<1>1. t # Absent /\ t.op = "edit" /\ t \in Forming!EditTx
      /\ t.owner \in Forming!OwnerIds \cap Known /\ Forming!End(a)
  BY InHandTyped DEF Forming!EditCommit, Forming!In
<1>2. CASE Forming!OwnerExists(t.owner)
  <2>1. children \in 0..MaxChildren /\ children \in Nat /\ t.flag \in BOOLEAN /\ t.id \in Ids
    BY <1>1, FormSets DEF Forming!EditTx, Ids, FormsInv, FormsOrdered, FormsTyped
  <2>2. t.id <= children
    <3>1. t.id \in Known
      BY <1>1, InHandTyped DEF TxKnown
    <3> QED BY <2>1, <3>1, FormSets DEF Known, FormsInv, FormsOrdered, FormsTyped
  <2>3. Writes(t.seen, t.id, new) /\ children' = children
    BY <1>2 DEF Forming!EditCommit, Writes
  <2>4. /\ Forming!Crowd(a, IF t.flag THEN {t.owner} ELSE {})
        /\ UNCHANGED <<forms, usedForms, batches>>
    BY <1>2 DEF Forming!EditCommit, Forming!Unwatched
  <2>5. t.flag /\ t.owner \notin contended => Forming!Active(t.owner) \subseteq t.seen
    BY <1>1, InHandTyped DEF Sees
  <2>6. new \in Forming!Row /\ new.owner = t.owner /\ new.active = t.flag
    BY <1>1, <2>1 DEF Forming!Row
  <2> HIDE DEF new
  <2>7. Forming!Crowd(a, IF new.active THEN {new.owner} ELSE {})
    BY <2>4, <2>6
  <2>8. children' \in 0..MaxChildren /\ children <= children' /\ t.id <= children'
    BY <2>1, <2>2, <2>3
  <2> QED BY <1>1, <2>1, <2>3, <2>4, <2>5, <2>6, <2>7, <2>8, WriteKeeps
<1>3. CASE ~Forming!OwnerExists(t.owner)
  <2>1. UNCHANGED <<forms, usedForms, child, children, batches, contended>>
    BY <1>3 DEF Forming!EditCommit, Forming!Unwatched
  <2> QED BY <1>1, <2>1, RollbackKeeps
<1> QED BY <1>2, <1>3

LEMMA ReplaceCommitKeeps ==
  ASSUME FormsInv, NEW a \in Clients, Forming!ReplaceCommit(a)
  PROVE  FormsInv'
<1> DEFINE t == tx[a]
           new == Forming!Replaced(t)
<1>1. /\ t # Absent /\ t.op = "replace" /\ t \in Forming!ReplaceTx /\ TxKnown(t)
      /\ Forming!End(a)
  BY InHandTyped DEF Forming!ReplaceCommit, Forming!In
<1>2. CASE Forming!Exists(t.owner)
  <2>1. /\ batches' = [batches EXCEPT ![t.part][t.owner] = new]
        /\ Forming!Crowd(a, {t.owner})
        /\ UNCHANGED <<forms, usedForms, child, children>>
    BY <1>2 DEF Forming!ReplaceCommit
  <2>2. t.owner \in Ids /\ t.part \in Forming!Parts /\ child[t.owner] # Absent
    BY <1>1, <1>2 DEF Forming!ReplaceTx, Ids, Forming!Exists
  <2>3. /\ \A b, c \in t.new : b = c
        /\ batches[t.part][t.owner] \subseteq t.seen \/ t.owner \in contended
    BY <1>1, <2>2 DEF TxKnown, FormsInv, BatchesKept, OneBatch
  <2>4. /\ contended \subseteq contended'
        /\ t.owner \notin contended' => ~Forming!OpenOn(a, t.owner)
    BY <2>1 DEF Forming!Crowd
  <2>5. new \in SUBSET Forming!Batches[t.part]
    BY <1>1, <2>2 DEF Forming!Replaced, TxKnown, FormsInv, FormsOrdered, FormsTyped
  <2>6. t.owner \notin contended => \A b, c \in new : b = c
    BY <2>3 DEF Forming!Replaced
  <2> HIDE DEF new
  <2>7. /\ DOMAIN batches' = Forming!Parts
        /\ \A p \in Forming!Parts, s \in Ids :
             batches'[p][s] = IF p = t.part /\ s = t.owner THEN new ELSE batches[p][s]
        /\ \A p \in Forming!Parts : batches'[p] \in [Ids -> SUBSET Forming!Batches[p]]
    BY <2>1, <2>2, <2>5 DEF FormsInv, FormsOrdered, FormsTyped
  <2>8. FormsTyped'
    BY <1>1, <2>1, <2>7, Ended DEF FormsInv, FormsOrdered, FormsTyped
  <2>9. RowsKnown' /\ TxsKnown'
    <3>1. t.owner <= children
      BY <2>2 DEF FormsInv, FormsOrdered, RowsKnown
    <3>2. RowsKnown'
      BY <2>1, <2>7, <3>1 DEF FormsInv, FormsOrdered, RowsKnown, Known
    <3>3. Known' = Known
      BY <2>1 DEF Known
    <3> QED BY <1>1, <3>2, <3>3, Ended, TxsStayKnown DEF FormsInv, FormsOrdered
  <2>10. ActiveKept'
    <3>1. \A o \in Forming!OwnerIds \ contended' :
            Forming!Active(o)' \subseteq Forming!Active(o)
      BY <2>1 DEF Forming!Active, Forming!Children, Forming!Exists
    <3> QED BY <1>1, <2>4, <3>1, Ended, ActiveKeeps DEF FormsInv
  <2>11. ASSUME NEW s \in Ids \ contended', NEW p \in Forming!Parts
         PROVE  \/ batches'[p][s] \subseteq batches[p][s]
                \/ /\ \A b, c \in batches'[p][s] : b = c
                   /\ \A b \in Clients :
                        tx'[b] # Absent /\ tx'[b].owner = s => tx'[b].op # "replace"
    <3>1. CASE p = t.part /\ s = t.owner
      <4>1. \A b, c \in batches'[p][s] : b = c
        BY <2>4, <2>6, <2>7, <3>1
      <4>2. \A b \in Clients : tx'[b] # Absent /\ tx'[b].owner = s => tx'[b].op = "read"
        BY <1>1, <2>4, <3>1, Ended, NobodyElse
      <4> QED BY <4>1, <4>2
    <3>2. CASE ~(p = t.part /\ s = t.owner)
      BY <2>7, <3>2
    <3> QED BY <3>1, <3>2
  <2>12. BatchesKept'
    BY <1>1, <2>4, <2>11, Ended, BatchesKeep DEF FormsInv
  <2> QED BY <2>8, <2>9, <2>10, <2>12 DEF FormsInv, FormsOrdered
<1>3. CASE ~Forming!Exists(t.owner)
  <2>1. UNCHANGED <<forms, usedForms, child, children, batches, contended>>
    BY <1>3 DEF Forming!ReplaceCommit
  <2> QED BY <1>1, <2>1, RollbackKeeps
<1> QED BY <1>2, <1>3

-----------------------------------------------------------------------------
(* A form as a whole, and copies *)

LEMMA CreateFullKeeps ==
  ASSUME FormsInv, NEW a \in Clients, NEW f \in EditedForms, NEW versionFlag \in BOOLEAN,
         NEW scoreFlag \in BOOLEAN, NEW o \in DOMAIN Options, NEW r \in DOMAIN Ranges,
         Forming!CreateFull(a, f, versionFlag, scoreFlag, o, r)
  PROVE  FormsInv'
<1> DEFINE v == children + 1
           s == children + 2
           version == [owner |-> f, active |-> versionFlag]
           score == [owner |-> v, active |-> scoreFlag]
<1>1. /\ children \in Nat /\ v \in Ids /\ s \in Ids /\ v # s /\ s \in 0..MaxChildren
      /\ v \in Nat /\ s \in Nat /\ children <= s /\ v <= s /\ children' = s /\ f \notin usedForms
      /\ f \notin Known /\ v \notin Known /\ s \notin Known /\ f # v /\ f # s
  <2>1. /\ children \in Nat /\ children + 2 <= MaxChildren /\ children' = children + 2
        /\ f \notin usedForms /\ usedForms \subseteq EditedForms
    BY FormSets DEF Forming!CreateFull, FormsInv, FormsOrdered, FormsTyped
  <2>2. v \in Ids /\ s \in Ids /\ f \notin Ids /\ v \notin EditedForms /\ s \notin EditedForms
    BY <2>1, FormSets
  <2>3. 1..children \subseteq Ids /\ v \notin 1..children /\ s \notin 1..children
    BY <2>1, FormSets
  <2> QED BY <2>1, <2>2, <2>3, FormSets DEF Known
<1>2. version \in Forming!Row /\ score \in Forming!Row /\ version.owner = f /\ score.owner = v
      /\ version # Absent /\ score # Absent
  BY <1>1, FormSets DEF Forming!Row, Ids
<1>3. /\ child' = [child EXCEPT ![v] = version, ![s] = score]
      /\ batches' = [batches EXCEPT !["option"][s] = {o}, !["range"][s] = {r}]
      /\ usedForms' = usedForms \cup {f} /\ forms' = forms \cup {f}
      /\ UNCHANGED <<tx, contended>>
  BY DEF Forming!CreateFull, Forming!WithPoints
<1> HIDE DEF version, score, v, s
<1>4. /\ child' \in [Ids -> Forming!Row \cup {Absent}]
      /\ child'[v] = version /\ child'[s] = score
      /\ \A i \in Ids \ {v, s} : child'[i] = child[i]
  BY <1>1, <1>2, <1>3 DEF FormsInv, FormsOrdered, FormsTyped
<1>5. /\ DOMAIN batches' = Forming!Parts
      /\ \A p \in Forming!Parts : batches'[p] \in [Ids -> SUBSET Forming!Batches[p]]
      /\ batches'["option"][s] = {o} /\ batches'["range"][s] = {r}
      /\ batches'["tier"][s] = batches["tier"][s]
      /\ \A p \in Forming!Parts, i \in Ids \ {s} : batches'[p][i] = batches[p][i]
  BY <1>1, <1>3, FormSets DEF FormsInv, FormsOrdered, FormsTyped
<1>6. FormsTyped'
  BY <1>1, <1>3, <1>4, <1>5 DEF FormsInv, FormsOrdered, FormsTyped
<1>7. Known \subseteq Known' /\ f \in Known' /\ v \in Known'
  BY <1>1, <1>3 DEF Known, v, s
<1>8. RowsKnown'
  <2>1. ASSUME NEW i \in Ids, child'[i] # Absent
        PROVE  i <= children' /\ child'[i].owner \in Known'
    <3>1. CASE i \in {v, s}
      BY <1>1, <1>2, <1>4, <1>7, <3>1
    <3>2. CASE i \notin {v, s}
      <4>1. i <= children /\ child[i].owner \in Known /\ i \in Nat /\ child'[i] = child[i]
        BY <1>4, <2>1, <3>2, FormSets DEF FormsInv, FormsOrdered, RowsKnown
      <4>2. i <= children'
        BY <1>1, <4>1
      <4> QED BY <1>7, <4>1, <4>2
    <3> QED BY <3>1, <3>2
  <2>2. ASSUME NEW p \in Forming!Parts, NEW i \in Ids, batches'[p][i] # {}
        PROVE  i <= children'
    <3>1. CASE i = s
      BY <1>1, <3>1
    <3>2. CASE i # s
      <4>1. i <= children /\ i \in Nat
        BY <1>5, <2>2, <3>2, FormSets DEF FormsInv, FormsOrdered, RowsKnown
      <4> QED BY <1>1, <4>1
    <3> QED BY <3>1, <3>2
  <2> QED BY <2>1, <2>2 DEF RowsKnown
<1>9. TxsKnown'
  BY <1>3, <1>7, TxsStayKnown DEF FormsInv, FormsOrdered
\* Nobody is on what was not known.
<1>10. \A b \in Clients : tx'[b] # Absent => tx'[b].owner \in Known
  BY <1>3 DEF FormsInv, FormsOrdered, TxsKnown, TxKnown
<1>11. ASSUME NEW p \in Forming!OwnerIds
       PROVE  \/ Forming!Active(p)' \subseteq Forming!Active(p)
              \/ /\ \A i, j \in Forming!Active(p)' : i = j
                 /\ \A b \in Clients : tx'[b] # Absent /\ tx'[b].owner = p => tx'[b].op = "read"
  <2>1. ASSUME NEW i \in Forming!Active(p)'
        PROVE  i \in Forming!Active(p) \/ (i = v /\ p = f) \/ (i = s /\ p = v)
    <3>1. i \in Ids /\ child'[i] # Absent /\ child'[i].owner = p /\ child'[i].active
      BY DEF Forming!Active, Forming!Children, Forming!Exists, Ids
    <3>2. CASE i \in {v, s}
      BY <1>2, <1>4, <3>1, <3>2
    <3>3. CASE i \notin {v, s}
      BY <1>4, <3>1, <3>3 DEF Forming!Active, Forming!Children, Forming!Exists, Ids
    <3> QED BY <3>2, <3>3
  <2>2. p \notin Known => Forming!Active(p) = {}
    BY DEF Forming!Active, Forming!Children, Forming!Exists, FormsInv, FormsOrdered, RowsKnown, Ids
  <2>3. CASE p \in {f, v}
    BY <1>1, <1>10, <2>1, <2>2, <2>3
  <2>4. CASE p \notin {f, v}
    BY <2>1, <2>4
  <2> QED BY <2>3, <2>4
<1>12. ActiveKept'
  BY <1>3, <1>11, ActiveKeeps DEF FormsInv
<1>13. ASSUME NEW i \in Ids, NEW p \in Forming!Parts
       PROVE  \/ batches'[p][i] \subseteq batches[p][i]
              \/ /\ \A b, c \in batches'[p][i] : b = c
                 /\ \A b \in Clients :
                      tx'[b] # Absent /\ tx'[b].owner = i => tx'[b].op # "replace"
  <2>1. CASE i = s
    BY <1>1, <1>5, <1>10, <2>1, FormSets
  <2>2. CASE i # s
    BY <1>5, <2>2
  <2> QED BY <2>1, <2>2
<1>14. BatchesKept'
  BY <1>3, <1>13, BatchesKeep DEF FormsInv
<1> QED BY <1>6, <1>8, <1>9, <1>12, <1>14 DEF FormsInv, FormsOrdered

\* Every place up to the size of a set is the rank of one of its members.
LEMMA RanksCovered ==
  ASSUME NEW S \in SUBSET Ids
  PROVE  /\ Forming!Cardinality(S) \in Nat
         /\ \A k \in 1..Forming!Cardinality(S) : \E s \in S : Forming!Rank(S, s) = k
<1> DEFINE UpTo(s) == {r \in S : r <= s}
           n == Cardinality(S)
           rank == [s \in S |-> Cardinality(UpTo(s))]
<1>1. \A T : Forming!Cardinality(T) = Cardinality(T)
  BY DEF Forming!Cardinality, Cardinality
<1>2. IsFiniteSet(S) /\ S \subseteq Nat /\ n \in Nat
  <2>1. Ids = 1..MaxChildren /\ MaxChildren \in Int /\ 1 \in Int
    BY FormSets
  <2>2. IsFiniteSet(1..MaxChildren)
    BY <2>1, FS_Interval
  <2>3. IsFiniteSet(Ids)
    BY <2>1, <2>2
  <2>4. IsFiniteSet(S)
    BY <2>3, FS_Subset
  <2>5. S \subseteq Nat
    BY <2>1
  <2>6. n \in Nat
    BY <2>4, FS_CardinalityType
  <2> QED BY <2>4, <2>5, <2>6
<1>3. ASSUME NEW s \in S
      PROVE  /\ IsFiniteSet(UpTo(s)) /\ Cardinality(UpTo(s)) \in Nat
             /\ Cardinality(UpTo(s)) \in 1..n
  <2>1. IsFiniteSet(UpTo(s)) /\ Cardinality(UpTo(s)) \in Nat /\ Cardinality(UpTo(s)) <= n
    <3>1. UpTo(s) \in SUBSET S
      OBVIOUS
    <3> QED BY <1>2, <3>1, FS_Subset, FS_CardinalityType
  <2>2. s \in UpTo(s)
    BY <1>2
  <2>3. Cardinality(UpTo(s)) # 0
    BY <2>1, <2>2, FS_EmptySet
  <2> QED BY <1>2, <2>1, <2>3
<1>4. ASSUME NEW s \in S, NEW t \in S, s < t
      PROVE  Cardinality(UpTo(s)) < Cardinality(UpTo(t))
  <2>1. UpTo(s) \in SUBSET (UpTo(t) \ {t}) /\ t \in UpTo(t)
    <3>1. s \in Nat /\ t \in Nat
      BY <1>2
    <3>2. \A r \in UpTo(s) : r \in S /\ r \in Nat /\ r <= t /\ r # t
      BY <1>2, <1>4, <3>1
    <3>3. t \in UpTo(t)
      BY <1>2
    <3>4. \A r \in UpTo(s) : r \in UpTo(t) \ {t}
      BY <3>2
    <3> QED BY <3>3, <3>4
  <2>2. IsFiniteSet(UpTo(t) \ {t}) /\ Cardinality(UpTo(t) \ {t}) = Cardinality(UpTo(t)) - 1
    <3>1. IsFiniteSet(UpTo(t)) /\ t \in UpTo(t)
      BY <1>3, <2>1
    <3> HIDE DEF UpTo
    <3> QED BY <3>1, FS_RemoveElement
  <2>3. Cardinality(UpTo(s)) <= Cardinality(UpTo(t) \ {t})
    BY <2>1, <2>2, FS_Subset
  <2> QED BY <1>3, <2>2, <2>3
<1> HIDE DEF UpTo, n
<1>5. rank \in [S -> 1..n]
  BY <1>3
<1>6. ASSUME NEW s \in S, NEW t \in S, rank[s] = rank[t] PROVE s = t
  <2>1. Cardinality(UpTo(s)) = Cardinality(UpTo(t))
    BY <1>6
  <2>2. Cardinality(UpTo(s)) \in Nat /\ Cardinality(UpTo(t)) \in Nat
    BY <1>3
  <2>3. ~(s < t) /\ ~(t < s)
    BY <1>4, <2>1, <2>2
  <2> QED BY <1>2, <2>3
<1>7. rank \in Injection(S, 1..n)
  BY <1>5, <1>6, Fun_IsInj
<1>8. IsFiniteSet(1..n) /\ Cardinality(1..n) = n
  BY <1>2, FS_Interval
<1>9. rank \in Surjection(S, 1..n)
  BY <1>2, <1>7, <1>8, FS_Injection DEF n
<1>10. \A k \in 1..n : \E s \in S : rank[s] = k
  BY <1>9 DEF Surjection
<1> QED BY <1>1, <1>2, <1>10 DEF UpTo, n, Forming!Rank

\* What a copy does: the rows after those there are copy the scores of the
\* source, below a row of their own or below the target.
Copies(a, into, first, n, original) ==
  LET t == tx[a]
      copies == first + 1 .. first + n
  IN
  /\ t # Absent /\ t \in Forming!CloneTx /\ children \in Nat /\ first \in Nat /\ n \in Nat
  /\ first = children + (IF t.fresh THEN 1 ELSE 0) /\ first + n <= MaxChildren
  /\ into \in Forming!OwnerIds /\ into = IF t.fresh THEN children + 1 ELSE t.owner
  /\ original \in [copies -> Ids]
  /\ \A r \in copies : child[original[r]] # Absent /\ child[original[r]].owner = t.source
  /\ \A r, s \in copies : original[r] = original[s] => r = s
  /\ child' = [r \in Ids |->
       CASE r \in copies -> [owner |-> into, active |-> child[original[r]].active]
         [] t.fresh /\ r = into -> [owner |-> t.owner, active |-> t.flag]
         [] OTHER -> Forming!Deactivated(t.seen)[r]]
  /\ children' = first + n
  /\ batches' = Forming!WithCopies(original)
  /\ contended' = contended
       \cup {o \in {t.owner} : Forming!OpenOn(a, o)}
       \cup {o \in {into} : t.source \in contended}
       \cup {r \in copies : original[r] \in contended}

LEMMA Copied ==
  ASSUME FormsInv, NEW a \in Clients, Forming!CloneCommit(a), Forming!OwnerExists(tx[a].owner)
  PROVE  \E into, first, n, original : Copies(a, into, first, n, original)
<1> DEFINE t == tx[a]
           from == Forming!CloneSources(t)
           first == children + (IF t.fresh THEN 1 ELSE 0)
           into == IF t.fresh THEN children + 1 ELSE t.owner
           n == Forming!Cardinality(from)
           copies == first + 1 .. first + n
           original == [r \in copies |-> CHOOSE s \in from : first + Forming!Rank(from, s) = r]
<1>1. t # Absent /\ t \in Forming!CloneTx /\ t.owner \in Forming!OwnerIds
  BY InHandTyped DEF Forming!CloneCommit, Forming!In
<1>2. t.fresh \in BOOLEAN /\ children \in Nat /\ first \in Nat
  BY <1>1, FormSets DEF Forming!CloneTx, FormsInv, FormsOrdered, FormsTyped
<1>3. /\ from \in SUBSET Ids
      /\ \A s \in from : child[s] # Absent /\ child[s].owner = t.source
  BY DEF Forming!CloneSources, Forming!Exists, Ids
<1>4. first + n <= MaxChildren
  BY DEF Forming!CloneCommit
<1>5. /\ child' = [r \in Ids |->
           CASE r \in copies -> [owner |-> into, active |-> child[original[r]].active]
             [] t.fresh /\ r = into -> [owner |-> t.owner, active |-> t.flag]
             [] OTHER -> Forming!Deactivated(t.seen)[r]]
      /\ children' = first + n
      /\ batches' = Forming!WithCopies(original)
      /\ contended' = contended
           \cup {o \in {t.owner} : Forming!OpenOn(a, o)}
           \cup {o \in {into} : t.source \in contended}
           \cup {r \in copies : original[r] \in contended}
  BY DEF Forming!CloneCommit, Ids
<1> HIDE DEF t, from, first
<1>6. n \in Nat /\ \A k \in 1..n : \E s \in from : Forming!Rank(from, s) = k
  BY <1>3, RanksCovered
<1> HIDE DEF n
<1>7. ASSUME NEW r \in copies
      PROVE  original[r] \in from /\ first + Forming!Rank(from, original[r]) = r
  <2>1. r - first \in 1..n /\ r \in Nat
    BY <1>2, <1>6
  <2>2. PICK s \in from : Forming!Rank(from, s) = r - first
    BY <1>6, <2>1
  <2>3. first + Forming!Rank(from, s) = r
    BY <1>2, <2>1, <2>2
  <2> QED BY <2>3
<1> HIDE DEF copies, original
<1>8. original \in [copies -> Ids]
  BY <1>3, <1>7 DEF original
<1>9. \A r, s \in copies : original[r] = original[s] => r = s
  BY <1>7
<1>10. into \in Forming!OwnerIds
  <2>1. CASE t.fresh
    <3>1. children + 1 <= MaxChildren
      BY <1>2, <1>4, <1>6, <2>1, FormSets DEF first
    <3> QED BY <1>2, <2>1, <3>1, FormSets
  <2>2. CASE ~t.fresh
    BY <1>1, <2>2
  <2> QED BY <2>1, <2>2
<1> HIDE DEF into
<1>11. \A r \in copies : child[original[r]] # Absent /\ child[original[r]].owner = t.source
  BY <1>3, <1>7
<1>12. /\ first = children + (IF t.fresh THEN 1 ELSE 0)
       /\ into = IF t.fresh THEN children + 1 ELSE t.owner
  BY DEF first, into
<1> QED
  <2>1. Copies(a, into, first, n, original)
    BY <1>1, <1>2, <1>4, <1>5, <1>6, <1>8, <1>9, <1>10, <1>11, <1>12 DEF t, copies, Copies
  <2> QED BY <2>1

\* The rows after a copy, one by one.
LEMMA CopiedIds ==
  ASSUME FormsInv, NEW a \in Clients, NEW into, NEW first, NEW n, NEW original,
         Copies(a, into, first, n, original)
  PROVE  /\ first + 1 .. first + n \subseteq Ids /\ (first + 1 .. first + n) \cap Known = {}
         /\ into \in Forming!OwnerIds /\ into \notin first + 1 .. first + n
         /\ tx[a].fresh => into \in Ids /\ into \notin Known
         /\ tx[a].fresh \in BOOLEAN /\ tx[a].flag \in BOOLEAN
         /\ tx[a].owner \in Forming!OwnerIds \cap Known
         /\ tx[a].owner \notin contended => Sees(tx[a], Forming!Active(tx[a].owner))
<1> DEFINE t == tx[a]
           copies == first + 1 .. first + n
<1>1. /\ t \in Forming!CloneTx /\ t # Absent /\ children \in Nat /\ first \in Nat /\ n \in Nat
      /\ first = children + (IF t.fresh THEN 1 ELSE 0) /\ first + n <= MaxChildren
      /\ into \in Forming!OwnerIds /\ into = IF t.fresh THEN children + 1 ELSE t.owner
  BY DEF Copies
<1>2. t.fresh \in BOOLEAN /\ t.flag \in BOOLEAN
  BY <1>1 DEF Forming!CloneTx
<1>3. /\ t.owner \in Forming!OwnerIds \cap Known
      /\ t.owner \notin contended => Sees(t, Forming!Active(t.owner))
  BY <1>1, InHandTyped
<1>4. copies \subseteq Ids /\ copies \cap 1..children = {} /\ copies \cap EditedForms = {}
  BY <1>1, <1>2, FormSets
<1>5. t.fresh => /\ into \in Ids /\ into \notin 1..children /\ into \notin EditedForms
                 /\ into \notin copies
  BY <1>1, FormSets
<1>6. usedForms \subseteq EditedForms
  BY DEF FormsInv, FormsOrdered, FormsTyped
<1>7. copies \cap Known = {} /\ (t.fresh => into \notin Known)
  BY <1>4, <1>5, <1>6 DEF Known
<1>8. into \notin copies
  BY <1>1, <1>3, <1>5, <1>7
<1> QED BY <1>1, <1>2, <1>3, <1>4, <1>5, <1>7, <1>8

LEMMA CopiedRow ==
  ASSUME FormsInv, NEW a \in Clients, NEW into, NEW first, NEW n, NEW original,
         Copies(a, into, first, n, original), NEW r \in Ids
  PROVE  LET copied == r \in first + 1 .. first + n
             fresh == tx[a].fresh /\ r = into
         IN
         /\ child'[r] \in Forming!Row \cup {Absent}
         /\ copied => /\ child'[r].owner = into
                      /\ child'[r].active = child[original[r]].active
                      /\ original[r] \in Ids /\ child[original[r]] # Absent
                      /\ child[original[r]].owner = tx[a].source
         /\ fresh => child'[r].owner = tx[a].owner /\ child'[r].active = tx[a].flag
         /\ ~copied /\ ~fresh => child'[r] = Forming!Deactivated(tx[a].seen)[r]
<1> DEFINE copies == first + 1 .. first + n
           t == tx[a]
<1>1. child' = [i \in Ids |->
           CASE i \in copies -> [owner |-> into, active |-> child[original[i]].active]
             [] t.fresh /\ i = into -> [owner |-> t.owner, active |-> t.flag]
             [] OTHER -> Forming!Deactivated(t.seen)[i]]
  BY DEF Copies
<1>2. original \in [copies -> Ids]
  BY DEF Copies
<1>3. \A i \in copies : child[original[i]] # Absent /\ child[original[i]].owner = t.source
  BY DEF Copies
<1>4. /\ into \in Forming!OwnerIds /\ into \notin copies
      /\ t.owner \in Forming!OwnerIds /\ t.flag \in BOOLEAN
  BY CopiedIds
<1> HIDE DEF copies
<1>5. CASE r \in copies
  <2>1. original[r] \in Ids /\ child[original[r]] # Absent
    BY <1>2, <1>3, <1>5
  <2>2. child[original[r]].active \in BOOLEAN
    BY <2>1, KnownTyped
  <2>3. child'[r] = [owner |-> into, active |-> child[original[r]].active]
    <3>1. child'[r] =
           (CASE r \in copies -> [owner |-> into, active |-> child[original[r]].active]
              [] t.fresh /\ r = into -> [owner |-> t.owner, active |-> t.flag]
              [] OTHER -> Forming!Deactivated(t.seen)[r])
      BY <1>1
    <3> HIDE DEF t
    <3> QED BY <1>5, <3>1, <1>4
  <2>4. child'[r] \in Forming!Row
    BY <1>4, <2>2, <2>3 DEF Forming!Row
  <2>5. child'[r].owner = into /\ child'[r].active = child[original[r]].active
    BY <2>3
  <2> QED BY <1>3, <1>4, <1>5, <2>1, <2>4, <2>5 DEF copies
<1>6. CASE r \notin copies /\ t.fresh /\ r = into
  <2>1. child'[r] = [owner |-> t.owner, active |-> t.flag]
    BY <1>1, <1>6
  <2>2. child'[r] \in Forming!Row
    BY <1>4, <2>1 DEF Forming!Row
  <2> QED BY <1>6, <2>1, <2>2 DEF copies
<1>7. CASE r \notin copies /\ ~(t.fresh /\ r = into)
  <2>1. child'[r] = Forming!Deactivated(t.seen)[r]
    BY <1>1, <1>7
  <2> QED BY <1>7, <2>1, DeactivatedRows DEF copies
<1> QED BY <1>5, <1>6, <1>7

LEMMA CopyOfOriginal ==
  ASSUME FormsInv, NEW a \in Clients, NEW into, NEW first, NEW n, NEW original,
         Copies(a, into, first, n, original), NEW r \in first + 1 .. first + n
  PROVE  /\ r \in Ids /\ child'[r].owner = into
         /\ child'[r].active = child[original[r]].active
         /\ original[r] \in Ids /\ child[original[r]] # Absent
         /\ child[original[r]].owner = tx[a].source
<1>1. r \in Ids
  BY CopiedIds
<1> QED BY <1>1, CopiedRow

\* Who owns the rows after a copy, and which of them are active.
LEMMA CopiedActive ==
  ASSUME FormsInv, NEW a \in Clients, NEW into, NEW first, NEW n, NEW original,
         Copies(a, into, first, n, original), NEW p, NEW r \in Forming!Active(p)'
  PROVE  \/ r \in Forming!Active(p) \ tx[a].seen
         \/ /\ p = into /\ r \in first + 1 .. first + n
            /\ original[r] \in Forming!Active(tx[a].source)
         \/ tx[a].fresh /\ tx[a].flag /\ r = into /\ p = tx[a].owner
<1> DEFINE copied == r \in first + 1 .. first + n
           fresh == tx[a].fresh /\ r = into
<1>1. r \in Ids /\ child'[r] # Absent /\ child'[r].owner = p /\ child'[r].active
  BY DEF Forming!Active, Forming!Children, Forming!Exists, Ids
<1>2. CASE copied
  <2>1. /\ child'[r].owner = into /\ child'[r].active = child[original[r]].active
        /\ original[r] \in Ids /\ child[original[r]] # Absent
        /\ child[original[r]].owner = tx[a].source
    BY <1>2, CopyOfOriginal
  <2>2. original[r] \in Forming!Active(tx[a].source)
    BY <1>1, <2>1 DEF Forming!Active, Forming!Children, Forming!Exists, Ids
  <2> QED BY <1>1, <1>2, <2>1, <2>2
<1>3. CASE fresh
  BY <1>1, <1>3, CopiedRow
<1>4. CASE ~copied /\ ~fresh
  <2>1. child'[r] = Forming!Deactivated(tx[a].seen)[r]
    BY <1>1, <1>4, CopiedRow
  <2>2. child[r] # Absent /\ child[r].owner = p /\ child[r].active /\ r \notin tx[a].seen
    BY <1>1, <2>1, DeactivatedRows
  <2> QED BY <1>1, <2>2 DEF Forming!Active, Forming!Children, Forming!Exists, Ids
<1> QED BY <1>2, <1>3, <1>4

LEMMA CopiedBatches ==
  ASSUME FormsInv, NEW a \in Clients, NEW into, NEW first, NEW n, NEW original,
         Copies(a, into, first, n, original)
  PROVE  /\ DOMAIN batches' = Forming!Parts
         /\ \A p \in Forming!Parts : batches'[p] \in [Ids -> SUBSET Forming!Batches[p]]
         /\ \A p \in Forming!Parts, r \in Ids :
              batches'[p][r] = IF r \in first + 1 .. first + n THEN batches[p][original[r]]
                                                              ELSE batches[p][r]
<1> DEFINE copies == first + 1 .. first + n
<1>1. /\ batches' = [p \in Forming!Parts |-> [r \in Ids |->
           batches[p][IF r \in DOMAIN original THEN original[r] ELSE r]]]
      /\ original \in [copies -> Ids]
  BY DEF Copies, Forming!WithCopies, Ids
<1> HIDE DEF copies
<1>2. ASSUME NEW p \in Forming!Parts, NEW r \in Ids
      PROVE  batches'[p][r] = IF r \in copies THEN batches[p][original[r]] ELSE batches[p][r]
  BY <1>1
<1>3. ASSUME NEW p \in Forming!Parts, NEW r \in Ids
      PROVE  batches'[p][r] \in SUBSET Forming!Batches[p]
  <2>1. batches[p] \in [Ids -> SUBSET Forming!Batches[p]]
    BY DEF FormsInv, FormsOrdered, FormsTyped
  <2>2. r \in copies => original[r] \in Ids
    BY <1>1
  <2> QED BY <1>2, <2>1, <2>2
<1>4. DOMAIN batches' = Forming!Parts
  BY <1>1
<1>5. ASSUME NEW p \in Forming!Parts
      PROVE  batches'[p] \in [Ids -> SUBSET Forming!Batches[p]]
  <2>1. batches'[p] = [r \in Ids |-> batches[p][IF r \in DOMAIN original THEN original[r] ELSE r]]
    BY <1>1
  <2> QED BY <1>3, <2>1
<1> QED BY <1>2, <1>4, <1>5 DEF copies

LEMMA CopyKeeps ==
  ASSUME FormsInv, NEW a \in Clients, NEW into, NEW first, NEW n, NEW original,
         Copies(a, into, first, n, original), Forming!End(a), UNCHANGED <<forms, usedForms>>
  PROVE  FormsInv'
<1> DEFINE t == tx[a]
           copies == first + 1 .. first + n
<1>1. /\ copies \subseteq Ids /\ copies \cap Known = {}
      /\ into \in Forming!OwnerIds /\ into \notin copies
      /\ t.fresh => into \in Ids /\ into \notin Known
      /\ t.owner \in Forming!OwnerIds \cap Known
      /\ t.owner \notin contended => Sees(t, Forming!Active(t.owner))
  BY CopiedIds
<1>2. /\ children \in Nat /\ children' \in Nat /\ first \in Nat /\ n \in Nat
      /\ children' = first + n /\ children <= children' /\ children' <= MaxChildren
      /\ first = children + (IF t.fresh THEN 1 ELSE 0) /\ t \in Forming!CloneTx
      /\ into = IF t.fresh THEN children + 1 ELSE t.owner
      /\ original \in [copies -> Ids]
      /\ \A r, s \in copies : original[r] = original[s] => r = s
  BY FormSets DEF Copies
<1>3. contended' = contended
        \cup {o \in {t.owner} : Forming!OpenOn(a, o)}
        \cup {o \in {into} : t.source \in contended}
        \cup {r \in copies : original[r] \in contended}
  BY DEF Copies
<1>4. /\ tx' \in [Clients -> Transactions \cup {Absent}]
      /\ tx'[a] = Absent /\ \A b \in Clients \ {a} : tx'[b] = tx[b]
      /\ \A b \in Clients : tx'[b] \in {tx[b], Absent}
  BY Ended
<1>5. /\ DOMAIN batches' = Forming!Parts
      /\ \A p \in Forming!Parts : batches'[p] \in [Ids -> SUBSET Forming!Batches[p]]
      /\ \A p \in Forming!Parts, r \in Ids :
           batches'[p][r] = IF r \in copies THEN batches[p][original[r]] ELSE batches[p][r]
  BY CopiedBatches
<1>6. \A r \in copies : r \in Nat /\ r <= children'
  BY <1>2
<1>7. t.fresh => into \in Nat /\ into <= children'
  BY <1>2
<1> HIDE DEF t, copies
<1>8. Known \subseteq Known' /\ copies \subseteq Known' /\ into \in Known'
  <2>1. Known \subseteq Known'
    BY <1>2, KnownGrows
  <2>2. \A r \in Ids : r <= children' => r \in Known'
    BY <1>2, FormSets DEF Known
  <2> QED BY <1>1, <1>2, <1>6, <1>7, <2>1, <2>2
<1>9. FormsTyped'
  <2>1. child' \in [Ids -> Forming!Row \cup {Absent}]
    <3>1. \A r \in Ids : child'[r] \in Forming!Row \cup {Absent}
      BY CopiedRow
    <3>2. DOMAIN child' = Ids /\ child' = [r \in Ids |-> child'[r]]
      BY DEF Copies
    <3> QED BY <3>1, <3>2
  <2> QED BY <1>2, <1>4, <1>5, <2>1, FormSets DEF FormsInv, FormsOrdered, FormsTyped
<1>10. RowsKnown'
  <2>1. ASSUME NEW r \in Ids, child'[r] # Absent
        PROVE  r <= children' /\ child'[r].owner \in Known'
    <3>1. CASE r \in copies
      <4>1. child'[r].owner = into
        BY <3>1, CopyOfOriginal DEF copies
      <4> QED BY <1>6, <1>8, <3>1, <4>1
    <3>2. CASE t.fresh /\ r = into
      <4>1. child'[r].owner = t.owner
        BY <3>2, CopiedRow DEF t
      <4> QED BY <1>1, <1>7, <1>8, <3>2, <4>1
    <3>3. CASE r \notin copies /\ ~(t.fresh /\ r = into)
      <4>1. child'[r] = Forming!Deactivated(t.seen)[r]
        BY <3>3, CopiedRow DEF t, copies
      <4>2. child[r] # Absent /\ child'[r].owner = child[r].owner
        BY <2>1, <4>1, DeactivatedRows
      <4>3. r <= children /\ child[r].owner \in Known /\ r \in Nat
        BY <4>2, FormSets DEF FormsInv, FormsOrdered, RowsKnown
      <4> QED BY <1>2, <1>8, <4>2, <4>3
    <3> QED BY <3>1, <3>2, <3>3
  <2>2. ASSUME NEW p \in Forming!Parts, NEW r \in Ids, batches'[p][r] # {}
        PROVE  r <= children'
    <3>1. CASE r \in copies
      BY <1>6, <3>1
    <3>2. CASE r \notin copies
      <4>1. r <= children /\ r \in Nat
        BY <1>5, <2>2, <3>2, FormSets DEF FormsInv, FormsOrdered, RowsKnown
      <4> QED BY <1>2, <4>1
    <3> QED BY <3>1, <3>2
  <2> QED BY <2>1, <2>2 DEF RowsKnown
<1>11. TxsKnown'
  BY <1>4, <1>8, TxsStayKnown DEF FormsInv, FormsOrdered
\* Nobody is on what was not known.
<1>12. \A b \in Clients : tx'[b] # Absent => tx'[b].owner \in Known
  BY <1>4 DEF FormsInv, FormsOrdered, TxsKnown, TxKnown
<1>13. ASSUME NEW p \in Forming!OwnerIds \ contended'
       PROVE  \/ Forming!Active(p)' \subseteq Forming!Active(p)
              \/ /\ \A r, s \in Forming!Active(p)' : r = s
                 /\ \A b \in Clients : tx'[b] # Absent /\ tx'[b].owner = p => tx'[b].op = "read"
  <2>1. ASSUME NEW r \in Forming!Active(p)'
        PROVE  \/ r \in Forming!Active(p) \ t.seen
               \/ p = into /\ r \in copies /\ original[r] \in Forming!Active(t.source)
               \/ t.fresh /\ t.flag /\ r = into /\ p = t.owner
    BY CopiedActive DEF t, copies
  <2>2. p \notin Known => Forming!Active(p) = {}
    BY DEF Forming!Active, Forming!Children, Forming!Exists, FormsInv, FormsOrdered, RowsKnown, Ids
  <2>3. p \notin contended /\ (p = t.owner => ~Forming!OpenOn(a, p))
        /\ (p = into => t.source \notin contended)
    BY <1>3
  <2>4. p = t.owner =>
          \A b \in Clients : tx'[b] # Absent /\ tx'[b].owner = p => tx'[b].op = "read"
    BY <1>4, <2>3, NobodyElse
  <2>5. CASE p = into
    <3>1. t.source \in Forming!OwnerIds
      BY <1>2 DEF Forming!CloneTx, Forming!OwnerIds
    <3>2. \A r, s \in Forming!Active(t.source) : r = s
      BY <2>3, <2>5, <3>1 DEF FormsInv, ActiveKept, OneActive
    <3>3. Forming!Active(p) = {}
      <4>1. CASE t.fresh
        BY <1>1, <2>2, <2>5, <4>1
      <4>2. CASE ~t.fresh
        <5>1. p = t.owner /\ t.op = "clone"
          BY <1>2, <2>5, <4>2 DEF Forming!CloneTx
        <5> QED BY <1>1, <2>3, <4>2, <5>1 DEF Sees
      <4> QED BY <4>1, <4>2
    <3>4. \A b \in Clients : tx'[b] # Absent /\ tx'[b].owner = p => tx'[b].op = "read"
      <4>1. CASE t.fresh
        BY <1>1, <1>12, <2>5, <4>1
      <4>2. CASE ~t.fresh
        BY <1>2, <2>4, <2>5, <4>2
      <4> QED BY <4>1, <4>2
    <3>5. t.fresh => p # t.owner
      BY <1>1, <2>5
    <3>6. ASSUME NEW r \in Forming!Active(p)'
          PROVE  r \in copies /\ original[r] \in Forming!Active(t.source)
      BY <2>1, <3>3, <3>5
    <3>7. ASSUME NEW r \in Forming!Active(p)', NEW s \in Forming!Active(p)'
          PROVE  r = s
      <4>1. original[r] = original[s]
        BY <3>2, <3>6
      <4> QED BY <1>2, <3>6, <4>1
    <3> QED BY <3>4, <3>7
  <2>6. CASE p # into /\ p = t.owner /\ t.fresh /\ t.flag
    <3>1. t.op = "clone"
      BY <1>2 DEF Forming!CloneTx
    <3>2. Forming!Active(p) \subseteq t.seen
      BY <1>1, <2>3, <2>6, <3>1 DEF Sees
    <3>3. \A r \in Forming!Active(p)' : r = into
      BY <2>1, <2>6, <3>2
    <3> QED BY <2>4, <2>6, <3>3
  <2>7. CASE p # into /\ ~(p = t.owner /\ t.fresh /\ t.flag)
    BY <2>1, <2>7
  <2> QED BY <2>5, <2>6, <2>7
<1>14. contended \subseteq contended'
  BY <1>3
<1>15. ActiveKept'
  BY <1>4, <1>13, <1>14, ActiveKeeps DEF FormsInv
<1>16. ASSUME NEW r \in Ids \ contended', NEW p \in Forming!Parts
       PROVE  \/ batches'[p][r] \subseteq batches[p][r]
              \/ /\ \A b, c \in batches'[p][r] : b = c
                 /\ \A b \in Clients :
                      tx'[b] # Absent /\ tx'[b].owner = r => tx'[b].op # "replace"
  <2>1. CASE r \in copies
    <3>1. original[r] \in Ids \ contended
      BY <1>2, <1>3, <2>1
    <3>2. OneBatch(original[r], p)
      BY <3>1 DEF FormsInv, BatchesKept
    <3>3. \A b, c \in batches'[p][r] : b = c
      BY <1>5, <2>1, <3>2 DEF OneBatch
    <3> QED BY <1>1, <1>12, <2>1, <3>3
  <2>2. CASE r \notin copies
    BY <1>5, <2>2
  <2> QED BY <2>1, <2>2
<1>17. BatchesKept'
  BY <1>4, <1>14, <1>16, BatchesKeep DEF FormsInv
<1> QED BY <1>9, <1>10, <1>11, <1>15, <1>17 DEF FormsInv, FormsOrdered

LEMMA CloneCommitKeeps ==
  ASSUME FormsInv, NEW a \in Clients, Forming!CloneCommit(a)
  PROVE  FormsInv'
<1>1. Forming!End(a) /\ UNCHANGED <<forms, usedForms>>
  BY DEF Forming!CloneCommit
<1>2. CASE Forming!OwnerExists(tx[a].owner)
  <2>1. PICK into, first, n, original : Copies(a, into, first, n, original)
    BY <1>2, Copied
  <2> QED BY <1>1, <2>1, CopyKeeps
<1>3. CASE ~Forming!OwnerExists(tx[a].owner)
  <2>1. UNCHANGED <<child, children, batches, contended>>
    BY <1>3 DEF Forming!CloneCommit
  <2> QED BY <1>1, <2>1, RollbackKeeps
<1> QED BY <1>2, <1>3

-----------------------------------------------------------------------------
(* The invariant *)

LEMMA FormsBegin ==
  ASSUME Forming!Init
  PROVE  FormsInv
<1> DEFINE full == CHOOSE f \in EditedForms : TRUE
           empty == CHOOSE f \in EditedForms : f # full
<1>1. PICK o \in DOMAIN Options, r \in DOMAIN Ranges, t \in DOMAIN Tiers :
        /\ forms = {full, empty} /\ usedForms = forms
        /\ child = [i \in Ids |->
             CASE i = 1 -> [owner |-> full, active |-> TRUE]
               [] i = 2 -> [owner |-> 1, active |-> TRUE]
               [] i = 3 -> [owner |-> empty, active |-> TRUE]
               [] OTHER -> Absent]
        /\ children = 3
        /\ batches = [p \in Forming!Parts |-> [i \in Ids |-> IF i # 2 THEN {}
             ELSE CASE p = "option" -> {o} [] p = "range" -> {r} [] p = "tier" -> {t}]]
        /\ tx = [a \in Clients |-> Absent]
        /\ contended = {}
  BY Zenon DEF Forming!Init, Ids
<1>2. full \in EditedForms /\ empty \in EditedForms /\ full # empty
  <2>1. \E f, g \in EditedForms : f # g
    BY FormConstants
  <2>2. full \in EditedForms
    BY <2>1
  <2> HIDE DEF full
  <2>3. \E f \in EditedForms : f # full
    BY <2>1
  <2> QED BY <2>2, <2>3
<1> HIDE DEF full, empty
<1>3. 1 \in Ids /\ 2 \in Ids /\ 3 \in Ids /\ full \notin Ids /\ empty \notin Ids
  BY <1>2, FormSets
<1>4. /\ DOMAIN child = Ids
      /\ child[1] = [owner |-> full, active |-> TRUE]
      /\ child[2] = [owner |-> 1, active |-> TRUE]
      /\ child[3] = [owner |-> empty, active |-> TRUE]
      /\ \A i \in Ids : i \notin {1, 2, 3} => child[i] = Absent
  BY <1>1, <1>3
<1>5. /\ child[1] \in Forming!Row /\ child[2] \in Forming!Row /\ child[3] \in Forming!Row
      /\ child[1].owner = full /\ child[2].owner = 1 /\ child[3].owner = empty
  BY <1>2, <1>3, <1>4, FormSets DEF Forming!Row
<1>6. child \in [Ids -> Forming!Row \cup {Absent}]
  <2>1. \A i \in Ids : child[i] \in Forming!Row \cup {Absent}
    BY <1>4, <1>5
  <2>2. child = [i \in Ids |-> child[i]]
    BY <1>1
  <2> QED BY <2>1, <2>2
<1>7. /\ DOMAIN batches = Forming!Parts
      /\ \A p \in Forming!Parts : batches[p] \in [Ids -> SUBSET Forming!Batches[p]]
      /\ \A p \in Forming!Parts, i \in Ids :
           /\ i # 2 => batches[p][i] = {}
           /\ \A b, c \in batches[p][i] : b = c
  <2>1. DOMAIN batches = Forming!Parts
    BY <1>1
  <2>2. ASSUME NEW p \in Forming!Parts, NEW i \in Ids
        PROVE  /\ i # 2 => batches[p][i] = {}
               /\ \A b, c \in batches[p][i] : b = c
               /\ batches[p][i] \in SUBSET Forming!Batches[p]
    <3>1. batches[p][i] = IF i # 2 THEN {}
            ELSE CASE p = "option" -> {o} [] p = "range" -> {r} [] p = "tier" -> {t}
      BY <1>1
    <3>2. p = "option" \/ p = "range" \/ p = "tier"
      BY FormSets
    <3> QED BY <3>1, <3>2, FormSets
  <2>3. ASSUME NEW p \in Forming!Parts
        PROVE  batches[p] \in [Ids -> SUBSET Forming!Batches[p]]
    <3>1. batches[p] = [i \in Ids |-> IF i # 2 THEN {}
            ELSE CASE p = "option" -> {o} [] p = "range" -> {r} [] p = "tier" -> {t}]
      BY <1>1
    <3>2. DOMAIN batches[p] = Ids /\ batches[p] = [i \in Ids |-> batches[p][i]]
      BY <3>1
    <3> QED BY <2>2, <3>2
  <2> QED BY <2>1, <2>2, <2>3
<1>8. \A b \in Clients : tx[b] = Absent
  BY <1>1
<1>9. FormsTyped
  <2>1. tx \in [Clients -> Transactions \cup {Absent}]
    BY <1>1
  <2>2. children \in 0..MaxChildren
    BY <1>1, FormSets
  <2>3. usedForms \subseteq EditedForms /\ forms \subseteq usedForms
    BY <1>1, <1>2
  <2> QED BY <1>6, <1>7, <2>1, <2>2, <2>3 DEF FormsTyped
<1>10. RowsKnown
  <2>1. full \in Known /\ empty \in Known /\ 1 \in Known
    BY <1>1 DEF Known
  <2>2. \A i \in Ids : i \in {1, 2, 3} => i <= children
    BY <1>1
  <2>3. \A i \in Ids : child[i] # Absent => i <= children /\ child[i].owner \in Known
    BY <1>4, <1>5, <2>1, <2>2
  <2>4. \A p \in Forming!Parts, i \in Ids : batches[p][i] # {} => i <= children
    BY <1>7, <2>2
  <2> QED BY <2>3, <2>4 DEF RowsKnown
<1>11. ASSUME NEW p PROVE OneActive(p)
  <2>1. ASSUME NEW i \in Forming!Active(p), NEW j \in Forming!Active(p)
        PROVE  i = j
    <3>1. /\ i \in Ids /\ child[i] # Absent /\ child[i].owner = p
          /\ j \in Ids /\ child[j] # Absent /\ child[j].owner = p
      BY DEF Forming!Active, Forming!Children, Forming!Exists, Ids
    <3>2. i \in {1, 2, 3} /\ j \in {1, 2, 3}
      BY <1>4, <3>1
    <3>3. full # 1 /\ empty # 1
      BY <1>3
    <3> QED BY <1>2, <1>5, <3>1, <3>2, <3>3
  <2> QED BY <1>8, <2>1 DEF OneActive
<1>12. ActiveKept
  BY <1>11 DEF ActiveKept
<1>13. BatchesKept
  BY <1>7, <1>8 DEF BatchesKept, OneBatch
<1> QED BY <1>8, <1>9, <1>10, <1>12, <1>13 DEF FormsInv, FormsOrdered, TxsKnown

LEMMA RequestKeeps ==
  ASSUME FormsInv, NEW a \in Clients, Forming!Request(a)
  PROVE  FormsInv'
<1>1. ASSUME NEW f \in EditedForms, Forming!CreateForm(a, f) PROVE FormsInv'
  BY <1>1, CreateFormKeeps
<1>2. ASSUME NEW f \in EditedForms, NEW v \in BOOLEAN, NEW s \in BOOLEAN,
             NEW o \in DOMAIN Options, NEW r \in DOMAIN Ranges,
             Forming!CreateFull(a, f, v, s, o, r)
      PROVE  FormsInv'
  BY <1>2, CreateFullKeeps
<1>3. ASSUME NEW f \in EditedForms, Forming!RemoveForm(a, f) PROVE FormsInv'
  BY <1>3, RemovalsKeep
<1>4. ASSUME NEW f \in EditedForms, NEW flag \in BOOLEAN, Forming!CreateVersion(a, f, flag)
      PROVE  FormsInv'
  BY <1>4, CreationsBegin
<1>5. ASSUME NEW v \in Ids, NEW flag \in BOOLEAN, Forming!CreateScore(a, v, flag)
      PROVE  FormsInv'
  BY <1>5, CreationsBegin
<1>6. ASSUME NEW r \in Ids, NEW off \in BOOLEAN,
             Forming!UpdateVersion(a, r, off) \/ Forming!UpdateScore(a, r, off)
      PROVE  FormsInv'
  BY <1>6, EditsBegin
<1>7. ASSUME NEW r \in Ids, Forming!ActivateVersion(a, r) \/ Forming!ActivateScore(a, r)
      PROVE  FormsInv'
  BY <1>7, EditsBegin
<1>8. ASSUME NEW r \in Ids, Forming!RemoveVersion(a, r) \/ Forming!RemoveScore(a, r)
      PROVE  FormsInv'
  BY <1>8, RemovalsKeep
<1>9. ASSUME NEW v \in Ids, Forming!LinkQuestion(a, v) \/ Forming!UnlinkQuestion(a, v)
      PROVE  FormsInv'
  BY <1>9, LinksKeep
<1>10. ASSUME NEW s \in Ids, NEW n \in SUBSET DOMAIN Options,
              Forming!Cardinality(n) <= 1 /\ Forming!ReplaceOptionPoints(a, s, n)
       PROVE  FormsInv'
  BY <1>10, ReplacementsBegin
<1>11. ASSUME NEW s \in Ids, NEW n \in SUBSET DOMAIN Ranges,
              Forming!Cardinality(n) <= 1 /\ Forming!ReplaceRangePoints(a, s, n)
       PROVE  FormsInv'
  BY <1>11, ReplacementsBegin
<1>12. ASSUME NEW s \in Ids, NEW n \in SUBSET DOMAIN Tiers,
              Forming!Cardinality(n) <= 1 /\ Forming!ReplaceTierRules(a, s, n)
       PROVE  FormsInv'
  BY <1>12, ReplacementsBegin
<1>13. ASSUME NEW v \in Ids, NEW t \in Ids, Forming!CloneBegin(a, v, t) PROVE FormsInv'
  BY <1>13, CloneBeginKeeps
<1> QED
  BY <1>1, <1>2, <1>3, <1>4, <1>5, <1>6, <1>7, <1>8, <1>9, <1>10, <1>11, <1>12, <1>13
     DEF Forming!Request, Ids

LEMMA FormsKept ==
  ASSUME FormsInv, [Next]_vars
  PROVE  FormsInv'
<1>1. CASE Forming!Next
  <2>1. ASSUME NEW a \in Clients, Forming!Request(a) PROVE FormsInv'
    BY <2>1, RequestKeeps
  <2>2. ASSUME NEW a \in Clients, Forming!Transaction(a) PROVE FormsInv'
    BY <2>2, CreateCommitKeeps, EditBeginKeeps, EditCommitKeeps, ReplaceCommitKeeps,
       CloneCommitKeeps DEF Forming!Transaction
  <2>3. ASSUME NEW w \in Scorers, Forming!Score(w) PROVE FormsInv'
    BY <2>3, ScoringKeeps
  <2> QED BY <1>1, <2>1, <2>2, <2>3 DEF Forming!Next
\* The other parts leave the forms alone.
<1>2. CASE UNCHANGED formVars
  BY <1>2, FormsSame DEF formVars, FormsInv, FormsOrdered, FormsTyped
<1> QED BY <1>1, <1>2 DEF Next, Step, vars

\* The forms stay in order: rows and transactions are on what was given out,
\* and where no two transactions met there is one active child, one batch of a
\* part, and no transaction that could add to them unseen.
THEOREM FormsInvariant == Spec => []FormsInv
<1>1. Init => FormsInv
  BY FormsBegin DEF Init
<1>2. FormsInv /\ [Next]_vars => FormsInv'
  BY FormsKept
<1> QED BY <1>1, <1>2, PTL DEF Spec

\* A set whose members are all equal.
LEMMA AtMostOne ==
  ASSUME NEW S, \A b, c \in S : b = c
  PROVE  Forming!Cardinality(S) <= 1
<1>1. Forming!Cardinality(S) = Cardinality(S)
  BY DEF Forming!Cardinality, Cardinality
<1>2. CASE S = {}
  BY <1>1, <1>2, FS_EmptySet
<1>3. CASE S # {}
  <2>1. PICK b : S = {b}
    BY <1>3
  <2>2. Cardinality({b}) = 1
    BY FS_Singleton
  <2> QED BY <1>1, <2>1, <2>2
<1> QED BY <1>2, <1>3

\* However many administrators create, activate, edit, replace and clone at the
\* same time: of what a form, version or score owns one is active, and it has
\* one batch of each part, unless two transactions wrote to it at once.
THEOREM OneActiveUnlessCrowded == Spec => []OneUnlessCrowded
<1>1. FormsInv => OneUnlessCrowded
  <2> SUFFICES ASSUME FormsInv PROVE Forming!OneUnlessCrowded
    BY DEF OneUnlessCrowded
  <2>1. ASSUME NEW o \in Forming!OwnerIds \ contended
        PROVE  Forming!Cardinality(Forming!Active(o)) <= 1
    BY AtMostOne DEF FormsInv, ActiveKept, OneActive
  <2>2. ASSUME NEW s \in Ids \ contended, NEW p \in Forming!Parts
        PROVE  Forming!Cardinality(batches[p][s]) <= 1
    BY AtMostOne DEF FormsInv, BatchesKept, OneBatch
  <2> QED BY <2>1, <2>2 DEF Forming!OneUnlessCrowded, Ids
<1> QED BY <1>1, FormsInvariant, PTL

-----------------------------------------------------------------------------
(* Rows stay with their owners *)

\* A row is found by the id of its owner, and is never given to another: not
\* even when it is deleted and an edit that had read it saves it again.
AtHome(t, home) ==
  /\ t.op # "replace" => \A r \in t.seen : r <= children /\ home[r] = t.owner
  /\ t.op \in {"read", "edit"} => t.id <= children /\ home[t.id] = t.owner
  /\ t.op # "replace" /\ ~t.flag => t.seen = {}
  /\ t.op = "clone" /\ ~t.fresh => t.seen = {}

RowsAtHome(home) == \A r \in Ids : child[r] # Absent => child[r].owner = home[r]
TxsAtHome(home) == \A a \in Clients : tx[a] # Absent => AtHome(tx[a], home)
Homes == \E home \in [Ids -> Forming!OwnerIds] : RowsAtHome(home) /\ TxsAtHome(home)

\* One that edits row r of owner o.
Editing(r, o) ==
  \E b \in Clients :
    tx[b] # Absent /\ tx[b].op \in {"read", "edit"} /\ tx[b].id = r /\ tx[b].owner = o

OfOwner(r, o) == r \in Ids /\ child[r] # Absent /\ child[r].owner = o

\* A transaction that begins, or makes its statement, with what is there.
Founded(t) ==
  /\ t.op # "replace" => \A r \in t.seen : OfOwner(r, t.owner)
  /\ t.op \in {"read", "edit"} =>
       t.id \in Ids /\ (OfOwner(t.id, t.owner) \/ Editing(t.id, t.owner))
  /\ t.op # "replace" /\ ~t.flag => t.seen = {}
  /\ t.op = "clone" /\ ~t.fresh => t.seen = {}

LEMMA HomesKeep ==
  ASSUME FormsInv, Homes, child' \in [Ids -> Forming!Row \cup {Absent}],
         children' \in Nat, children <= children',
         \A r \in Ids : r <= children /\ child'[r] # Absent =>
            OfOwner(r, child'[r].owner) \/ Editing(r, child'[r].owner),
         \A b \in Clients : tx'[b] # Absent => tx'[b] = tx[b] \/ Founded(tx'[b])
  PROVE  Homes'
<1>1. PICK home \in [Ids -> Forming!OwnerIds] : RowsAtHome(home) /\ TxsAtHome(home)
  BY DEF Homes
<1> DEFINE next == [r \in Ids |-> IF r <= children \/ child'[r] = Absent THEN home[r]
                                                                       ELSE child'[r].owner]
<1>2. PICK new \in [Ids -> Forming!OwnerIds] : new = next
  <2>1. ASSUME NEW r \in Ids, child'[r] # Absent PROVE child'[r].owner \in Forming!OwnerIds
    BY <2>1 DEF Forming!Row
  <2>2. next \in [Ids -> Forming!OwnerIds]
    BY <1>1, <2>1
  <2> HIDE DEF next
  <2> QED BY <2>2
<1>3. /\ \A r \in Ids : r <= children => new[r] = home[r]
      /\ \A r \in Ids : ~(r <= children) /\ child'[r] # Absent => new[r] = child'[r].owner
  BY <1>2
<1> HIDE DEF next
<1>4. ASSUME NEW r, NEW o, OfOwner(r, o) PROVE r <= children /\ home[r] = o
  BY <1>1, <1>4 DEF OfOwner, RowsAtHome, FormsInv, FormsOrdered, RowsKnown
<1>5. ASSUME NEW r, NEW o, Editing(r, o) PROVE r <= children /\ home[r] = o
  BY <1>1, <1>5 DEF Editing, TxsAtHome, AtHome
<1>6. RowsAtHome(new)'
  <2> SUFFICES ASSUME NEW r \in Ids, child'[r] # Absent PROVE child'[r].owner = new[r]
    BY DEF RowsAtHome, Ids
  <2>1. CASE r <= children
    BY <1>3, <1>4, <1>5, <2>1
  <2>2. CASE ~(r <= children)
    BY <1>3, <2>2
  <2> QED BY <2>1, <2>2
<1>7. \A r \in Ids : r <= children => r <= children'
  BY FormSets DEF FormsInv, FormsOrdered, FormsTyped
<1>8. ASSUME NEW b \in Clients, tx'[b] # Absent
      PROVE  /\ tx'[b].op # "replace" => \A r \in tx'[b].seen : r \in Ids
             /\ tx'[b].op \in {"read", "edit"} => tx'[b].id \in Ids
  BY <1>8 DEF Founded, OfOwner, FormsInv, FormsOrdered, FormsTyped, Transactions, Ids,
     Forming!CreateTx, Forming!EditTx, Forming!ReplaceTx, Forming!CloneTx
<1>9. TxsAtHome(new)'
  <2> SUFFICES ASSUME NEW b \in Clients, tx'[b] # Absent
               PROVE  /\ tx'[b].op # "replace" =>
                           \A r \in tx'[b].seen : r <= children' /\ new[r] = tx'[b].owner
                      /\ tx'[b].op \in {"read", "edit"} =>
                           tx'[b].id <= children' /\ new[tx'[b].id] = tx'[b].owner
                      /\ tx'[b].op # "replace" /\ ~tx'[b].flag => tx'[b].seen = {}
                      /\ tx'[b].op = "clone" /\ ~tx'[b].fresh => tx'[b].seen = {}
    BY DEF TxsAtHome, AtHome
  <2>1. CASE tx'[b] = tx[b]
    <3>1. AtHome(tx[b], home)
      BY <1>1, <2>1 DEF TxsAtHome
    <3> QED BY <1>3, <1>7, <1>8, <2>1, <3>1 DEF AtHome
  <2>2. CASE Founded(tx'[b])
    BY <1>3, <1>4, <1>5, <1>7, <1>8, <2>2 DEF Founded
  <2> QED BY <2>1, <2>2
<1> QED BY <1>2, <1>6, <1>9 DEF Homes, Forming!OwnerIds, Forming!Ids, Ids

\* The rows a step leaves keep their owners, unless an edit saves its row again;
\* the transactions in progress go on, or begin with what is there.
OwnersStay ==
  \A r \in Ids : r <= children /\ child'[r] # Absent =>
    OfOwner(r, child'[r].owner) \/ Editing(r, child'[r].owner)
TxsFounded == \A b \in Clients : tx'[b] # Absent => tx'[b] = tx[b] \/ Founded(tx'[b])
AtHomeStep == OwnersStay /\ TxsFounded /\ children <= children'

LEMMA RowsSame ==
  ASSUME FormsInv, UNCHANGED <<child, children>>
  PROVE  OwnersStay /\ children <= children' /\ Forming!LostOnRequest
<1>1. OwnersStay
  BY DEF OwnersStay, OfOwner
<1>2. children <= children'
  BY FormSets DEF FormsInv, FormsOrdered, FormsTyped
<1>3. \A o : Forming!Active(o)' = Forming!Active(o)
  BY DEF Forming!Active, Forming!Children, Forming!Exists
<1> QED BY <1>1, <1>2, <1>3 DEF Forming!LostOnRequest

LEMMA TxsSame ==
  ASSUME UNCHANGED tx
  PROVE  TxsFounded
BY DEF TxsFounded

LEMMA TxBegins ==
  ASSUME FormsInv, NEW a \in Clients, NEW t, Forming!Start(a, t), Founded(t)
  PROVE  TxsFounded
<1>1. \A b \in Clients : tx'[b] = IF b = a THEN t ELSE tx[b]
  BY DEF Forming!Start, FormsInv, FormsOrdered, FormsTyped
<1> QED BY <1>1 DEF TxsFounded

LEMMA TxEnds ==
  ASSUME FormsInv, NEW a \in Clients, Forming!End(a)
  PROVE  TxsFounded
BY Ended DEF TxsFounded

LEMMA DeleteLoses ==
  ASSUME FormsInv, NEW gone, Forming!Delete(gone), UNCHANGED <<children, tx>>
  PROVE  AtHomeStep /\ Forming!LostOnRequest
<1>1. PICK all : child' = [r \in Ids |-> IF r \in all THEN Absent ELSE child[r]]
  BY DEF Forming!Delete, Ids
<1>2. OwnersStay
  BY <1>1 DEF OwnersStay, OfOwner
<1>3. children <= children'
  BY FormSets DEF FormsInv, FormsOrdered, FormsTyped
<1>4. ASSUME NEW o, Forming!Active(o) # {}, Forming!Active(o)' = {}
      PROVE  \E r \in Forming!Active(o) : ~Forming!Exists(r)'
  <2>1. PICK r : r \in Forming!Active(o)
    BY <1>4
  <2>2. r \in Ids /\ child[r] # Absent /\ child[r].owner = o /\ child[r].active
    BY <2>1 DEF Forming!Active, Forming!Children, Forming!Exists, Ids
  <2>3. r \notin all => r \in Forming!Active(o)'
    BY <1>1, <2>2 DEF Forming!Active, Forming!Children, Forming!Exists, Ids
  <2>4. child'[r] = Absent
    BY <1>1, <1>4, <2>2, <2>3
  <2> QED BY <2>1, <2>4 DEF Forming!Exists
<1> QED BY <1>2, <1>3, <1>4, TxsSame DEF AtHomeStep, Forming!LostOnRequest

\* A version has its form, a score its version; what is saved over is what an
\* edit had read.
LEMMA WriteLoses ==
  ASSUME FormsInv, NEW a \in Clients, NEW seen, NEW id \in Ids, NEW new \in Forming!Row,
         Writes(seen, id, new), Forming!End(a), children <= children',
         NEW home, RowsAtHome(home), \A r \in seen : home[r] = new.owner,
         ~new.active => seen = {},
         \/ ~(id <= children)
         \/ /\ tx[a] # Absent /\ tx[a].op = "edit" /\ tx[a].id = id
            /\ tx[a].owner = new.owner /\ tx[a].flag = new.active /\ home[id] = new.owner
  PROVE  AtHomeStep /\ Forming!LostOnRequest
<1>1. child'[id] = new /\ new # Absent
  BY RowWritten
<1>2. OwnersStay
  <2>1. ASSUME NEW r \in Ids, r <= children, child'[r] # Absent
        PROVE  OfOwner(r, child'[r].owner) \/ Editing(r, child'[r].owner)
    <3>1. CASE r = id
      BY <1>1, <2>1, <3>1 DEF Editing
    <3>2. CASE r # id
      <4>1. child[r] # Absent /\ child'[r].owner = child[r].owner
        BY <2>1, <3>2, OtherOwners
      <4> QED BY <4>1 DEF OfOwner
    <3> QED BY <3>1, <3>2
  <2> QED BY <2>1 DEF OwnersStay
<1>3. tx'[a] = Absent
  BY Ended
<1>4. ASSUME NEW o, Forming!Active(o) # {}, Forming!Active(o)' = {}
      PROVE  /\ Forming!In(a, "edit") /\ ~tx[a].flag /\ tx'[a] = Absent
             /\ tx[a].id \in Forming!Active(o)
  <2>1. PICK r : r \in Forming!Active(o)
    BY <1>4
  <2>2. r \in Ids /\ child[r] # Absent /\ child[r].owner = o /\ child[r].active
    BY <2>1 DEF Forming!Active, Forming!Children, Forming!Exists, Ids
  <2>3. home[r] = o /\ r <= children
    BY <2>2 DEF RowsAtHome, FormsInv, FormsOrdered, RowsKnown
  <2>4. ~(new.owner = o /\ new.active)
    BY <1>1, <1>4 DEF Forming!Active, Forming!Children, Forming!Exists, Ids
  <2>5. r = id
    <3> SUFFICES ASSUME r # id PROVE FALSE
      OBVIOUS
    <3>1. r \notin seen
      BY <2>3, <2>4
    <3>2. child'[r] # Absent /\ child'[r].owner = o /\ child'[r].active
      BY <2>2, <3>1, OtherRows
    <3> QED BY <1>4, <2>2, <3>2 DEF Forming!Active, Forming!Children, Forming!Exists, Ids
  <2> QED BY <1>3, <2>1, <2>3, <2>4, <2>5 DEF Forming!In
<1> QED BY <1>2, <1>4, TxEnds DEF AtHomeStep, Forming!LostOnRequest

LEMMA RollbackLoses ==
  ASSUME FormsInv, NEW a \in Clients, Forming!End(a), UNCHANGED <<child, children>>
  PROVE  AtHomeStep /\ Forming!LostOnRequest
BY RowsSame, TxEnds DEF AtHomeStep

LEMMA CreateCommitLoses ==
  ASSUME FormsInv, Homes, NEW a \in Clients, Forming!CreateCommit(a)
  PROVE  AtHomeStep /\ Forming!LostOnRequest
<1> DEFINE t == tx[a]
           new == [owner |-> t.owner, active |-> t.flag]
<1>1. t # Absent /\ t.op = "create" /\ t \in Forming!CreateTx /\ Forming!End(a)
  BY InHandTyped DEF Forming!CreateCommit, Forming!In
<1>2. CASE Forming!OwnerExists(t.owner)
  <2>1. children + 1 \in Ids /\ children <= children + 1 /\ ~(children + 1 <= children)
    BY FormSets DEF Forming!CreateCommit, FormsInv, FormsOrdered, FormsTyped
  <2>2. Writes(t.seen, children + 1, new) /\ children' = children + 1
    BY <1>2 DEF Forming!CreateCommit, Writes
  <2>3. new \in Forming!Row /\ new.owner = t.owner /\ new.active = t.flag
    BY <1>1 DEF Forming!CreateTx, Forming!Row
  <2> HIDE DEF new
  <2>4. PICK home : RowsAtHome(home) /\ AtHome(t, home)
    BY <1>1 DEF Homes, TxsAtHome
  <2>5. \A r \in t.seen : home[r] = new.owner
    BY <1>1, <2>3, <2>4 DEF AtHome
  <2>6. ~new.active => t.seen = {}
    BY <1>1, <2>3, <2>4 DEF AtHome
  <2>7. children <= children'
    BY <2>1, <2>2
  <2> QED BY <1>1, <2>1, <2>2, <2>3, <2>4, <2>5, <2>6, <2>7, WriteLoses
<1>3. CASE ~Forming!OwnerExists(t.owner)
  <2>1. UNCHANGED <<child, children>>
    BY <1>3 DEF Forming!CreateCommit
  <2> QED BY <1>1, <2>1, RollbackLoses
<1> QED BY <1>2, <1>3

LEMMA EditCommitLoses ==
  ASSUME FormsInv, Homes, NEW a \in Clients, Forming!EditCommit(a)
  PROVE  AtHomeStep /\ Forming!LostOnRequest
<1> DEFINE t == tx[a]
           new == [owner |-> t.owner, active |-> t.flag]
<1>1. t # Absent /\ t.op = "edit" /\ t \in Forming!EditTx /\ Forming!End(a)
      /\ t.owner \in Forming!OwnerIds
  BY InHandTyped DEF Forming!EditCommit, Forming!In
<1>2. CASE Forming!OwnerExists(t.owner)
  <2>1. children \in Int /\ t.flag \in BOOLEAN /\ t.id \in Ids
    BY <1>1, FormSets DEF Forming!EditTx, Ids, FormsInv, FormsOrdered, FormsTyped
  <2>2. Writes(t.seen, t.id, new) /\ children' = children
    BY <1>2 DEF Forming!EditCommit, Writes
  <2>3. new \in Forming!Row /\ new.owner = t.owner /\ new.active = t.flag
    BY <1>1, <2>1 DEF Forming!Row
  <2> HIDE DEF new
  <2>4. PICK home : RowsAtHome(home) /\ AtHome(t, home)
    BY <1>1 DEF Homes, TxsAtHome
  <2>5. (\A r \in t.seen : home[r] = new.owner) /\ home[t.id] = new.owner
    BY <1>1, <2>3, <2>4 DEF AtHome
  <2>6. ~new.active => t.seen = {}
    BY <1>1, <2>3, <2>4 DEF AtHome
  <2>7. children <= children'
    BY <2>1, <2>2
  <2>8. t.owner = new.owner /\ t.flag = new.active
    BY <2>3
  <2> QED BY <1>1, <2>1, <2>2, <2>3, <2>4, <2>5, <2>6, <2>7, <2>8, WriteLoses
<1>3. CASE ~Forming!OwnerExists(t.owner)
  <2>1. UNCHANGED <<child, children>>
    BY <1>3 DEF Forming!EditCommit
  <2> QED BY <1>1, <2>1, RollbackLoses
<1> QED BY <1>2, <1>3

LEMMA ReplaceCommitLoses ==
  ASSUME FormsInv, NEW a \in Clients, Forming!ReplaceCommit(a)
  PROVE  AtHomeStep /\ Forming!LostOnRequest
BY RollbackLoses DEF Forming!ReplaceCommit

LEMMA CloneCommitLoses ==
  ASSUME FormsInv, Homes, NEW a \in Clients, Forming!CloneCommit(a)
  PROVE  AtHomeStep /\ Forming!LostOnRequest
<1>1. Forming!End(a)
  BY DEF Forming!CloneCommit
<1>2. CASE Forming!OwnerExists(tx[a].owner)
  <2>1. PICK into, first, n, original : Copies(a, into, first, n, original)
    BY <1>2, Copied
  <2> DEFINE t == tx[a]
             copies == first + 1 .. first + n
  <2>2. /\ copies \cap Known = {}
        /\ t.fresh => into \in Ids /\ into \notin Known
        /\ t.fresh \in BOOLEAN /\ t.flag \in BOOLEAN
    BY <2>1, CopiedIds
  <2>3. /\ children <= children' /\ t # Absent /\ t.op = "clone"
    BY <2>1, <2>2, FormSets DEF Copies, Forming!CloneTx
  <2>4. PICK home : RowsAtHome(home) /\ AtHome(t, home)
    BY <2>3 DEF Homes, TxsAtHome
  <2> HIDE DEF t, copies
  <2>5. ASSUME NEW r \in Ids, r <= children
        PROVE  child'[r] = Forming!Deactivated(t.seen)[r]
    <3>1. r \in Known
      BY <2>5, FormSets DEF Known, FormsInv, FormsOrdered, FormsTyped
    <3>2. r \notin copies /\ ~(t.fresh /\ r = into)
      BY <2>2, <3>1
    <3> QED BY <2>1, <3>2, CopiedRow DEF t, copies
  <2>6. OwnersStay
    <3> SUFFICES ASSUME NEW r \in Ids, r <= children, child'[r] # Absent
                 PROVE  OfOwner(r, child'[r].owner)
      BY DEF OwnersStay
    <3>1. child[r] # Absent /\ child'[r].owner = child[r].owner
      BY <2>5, DeactivatedRows
    <3> QED BY <3>1 DEF OfOwner
  <2>7. ASSUME NEW o, Forming!Active(o)' = {} PROVE Forming!Active(o) = {}
    <3> SUFFICES ASSUME NEW r \in Forming!Active(o) PROVE FALSE
      OBVIOUS
    <3>1. r \in Ids /\ child[r] # Absent /\ child[r].owner = o /\ child[r].active
      BY DEF Forming!Active, Forming!Children, Forming!Exists, Ids
    <3>2. home[r] = o /\ r <= children
      BY <2>4, <3>1 DEF RowsAtHome, FormsInv, FormsOrdered, RowsKnown
    <3>3. CASE r \notin t.seen
      <4>1. child'[r] # Absent /\ child'[r].owner = o /\ child'[r].active
        BY <2>5, <3>1, <3>2, <3>3, DeactivatedRows
      <4> QED BY <2>7, <3>1, <4>1 DEF Forming!Active, Forming!Children, Forming!Exists, Ids
    <3>4. CASE r \in t.seen
      <4>1. t.fresh /\ t.flag /\ t.owner = o
        BY <2>2, <2>3, <2>4, <3>2, <3>4 DEF AtHome
      <4>2. into \in Ids /\ child'[into].owner = o /\ child'[into].active
        <5>1. into \in Ids
          BY <2>2, <4>1
        <5>2. child'[into].owner = t.owner /\ child'[into].active = t.flag
          BY <2>1, <4>1, <5>1, CopiedRow DEF t
        <5> QED BY <4>1, <5>1, <5>2
      <4>3. child'[into] # Absent
        <5>1. child' = [i \in Ids |->
                CASE i \in copies -> [owner |-> into, active |-> child[original[i]].active]
                  [] t.fresh /\ i = into -> [owner |-> t.owner, active |-> t.flag]
                  [] OTHER -> Forming!Deactivated(t.seen)[i]]
          BY <2>1 DEF Copies, t, copies
        <5>2. into \notin copies /\ t.owner \in Forming!OwnerIds
          BY <2>1, CopiedIds DEF t, copies
        <5>3. child'[into] = [owner |-> t.owner, active |-> t.flag]
          BY <4>1, <4>2, <5>1, <5>2
        <5> QED BY <2>2, <5>2, <5>3, FormSets DEF Forming!Row
      <4> QED BY <2>7, <4>2, <4>3 DEF Forming!Active, Forming!Children, Forming!Exists, Ids
    <3> QED BY <3>3, <3>4
  <2> QED BY <1>1, <2>3, <2>6, <2>7, TxEnds DEF AtHomeStep, Forming!LostOnRequest
<1>3. CASE ~Forming!OwnerExists(tx[a].owner)
  <2>1. UNCHANGED <<child, children>>
    BY <1>3 DEF Forming!CloneCommit
  <2> QED BY <1>1, <2>1, RollbackLoses
<1> QED BY <1>2, <1>3

LEMMA CreateFullLoses ==
  ASSUME FormsInv, NEW a \in Clients, NEW f \in EditedForms, NEW versionFlag, NEW scoreFlag,
         NEW o, NEW r, Forming!CreateFull(a, f, versionFlag, scoreFlag, o, r)
  PROVE  AtHomeStep /\ Forming!LostOnRequest
<1> DEFINE v == children + 1
           s == children + 2
           version == [owner |-> f, active |-> versionFlag]
           score == [owner |-> v, active |-> scoreFlag]
<1>1. /\ children \in Nat /\ children <= children'
      /\ \A i \in Ids : i <= children => i # v /\ i # s
      /\ child' = [child EXCEPT ![v] = version, ![s] = score]
      /\ DOMAIN child = Ids /\ UNCHANGED tx
  BY FormSets DEF Forming!CreateFull, FormsInv, FormsOrdered, FormsTyped
<1> HIDE DEF v, s, version, score
<1>2. \A i \in Ids : i <= children => child'[i] = child[i]
  BY <1>1
<1>3. OwnersStay
  BY <1>2 DEF OwnersStay, OfOwner
<1>4. \A p : Forming!Active(p) \subseteq Forming!Active(p)'
  BY <1>2 DEF Forming!Active, Forming!Children, Forming!Exists, Ids, FormsInv, FormsOrdered, RowsKnown
<1> QED BY <1>1, <1>3, <1>4, TxsSame DEF AtHomeStep, Forming!LostOnRequest

\* A transaction begins, and no row changes.
LEMMA BeginLoses ==
  ASSUME FormsInv, NEW a \in Clients, NEW t, Forming!Start(a, t), Founded(t),
         UNCHANGED <<child, children>>
  PROVE  AtHomeStep /\ Forming!LostOnRequest
BY RowsSame, TxBegins DEF AtHomeStep

LEMMA ChildrenOwned ==
  ASSUME NEW o
  PROVE  \A r \in Forming!Children(o) : OfOwner(r, o)
BY DEF OfOwner, Forming!Children, Forming!Exists, Ids

LEMMA CreateBeginLoses ==
  ASSUME FormsInv, NEW a \in Clients, NEW o, NEW flag \in BOOLEAN, Forming!CreateBegin(a, o, flag)
  PROVE  AtHomeStep /\ Forming!LostOnRequest
<1> DEFINE t == [op |-> "create", owner |-> o, flag |-> flag,
                 seen |-> IF flag THEN Forming!Children(o) ELSE {}]
<1>1. Forming!Start(a, t) /\ UNCHANGED <<child, children>>
  BY DEF Forming!CreateBegin
<1>2. Founded(t)
  BY ChildrenOwned DEF Founded
<1> HIDE DEF t
<1> QED BY <1>1, <1>2, BeginLoses

LEMMA EditReadLoses ==
  ASSUME FormsInv, NEW a \in Clients, NEW r \in Ids, child[r] # Absent,
         NEW asked, NEW flag, Forming!EditRead(a, r, asked, flag)
  PROVE  AtHomeStep /\ Forming!LostOnRequest
<1> DEFINE t == [op |-> "read", id |-> r, owner |-> child[r].owner, flag |-> flag,
                 asked |-> asked, seen |-> {}]
<1>1. Forming!Start(a, t) /\ UNCHANGED <<child, children>>
  BY DEF Forming!EditRead
<1>2. Founded(t)
  BY DEF Founded, OfOwner
<1> HIDE DEF t
<1> QED BY <1>1, <1>2, BeginLoses

LEMMA EditBeginLoses ==
  ASSUME FormsInv, NEW a \in Clients, Forming!EditBegin(a)
  PROVE  AtHomeStep /\ Forming!LostOnRequest
<1> DEFINE t == [tx[a] EXCEPT !.op = "edit", !.seen = Forming!SeenBy(tx[a])]
<1>1. Forming!Start(a, t) /\ UNCHANGED <<child, children>>
  BY DEF Forming!EditBegin
<1>2. tx[a] # Absent /\ tx[a].op = "read" /\ tx[a] \in Transactions
  BY DEF Forming!EditBegin, Forming!In, FormsInv, FormsOrdered, FormsTyped
<1>3. tx[a] \in Forming!EditTx
  BY <1>2 DEF Transactions, Forming!CreateTx, Forming!ReplaceTx, Forming!CloneTx
<1>4. /\ t.op = "edit" /\ t.seen = Forming!SeenBy(tx[a]) /\ t.owner = tx[a].owner
      /\ t.id = tx[a].id /\ t.flag = tx[a].flag
  BY <1>3 DEF Forming!EditTx
<1>5. tx[a].id \in Ids /\ tx[a].flag \in BOOLEAN
  BY <1>3 DEF Forming!EditTx, Ids
<1> HIDE DEF t
<1>6. Editing(t.id, t.owner)
  BY <1>2, <1>4 DEF Editing
<1>7. \A r \in t.seen : OfOwner(r, t.owner)
  BY <1>4, ChildrenOwned DEF Forming!SeenBy
<1>8. ~t.flag => t.seen = {}
  BY <1>4 DEF Forming!SeenBy
<1>9. Founded(t)
  BY <1>4, <1>5, <1>6, <1>7, <1>8 DEF Founded
<1> QED BY <1>1, <1>9, BeginLoses

LEMMA ReplaceBeginLoses ==
  ASSUME FormsInv, NEW a \in Clients, NEW s, NEW kind, NEW new,
         Forming!ReplaceBegin(a, s, kind, new)
  PROVE  AtHomeStep /\ Forming!LostOnRequest
<1> DEFINE t == [op |-> "replace", owner |-> s, part |-> kind, new |-> new,
                 seen |-> batches[kind][s]]
<1>1. Forming!Start(a, t) /\ UNCHANGED <<child, children>>
  BY DEF Forming!ReplaceBegin
<1>2. Founded(t)
  BY DEF Founded
<1> HIDE DEF t
<1> QED BY <1>1, <1>2, BeginLoses

LEMMA CloneBeginLoses ==
  ASSUME FormsInv, NEW a \in Clients, NEW source \in Ids, NEW target \in Ids,
         Forming!CloneBegin(a, source, target)
  PROVE  AtHomeStep /\ Forming!LostOnRequest
<1> DEFINE fresh == target \in linked \cup answered \/ Forming!Children(target) # {}
           owner == IF fresh THEN child[target].owner ELSE target
           flag == child[target].active
           t == [op |-> "clone", owner |-> owner, source |-> source, fresh |-> fresh,
                 flag |-> flag, seen |-> IF fresh /\ flag THEN Forming!Children(owner) ELSE {}]
<1>1. Forming!Start(a, t) /\ UNCHANGED <<child, children>>
  BY DEF Forming!CloneBegin
<1> HIDE DEF fresh, owner, flag
<1>2. Founded(t)
  BY ChildrenOwned DEF Founded
<1> HIDE DEF t
<1> QED BY <1>1, <1>2, BeginLoses

LEMMA RequestLoses ==
  ASSUME FormsInv, NEW a \in Clients, Forming!Request(a)
  PROVE  AtHomeStep /\ Forming!LostOnRequest
<1> DEFINE Kept == AtHomeStep /\ Forming!LostOnRequest
<1>1. CASE UNCHANGED <<child, children, tx>>
  BY <1>1, RowsSame, TxsSame DEF AtHomeStep
<1>2. ASSUME NEW f \in EditedForms, Forming!CreateForm(a, f) PROVE Kept
  BY <1>1, <1>2 DEF Forming!CreateForm
<1>3. ASSUME NEW f \in EditedForms, NEW v \in BOOLEAN, NEW s \in BOOLEAN,
             NEW o \in DOMAIN Options, NEW r \in DOMAIN Ranges,
             Forming!CreateFull(a, f, v, s, o, r)
      PROVE  Kept
  BY <1>3, CreateFullLoses
<1>4. ASSUME NEW f \in EditedForms, Forming!RemoveForm(a, f) PROVE Kept
  BY <1>4, DeleteLoses DEF Forming!RemoveForm
<1>5. ASSUME NEW o, NEW flag \in BOOLEAN,
             Forming!CreateVersion(a, o, flag) \/ Forming!CreateScore(a, o, flag)
      PROVE  Kept
  BY <1>5, CreateBeginLoses DEF Forming!CreateVersion, Forming!CreateScore
<1>6. ASSUME NEW r \in Ids,
             \/ \E off \in BOOLEAN :
                  Forming!UpdateVersion(a, r, off) \/ Forming!UpdateScore(a, r, off)
             \/ Forming!ActivateVersion(a, r) \/ Forming!ActivateScore(a, r)
      PROVE  Kept
  <2>1. child[r] # Absent
    BY <1>6 DEF Forming!UpdateVersion, Forming!UpdateScore, Forming!ActivateVersion,
       Forming!ActivateScore, Forming!Versions, Forming!Scores, Forming!Exists
  <2>2. \E asked, flag : Forming!EditRead(a, r, asked, flag)
    BY <1>6 DEF Forming!UpdateVersion, Forming!UpdateScore, Forming!ActivateVersion,
       Forming!ActivateScore
  <2> QED BY <2>1, <2>2, EditReadLoses
<1>7. ASSUME NEW r \in Ids, Forming!RemoveVersion(a, r) \/ Forming!RemoveScore(a, r)
      PROVE  Kept
  BY <1>7, DeleteLoses DEF Forming!RemoveVersion, Forming!RemoveScore, Forming!RemoveRow
<1>8. ASSUME NEW v \in Ids, Forming!LinkQuestion(a, v) \/ Forming!UnlinkQuestion(a, v)
      PROVE  Kept
  BY <1>1, <1>8 DEF Forming!LinkQuestion, Forming!UnlinkQuestion
<1>9. ASSUME NEW s, NEW n,
             \/ Forming!ReplaceOptionPoints(a, s, n)
             \/ Forming!ReplaceRangePoints(a, s, n)
             \/ Forming!ReplaceTierRules(a, s, n)
      PROVE  Kept
  BY <1>9, ReplaceBeginLoses DEF Forming!ReplaceOptionPoints, Forming!ReplaceRangePoints,
     Forming!ReplaceTierRules
<1>10. ASSUME NEW v \in Ids, NEW t \in Ids, Forming!CloneBegin(a, v, t) PROVE Kept
  BY <1>10, CloneBeginLoses
<1> HIDE DEF Kept
<1>11. Kept
  BY <1>2, <1>3, <1>4, <1>5, <1>6, <1>7, <1>8, <1>9, <1>10 DEF Forming!Request, Ids
<1> QED BY <1>11 DEF Kept

LEMMA StepLoses ==
  ASSUME FormsInv, Homes, [Next]_vars
  PROVE  AtHomeStep /\ Forming!LostOnRequest
<1> DEFINE Kept == AtHomeStep /\ Forming!LostOnRequest
<1>1. CASE Forming!Next
  <2>1. ASSUME NEW a \in Clients, Forming!Request(a) PROVE Kept
    BY <2>1, RequestLoses
  <2>2. ASSUME NEW a \in Clients, Forming!Transaction(a) PROVE Kept
    BY <2>2, CreateCommitLoses, EditBeginLoses, EditCommitLoses, ReplaceCommitLoses,
       CloneCommitLoses DEF Forming!Transaction
  <2>3. ASSUME NEW w \in Scorers, Forming!Score(w) PROVE Kept
    <3>1. UNCHANGED <<child, children, tx>>
      BY <2>3 DEF Forming!Score, Forming!ScoreBegin, Forming!ScorePick, Forming!ScoreOption,
         Forming!ScoreRange, Forming!ScoreTier, Forming!ScoreSave, Forming!Step
    <3> QED BY <3>1, RowsSame, TxsSame DEF AtHomeStep
  <2> QED BY <1>1, <2>1, <2>2, <2>3 DEF Forming!Next
<1>2. CASE UNCHANGED formVars
  BY <1>2, RowsSame, TxsSame DEF AtHomeStep, formVars
<1> QED BY <1>1, <1>2 DEF Next, Step, vars

LEMMA HomesKept ==
  ASSUME FormsInv, Homes, FormsInv', AtHomeStep
  PROVE  Homes'
<1>1. child' \in [Ids -> Forming!Row \cup {Absent}] /\ children' \in Nat
  BY FormSets DEF FormsInv, FormsOrdered, FormsTyped, Ids, Forming!Ids, Forming!Row, Forming!OwnerIds
<1> QED BY <1>1, HomesKeep DEF AtHomeStep, OwnersStay, TxsFounded

LEMMA HomesBegin == Init => FormsInv /\ Homes
<1> SUFFICES ASSUME Init PROVE FormsInv /\ Homes
  OBVIOUS
<1>1. FormsInv /\ \A b \in Clients : tx[b] = Absent
  BY FormsBegin DEF Init, Forming!Init
<1> DEFINE home == [r \in Ids |-> IF child[r] # Absent THEN child[r].owner ELSE 1]
<1>2. home \in [Ids -> Forming!OwnerIds] /\ RowsAtHome(home)
  BY <1>1, KnownTyped, FormSets DEF RowsAtHome
<1>3. TxsAtHome(home)
  BY <1>1 DEF TxsAtHome
<1> HIDE DEF home
<1> QED BY <1>1, <1>2, <1>3 DEF Homes

LEMMA InPlace == Spec => [](FormsInv /\ Homes)
<1>1. Init => FormsInv /\ Homes
  BY HomesBegin
<1>2. (FormsInv /\ Homes) /\ [Next]_vars => (FormsInv /\ Homes)'
  BY FormsKept, StepLoses, HomesKept
<1> QED BY <1>1, <1>2, PTL DEF Spec

\* A form or version loses the child in force for a reason: it was removed, or an
\* edit saved it as not active, as it was asked to or had read it.  No request
\* deactivates a child of an owner it is not about.
THEOREM ActiveLostForAReason == Spec => ActiveLostOnlyOnRequest
<1>1. (FormsInv /\ Homes) /\ [Next]_vars => Forming!LostOnRequest
  BY StepLoses
<1> QED BY <1>1, InPlace, PTL DEF Spec, ActiveLostOnlyOnRequest,
           Forming!ActiveLostOnlyOnRequest

-----------------------------------------------------------------------------
(* A score goes by one card: the inductive invariant *)

InCard == {"option", "range", "tier", "save"}

Computing ==
  [at : InCard \cup {"idle", "pick", "done"}, version : Ids \cup {0}, score : Ids \cup {0},
   value : Values, total : Int, tier : Int \cup {Absent}, steady : BOOLEAN]

\* By a table B of batches: the card of score s has one of each part, and its rows are disjoint.
OneCard(s, B) ==
  /\ \A p \in Forming!Parts : \A b, d \in B[p][s] : b = d
  /\ Forming!Disjoint(Forming!RowsOf(Ranges, B["range"][s]))
  /\ Forming!Disjoint(Forming!RowsOf(Tiers, B["tier"][s]))

PointsOfOption(s, B) ==
  IF B["option"][s] = {} THEN 0 ELSE Options[CHOOSE b \in B["option"][s] : TRUE]

PointsOfRange(s, value, B) == Forming!Given(Forming!RowsOf(Ranges, B["range"][s]), value, 0)

TierOf(s, total, B) == Forming!Given(Forming!RowsOf(Tiers, B["tier"][s]), total, Absent)

\* A computation knows a score of the first n rows, and has so far what its card says.
CardWell(c, B, n) ==
  c.at \in InCard =>
    /\ c.score \in Ids /\ c.score <= n
    /\ c.steady /\ OneCard(c.score, B) =>
         /\ c.at = "range" => c.total = PointsOfOption(c.score, B)
         /\ c.at \in {"tier", "save"} =>
              c.total = PointsOfOption(c.score, B) + PointsOfRange(c.score, c.value, B)
         /\ c.at = "save" => c.tier = TierOf(c.score, c.total, B)

CardsInv ==
  /\ scoring \in [Scorers -> Computing]
  /\ \A w \in Scorers : CardWell(scoring[w], batches, children)

-----------------------------------------------------------------------------
(* A score goes by one card: what is read *)

EndsTyped(S) == \A r \in S : r.min \in Int \cup {Absent} /\ r.max \in Int \cup {Absent}

LEMMA SpanHolds ==
  ASSUME NEW v \in Int, NEW r
  PROVE  v \in Forming!Span(r) <=> Forming!Holds(r, v)
<1>1. CASE r.min = Absent
  BY <1>1 DEF Forming!Span, Forming!Holds
<1>2. CASE r.min # Absent
  BY <1>2 DEF Forming!Span, Forming!Holds
<1> QED BY <1>1, <1>2

\* What the query finds is what the rows give, where they are disjoint.
LEMMA FoundIsGiven ==
  ASSUME NEW S, EndsTyped(S), Forming!Disjoint(S), NEW v \in Int, NEW none, NEW n,
         LET found == Forming!Matches(S, v) IN
           n \in (IF found = {} THEN {none} ELSE {r.gives : r \in found})
  PROVE  n = Forming!Given(S, v, none)
<1> DEFINE all == {r \in S : Forming!Holds(r, v)}
           found == Forming!Matches(S, v)
           Fits(r) == v \in Forming!Span(r)
<1>1. found = {r \in all : \A s \in all : Forming!ComesFirst(r, s)}
  BY DEF Forming!Matches
<1>2. \A r, s \in all : r = s
  <2> SUFFICES ASSUME NEW r \in all, NEW s \in all, Forming!Below(r, s) PROVE FALSE
    BY DEF Forming!Disjoint
  <2>1. r.max # Absent /\ s.min # Absent /\ r.max <= s.min
    BY DEF Forming!Below
  <2>2. r.max \in Int /\ s.min \in Int
    BY <2>1 DEF EndsTyped
  <2>3. v < r.max /\ s.min <= v
    BY <2>1 DEF Forming!Holds
  <2> QED BY <2>1, <2>2, <2>3
<1>3. \A r \in all : Forming!ComesFirst(r, r)
  BY DEF Forming!ComesFirst, EndsTyped
<1>4. found = all
  BY <1>1, <1>2, <1>3
<1>5. \A r \in S : Fits(r) <=> r \in all
  BY SpanHolds
<1>6. Forming!Given(S, v, none) =
        IF \E r \in S : Fits(r) THEN (CHOOSE r \in S : Fits(r)).gives ELSE none
  BY DEF Forming!Given
<1>7. n \in (IF found = {} THEN {none} ELSE {r.gives : r \in found})
  OBVIOUS
<1> HIDE DEF found, all, Fits
<1>8. CASE \E r \in S : Fits(r)
  <2> DEFINE x == CHOOSE r \in S : Fits(r)
  <2>1. x \in S /\ Fits(x)
    BY <1>8
  <2> HIDE DEF x
  <2>2. x \in all /\ found # {}
    BY <1>4, <1>5, <2>1
  <2>3. PICK r \in found : n = r.gives
    BY <1>7, <2>2
  <2>4. r = x
    BY <1>2, <1>4, <2>2, <2>3
  <2> QED BY <1>6, <1>8, <2>3, <2>4 DEF x
<1>9. CASE ~\E r \in S : Fits(r)
  <2>1. found = {}
    <3>1. all \subseteq S
      BY DEF all
    <3> QED BY <1>4, <1>5, <1>9, <3>1
  <2> QED BY <1>6, <1>7, <1>9, <2>1
<1> QED BY <1>8, <1>9

LEMMA RowsTyped ==
  ASSUME FormsInv, NEW s \in Ids
  PROVE  /\ EndsTyped(Forming!RowsOf(Ranges, batches["range"][s]))
         /\ \A r \in Forming!RowsOf(Ranges, batches["range"][s]) : r.gives \in Int
         /\ EndsTyped(Forming!RowsOf(Tiers, batches["tier"][s]))
         /\ \A r \in Forming!RowsOf(Tiers, batches["tier"][s]) : r.gives \in Int \cup {Absent}
         /\ \A b \in batches["option"][s] : Options[b] \in Int
<1>1. /\ batches["range"][s] \subseteq DOMAIN Ranges /\ batches["tier"][s] \subseteq DOMAIN Tiers
      /\ batches["option"][s] \subseteq DOMAIN Options
  BY FormSets DEF FormsInv, FormsOrdered, FormsTyped
<1>2. \A r \in Forming!RowsOf(Ranges, batches["range"][s]) :
        \E b \in DOMAIN Ranges : r \in Ranges[b]
  BY <1>1 DEF Forming!RowsOf
<1>3. \A r \in Forming!RowsOf(Tiers, batches["tier"][s]) : \E b \in DOMAIN Tiers : r \in Tiers[b]
  BY <1>1 DEF Forming!RowsOf
<1> QED BY <1>1, <1>2, <1>3, CardConstants DEF EndsTyped

-----------------------------------------------------------------------------
(* A score goes by one card: the steps of administrators *)

\* What a step that is not the consumer's leaves of a computation, by the batches before and after.
Left(c, d, B, D) ==
  /\ d \in Computing /\ d.at = c.at /\ d.score = c.score /\ d.value = c.value
  /\ d.total = c.total /\ d.tier = c.tier
  /\ d.steady /\ c.at \in InCard =>
       c.steady /\ \A p \in Forming!Parts : D[p][c.score] = B[p][c.score]

LEMMA LeftWell ==
  ASSUME NEW c, NEW d, NEW B, NEW D, NEW n \in Int, NEW m \in Int, CardWell(c, B, n),
         Left(c, d, B, D), n <= m
  PROVE  CardWell(d, D, m)
<1> SUFFICES ASSUME d.at \in InCard PROVE CardWell(d, D, m)
  BY DEF CardWell
<1>1. c.at \in InCard /\ d.score \in Ids /\ d.score <= m
  <2>1. c.at \in InCard /\ d.score \in Ids /\ d.score <= n /\ d.score \in Int
    BY FormSets DEF CardWell, Left
  <2> QED BY <2>1
<1>2. CASE ~d.steady
  BY <1>1, <1>2 DEF CardWell
<1>3. CASE d.steady
  <2> DEFINE s == c.score
  <2>1. c.steady /\ d.score = s /\ \A p \in Forming!Parts : D[p][s] = B[p][s]
    BY <1>1, <1>3 DEF Left
  <2>2. D["option"][s] = B["option"][s] /\ D["range"][s] = B["range"][s] /\ D["tier"][s] = B["tier"][s]
    BY <2>1, FormSets
  <2> HIDE DEF s
  <2>3. OneCard(s, D) => OneCard(s, B)
    BY <2>1, <2>2 DEF OneCard
  <2>4. /\ PointsOfOption(s, D) = PointsOfOption(s, B)
        /\ \A v : PointsOfRange(s, v, D) = PointsOfRange(s, v, B)
        /\ \A t : TierOf(s, t, D) = TierOf(s, t, B)
    BY <2>2 DEF PointsOfOption, PointsOfRange, TierOf
  <2> QED BY <1>1, <2>1, <2>3, <2>4 DEF CardWell, Left, s
<1> QED BY <1>2, <1>3

\* A step after which every computation is left.
LEMMA LeavesCards ==
  ASSUME FormsInv, CardsInv, children' \in Int, children <= children',
         scoring' = [w \in Scorers |-> scoring'[w]],
         \A w \in Scorers : Left(scoring[w], scoring'[w], batches, batches')
  PROVE  CardsInv'
<1>1. children \in Int
  BY FormSets DEF FormsInv, FormsOrdered, FormsTyped
<1>2. \A w \in Scorers : CardWell(scoring'[w], batches', children')
  BY <1>1, LeftWell DEF CardsInv
<1>3. scoring' \in [Scorers -> Computing]
  <2>1. \A w \in Scorers : scoring'[w] \in Computing
    BY DEF Left
  <2> QED BY <2>1
<1> QED BY <1>2, <1>3 DEF CardsInv

LEMMA Steadied ==
  ASSUME NEW c \in Computing, NEW b \in BOOLEAN
  PROVE  LET d == [c EXCEPT !.steady = b] IN
           /\ d \in Computing /\ d.at = c.at /\ d.score = c.score /\ d.value = c.value
           /\ d.total = c.total /\ d.tier = c.tier /\ (d.steady => b)
BY DEF Computing

\* A step that watches the computations, by the batches it leaves.
LEMMA WatchedLeaves ==
  ASSUME CardsInv, NEW D, Forming!Watched(D), batches' = D
  PROVE  /\ scoring' = [w \in Scorers |-> scoring'[w]]
         /\ \A w \in Scorers : Left(scoring[w], scoring'[w], batches, batches')
<1>1. scoring' = [w \in Scorers |-> [scoring[w] EXCEPT !.steady =
        @ /\ (scoring[w].at \notin {"option", "range", "tier", "save"} \/
              \A p \in Forming!Parts : D[p][scoring[w].score] = batches[p][scoring[w].score])]]
  BY DEF Forming!Watched
<1>2. ASSUME NEW w \in Scorers PROVE Left(scoring[w], scoring'[w], batches, batches')
  <2> DEFINE c == scoring[w]
             same == \A p \in Forming!Parts : D[p][c.score] = batches[p][c.score]
             b == c.steady /\ (c.at \notin {"option", "range", "tier", "save"} \/ same)
  <2>1. scoring'[w] = [c EXCEPT !.steady = b]
    BY <1>1
  <2>2. c \in Computing /\ c.steady \in BOOLEAN
    BY DEF CardsInv, Computing
  <2>3. b \in BOOLEAN
    BY <2>2
  <2>4. b /\ c.at \in InCard => c.steady /\ same
    BY DEF InCard
  <2> HIDE DEF b, same
  <2>5. LET d == scoring'[w] IN
           /\ d \in Computing /\ d.at = c.at /\ d.score = c.score /\ d.value = c.value
           /\ d.total = c.total /\ d.tier = c.tier /\ (d.steady => b)
    BY <2>1, <2>2, <2>3, Steadied
  <2> QED BY <2>4, <2>5 DEF Left, same
<1> QED BY <1>1, <1>2

\* A step that touches no batch of a row there, and no computation.
LEMMA UnwatchedLeaves ==
  ASSUME CardsInv, UNCHANGED scoring,
         \A p \in Forming!Parts, s \in Ids : s <= children => batches'[p][s] = batches[p][s]
  PROVE  /\ scoring' = [w \in Scorers |-> scoring'[w]]
         /\ \A w \in Scorers : Left(scoring[w], scoring'[w], batches, batches')
<1>1. scoring' = [w \in Scorers |-> scoring'[w]]
  BY DEF CardsInv
<1>2. ASSUME NEW w \in Scorers PROVE Left(scoring[w], scoring'[w], batches, batches')
  <2>1. scoring[w] \in Computing /\ CardWell(scoring[w], batches, children)
    BY DEF CardsInv
  <2> QED BY <2>1 DEF Left, CardWell
<1> QED BY <1>1, <1>2

\* What a step of an administrator does to the computations.
CardsLeft ==
  /\ scoring' = [w \in Scorers |-> scoring'[w]]
  /\ \A w \in Scorers : Left(scoring[w], scoring'[w], batches, batches')

LEMMA CreateFullLeaves ==
  ASSUME FormsInv, CardsInv, NEW a, NEW f, NEW v, NEW s, NEW o, NEW r,
         Forming!CreateFull(a, f, v, s, o, r)
  PROVE  CardsLeft
<1>1. batches' = [batches EXCEPT !["option"][children + 2] = {o}, !["range"][children + 2] = {r}]
      /\ UNCHANGED scoring
  BY DEF Forming!CreateFull, Forming!WithPoints
<1>2. children \in Nat /\ DOMAIN batches = Forming!Parts
  BY FormSets DEF FormsInv, FormsOrdered, FormsTyped
<1>3. \A p \in Forming!Parts, i \in Ids : i <= children => batches'[p][i] = batches[p][i]
  <2> SUFFICES ASSUME NEW p \in Forming!Parts, NEW i \in Ids, i <= children
               PROVE  batches'[p][i] = batches[p][i]
    OBVIOUS
  <2>1. i # children + 2
    BY <1>2, FormSets
  <2>2. DOMAIN batches[p] = Ids
    BY DEF FormsInv, FormsOrdered, FormsTyped
  <2> QED BY <1>1, <1>2, <2>1, <2>2
<1> QED BY <1>1, <1>3, UnwatchedLeaves DEF CardsLeft

LEMMA DeleteLeaves ==
  ASSUME CardsInv, NEW gone, Forming!Delete(gone)
  PROVE  CardsLeft
<1>1. \E D : Forming!Watched(D) /\ batches' = D
  BY DEF Forming!Delete
<1> QED BY <1>1, WatchedLeaves DEF CardsLeft

LEMMA SameLeaves ==
  ASSUME CardsInv, UNCHANGED <<batches, scoring>>
  PROVE  CardsLeft
BY UnwatchedLeaves DEF CardsLeft

LEMMA CloneCommitLeaves ==
  ASSUME FormsInv, CardsInv, NEW a \in Clients, Forming!CloneCommit(a)
  PROVE  CardsLeft
<1>1. UNCHANGED scoring
  BY DEF Forming!CloneCommit
<1>2. CASE Forming!OwnerExists(tx[a].owner)
  <2>1. PICK into, first, n, original : Copies(a, into, first, n, original)
    BY <1>2, Copied
  <2>2. children \in Nat /\ first \in Nat /\ n \in Nat /\ children <= first
    <3>1. children \in Nat /\ first \in Nat /\ n \in Nat
          /\ first = children + (IF tx[a].fresh THEN 1 ELSE 0)
      BY <2>1 DEF Copies
    <3> QED BY <3>1
  <2>3. \A p \in Forming!Parts, s \in Ids : s <= children => batches'[p][s] = batches[p][s]
    <3> SUFFICES ASSUME NEW p \in Forming!Parts, NEW s \in Ids, s <= children
                 PROVE  batches'[p][s] = batches[p][s]
      OBVIOUS
    <3>1. s \notin first + 1 .. first + n
      BY <2>2, FormSets
    <3> QED BY <2>1, <3>1, CopiedBatches
  <2> QED BY <1>1, <2>3, UnwatchedLeaves DEF CardsLeft
<1>3. CASE ~Forming!OwnerExists(tx[a].owner)
  BY <1>3, SameLeaves DEF Forming!CloneCommit
<1> QED BY <1>2, <1>3

LEMMA TransactionLeaves ==
  ASSUME FormsInv, CardsInv, NEW a \in Clients, Forming!Transaction(a)
  PROVE  CardsLeft
<1>1. CASE Forming!CreateCommit(a) \/ Forming!EditBegin(a) \/ Forming!EditCommit(a)
  BY <1>1, SameLeaves DEF Forming!CreateCommit, Forming!EditBegin, Forming!EditCommit,
     Forming!Unwatched
<1>2. CASE Forming!ReplaceCommit(a)
  <2>1. CASE Forming!Exists(tx[a].owner)
    <3>1. \E D : Forming!Watched(D) /\ batches' = D
      BY <1>2, <2>1 DEF Forming!ReplaceCommit
    <3> QED BY <3>1, WatchedLeaves DEF CardsLeft
  <2>2. CASE ~Forming!Exists(tx[a].owner)
    BY <1>2, <2>2, SameLeaves DEF Forming!ReplaceCommit
  <2> QED BY <2>1, <2>2
<1> QED BY <1>1, <1>2, CloneCommitLeaves DEF Forming!Transaction

LEMMA RequestLeaves ==
  ASSUME FormsInv, CardsInv, NEW a \in Clients, Forming!Request(a)
  PROVE  CardsLeft
<1>1. CASE Forming!Unwatched
  BY <1>1, SameLeaves DEF Forming!Unwatched
<1>2. ASSUME NEW f, Forming!CreateForm(a, f) PROVE CardsLeft
  BY <1>1, <1>2 DEF Forming!CreateForm
<1>3. ASSUME NEW f, NEW v, NEW s, NEW o, NEW r, Forming!CreateFull(a, f, v, s, o, r)
      PROVE  CardsLeft
  BY <1>3, CreateFullLeaves
<1>4. ASSUME NEW f, Forming!RemoveForm(a, f) PROVE CardsLeft
  BY <1>4, DeleteLeaves DEF Forming!RemoveForm
<1>5. ASSUME NEW o, NEW flag, Forming!CreateVersion(a, o, flag) \/ Forming!CreateScore(a, o, flag)
      PROVE  CardsLeft
  BY <1>1, <1>5 DEF Forming!CreateVersion, Forming!CreateScore, Forming!CreateBegin
<1>6. ASSUME NEW r, NEW off, Forming!UpdateVersion(a, r, off) \/ Forming!UpdateScore(a, r, off)
      PROVE  CardsLeft
  BY <1>1, <1>6 DEF Forming!UpdateVersion, Forming!UpdateScore, Forming!EditRead
<1>7. ASSUME NEW r, Forming!ActivateVersion(a, r) \/ Forming!ActivateScore(a, r)
      PROVE  CardsLeft
  BY <1>1, <1>7 DEF Forming!ActivateVersion, Forming!ActivateScore, Forming!EditRead
<1>8. ASSUME NEW r, Forming!RemoveVersion(a, r) \/ Forming!RemoveScore(a, r)
      PROVE  CardsLeft
  BY <1>8, DeleteLeaves DEF Forming!RemoveVersion, Forming!RemoveScore, Forming!RemoveRow
<1>9. ASSUME NEW v, Forming!LinkQuestion(a, v) \/ Forming!UnlinkQuestion(a, v)
      PROVE  CardsLeft
  BY <1>1, <1>9 DEF Forming!LinkQuestion, Forming!UnlinkQuestion
<1>10. ASSUME NEW s, NEW n,
             \/ Forming!ReplaceOptionPoints(a, s, n)
             \/ Forming!ReplaceRangePoints(a, s, n)
             \/ Forming!ReplaceTierRules(a, s, n)
      PROVE  CardsLeft
  BY <1>1, <1>10 DEF Forming!ReplaceOptionPoints, Forming!ReplaceRangePoints,
     Forming!ReplaceTierRules, Forming!ReplaceBegin
<1>11. ASSUME NEW v, NEW t, Forming!CloneBegin(a, v, t) PROVE CardsLeft
  BY <1>1, <1>11 DEF Forming!CloneBegin
<1> QED
  BY <1>2, <1>3, <1>4, <1>5, <1>6, <1>7, <1>8, <1>9, <1>10, <1>11 DEF Forming!Request

-----------------------------------------------------------------------------
(* A score goes by one card: the steps of consumers *)

Stays == UNCHANGED <<child, children, batches>>

\* A consumer is one step further, and the others are where they were.
LEMMA CardMoves ==
  ASSUME CardsInv, NEW w \in Scorers, NEW c \in Computing, CardWell(c, batches, children),
         scoring' = [scoring EXCEPT ![w] = c], UNCHANGED <<children, batches>>
  PROVE  CardsInv'
<1>1. scoring' \in [Scorers -> Computing]
  BY DEF CardsInv
<1>2. ASSUME NEW v \in Scorers PROVE CardWell(scoring'[v], batches, children)
  BY DEF CardsInv
<1> QED BY <1>1, <1>2 DEF CardsInv

LEMMA Advanced ==
  ASSUME NEW c \in Computing
  PROVE  /\ \A v \in Ids, value \in Values :
              LET d == [c EXCEPT !.at = "pick", !.version = v, !.value = value] IN
                d \in Computing /\ d.at = "pick"
         /\ \A total \in Int :
              LET d == [c EXCEPT !.at = "tier", !.total = total] IN
                /\ d \in Computing /\ d.at = "tier" /\ d.score = c.score /\ d.value = c.value
                /\ d.total = total /\ d.steady = c.steady
BY DEF Computing, InCard

LEMMA ScorerIdle ==
  /\ Forming!Idle \in Computing /\ Forming!Idle.at = "idle"
  /\ \A v \in Ids, value \in Values :
       LET c == [Forming!Idle EXCEPT !.at = "pick", !.version = v, !.value = value] IN
         c \in Computing /\ c.at = "pick"
<1>1. (CHOOSE v \in Values : TRUE) \in Values
  BY CardConstants
<1>2. Forming!Idle \in Computing /\ Forming!Idle.at = "idle"
  BY <1>1 DEF Forming!Idle, Computing, InCard
<1> QED BY <1>2, Advanced

LEMMA BeginCards ==
  ASSUME CardsInv, NEW w \in Scorers,
         \E v \in Ids, value \in Values : Forming!ScoreBegin(w, v, value)
  PROVE  CardsInv'
<1>1. PICK v \in Ids, value \in Values : Forming!ScoreBegin(w, v, value)
  OBVIOUS
<1> DEFINE c == [Forming!Idle EXCEPT !.at = "pick", !.version = v, !.value = value]
<1>2. scoring' = [scoring EXCEPT ![w] = c] /\ UNCHANGED <<children, batches>>
  BY <1>1 DEF Forming!ScoreBegin, Forming!Step
<1>3. c \in Computing /\ c.at = "pick"
  BY ScorerIdle
<1> HIDE DEF c
<1>4. CardWell(c, batches, children)
  BY <1>3 DEF CardWell, InCard
<1> QED BY <1>2, <1>3, <1>4, CardMoves

\* A computation given up.
LEMMA IdleCards ==
  ASSUME CardsInv, NEW w \in Scorers, Forming!Step(w, Forming!Idle)
  PROVE  CardsInv'
<1>1. scoring' = [scoring EXCEPT ![w] = Forming!Idle] /\ UNCHANGED <<children, batches>>
  BY DEF Forming!Step
<1>2. CardWell(Forming!Idle, batches, children)
  BY ScorerIdle DEF CardWell, InCard
<1> QED BY <1>1, <1>2, ScorerIdle, CardMoves

LEMMA PickCards ==
  ASSUME FormsInv, CardsInv, NEW w \in Scorers, Forming!ScorePick(w)
  PROVE  CardsInv'
<1> DEFINE old == scoring[w]
<1>1. CASE Forming!Step(w, Forming!Idle)
  BY <1>1, IdleCards
<1>2. ASSUME NEW s \in Forming!Active(old.version),
             Forming!Step(w, [old EXCEPT !.at = "option", !.score = s, !.steady = TRUE])
      PROVE  CardsInv'
  <2> DEFINE c == [old EXCEPT !.at = "option", !.score = s, !.steady = TRUE]
  <2>1. s \in Ids /\ s <= children
    BY DEF Forming!Active, Forming!Children, Forming!Exists, FormsInv, FormsOrdered, RowsKnown, Ids
  <2>2. old \in Computing
    BY DEF CardsInv
  <2>3. c \in Computing /\ c.at = "option" /\ c.score = s
    BY <2>1, <2>2 DEF Computing, InCard
  <2>4. scoring' = [scoring EXCEPT ![w] = c] /\ UNCHANGED <<children, batches>>
    BY <1>2 DEF Forming!Step
  <2> HIDE DEF c
  <2>5. CardWell(c, batches, children)
    BY <2>1, <2>3 DEF CardWell, InCard
  <2> QED BY <2>3, <2>4, <2>5, CardMoves
<1> QED BY <1>1, <1>2 DEF Forming!ScorePick

LEMMA OptionCards ==
  ASSUME FormsInv, CardsInv, NEW w \in Scorers, Forming!ScoreOption(w)
  PROVE  CardsInv'
<1> DEFINE old == scoring[w]
           s == old.score
           found == batches["option"][s]
<1>1. old.at = "option" /\ old \in Computing /\ s \in Ids /\ s <= children
  BY DEF Forming!ScoreOption, CardsInv, CardWell, InCard
<1>2. PICK n \in (IF found = {} THEN {0} ELSE {Options[b] : b \in found}) :
        Forming!Step(w, [old EXCEPT !.at = "range", !.total = n])
  BY DEF Forming!ScoreOption
<1> DEFINE c == [old EXCEPT !.at = "range", !.total = n]
<1>3. scoring' = [scoring EXCEPT ![w] = c] /\ UNCHANGED <<children, batches>>
  BY <1>2 DEF Forming!Step
<1>4. n \in Int
  BY <1>1, RowsTyped
<1>5. c \in Computing /\ c.at = "range" /\ c.score = s /\ c.total = n
  BY <1>1, <1>4 DEF Computing, InCard
<1>6. OneCard(s, batches) => n = PointsOfOption(s, batches)
  <2> SUFFICES ASSUME OneCard(s, batches) PROVE n = PointsOfOption(s, batches)
    OBVIOUS
  <2>1. \A b, d \in found : b = d
    BY FormSets DEF OneCard
  <2>2. CASE found = {}
    BY <1>2, <2>2 DEF PointsOfOption
  <2>3. CASE found # {}
    <3>1. PICK b \in found : n = Options[b]
      BY <2>3
    <3>2. PointsOfOption(s, batches) = Options[CHOOSE d \in found : TRUE]
      BY <2>3 DEF PointsOfOption
    <3> HIDE DEF found
    <3>3. (CHOOSE d \in found : TRUE) \in found
      BY <2>3
    <3>4. (CHOOSE d \in found : TRUE) = b
      BY <2>1, <3>3
    <3> QED BY <3>1, <3>2, <3>4
  <2> QED BY <2>2, <2>3
<1> HIDE DEF c, s, old
<1>7. CardWell(c, batches, children)
  BY <1>1, <1>5, <1>6 DEF CardWell
<1> QED BY <1>3, <1>5, <1>7, CardMoves

LEMMA RangeCards ==
  ASSUME FormsInv, CardsInv, NEW w \in Scorers, Forming!ScoreRange(w)
  PROVE  CardsInv'
<1> DEFINE old == scoring[w]
           s == old.score
           S == Forming!RowsOf(Ranges, batches["range"][s])
           found == Forming!Matches(S, old.value)
<1>1. /\ old.at = "range" /\ old \in Computing /\ s \in Ids /\ s <= children
      /\ CardWell(old, batches, children)
  BY DEF Forming!ScoreRange, CardsInv, CardWell, InCard
<1>2. PICK n \in (IF found = {} THEN {0} ELSE {r.gives : r \in found}) :
        Forming!Step(w, [old EXCEPT !.at = "tier", !.total = @ + n])
  BY DEF Forming!ScoreRange
<1> DEFINE c == [old EXCEPT !.at = "tier", !.total = @ + n]
<1>3. scoring' = [scoring EXCEPT ![w] = c] /\ UNCHANGED <<children, batches>>
  BY <1>2 DEF Forming!Step
<1>4. EndsTyped(S) /\ (\A r \in S : r.gives \in Int) /\ old.value \in Int /\ old.total \in Int
  BY <1>1, RowsTyped, CardConstants DEF Computing
<1>5. n \in Int
  BY <1>4 DEF Forming!Matches
<1>6. c \in Computing /\ c.at = "tier" /\ c.score = s /\ c.value = old.value
      /\ c.total = old.total + n
  <2> DEFINE total == old.total + n
  <2>1. old \in Computing /\ total \in Int
    BY <1>1, <1>4, <1>5
  <2>2. c = [old EXCEPT !.at = "tier", !.total = total]
    OBVIOUS
  <2> HIDE DEF old, total, c
  <2>3. LET d == [old EXCEPT !.at = "tier", !.total = total] IN
          /\ d \in Computing /\ d.at = "tier" /\ d.score = old.score /\ d.value = old.value
          /\ d.total = total /\ d.steady = old.steady
    BY <2>1, Advanced
  <2> QED BY <2>2, <2>3 DEF total
<1>7. OneCard(s, batches) => n = PointsOfRange(s, old.value, batches)
  <2> SUFFICES ASSUME OneCard(s, batches) PROVE n = PointsOfRange(s, old.value, batches)
    OBVIOUS
  <2>1. Forming!Disjoint(S)
    BY DEF OneCard
  <2> HIDE DEF S, old
  <2>2. n = Forming!Given(S, old.value, 0)
    BY <1>2, <1>4, <2>1, FoundIsGiven
  <2> QED BY <2>2 DEF PointsOfRange, S
<1> HIDE DEF c, s, old
<1>8. CardWell(c, batches, children)
  <2> SUFFICES ASSUME c.steady, OneCard(s, batches)
               PROVE  c.total = PointsOfOption(s, batches) + PointsOfRange(s, c.value, batches)
    BY <1>1, <1>6 DEF CardWell
  <2>1. old.steady
    BY <1>1 DEF c, Computing
  <2>2. old.total = PointsOfOption(s, batches)
    BY <1>1, <2>1 DEF CardWell, s, InCard
  <2> QED BY <1>6, <1>7, <2>2
<1> QED BY <1>3, <1>6, <1>8, CardMoves DEF old

LEMMA TierCards ==
  ASSUME FormsInv, CardsInv, NEW w \in Scorers, Forming!ScoreTier(w)
  PROVE  CardsInv'
<1> DEFINE old == scoring[w]
           s == old.score
           S == Forming!RowsOf(Tiers, batches["tier"][s])
           found == Forming!Matches(S, old.total)
<1>1. /\ old.at = "tier" /\ old \in Computing /\ s \in Ids /\ s <= children
      /\ CardWell(old, batches, children)
  BY DEF Forming!ScoreTier, CardsInv, CardWell, InCard
<1>2. PICK n \in (IF found = {} THEN {Absent} ELSE {r.gives : r \in found}) :
        Forming!Step(w, [old EXCEPT !.at = "save", !.tier = n])
  BY DEF Forming!ScoreTier
<1> DEFINE c == [old EXCEPT !.at = "save", !.tier = n]
<1>3. scoring' = [scoring EXCEPT ![w] = c] /\ UNCHANGED <<children, batches>>
  BY <1>2 DEF Forming!Step
<1>4. EndsTyped(S) /\ (\A r \in S : r.gives \in Int \cup {Absent}) /\ old.total \in Int
  BY <1>1, RowsTyped DEF Computing
<1>5. n \in Int \cup {Absent}
  BY <1>4 DEF Forming!Matches
<1>6. c \in Computing /\ c.at = "save" /\ c.score = s /\ c.value = old.value
      /\ c.total = old.total /\ c.tier = n
  BY <1>1, <1>5 DEF Computing, InCard
<1>7. OneCard(s, batches) => n = TierOf(s, old.total, batches)
  <2> SUFFICES ASSUME OneCard(s, batches) PROVE n = TierOf(s, old.total, batches)
    OBVIOUS
  <2>1. Forming!Disjoint(S)
    BY DEF OneCard
  <2> HIDE DEF S, old
  <2>2. n = Forming!Given(S, old.total, Absent)
    BY <1>2, <1>4, <2>1, FoundIsGiven
  <2> QED BY <2>2 DEF TierOf, S
<1> HIDE DEF c, s, old
<1>8. CardWell(c, batches, children)
  <2> SUFFICES ASSUME c.steady, OneCard(s, batches)
               PROVE  /\ c.total = PointsOfOption(s, batches) + PointsOfRange(s, c.value, batches)
                      /\ c.tier = TierOf(s, c.total, batches)
    BY <1>1, <1>6 DEF CardWell
  <2>1. old.steady
    BY <1>1 DEF c, Computing
  <2>2. old.total = PointsOfOption(s, batches) + PointsOfRange(s, old.value, batches)
    BY <1>1, <2>1 DEF CardWell, s, InCard
  <2> QED BY <1>6, <1>7, <2>2
<1> QED BY <1>3, <1>6, <1>8, CardMoves DEF old

LEMMA SaveCards ==
  ASSUME CardsInv, NEW w \in Scorers, Forming!ScoreSave(w)
  PROVE  CardsInv'
<1> DEFINE old == scoring[w]
           c == [old EXCEPT !.at = "done"]
<1>1. CASE Forming!Step(w, Forming!Idle)
  BY <1>1, IdleCards
<1>2. CASE Forming!Step(w, c)
  <2>1. scoring' = [scoring EXCEPT ![w] = c] /\ UNCHANGED <<children, batches>>
    BY <1>2 DEF Forming!Step
  <2>2. c \in Computing /\ c.at = "done"
    BY DEF CardsInv, Computing
  <2> HIDE DEF c
  <2>3. CardWell(c, batches, children)
    BY <2>2 DEF CardWell, InCard
  <2> QED BY <2>1, <2>2, <2>3, CardMoves
<1> QED BY <1>1, <1>2 DEF Forming!ScoreSave

LEMMA ScoreCards ==
  ASSUME FormsInv, CardsInv, NEW w \in Scorers, Forming!Score(w)
  PROVE  CardsInv'
<1>1. ASSUME NEW v \in Ids, NEW value \in Values, Forming!ScoreBegin(w, v, value)
      PROVE  CardsInv'
  BY <1>1, BeginCards
<1> QED BY <1>1, PickCards, OptionCards, RangeCards, TierCards, SaveCards
        DEF Forming!Score, Ids

-----------------------------------------------------------------------------
(* A score goes by one card: the theorem *)

LEMMA CardsBegin ==
  ASSUME Forming!Init
  PROVE  CardsInv
<1>1. scoring = [w \in Scorers |-> Forming!Idle]
  BY DEF Forming!Init
<1>2. CardWell(Forming!Idle, batches, children)
  BY ScorerIdle DEF CardWell, InCard
<1> QED BY <1>1, <1>2, ScorerIdle DEF CardsInv

LEMMA CardsKept ==
  ASSUME FormsInv, Homes, CardsInv, FormsInv', [Next]_vars
  PROVE  CardsInv'
<1>1. children' \in Int /\ children <= children'
  BY StepLoses, FormSets DEF AtHomeStep, FormsInv, FormsOrdered, FormsTyped
<1>2. CASE CardsLeft
  BY <1>1, <1>2, LeavesCards DEF CardsLeft
<1>3. CASE Forming!Next
  <2>1. ASSUME NEW a \in Clients, Forming!Request(a) \/ Forming!Transaction(a) PROVE CardsLeft
    BY <2>1, RequestLeaves, TransactionLeaves
  <2>2. ASSUME NEW w \in Scorers, Forming!Score(w) PROVE CardsInv'
    BY <2>2, ScoreCards
  <2> QED BY <1>2, <1>3, <2>1, <2>2 DEF Forming!Next
<1>4. CASE UNCHANGED formVars
  BY <1>2, <1>4, SameLeaves DEF formVars
<1> QED BY <1>3, <1>4 DEF Next, Step, vars

LEMMA CardsHold ==
  ASSUME FormsInv, CardsInv
  PROVE  Forming!ScoreByOneCard
<1> SUFFICES ASSUME NEW w \in Scorers,
                    scoring[w].at = "save", scoring[w].steady,
                    \A p \in Forming!Parts :
                      Forming!Cardinality(batches[p][scoring[w].score]) <= 1,
                    Forming!Disjoint(Forming!RowsOf(Ranges, batches["range"][scoring[w].score])),
                    Forming!Disjoint(Forming!RowsOf(Tiers, batches["tier"][scoring[w].score]))
             PROVE  LET c == scoring[w]
                        total == PointsOfOption(c.score, batches)
                                   + PointsOfRange(c.score, c.value, batches)
                    IN c.total = total /\ c.tier = TierOf(c.score, total, batches)
  BY DEF Forming!ScoreByOneCard, PointsOfOption, PointsOfRange, TierOf
<1> DEFINE c == scoring[w]
           s == c.score
<1>1. CardWell(c, batches, children) /\ s \in Ids
  BY DEF CardsInv, CardWell, InCard
<1>2. ASSUME NEW p \in Forming!Parts PROVE \A b, d \in batches[p][s] : b = d
  <2>1. batches[p][s] \in SUBSET Forming!Batches[p]
    BY <1>1 DEF FormsInv, FormsOrdered, FormsTyped
  <2>2. IsFiniteSet(Forming!Batches[p])
    BY FormSets, FormConstants
  <2> QED BY <2>1, <2>2, OneOrNone
<1>3. OneCard(s, batches)
  BY <1>2 DEF OneCard
<1> QED BY <1>1, <1>3 DEF CardWell, InCard

\* Whatever administrators do meanwhile: where the card of a score keeps its batches
\* while a consumer computes, has one of each part and disjoint rows, the total saved is
\* the points of the option and of the range the answer is in, and the tier is the one
\* the total is in.  The queries of the consumer, by the lowest end that fits and the
\* last row read, find that row and no other.
THEOREM ScoreFollowsOneCard == Spec => []ScoreByOneCard
<1>1. Init => CardsInv
  BY CardsBegin DEF Init
<1>2. Spec => [](FormsInv /\ Homes)
  BY InPlace
<1>3. FormsInv /\ Homes /\ FormsInv' /\ CardsInv /\ [Next]_vars => CardsInv'
  BY CardsKept
<1>4. FormsInv /\ CardsInv => ScoreByOneCard
  BY CardsHold DEF ScoreByOneCard
<1> QED BY <1>1, <1>2, <1>3, <1>4, PTL DEF Spec

-----------------------------------------------------------------------------
(* No row outlives its owner: the inductive invariant *)

\* Row r is there, by a table C.
Present(C, r) == r \in Ids /\ C[r] # Absent

\* What a row belongs to is there, and only rows that are there have contents.
FormsWhole ==
  /\ \A r \in Ids : child[r] # Absent => child[r].owner \in forms \/ Present(child, child[r].owner)
  /\ \A r \in linked \cup answered : Present(child, r)
  /\ \A p \in Forming!Parts, r \in Ids : batches[p][r] # {} => Present(child, r)

\* The ids V are of versions, and other ids of scores: that of a row, and that of what a
\* transaction will insert or save, is of one kind for good, and a score belongs to a version.
RowFits(x, r, V) ==
  /\ x.owner \in EditedForms \cup V
  /\ r \in V <=> x.owner \in EditedForms
TxFits(t, V) ==
  /\ t.op = "create" => t.owner \in EditedForms \cup V
  /\ t.op \in {"read", "edit"} => RowFits(t, t.id, V)
  /\ t.op = "clone" => IF t.fresh THEN t.owner \in EditedForms ELSE t.owner \in V
FormsFit(V) ==
  /\ V \subseteq Ids /\ \A v \in V : v <= children
  /\ \A r \in Ids : child[r] # Absent => RowFits(child[r], r, V)
  /\ \A a \in Clients : tx[a] # Absent => TxFits(tx[a], V)
Levels == \E V : FormsFit(V)

FormsNoted == requests \in 0..MoreRequests /\ contended \subseteq Forming!OwnerIds

\* A version under way to a score is one.
VersionsRead ==
  \A w \in Scorers : scoring[w].at \in InCard \cup {"pick"} => scoring[w].version \in Ids

FormsBounded == FormsWhole /\ Levels /\ FormsNoted /\ VersionsRead

-----------------------------------------------------------------------------
(* No row outlives its owner: versions stay versions *)

\* The rows of ids given out keep their owners, and the new ones, of ids in N, are versions.
LEMMA LevelsKeep ==
  ASSUME FormsInv, FormsInv', AtHomeStep, NEW V, FormsFit(V), NEW N \in SUBSET Ids,
         \A r \in N : ~(r <= children) /\ r <= children',
         \A r \in Ids : ~(r <= children) /\ child'[r] # Absent =>
           /\ child'[r].owner \in EditedForms \cup V \cup N
           /\ r \in N <=> child'[r].owner \in EditedForms,
         \A b \in Clients : tx'[b] # Absent /\ tx'[b].op \in {"create", "clone"} =>
           tx'[b] = tx[b] \/ TxFits(tx'[b], V)
  PROVE  Levels'
<1> DEFINE W == V \cup N
<1>1. /\ EditedForms \cap Ids = {} /\ children \in Nat /\ children' \in Nat /\ Ids \subseteq Nat
      /\ children <= children'
  BY FormSets DEF AtHomeStep, FormsInv, FormsOrdered, FormsTyped
<1>2. W \subseteq Ids /\ \A v \in W : v <= children'
  <2>1. \A v \in V : v \in Ids /\ v <= children
    BY DEF FormsFit
  <2>2. \A n \in Nat : n <= children => n <= children'
    BY <1>1
  <2>3. \A v \in V : v \in Ids /\ v <= children'
    BY <1>1, <2>1, <2>2
  <2> QED BY <2>3
<1>3. \A r \in Ids : r <= children => (r \in W <=> r \in V)
  OBVIOUS
<1>4. \A r \in Ids : ~(r <= children) => (r \in W <=> r \in N)
  BY DEF FormsFit
<1> HIDE DEF W
<1>5. V \subseteq W /\ W = V \cup N
  BY DEF W
<1>6. ASSUME NEW r \in Ids, NEW o, OfOwner(r, o) \/ Editing(r, o)
      PROVE  r <= children /\ o \in EditedForms \cup V /\ (r \in V <=> o \in EditedForms)
  <2>1. CASE OfOwner(r, o)
    <3>1. r <= children
      BY <2>1 DEF OfOwner, FormsInv, FormsOrdered, RowsKnown
    <3> QED BY <2>1, <3>1 DEF OfOwner, FormsFit, RowFits
  <2>2. CASE Editing(r, o)
    <3>1. PICK b \in Clients :
            tx[b] # Absent /\ tx[b].op \in {"read", "edit"} /\ tx[b].id = r /\ tx[b].owner = o
      BY <2>2 DEF Editing
    <3>2. RowFits(tx[b], r, V)
      BY <3>1 DEF FormsFit, TxFits
    <3>3. r \in Known
      BY <3>1 DEF FormsInv, FormsOrdered, TxsKnown, TxKnown
    <3>4. r <= children
      BY <1>1, <3>3 DEF Known, FormsInv, FormsOrdered, FormsTyped
    <3> QED BY <3>1, <3>2, <3>4 DEF RowFits
  <2> QED BY <1>6, <2>1, <2>2
<1>7. ASSUME NEW r \in Ids, child'[r] # Absent PROVE RowFits(child'[r], r, W)
  <2>1. CASE r <= children
    <3>1. OfOwner(r, child'[r].owner) \/ Editing(r, child'[r].owner)
      BY <1>7, <2>1 DEF AtHomeStep, OwnersStay
    <3>2. child'[r].owner \in EditedForms \cup V /\ (r \in V <=> child'[r].owner \in EditedForms)
      BY <1>6, <3>1
    <3> QED BY <1>3, <1>5, <2>1, <3>2 DEF RowFits
  <2>2. CASE ~(r <= children)
    <3>1. \/ child'[r].owner \in W /\ r \notin N
          \/ child'[r].owner \in EditedForms /\ r \in N
      BY <1>5, <1>7, <2>2
    <3>2. W \cap EditedForms = {}
      BY <1>1, <1>2
    <3> QED BY <1>4, <2>2, <3>1, <3>2 DEF RowFits
  <2> QED BY <2>1, <2>2
<1>8. ASSUME NEW t, TxFits(t, V), t.op \in {"read", "edit"} => t.id \in Ids /\ t.id <= children
      PROVE  TxFits(t, W)
  BY <1>3, <1>5, <1>8 DEF TxFits, RowFits
<1>9. ASSUME NEW b \in Clients, tx'[b] # Absent PROVE TxFits(tx'[b], W)
  <2> DEFINE t == tx'[b]
  <2>1. CASE t = tx[b]
    <3>1. tx[b] # Absent /\ TxFits(tx[b], V)
      BY <1>9, <2>1 DEF FormsFit
    <3>2. ASSUME tx[b].op \in {"read", "edit"} PROVE tx[b].id \in Ids /\ tx[b].id <= children
      <4>1. tx[b].id \in Known /\ tx[b] \in Transactions
        BY <3>1, <3>2 DEF FormsInv, FormsOrdered, FormsTyped, TxsKnown, TxKnown
      <4>2. tx[b].id \in Ids
        BY <3>2, <4>1 DEF Transactions, Forming!CreateTx, Forming!EditTx, Forming!ReplaceTx,
           Forming!CloneTx, Ids
      <4>3. tx[b].id \in 1..children
        BY <1>1, <4>1, <4>2 DEF Known, FormsInv, FormsOrdered, FormsTyped
      <4> QED BY <4>2, <4>3
    <3> QED BY <1>8, <2>1, <3>1, <3>2
  <2>2. CASE Founded(t) /\ t # tx[b]
    <3>1. CASE t.op \in {"create", "clone"}
      <4>1. TxFits(t, V)
        BY <1>9, <2>2, <3>1
      <4> QED BY <1>8, <3>1, <4>1
    <3>2. CASE t.op \in {"read", "edit"}
      <4>1. t.id \in Ids /\ (OfOwner(t.id, t.owner) \/ Editing(t.id, t.owner))
        BY <2>2, <3>2 DEF Founded
      <4>2. t.id <= children /\ t.owner \in EditedForms \cup V
            /\ (t.id \in V <=> t.owner \in EditedForms)
        BY <1>6, <4>1
      <4>3. TxFits(t, V)
        BY <3>2, <4>2 DEF TxFits, RowFits
      <4> QED BY <1>8, <4>1, <4>2, <4>3
    <3>3. CASE t.op \notin {"create", "clone", "read", "edit"}
      BY <3>3 DEF TxFits
    <3> QED BY <3>1, <3>2, <3>3
  <2> QED BY <1>9, <2>1, <2>2 DEF AtHomeStep, TxsFounded
<1>10. FormsFit(W)'
  BY <1>2, <1>7, <1>9 DEF FormsFit, Ids
<1> QED BY <1>10 DEF Levels

\* No id is given out, and no creation or copy begins.
LEMMA LevelsStay ==
  ASSUME FormsInv, FormsInv', AtHomeStep, Levels, children' = children,
         \A b \in Clients : tx'[b] # Absent /\ tx'[b].op \in {"create", "clone"} => tx'[b] = tx[b]
  PROVE  Levels'
<1>1. PICK V : FormsFit(V)
  BY DEF Levels
<1>2. \A r \in Ids : child'[r] # Absent => r <= children
  BY DEF FormsInv, FormsOrdered, RowsKnown
<1>3. \A r \in {} : ~(r <= children) /\ r <= children'
  OBVIOUS
<1>4. {} \in SUBSET Ids
  OBVIOUS
<1>5. \A r \in Ids : ~(r <= children) /\ child'[r] # Absent =>
         /\ child'[r].owner \in EditedForms \cup V \cup {}
         /\ r \in {} <=> child'[r].owner \in EditedForms
  BY <1>2
<1> QED BY <1>1, <1>3, <1>4, <1>5, LevelsKeep

\* A transaction begins, or makes its statement.
LEMMA BeginFits ==
  ASSUME FormsInv, FormsInv', AtHomeStep, NEW V, FormsFit(V), NEW a \in Clients, NEW t,
         Forming!Start(a, t), UNCHANGED children,
         t.op \in {"create", "clone"} => TxFits(t, V)
  PROVE  Levels'
<1>1. \A b \in Clients : tx'[b] = IF b = a THEN t ELSE tx[b]
  BY DEF Forming!Start, FormsInv, FormsOrdered, FormsTyped
<1>2. \A b \in Clients : tx'[b] # Absent /\ tx'[b].op \in {"create", "clone"} =>
        tx'[b] = tx[b] \/ TxFits(tx'[b], V)
  BY <1>1
<1>3. \A r \in Ids : child'[r] # Absent => r <= children
  BY DEF FormsInv, FormsOrdered, RowsKnown
<1>4. {} \in SUBSET Ids /\ \A r \in {} : ~(r <= children) /\ r <= children'
  OBVIOUS
<1>5. \A r \in Ids : ~(r <= children) /\ child'[r] # Absent =>
         /\ child'[r].owner \in EditedForms \cup V \cup {}
         /\ r \in {} <=> child'[r].owner \in EditedForms
  BY <1>3
<1> QED BY <1>2, <1>4, <1>5, LevelsKeep

LEMMA TransactionEnds ==
  ASSUME FormsInv, FormsInv', AtHomeStep, Levels, NEW a \in Clients, Forming!End(a),
         UNCHANGED children
  PROVE  Levels'
<1>1. \A b \in Clients : tx'[b] # Absent => tx'[b] = tx[b]
  BY Ended
<1> QED BY <1>1, LevelsStay

\* Version v, by the ids V of versions.
LEMMA VersionFits ==
  ASSUME NEW V, FormsFit(V), NEW v \in Forming!Versions
  PROVE  v \in V /\ child[v].owner \in EditedForms
BY DEF FormsFit, RowFits, Forming!Versions, Forming!Exists, Ids

LEMMA RequestLevels ==
  ASSUME FormsInv, FormsInv', AtHomeStep, Levels, NEW a \in Clients, Forming!Request(a),
         ~(\E f \in EditedForms, v, s \in BOOLEAN, o \in DOMAIN Options, r \in DOMAIN Ranges :
             Forming!CreateFull(a, f, v, s, o, r))
  PROVE  Levels'
<1>1. PICK V : FormsFit(V)
  BY DEF Levels
<1>2. CASE UNCHANGED <<children, tx>>
  BY <1>2, LevelsStay
<1>3. CASE \/ \E f \in EditedForms : Forming!CreateForm(a, f) \/ Forming!RemoveForm(a, f)
           \/ \E v \in Ids : Forming!RemoveVersion(a, v) \/ Forming!RemoveScore(a, v)
           \/ \E v \in Ids : Forming!LinkQuestion(a, v) \/ Forming!UnlinkQuestion(a, v)
  BY <1>2, <1>3 DEF Forming!CreateForm, Forming!RemoveForm, Forming!RemoveVersion,
     Forming!RemoveScore, Forming!RemoveRow, Forming!LinkQuestion, Forming!UnlinkQuestion
<1>4. ASSUME NEW o, NEW flag \in BOOLEAN,
             \/ o \in EditedForms /\ Forming!CreateVersion(a, o, flag)
             \/ Forming!CreateScore(a, o, flag)
      PROVE  Levels'
  <2> DEFINE t == [op |-> "create", owner |-> o, flag |-> flag,
                   seen |-> IF flag THEN Forming!Children(o) ELSE {}]
  <2>1. Forming!CreateBegin(a, o, flag) /\ (o \in EditedForms \/ o \in Forming!Versions)
    BY <1>4 DEF Forming!CreateVersion, Forming!CreateScore
  <2>2. Forming!Start(a, t) /\ UNCHANGED children
    BY <2>1 DEF Forming!CreateBegin
  <2>3. t.op = "create" /\ t.owner = o
    OBVIOUS
  <2> HIDE DEF t
  <2>4. TxFits(t, V)
    BY <1>1, <2>1, <2>3, VersionFits DEF TxFits
  <2> QED BY <1>1, <2>2, <2>4, BeginFits
<1>5. ASSUME NEW r \in Ids, NEW asked, NEW flag, Forming!EditRead(a, r, asked, flag)
      PROVE  Levels'
  <2> DEFINE t == [op |-> "read", id |-> r, owner |-> child[r].owner, flag |-> flag,
                   asked |-> asked, seen |-> {}]
  <2>1. Forming!Start(a, t) /\ UNCHANGED children
    BY <1>5 DEF Forming!EditRead
  <2>2. t.op = "read"
    OBVIOUS
  <2> HIDE DEF t
  <2> QED BY <1>1, <2>1, <2>2, BeginFits
<1>6. ASSUME NEW s, NEW kind, NEW new, Forming!ReplaceBegin(a, s, kind, new)
      PROVE  Levels'
  <2> DEFINE t == [op |-> "replace", owner |-> s, part |-> kind, new |-> new,
                   seen |-> batches[kind][s]]
  <2>1. Forming!Start(a, t) /\ UNCHANGED children
    BY <1>6 DEF Forming!ReplaceBegin
  <2>2. t.op = "replace"
    OBVIOUS
  <2> HIDE DEF t
  <2> QED BY <1>1, <2>1, <2>2, BeginFits
<1>7. ASSUME NEW source \in Ids, NEW target \in Ids, Forming!CloneBegin(a, source, target)
      PROVE  Levels'
  <2> DEFINE fresh == target \in linked \cup answered \/ Forming!Children(target) # {}
             owner == IF fresh THEN child[target].owner ELSE target
             flag == child[target].active
             t == [op |-> "clone", owner |-> owner, source |-> source, fresh |-> fresh,
                   flag |-> flag, seen |-> IF fresh /\ flag THEN Forming!Children(owner) ELSE {}]
  <2>1. Forming!Start(a, t) /\ UNCHANGED children /\ target \in Forming!Versions
    BY <1>7 DEF Forming!CloneBegin
  <2> HIDE DEF fresh, flag
  <2>2. t.op = "clone" /\ t.owner = owner /\ t.fresh = fresh
    OBVIOUS
  <2>3. target \in V /\ child[target].owner \in EditedForms
    BY <1>1, <2>1, VersionFits
  <2>4. IF fresh THEN owner \in EditedForms ELSE owner \in V
    BY <2>3
  <2> HIDE DEF t, owner
  <2>5. TxFits(t, V)
    BY <2>2, <2>4 DEF TxFits
  <2> QED BY <1>1, <2>1, <2>5, BeginFits
<1>8. ASSUME NEW r \in Ids,
             \/ \E off \in BOOLEAN :
                  Forming!UpdateVersion(a, r, off) \/ Forming!UpdateScore(a, r, off)
             \/ Forming!ActivateVersion(a, r) \/ Forming!ActivateScore(a, r)
      PROVE  Levels'
  <2>1. \E asked, flag : Forming!EditRead(a, r, asked, flag)
    BY <1>8 DEF Forming!UpdateVersion, Forming!UpdateScore, Forming!ActivateVersion,
       Forming!ActivateScore
  <2> QED BY <1>5, <2>1
<1>9. ASSUME NEW s, NEW n,
             \/ Forming!ReplaceOptionPoints(a, s, n)
             \/ Forming!ReplaceRangePoints(a, s, n)
             \/ Forming!ReplaceTierRules(a, s, n)
      PROVE  Levels'
  BY <1>6, <1>9 DEF Forming!ReplaceOptionPoints, Forming!ReplaceRangePoints,
     Forming!ReplaceTierRules
<1> QED BY <1>3, <1>4, <1>7, <1>8, <1>9 DEF Forming!Request, Ids

LEMMA CreateFullLevels ==
  ASSUME FormsInv, FormsInv', AtHomeStep, Levels, NEW a \in Clients, NEW f \in EditedForms,
         NEW versionFlag, NEW scoreFlag, NEW o, NEW r,
         Forming!CreateFull(a, f, versionFlag, scoreFlag, o, r)
  PROVE  Levels'
<1> DEFINE v == children + 1
           s == children + 2
           version == [owner |-> f, active |-> versionFlag]
           score == [owner |-> v, active |-> scoreFlag]
<1>1. PICK V : FormsFit(V)
  BY DEF Levels
<1>2. /\ children \in Nat /\ children' = s /\ v \in Ids /\ s \in Ids /\ v # s
      /\ ~(v <= children) /\ v <= s
      /\ \A i \in Ids : ~(i <= children) /\ i <= s => i = v \/ i = s
      /\ child' = [child EXCEPT ![v] = version, ![s] = score]
      /\ DOMAIN child = Ids /\ UNCHANGED tx /\ v \notin EditedForms
  <2>1. children \in Nat /\ children + 2 <= MaxChildren /\ children' = s /\ UNCHANGED tx
    BY FormSets DEF Forming!CreateFull, FormsInv, FormsOrdered, FormsTyped
  <2>2. v \in Ids /\ s \in Ids /\ v # s /\ ~(v <= children) /\ v <= s
    BY <2>1, FormSets
  <2>3. v \notin EditedForms
    BY <2>2, FormSets
  <2>4. ASSUME NEW i \in Ids, ~(i <= children), i <= s PROVE i = v \/ i = s
    <3>1. i \in Int
      BY FormSets
    <3> QED BY <2>1, <2>4, <3>1
  <2>5. child' = [child EXCEPT ![v] = version, ![s] = score]
    BY DEF Forming!CreateFull
  <2>6. DOMAIN child = Ids
    BY DEF FormsInv, FormsOrdered, FormsTyped
  <2> HIDE DEF version, score, v, s
  <2> QED BY <2>1, <2>2, <2>3, <2>4, <2>5, <2>6
<1>3. version.owner = f /\ score.owner = v
  OBVIOUS
<1> HIDE DEF v, s, version, score
<1>4. child'[v].owner = f /\ child'[s].owner = v
  BY <1>2, <1>3
<1>5. \A i \in Ids : child'[i] # Absent => i <= s
  BY <1>2 DEF FormsInv, FormsOrdered, RowsKnown
<1>6. \A i \in Ids : ~(i <= children) /\ child'[i] # Absent =>
        /\ child'[i].owner \in EditedForms \cup V \cup {v}
        /\ i \in {v} <=> child'[i].owner \in EditedForms
  BY <1>2, <1>4, <1>5
<1>7. {v} \in SUBSET Ids /\ \A i \in {v} : ~(i <= children) /\ i <= children'
  BY <1>2
<1>8. \A b \in Clients : tx'[b] = tx[b]
  BY <1>2
<1> QED BY <1>1, <1>6, <1>7, <1>8, LevelsKeep

LEMMA CreateCommitLevels ==
  ASSUME FormsInv, FormsInv', AtHomeStep, Levels, NEW a \in Clients, Forming!CreateCommit(a)
  PROVE  Levels'
<1> DEFINE t == tx[a]
           new == [owner |-> t.owner, active |-> t.flag]
           e == children + 1
<1>1. t # Absent /\ t.op = "create" /\ t \in Forming!CreateTx /\ Forming!End(a)
  BY InHandTyped DEF Forming!CreateCommit, Forming!In
<1>2. CASE Forming!OwnerExists(t.owner)
  <2>1. PICK V : FormsFit(V)
    BY DEF Levels
  <2>2. /\ e \in Ids /\ ~(e <= children)
        /\ \A r \in Ids : ~(r <= children) /\ r <= e => r = e
    BY FormSets DEF Forming!CreateCommit, FormsInv, FormsOrdered, FormsTyped
  <2>3. Writes(t.seen, e, new) /\ children' = e
    BY <1>2 DEF Forming!CreateCommit, Writes
  <2>4. new \in Forming!Row /\ new.owner = t.owner
    BY <1>1 DEF Forming!CreateTx, Forming!Row
  <2> HIDE DEF new, e
  <2>5. child'[e].owner = t.owner
    BY <2>2, <2>3, <2>4, RowWritten
  <2>6. t.owner \in EditedForms \cup V
    BY <1>1, <2>1 DEF FormsFit, TxFits
  <2>7. \A r \in Ids : ~(r <= children) /\ child'[r] # Absent => r = e
    BY <2>2, <2>3 DEF FormsInv, FormsOrdered, RowsKnown
  <2>8. \A b \in Clients : tx'[b] # Absent => tx'[b] = tx[b]
    BY <1>1, Ended
  <2> DEFINE N == IF t.owner \in EditedForms THEN {e} ELSE {}
  <2>9. N \in SUBSET Ids /\ \A r \in N : ~(r <= children) /\ r <= children'
    BY <2>2, <2>3, FormSets
  <2>10. \A r \in Ids : ~(r <= children) /\ child'[r] # Absent =>
           /\ child'[r].owner \in EditedForms \cup V \cup N
           /\ r \in N <=> child'[r].owner \in EditedForms
    BY <2>5, <2>6, <2>7
  <2> HIDE DEF N
  <2> QED BY <2>1, <2>8, <2>9, <2>10, LevelsKeep
<1>3. CASE ~Forming!OwnerExists(t.owner)
  <2>1. UNCHANGED children
    BY <1>3 DEF Forming!CreateCommit
  <2> QED BY <1>1, <2>1, TransactionEnds
<1> QED BY <1>2, <1>3

LEMMA CloneCommitLevels ==
  ASSUME FormsInv, FormsInv', AtHomeStep, Levels, NEW a \in Clients, Forming!CloneCommit(a)
  PROVE  Levels'
<1>1. Forming!End(a)
  BY DEF Forming!CloneCommit
<1>2. CASE Forming!OwnerExists(tx[a].owner)
  <2>1. PICK into, first, n, original : Copies(a, into, first, n, original)
    BY <1>2, Copied
  <2>2. PICK V : FormsFit(V)
    BY DEF Levels
  <2> DEFINE t == tx[a]
             copies == first + 1 .. first + n
             N == IF t.fresh THEN {into} ELSE {}
  <2>3. /\ t # Absent /\ t.op = "clone" /\ children \in Nat /\ first \in Nat /\ n \in Nat
        /\ first = children + (IF t.fresh THEN 1 ELSE 0) /\ children' = first + n
        /\ into = IF t.fresh THEN children + 1 ELSE t.owner
    BY <2>1 DEF Copies, Forming!CloneTx
  <2>4. /\ t.fresh => into \in Ids
        /\ into \notin copies /\ t.fresh \in BOOLEAN /\ into \in Forming!OwnerIds
    BY <2>1, CopiedIds
  <2>5. IF t.fresh THEN t.owner \in EditedForms ELSE t.owner \in V
    BY <2>2, <2>3 DEF FormsFit, TxFits
  <2>6. \A b \in Clients : tx'[b] # Absent => tx'[b] = tx[b]
    BY <1>1, Ended
  <2>7. N \in SUBSET Ids /\ \A r \in N : ~(r <= children) /\ r <= children'
    BY <2>3, <2>4
  <2>8. into \in V \cup N /\ into \notin EditedForms
    <3>1. V \subseteq Ids
      BY <2>2 DEF FormsFit
    <3> QED BY <2>3, <2>4, <2>5, <3>1, FormSets
  <2>9. ASSUME NEW r \in Ids, ~(r <= children), child'[r] # Absent
        PROVE  /\ child'[r].owner \in EditedForms \cup V \cup N
               /\ r \in N <=> child'[r].owner \in EditedForms
    <3>1. r <= first + n
      BY <2>3, <2>9 DEF FormsInv, FormsOrdered, RowsKnown
    <3>2. r \in Nat
      BY FormSets
    <3>3. r \in copies \/ (t.fresh /\ r = into)
      BY <2>3, <2>9, <3>1, <3>2
    <3>4. CASE r \in copies
      <4>1. child'[r].owner = into
        BY <2>1, <3>4, CopyOfOriginal
      <4> QED BY <2>4, <2>8, <3>4, <4>1
    <3>5. CASE t.fresh /\ r = into
      <4>1. child'[r].owner = t.owner
        BY <2>1, <3>5, CopiedRow
      <4> QED BY <2>5, <3>5, <4>1
    <3> QED BY <3>3, <3>4, <3>5
  <2> HIDE DEF N
  <2> QED BY <2>2, <2>6, <2>7, <2>9, LevelsKeep
<1>3. CASE ~Forming!OwnerExists(tx[a].owner)
  <2>1. UNCHANGED children
    BY <1>3 DEF Forming!CloneCommit
  <2> QED BY <1>1, <2>1, TransactionEnds
<1> QED BY <1>2, <1>3

LEMMA LevelsKept ==
  ASSUME FormsInv, FormsInv', AtHomeStep, Levels, Forming!Next
  PROVE  Levels'
<1>1. ASSUME NEW a \in Clients, Forming!Request(a) PROVE Levels'
  BY <1>1, RequestLevels, CreateFullLevels
<1>2. ASSUME NEW a \in Clients, Forming!EditCommit(a) \/ Forming!ReplaceCommit(a) PROVE Levels'
  <2>1. Forming!End(a) /\ UNCHANGED children
    BY <1>2 DEF Forming!EditCommit, Forming!ReplaceCommit
  <2> QED BY <2>1, TransactionEnds
<1>3. ASSUME NEW a \in Clients, Forming!EditBegin(a) PROVE Levels'
  <2> DEFINE t == [tx[a] EXCEPT !.op = "edit", !.seen = Forming!SeenBy(tx[a])]
  <2>1. Forming!Start(a, t) /\ UNCHANGED children /\ tx[a] # Absent /\ tx[a].op = "read"
    BY <1>3 DEF Forming!EditBegin, Forming!In
  <2>2. tx[a] \in Forming!EditTx
    BY <2>1 DEF FormsInv, FormsOrdered, FormsTyped, Transactions, Forming!CreateTx,
       Forming!ReplaceTx, Forming!CloneTx
  <2>3. t.op = "edit"
    BY <2>2 DEF Forming!EditTx
  <2> HIDE DEF t
  <2>4. PICK V : FormsFit(V)
    BY DEF Levels
  <2> QED BY <2>1, <2>3, <2>4, BeginFits
<1>4. ASSUME NEW w \in Scorers, Forming!Score(w) PROVE Levels'
  <2>1. UNCHANGED <<children, tx>>
    BY <1>4 DEF Forming!Score, Forming!ScoreBegin, Forming!ScorePick, Forming!ScoreOption,
       Forming!ScoreRange, Forming!ScoreTier, Forming!ScoreSave, Forming!Step
  <2> QED BY <2>1, LevelsStay
<1> QED BY <1>1, <1>2, <1>3, <1>4, CreateCommitLevels, CloneCommitLevels
        DEF Forming!Next, Forming!Transaction

-----------------------------------------------------------------------------
(* No row outlives its owner: what is there stays whole *)

\* An owner that is there.
LEMMA OwnerThere ==
  ASSUME NEW o \in Forming!OwnerIds, Forming!OwnerExists(o)
  PROVE  o \in forms \/ Present(child, o)
BY FormSets DEF Forming!OwnerExists, Forming!Exists, Present

\* Forms and rows come and stay, and the new ones belong to what is there.
LEMMA WholeGrows ==
  ASSUME FormsWhole, forms \subseteq forms',
         \A r \in Ids : child[r] # Absent => child'[r] # Absent,
         \A r \in Ids : child'[r] # Absent =>
           OfOwner(r, child'[r].owner) \/ child'[r].owner \in forms' \/ Present(child', child'[r].owner),
         \A r \in linked' \cup answered' : r \in linked \cup answered \/ Present(child', r),
         \A p \in Forming!Parts, r \in Ids :
           batches'[p][r] # {} => batches[p][r] # {} \/ Present(child', r)
  PROVE  FormsWhole'
<1>1. \A r : Present(child, r) => Present(child', r)
  BY DEF Present
<1>2. ASSUME NEW r \in Ids, child'[r] # Absent
      PROVE  child'[r].owner \in forms' \/ Present(child', child'[r].owner)
  <2>1. OfOwner(r, child'[r].owner) =>
          child'[r].owner \in forms \/ Present(child, child'[r].owner)
    BY DEF OfOwner, FormsWhole
  <2> QED BY <1>1, <1>2, <2>1
<1>3. \A r \in linked' \cup answered' : Present(child', r)
  BY <1>1 DEF FormsWhole
<1>4. \A p \in Forming!Parts, r \in Ids : batches'[p][r] # {} => Present(child', r)
  BY <1>1 DEF FormsWhole
<1> QED BY <1>2, <1>3, <1>4 DEF FormsWhole, Forming!Parts, Ids, Present

\* Contents come to rows that are there, and forms may come.
LEMMA WholeFills ==
  ASSUME FormsWhole, forms \subseteq forms', UNCHANGED child,
         \A r \in linked' \cup answered' : r \in linked \cup answered \/ Present(child, r),
         \A p \in Forming!Parts, r \in Ids :
           batches'[p][r] # {} => batches[p][r] # {} \/ Present(child, r)
  PROVE  FormsWhole'
<1>1. \A r : Present(child', r) = Present(child, r)
  OBVIOUS
<1>2. \A r \in Ids : child'[r] # Absent => OfOwner(r, child'[r].owner)
  BY DEF OfOwner
<1> QED BY <1>1, <1>2, WholeGrows

LEMMA WholeStays ==
  ASSUME FormsWhole, UNCHANGED <<forms, child, linked, answered, batches>>
  PROVE  FormsWhole'
BY WholeFills

\* A row is written, of an owner that is there.
LEMMA WholeWritten ==
  ASSUME FormsInv, FormsWhole, NEW seen, NEW id \in Ids, NEW new \in Forming!Row,
         Writes(seen, id, new), Forming!OwnerExists(new.owner),
         UNCHANGED <<forms, linked, answered, batches>>
  PROVE  FormsWhole'
<1>1. child'[id] = new /\ new # Absent
  BY RowWritten
<1>2. \A r \in Ids : child[r] # Absent => child'[r] # Absent
  BY <1>1, OtherRows
<1>3. new.owner \in forms \/ Present(child, new.owner)
  BY OwnerThere DEF Forming!Row
<1>4. new.owner \in forms' \/ Present(child', new.owner)
  BY <1>2, <1>3 DEF Present
<1>5. \A r \in Ids : child'[r] # Absent =>
        OfOwner(r, child'[r].owner) \/ child'[r].owner \in forms' \/ Present(child', child'[r].owner)
  BY <1>1, <1>4, OtherOwners DEF OfOwner
<1> QED BY <1>2, <1>5, WholeGrows

\* A row goes with all below it: what was below a row was no owner itself.
LEMMA WholeDeleted ==
  ASSUME FormsInv, FormsWhole, Levels, NEW gone \in SUBSET Ids, Forming!Delete(gone),
         \A r \in Ids : child[r] # Absent /\ child[r].owner \in forms \ forms' => r \in gone
  PROVE  FormsWhole'
<1> DEFINE all == gone \cup {r \in Ids : child[r] # Absent /\ child[r].owner \in gone}
<1>1. /\ child' = [r \in Ids |-> IF r \in all THEN Absent ELSE child[r]]
      /\ linked' = linked \ all /\ answered' = answered \ all
      /\ batches' = [p \in Forming!Parts |->
           [r \in Ids |-> IF r \in all THEN {} ELSE batches[p][r]]]
  BY DEF Forming!Delete, Forming!Exists, Ids
<1>2. PICK V : FormsFit(V)
  BY DEF Levels
<1>3. EditedForms \cap Ids = {}
  BY FormSets
<1>4. ASSUME NEW r \in Ids \ all, child[r] # Absent
      PROVE  child[r].owner \in forms' \/ (Present(child, child[r].owner) /\ child[r].owner \notin all)
  <2> DEFINE o == child[r].owner
  <2>1. r \notin gone /\ o \notin gone
    BY <1>4
  <2>2. CASE o \in forms
    BY <1>4, <2>1, <2>2
  <2>3. CASE Present(child, o)
    <3>1. o \in V
      BY <1>2, <1>3, <1>4, <2>3 DEF FormsFit, RowFits, Present
    <3>2. child[o].owner \in EditedForms
      BY <1>2, <2>3, <3>1 DEF FormsFit, RowFits, Present
    <3>3. o \notin all
      BY <1>3, <2>1, <3>2
    <3> QED BY <2>3, <3>3
  <2> QED BY <1>4, <2>2, <2>3 DEF FormsWhole
<1> HIDE DEF all
<1>5. \A r : Present(child, r) /\ r \notin all => Present(child', r)
  BY <1>1 DEF Present
<1>6. \A r \in Ids : child'[r] # Absent =>
        child'[r].owner \in forms' \/ Present(child', child'[r].owner)
  BY <1>1, <1>4, <1>5
<1>7. \A r \in linked' \cup answered' : Present(child', r)
  BY <1>1, <1>5 DEF FormsWhole
<1>8. \A p \in Forming!Parts, r \in Ids : batches'[p][r] # {} => Present(child', r)
  BY <1>1, <1>5 DEF FormsWhole
<1> QED BY <1>6, <1>7, <1>8 DEF FormsWhole, Forming!Parts, Ids, Present

-----------------------------------------------------------------------------
(* No row outlives its owner: the steps *)

LEMMA RemovalsWhole ==
  ASSUME FormsInv, FormsWhole, Levels, NEW a,
         \/ \E f \in EditedForms : Forming!RemoveForm(a, f)
         \/ \E r \in Ids : Forming!RemoveVersion(a, r) \/ Forming!RemoveScore(a, r)
  PROVE  FormsWhole'
<1>1. ASSUME NEW f \in EditedForms, Forming!RemoveForm(a, f) PROVE FormsWhole'
  <2>1. forms' = forms \ {f} /\ Forming!Delete(Forming!Children(f))
    BY <1>1 DEF Forming!RemoveForm
  <2>2. Forming!Children(f) = {r \in Ids : child[r] # Absent /\ child[r].owner = f}
    BY DEF Forming!Children, Forming!Exists, Ids
  <2> QED BY <2>1, <2>2, WholeDeleted
<1>2. ASSUME NEW r \in Ids, Forming!RemoveRow(a, r) PROVE FormsWhole'
  BY <1>2, WholeDeleted DEF Forming!RemoveRow
<1> QED BY <1>1, <1>2 DEF Forming!RemoveVersion, Forming!RemoveScore

LEMMA CreateFullWhole ==
  ASSUME FormsInv, FormsWhole, NEW a, NEW f \in EditedForms, NEW versionFlag, NEW scoreFlag,
         NEW o, NEW r, versionFlag \in BOOLEAN, scoreFlag \in BOOLEAN,
         Forming!CreateFull(a, f, versionFlag, scoreFlag, o, r)
  PROVE  FormsWhole'
<1> DEFINE v == children + 1
           s == children + 2
           version == [owner |-> f, active |-> versionFlag]
           score == [owner |-> v, active |-> scoreFlag]
<1>1. /\ children \in Nat /\ v \in Ids /\ s \in Ids /\ v # s
      /\ child' = [child EXCEPT ![v] = version, ![s] = score]
      /\ batches' = [batches EXCEPT !["option"][s] = {o}, !["range"][s] = {r}]
      /\ forms' = forms \cup {f} /\ linked' = linked \cup {v} /\ answered' = answered
      /\ DOMAIN child = Ids
  <2>1. children \in Nat /\ children + 2 <= MaxChildren
    BY FormSets DEF Forming!CreateFull, FormsInv, FormsOrdered, FormsTyped
  <2>2. v \in Ids /\ s \in Ids /\ v # s
    BY <2>1, FormSets
  <2>3. DOMAIN child = Ids
    BY DEF FormsInv, FormsOrdered, FormsTyped
  <2> QED BY <2>1, <2>2, <2>3 DEF Forming!CreateFull, Forming!WithPoints
<1>2. version \in Forming!Row /\ score \in Forming!Row /\ version.owner = f /\ score.owner = v
      /\ version # Absent /\ score # Absent
  BY <1>1, FormSets DEF Forming!Row, Ids
<1> HIDE DEF v, s, version, score
<1>3. child'[v] = version /\ child'[s] = score /\ \A i \in Ids \ {v, s} : child'[i] = child[i]
  BY <1>1
<1>4. Present(child', v) /\ Present(child', s)
  BY <1>1, <1>2, <1>3 DEF Present
<1>5. \A i \in Ids : child[i] # Absent => child'[i] # Absent
  BY <1>2, <1>3
<1>6. \A i \in Ids : child'[i] # Absent =>
        OfOwner(i, child'[i].owner) \/ child'[i].owner \in forms' \/ Present(child', child'[i].owner)
  BY <1>1, <1>2, <1>3, <1>4 DEF OfOwner
<1>7. ASSUME NEW p \in Forming!Parts, NEW i \in Ids
      PROVE  batches'[p][i] # {} => batches[p][i] # {} \/ Present(child', i)
  <2>1. CASE i = s
    BY <1>4, <2>1
  <2>2. CASE i # s
    <3>1. DOMAIN batches = Forming!Parts /\ DOMAIN batches[p] = Ids
      BY DEF FormsInv, FormsOrdered, FormsTyped
    <3>2. batches'[p][i] = batches[p][i]
      BY <1>1, <2>2, <3>1
    <3> QED BY <3>2
  <2> QED BY <2>1, <2>2
<1>8. forms \subseteq forms' /\ \A i \in linked' \cup answered' : i \in linked \cup answered \/ Present(child', i)
  BY <1>1, <1>4
<1> QED BY <1>5, <1>6, <1>7, <1>8, WholeGrows

LEMMA RequestWhole ==
  ASSUME FormsInv, FormsWhole, Levels, NEW a \in Clients, Forming!Request(a)
  PROVE  FormsWhole'
<1> DEFINE Same == UNCHANGED <<forms, child, linked, answered, batches>>
<1>1. CASE \/ \E f \in EditedForms : Forming!RemoveForm(a, f)
           \/ \E r \in Ids : Forming!RemoveVersion(a, r) \/ Forming!RemoveScore(a, r)
  BY <1>1, RemovalsWhole
<1>2. ASSUME NEW f \in EditedForms, NEW v \in BOOLEAN, NEW s \in BOOLEAN, NEW o, NEW r,
             Forming!CreateFull(a, f, v, s, o, r)
      PROVE  FormsWhole'
  BY <1>2, CreateFullWhole
<1>3. ASSUME NEW f \in EditedForms, Forming!CreateForm(a, f) PROVE FormsWhole'
  BY <1>3, WholeFills DEF Forming!CreateForm, Forming!Unwatched
<1>4. ASSUME NEW v \in Ids, Forming!LinkQuestion(a, v) \/ Forming!UnlinkQuestion(a, v)
      PROVE  FormsWhole'
  BY <1>4, WholeFills DEF Forming!LinkQuestion, Forming!UnlinkQuestion, Forming!Unwatched,
     Forming!Versions, Forming!Exists, Present
<1>5. ASSUME NEW o, NEW flag,
             Forming!CreateVersion(a, o, flag) \/ Forming!CreateScore(a, o, flag)
      PROVE  Same
  BY <1>5 DEF Forming!CreateVersion, Forming!CreateScore, Forming!CreateBegin, Forming!Unwatched
<1>6. ASSUME NEW r, \/ \E off \in BOOLEAN :
                          Forming!UpdateVersion(a, r, off) \/ Forming!UpdateScore(a, r, off)
                    \/ Forming!ActivateVersion(a, r) \/ Forming!ActivateScore(a, r)
      PROVE  Same
  BY <1>6 DEF Forming!UpdateVersion, Forming!UpdateScore, Forming!ActivateVersion,
     Forming!ActivateScore, Forming!EditRead, Forming!Unwatched
<1>7. ASSUME NEW s, NEW n,
             \/ Forming!ReplaceOptionPoints(a, s, n)
             \/ Forming!ReplaceRangePoints(a, s, n)
             \/ Forming!ReplaceTierRules(a, s, n)
      PROVE  Same
  BY <1>7 DEF Forming!ReplaceOptionPoints, Forming!ReplaceRangePoints,
     Forming!ReplaceTierRules, Forming!ReplaceBegin, Forming!Unwatched
<1>8. ASSUME NEW v, NEW t, Forming!CloneBegin(a, v, t) PROVE Same
  BY <1>8 DEF Forming!CloneBegin, Forming!Unwatched
<1>9. CASE Same
  BY <1>9, WholeStays
<1> HIDE DEF Same
<1> QED BY <1>1, <1>2, <1>3, <1>4, <1>5, <1>6, <1>7, <1>8, <1>9 DEF Forming!Request, Ids

LEMMA RowsWritten ==
  ASSUME FormsInv, FormsWhole, NEW a \in Clients,
         Forming!CreateCommit(a) \/ Forming!EditCommit(a)
  PROVE  FormsWhole'
<1> DEFINE t == tx[a]
           new == [owner |-> t.owner, active |-> t.flag]
           id == IF t.op = "create" THEN children + 1 ELSE t.id
<1>1. t # Absent /\ t \in Forming!CreateTx \cup Forming!EditTx
  BY InHandTyped DEF Forming!CreateCommit, Forming!EditCommit, Forming!In
<1>2. new \in Forming!Row /\ new.owner = t.owner
  BY <1>1 DEF Forming!CreateTx, Forming!EditTx, Forming!Row
<1>3. UNCHANGED <<forms, linked, answered, batches>>
  BY DEF Forming!CreateCommit, Forming!EditCommit, Forming!Unwatched
<1>4. CASE Forming!OwnerExists(t.owner)
  <2>1. Writes(t.seen, id, new)
    BY <1>4 DEF Forming!CreateCommit, Forming!EditCommit, Forming!In, Writes
  <2>2. id \in Ids
    <3>1. CASE Forming!CreateCommit(a)
      <4>1. children \in Nat /\ children < MaxChildren /\ t.op = "create"
        BY <3>1, FormSets DEF Forming!CreateCommit, Forming!In, FormsInv, FormsOrdered, FormsTyped
      <4> QED BY <4>1, FormSets
    <3>2. CASE Forming!EditCommit(a)
      BY <1>1, <3>2 DEF Forming!EditCommit, Forming!In, Forming!EditTx, Forming!CreateTx, Ids
    <3> QED BY <3>1, <3>2
  <2> HIDE DEF new, id
  <2> QED BY <1>2, <1>3, <1>4, <2>1, <2>2, WholeWritten
<1>5. CASE ~Forming!OwnerExists(t.owner)
  BY <1>3, <1>5, WholeStays DEF Forming!CreateCommit, Forming!EditCommit
<1> QED BY <1>4, <1>5

LEMMA ReplaceWhole ==
  ASSUME FormsInv, FormsWhole, NEW a \in Clients, Forming!ReplaceCommit(a)
  PROVE  FormsWhole'
<1> DEFINE t == tx[a]
<1>1. UNCHANGED <<forms, child, linked, answered>> /\ t # Absent /\ t \in Forming!ReplaceTx
  BY InHandTyped DEF Forming!ReplaceCommit, Forming!In
<1>2. CASE child[t.owner] # Absent
  <2>1. batches' = [batches EXCEPT ![t.part][t.owner] = Forming!Replaced(t)]
    BY <1>2 DEF Forming!ReplaceCommit, Forming!Exists
  <2>2. Present(child, t.owner) /\ t.part \in Forming!Parts
    BY <1>1, <1>2 DEF Present, Forming!ReplaceTx, Ids
  <2>3. \A p \in Forming!Parts, r \in Ids : r # t.owner => batches'[p][r] = batches[p][r]
    BY <2>1, <2>2 DEF FormsInv, FormsOrdered, FormsTyped
  <2> QED BY <1>1, <2>2, <2>3, WholeFills
<1>3. CASE ~(child[t.owner] # Absent)
  BY <1>1, <1>3, WholeStays DEF Forming!ReplaceCommit, Forming!Exists
<1> QED BY <1>2, <1>3

LEMMA CloneWhole ==
  ASSUME FormsInv, FormsWhole, Levels, NEW a \in Clients, Forming!CloneCommit(a)
  PROVE  FormsWhole'
<1> DEFINE t == tx[a]
<1>1. UNCHANGED <<forms, answered>>
  BY DEF Forming!CloneCommit
<1>2. CASE Forming!OwnerExists(tx[a].owner)
  <2>1. PICK into, first, n, original : Copies(a, into, first, n, original)
    BY <1>2, Copied
  <2>2. PICK V : FormsFit(V)
    BY DEF Levels
  <2> DEFINE copies == first + 1 .. first + n
  <2>3. /\ t # Absent /\ t.op = "clone" /\ children \in Nat /\ first \in Nat /\ n \in Nat
        /\ first = children + (IF t.fresh THEN 1 ELSE 0)
        /\ into = IF t.fresh THEN children + 1 ELSE t.owner
    BY <2>1 DEF Copies, Forming!CloneTx
  <2>4. /\ copies \subseteq Ids /\ into \notin copies /\ into \in Forming!OwnerIds
        /\ t.fresh => into \in Ids
        /\ t.fresh \in BOOLEAN /\ t.flag \in BOOLEAN /\ t.owner \in Forming!OwnerIds
    BY <2>1, CopiedIds
  <2>5. \A r \in Ids : r <= children => r \notin copies /\ ~(t.fresh /\ r = into)
    BY <2>3, FormSets
  <2>6. \A r \in Ids : child[r] # Absent => r <= children
    BY DEF FormsInv, FormsOrdered, RowsKnown
  <2>7. child' = [r \in Ids |->
       CASE r \in copies -> [owner |-> into, active |-> child[original[r]].active]
         [] t.fresh /\ r = into -> [owner |-> t.owner, active |-> t.flag]
         [] OTHER -> Forming!Deactivated(t.seen)[r]]
    BY <2>1 DEF Copies
  <2>8. ASSUME NEW r \in copies PROVE child'[r] # Absent /\ child'[r].owner = into
    <3>1. /\ r \in Ids /\ child'[r].owner = into /\ original[r] \in Ids
          /\ child[original[r]] # Absent
      BY <2>1, CopyOfOriginal
    <3>2. child[original[r]].active \in BOOLEAN
      BY <3>1, KnownTyped
    <3>3. child'[r] = [owner |-> into, active |-> child[original[r]].active]
      <4> HIDE DEF t, copies
      <4> QED BY <2>4, <2>7, <3>1, <2>8
    <3>4. child'[r] \in Forming!Row
      BY <2>4, <3>2, <3>3 DEF Forming!Row
    <3> QED BY <3>1, <3>4, FormSets
  <2>9. t.fresh => child'[into] # Absent /\ child'[into].owner = t.owner
    <3>1. SUFFICES ASSUME t.fresh PROVE child'[into] # Absent /\ child'[into].owner = t.owner
      OBVIOUS
    <3>2. child'[into] = [owner |-> t.owner, active |-> t.flag]
      <4> HIDE DEF t, copies
      <4> QED BY <2>4, <2>7, <3>1
    <3>3. child'[into] \in Forming!Row
      BY <2>4, <3>2 DEF Forming!Row
    <3> QED BY <3>2, <3>3, FormSets
  <2>10. ASSUME NEW r \in Ids, r \notin copies, ~(t.fresh /\ r = into)
         PROVE  /\ child'[r] # Absent <=> child[r] # Absent
                /\ child'[r] # Absent => child'[r].owner = child[r].owner
    <3>1. child'[r] = Forming!Deactivated(t.seen)[r]
      BY <2>1, <2>10, CopiedRow
    <3> QED BY <3>1, DeactivatedRows
  <2> HIDE DEF t, copies
  <2>11. \A r \in Ids : child[r] # Absent => child'[r] # Absent
    BY <2>5, <2>6, <2>10
  <2>12. t.owner \in forms \/ Present(child, t.owner)
    BY <1>2, <2>4, OwnerThere DEF t
  <2>13. t.owner \in forms' \/ Present(child', t.owner)
    BY <1>1, <2>11, <2>12 DEF Present
  <2>14. Present(child', into)
    <3>1. CASE t.fresh
      BY <2>4, <2>9, <3>1 DEF Present
    <3>2. CASE ~t.fresh
      <4>1. t.owner \in V /\ into = t.owner
        BY <2>2, <2>3, <3>2 DEF FormsFit, TxFits, t
      <4>2. t.owner \in Ids
        BY <2>2, <4>1 DEF FormsFit
      <4>3. t.owner \notin forms
        BY <4>2, FormSets DEF FormsInv, FormsOrdered, FormsTyped
      <4> QED BY <2>11, <2>12, <4>1, <4>3 DEF Present
    <3> QED BY <3>1, <3>2
  <2>15. ASSUME NEW r \in Ids, child'[r] # Absent
         PROVE  \/ OfOwner(r, child'[r].owner)
                \/ child'[r].owner \in forms' \/ Present(child', child'[r].owner)
    <3>1. CASE r \in copies
      BY <2>8, <2>14, <3>1
    <3>2. CASE t.fresh /\ r = into
      BY <2>9, <2>13, <3>2
    <3>3. CASE r \notin copies /\ ~(t.fresh /\ r = into)
      BY <2>10, <2>15, <3>3 DEF OfOwner
    <3> QED BY <3>1, <3>2, <3>3
  <2>16. linked' = IF t.source \in linked THEN linked \cup {into} ELSE linked
    <3>1. forms' = forms /\ linked' = IF t.source \in linked THEN linked \cup
             {IF t.fresh THEN children + 1 ELSE t.owner} ELSE linked
      BY <1>2 DEF Forming!CloneCommit, t
    <3> QED BY <2>3, <3>1
  <2>17. \A r \in linked' \cup answered' : r \in linked \cup answered \/ Present(child', r)
    BY <1>1, <2>14, <2>16
  <2>18. ASSUME NEW p \in Forming!Parts, NEW r \in Ids, batches'[p][r] # {}
         PROVE  batches[p][r] # {} \/ Present(child', r)
    <3>1. CASE r \in copies
      BY <2>8, <3>1 DEF Present
    <3>2. CASE r \notin copies
      <4>1. batches'[p][r] = batches[p][r]
        BY <2>1, <3>2, CopiedBatches DEF copies
      <4> QED BY <2>18, <4>1
    <3> QED BY <3>1, <3>2
  <2> QED BY <1>1, <2>11, <2>15, <2>17, <2>18, WholeGrows
<1>3. CASE ~Forming!OwnerExists(tx[a].owner)
  BY <1>1, <1>3, WholeStays DEF Forming!CloneCommit
<1> QED BY <1>2, <1>3

LEMMA ScoreWhole ==
  ASSUME CardsInv, FormsWhole, VersionsRead, NEW w \in Scorers, Forming!Score(w)
  PROVE  FormsWhole'
<1>1. UNCHANGED <<forms, child, linked, batches>>
  BY DEF Forming!Score, Forming!ScoreBegin, Forming!ScorePick, Forming!ScoreOption,
     Forming!ScoreRange, Forming!ScoreTier, Forming!ScoreSave, Forming!Step
<1>2. ASSUME Forming!ScoreSave(w) PROVE \A r \in answered' : r \in answered \/ Present(child, r)
  BY <1>2 DEF Forming!ScoreSave, VersionsRead, Present, InCard, Forming!Exists
<1>3. \A r \in answered' : r \in answered \/ Present(child, r)
  BY <1>2 DEF Forming!Score, Forming!ScoreBegin, Forming!ScorePick, Forming!ScoreOption,
     Forming!ScoreRange, Forming!ScoreTier
<1> QED BY <1>1, <1>3, WholeFills

LEMMA WholeKept ==
  ASSUME FormsInv, CardsInv, FormsWhole, Levels, VersionsRead, Forming!Next
  PROVE  FormsWhole'
<1>1. ASSUME NEW a \in Clients, Forming!EditBegin(a) PROVE FormsWhole'
  BY <1>1, WholeStays DEF Forming!EditBegin, Forming!Unwatched
<1> QED BY <1>1, RequestWhole, RowsWritten, ReplaceWhole, CloneWhole, ScoreWhole
        DEF Forming!Next, Forming!Transaction

-----------------------------------------------------------------------------
(* No row outlives its owner: what is noted, and the versions of consumers *)

LEMMA ContendedOwners ==
  ASSUME FormsInv, contended \subseteq Forming!OwnerIds, NEW a \in Clients,
         Forming!Request(a) \/ Forming!Transaction(a)
  PROVE  contended' \subseteq Forming!OwnerIds
<1> DEFINE Owners == contended' \subseteq Forming!OwnerIds
<1>1. CASE Forming!Request(a)
  <2>1. UNCHANGED contended
    BY <1>1 DEF Forming!Request, Forming!CreateForm, Forming!CreateFull, Forming!RemoveForm,
       Forming!CreateVersion, Forming!CreateScore, Forming!CreateBegin, Forming!UpdateVersion,
       Forming!UpdateScore, Forming!ActivateVersion, Forming!ActivateScore, Forming!EditRead,
       Forming!RemoveVersion, Forming!RemoveScore, Forming!RemoveRow, Forming!LinkQuestion,
       Forming!UnlinkQuestion, Forming!ReplaceOptionPoints, Forming!ReplaceRangePoints,
       Forming!ReplaceTierRules, Forming!ReplaceBegin, Forming!CloneBegin
  <2> QED BY <2>1
<1>2. CASE Forming!EditBegin(a)
  BY <1>2 DEF Forming!EditBegin
<1>3. CASE Forming!CreateCommit(a) \/ Forming!EditCommit(a) \/ Forming!ReplaceCommit(a)
  <2>1. tx[a].owner \in Forming!OwnerIds
    BY <1>3, InHandTyped
       DEF Forming!CreateCommit, Forming!EditCommit, Forming!ReplaceCommit, Forming!In
  <2> QED BY <1>3, <2>1
          DEF Forming!CreateCommit, Forming!EditCommit, Forming!ReplaceCommit, Forming!Crowd
<1>4. CASE Forming!CloneCommit(a)
  <2>1. CASE Forming!OwnerExists(tx[a].owner)
    <3>1. PICK into, first, n, original : Copies(a, into, first, n, original)
      BY <1>4, <2>1, Copied
    <3> DEFINE copies == first + 1 .. first + n
    <3>2. /\ copies \subseteq Ids /\ into \in Forming!OwnerIds
          /\ tx[a].owner \in Forming!OwnerIds
      BY <3>1, CopiedIds
    <3>3. contended' = contended
             \cup {o \in {tx[a].owner} : Forming!OpenOn(a, o)}
             \cup {o \in {into} : tx[a].source \in contended}
             \cup {r \in copies : original[r] \in contended}
      BY <3>1 DEF Copies
    <3> HIDE DEF copies
    <3>4. copies \subseteq Forming!OwnerIds
      BY <3>2, FormSets
    <3> QED BY <3>2, <3>3, <3>4
  <2>2. CASE ~Forming!OwnerExists(tx[a].owner)
    BY <1>4, <2>2 DEF Forming!CloneCommit
  <2> QED BY <2>1, <2>2
<1> QED BY <1>1, <1>2, <1>3, <1>4 DEF Forming!Transaction

LEMMA NotedKept ==
  ASSUME FormsInv, FormsNoted, Forming!Next
  PROVE  FormsNoted'
<1>1. MoreRequests \in Nat
  BY AudienceBounds
<1>2. ASSUME NEW a \in Clients, Forming!Transaction(a) PROVE UNCHANGED requests
  BY <1>2 DEF Forming!Transaction, Forming!CreateCommit, Forming!EditBegin,
     Forming!EditCommit, Forming!ReplaceCommit, Forming!CloneCommit
<1>3. ASSUME NEW a \in Clients, Forming!Request(a)
      PROVE  requests < MoreRequests /\ requests' = requests + 1
  BY <1>3 DEF Forming!Request, Forming!Asked
<1>4. ASSUME NEW w \in Scorers, Forming!Score(w)
      PROVE  /\ \/ UNCHANGED requests
                \/ requests < MoreRequests /\ requests' = requests + 1
             /\ UNCHANGED contended
  BY <1>4 DEF Forming!Score, Forming!ScoreBegin, Forming!ScorePick, Forming!ScoreOption,
     Forming!ScoreRange, Forming!ScoreTier, Forming!ScoreSave, Forming!Step
<1>5. \/ UNCHANGED requests
      \/ requests < MoreRequests /\ requests' = requests + 1
  BY <1>2, <1>3, <1>4 DEF Forming!Next
<1>6. requests' \in 0..MoreRequests
  BY <1>1, <1>5 DEF FormsNoted
<1>7. contended' \subseteq Forming!OwnerIds
  BY <1>4, ContendedOwners DEF Forming!Next, FormsNoted
<1> QED BY <1>6, <1>7 DEF FormsNoted, Forming!OwnerIds, Forming!Ids

\* A step of an administrator leaves what the consumers are about.
LeftAlone(c, d) == d.at = c.at /\ d.version = c.version

LEMMA WatchedLeftAlone ==
  ASSUME CardsInv, NEW D, Forming!Watched(D), NEW w \in Scorers
  PROVE  LeftAlone(scoring[w], scoring'[w])
<1> DEFINE b == scoring[w].steady /\ (scoring[w].at \notin {"option", "range", "tier", "save"} \/
                  \A p \in Forming!Parts : D[p][scoring[w].score] = batches[p][scoring[w].score])
<1>1. scoring'[w] = [scoring[w] EXCEPT !.steady = b]
  BY DEF Forming!Watched
<1> HIDE DEF b
<1>2. scoring[w] \in Computing
  BY DEF CardsInv
<1> QED BY <1>1, <1>2 DEF Computing, LeftAlone

LEMMA VersionsLeftAlone ==
  ASSUME CardsInv, VersionsRead, \A w \in Scorers : LeftAlone(scoring[w], scoring'[w])
  PROVE  VersionsRead'
BY DEF VersionsRead, LeftAlone, Ids, InCard

LEMMA RequestLeavesAlone ==
  ASSUME CardsInv, NEW a, Forming!Request(a) \/ Forming!Transaction(a), NEW w \in Scorers
  PROVE  LeftAlone(scoring[w], scoring'[w])
<1> DEFINE Watching == \E D : Forming!Watched(D)
           Same == UNCHANGED scoring
<1>1. CASE \/ \E f : Forming!RemoveForm(a, f)
           \/ \E r : Forming!RemoveVersion(a, r) \/ Forming!RemoveScore(a, r)
  <2>1. Watching
    BY <1>1 DEF Forming!RemoveForm, Forming!RemoveVersion, Forming!RemoveScore,
       Forming!RemoveRow, Forming!Delete
  <2> QED BY <2>1, WatchedLeftAlone
<1>2. CASE Forming!ReplaceCommit(a)
  <2>1. Watching \/ Same
    BY <1>2 DEF Forming!ReplaceCommit
  <2> QED BY <2>1, WatchedLeftAlone DEF LeftAlone
<1>3. CASE Same
  BY <1>3 DEF LeftAlone
<1>4. CASE \/ \E f : Forming!CreateForm(a, f)
           \/ \E f, v, s, o, r : Forming!CreateFull(a, f, v, s, o, r)
           \/ \E o, flag : Forming!CreateVersion(a, o, flag) \/ Forming!CreateScore(a, o, flag)
           \/ \E v : Forming!LinkQuestion(a, v) \/ Forming!UnlinkQuestion(a, v)
  BY <1>3, <1>4 DEF Forming!CreateForm, Forming!CreateFull, Forming!CreateVersion,
     Forming!CreateScore, Forming!CreateBegin, Forming!LinkQuestion, Forming!UnlinkQuestion,
     Forming!Unwatched
<1>5. CASE \/ \E r, off : Forming!UpdateVersion(a, r, off) \/ Forming!UpdateScore(a, r, off)
           \/ \E r : Forming!ActivateVersion(a, r) \/ Forming!ActivateScore(a, r)
           \/ \E v, t : Forming!CloneBegin(a, v, t)
           \/ \E s, n : \/ Forming!ReplaceOptionPoints(a, s, n)
                        \/ Forming!ReplaceRangePoints(a, s, n)
                        \/ Forming!ReplaceTierRules(a, s, n)
  BY <1>3, <1>5 DEF Forming!UpdateVersion, Forming!UpdateScore, Forming!ActivateVersion,
     Forming!ActivateScore, Forming!EditRead, Forming!CloneBegin, Forming!ReplaceOptionPoints,
     Forming!ReplaceRangePoints, Forming!ReplaceTierRules, Forming!ReplaceBegin,
     Forming!Unwatched
<1>6. CASE Forming!Request(a)
  <2> HIDE DEF Watching, Same
  <2> QED BY <1>1, <1>4, <1>5, <1>6 DEF Forming!Request
<1>7. CASE Forming!Transaction(a)
  BY <1>2, <1>3, <1>7 DEF Forming!Transaction, Forming!CreateCommit, Forming!EditBegin,
     Forming!EditCommit, Forming!CloneCommit, Forming!Unwatched
<1> QED BY <1>6, <1>7

LEMMA ScoreReads ==
  ASSUME CardsInv, VersionsRead, NEW w \in Scorers, Forming!Score(w)
  PROVE  VersionsRead'
<1> DEFINE c == scoring[w]
           d == scoring'[w]
           Read == d.at \in InCard \cup {"pick"} => d.version \in Ids
<1>1. \A u \in Scorers \ {w} : scoring'[u] = scoring[u]
  BY DEF Forming!Score, Forming!ScoreBegin, Forming!ScorePick, Forming!ScoreOption,
     Forming!ScoreRange, Forming!ScoreTier, Forming!ScoreSave, Forming!Step, CardsInv
<1>2. c \in Computing /\ DOMAIN scoring = Scorers /\ (c.at \in InCard \cup {"pick"} => c.version \in Ids)
  BY DEF CardsInv, VersionsRead
<1>3. ASSUME Forming!Step(w, Forming!Idle) PROVE Read
  BY <1>2, <1>3, ScorerIdle DEF Forming!Step, InCard
<1>4. ASSUME NEW v \in Ids, NEW value \in Values, Forming!ScoreBegin(w, v, value) PROVE Read
  <2> DEFINE e == [Forming!Idle EXCEPT !.at = "pick", !.version = v, !.value = value]
  <2>1. d = e
    BY <1>2, <1>4 DEF Forming!ScoreBegin, Forming!Step
  <2>2. e.version = v
    BY ScorerIdle DEF Computing
  <2> HIDE DEF e
  <2> QED BY <2>1, <2>2
<1>5. ASSUME c.at \in InCard \cup {"pick"}, d.version = c.version PROVE Read
  BY <1>2, <1>5
<1>6. ASSUME Forming!ScorePick(w) PROVE Read
  <2>1. ASSUME NEW s, Forming!Step(w, [c EXCEPT !.at = "option", !.score = s, !.steady = TRUE])
        PROVE  d.version = c.version
    BY <1>2, <2>1 DEF Forming!Step, Computing
  <2> HIDE DEF Read
  <2> QED BY <1>3, <1>5, <1>6, <2>1 DEF Forming!ScorePick
<1>7. ASSUME Forming!ScoreOption(w) PROVE Read
  <2>1. PICK n : Forming!Step(w, [c EXCEPT !.at = "range", !.total = n])
    BY <1>7 DEF Forming!ScoreOption
  <2>2. d.version = c.version
    BY <1>2, <2>1 DEF Forming!Step, Computing
  <2> QED BY <1>5, <1>7, <2>2 DEF Forming!ScoreOption, InCard
<1>8. ASSUME Forming!ScoreRange(w) PROVE Read
  <2>1. PICK n : Forming!Step(w, [c EXCEPT !.at = "tier", !.total = @ + n])
    BY <1>8 DEF Forming!ScoreRange
  <2>2. d.version = c.version
    BY <1>2, <2>1 DEF Forming!Step, Computing
  <2> QED BY <1>5, <1>8, <2>2 DEF Forming!ScoreRange, InCard
<1>9. ASSUME Forming!ScoreTier(w) PROVE Read
  <2>1. PICK n : Forming!Step(w, [c EXCEPT !.at = "save", !.tier = n])
    BY <1>9 DEF Forming!ScoreTier
  <2>2. d.version = c.version
    BY <1>2, <2>1 DEF Forming!Step, Computing
  <2> QED BY <1>5, <1>9, <2>2 DEF Forming!ScoreTier, InCard
<1>10. ASSUME Forming!ScoreSave(w) PROVE Read
  <2>1. ASSUME Forming!Step(w, [c EXCEPT !.at = "done"]) PROVE d.version = c.version
    BY <1>2, <2>1 DEF Forming!Step, Computing
  <2> HIDE DEF Read
  <2> QED BY <1>3, <1>5, <1>10, <2>1 DEF Forming!ScoreSave, InCard
<1>11. Read
  <2> HIDE DEF Read
  <2> QED BY <1>4, <1>6, <1>7, <1>8, <1>9, <1>10 DEF Forming!Score, Ids
<1> QED BY <1>1, <1>11 DEF VersionsRead, Ids, InCard

LEMMA ReadsKept ==
  ASSUME CardsInv, VersionsRead, Forming!Next
  PROVE  VersionsRead'
BY RequestLeavesAlone, VersionsLeftAlone, ScoreReads DEF Forming!Next

-----------------------------------------------------------------------------
(* No row outlives its owner: the theorem *)

LEMMA FormsBoundedFirst ==
  ASSUME Forming!Init
  PROVE  FormsBounded
<1> DEFINE full == CHOOSE f \in EditedForms : TRUE
           empty == CHOOSE f \in EditedForms : f # full
<1>1. PICK o \in DOMAIN Options, r \in DOMAIN Ranges, t \in DOMAIN Tiers :
        /\ forms = {full, empty} /\ usedForms = forms
        /\ child = [i \in Ids |->
             CASE i = 1 -> [owner |-> full, active |-> TRUE]
               [] i = 2 -> [owner |-> 1, active |-> TRUE]
               [] i = 3 -> [owner |-> empty, active |-> TRUE]
               [] OTHER -> Absent]
        /\ children = 3 /\ linked = {1} /\ answered = {}
        /\ batches = [p \in Forming!Parts |-> [i \in Ids |-> IF i # 2 THEN {}
             ELSE CASE p = "option" -> {o} [] p = "range" -> {r} [] p = "tier" -> {t}]]
        /\ tx = [a \in Clients |-> Absent]
        /\ requests = 0 /\ contended = {}
        /\ scoring = [w \in Scorers |-> Forming!Idle]
  BY Zenon DEF Forming!Init, Ids
<1>2. full \in EditedForms /\ empty \in EditedForms /\ full # empty
  <2>1. \E f, g \in EditedForms : f # g
    BY FormConstants
  <2>2. full \in EditedForms
    BY <2>1
  <2> HIDE DEF full
  <2>3. \E f \in EditedForms : f # full
    BY <2>1
  <2> QED BY <2>2, <2>3
<1> HIDE DEF full, empty
<1>3. 1 \in Ids /\ 2 \in Ids /\ 3 \in Ids /\ full \notin Ids /\ empty \notin Ids
      /\ EditedForms \cap Ids = {}
  BY <1>2, FormSets
<1>4. /\ child[1] = [owner |-> full, active |-> TRUE]
      /\ child[2] = [owner |-> 1, active |-> TRUE]
      /\ child[3] = [owner |-> empty, active |-> TRUE]
      /\ \A i \in Ids : i \notin {1, 2, 3} => child[i] = Absent
  BY <1>1, <1>3
<1>5. /\ child[1].owner = full /\ child[2].owner = 1 /\ child[3].owner = empty
      /\ child[1] # Absent /\ child[2] # Absent /\ child[3] # Absent
  <2>1. child[1] \in Forming!Row /\ child[2] \in Forming!Row /\ child[3] \in Forming!Row
    BY <1>2, <1>3, <1>4, FormSets DEF Forming!Row
  <2>2. child[1] # Absent /\ child[2] # Absent /\ child[3] # Absent
    BY <2>1, FormSets
  <2> QED BY <1>4, <2>2
<1>6. FormsWhole
  <2>1. \A i \in Ids : child[i] # Absent => child[i].owner \in forms \/ Present(child, child[i].owner)
    BY <1>1, <1>3, <1>4, <1>5 DEF Present
  <2>2. Present(child, 1) /\ Present(child, 2)
    BY <1>3, <1>5 DEF Present
  <2>3. ASSUME NEW p \in Forming!Parts, NEW i \in Ids, i # 2 PROVE batches[p][i] = {}
    BY <1>1, <2>3
  <2> QED BY <1>1, <2>1, <2>2, <2>3 DEF FormsWhole
<1>7. FormsFit({1, 3})
  <2>1. \A i \in Ids : child[i] # Absent => RowFits(child[i], i, {1, 3})
    BY <1>2, <1>3, <1>4, <1>5 DEF RowFits
  <2>2. {1, 3} \subseteq Ids /\ \A v \in {1, 3} : v <= children
    BY <1>1, <1>3
  <2>3. \A a \in Clients : tx[a] = Absent
    BY <1>1
  <2> QED BY <2>1, <2>2, <2>3 DEF FormsFit
<1>8. FormsNoted
  BY <1>1, AudienceBounds DEF FormsNoted
<1>9. VersionsRead
  BY <1>1, ScorerIdle DEF VersionsRead, InCard
<1> QED BY <1>6, <1>7, <1>8, <1>9 DEF FormsBounded, Levels

LEMMA FormsStayBounded ==
  ASSUME FormsInv, FormsInv', AtHomeStep, CardsInv, FormsBounded, Forming!Next
  PROVE  FormsBounded'
BY LevelsKept, WholeKept, NotedKept, ReadsKept DEF FormsBounded

LEMMA FormsTypes ==
  ASSUME FormsInv, CardsInv, FormsBounded
  PROVE  Forming!TypeOK
<1>1. forms \subseteq usedForms /\ usedForms \subseteq EditedForms
      /\ child \in [Forming!Ids -> Forming!Row \cup {Absent}] /\ children \in 0..MaxChildren
      /\ \A p \in Forming!Parts : batches[p] \in [Forming!Ids -> SUBSET Forming!Batches[p]]
  BY DEF FormsInv, FormsOrdered, FormsTyped, Ids
<1>2. linked \subseteq Forming!Ids /\ answered \subseteq Forming!Ids
  BY DEF FormsBounded, FormsWhole, Present, Ids
<1>3. \A a \in Clients : tx[a] = Absent \/
        tx[a] \in Forming!CreateTx \cup Forming!EditTx \cup Forming!ReplaceTx \cup Forming!CloneTx
  BY DEF FormsInv, FormsOrdered, FormsTyped, Transactions
<1>4. requests \in 0..MoreRequests /\ contended \subseteq Forming!OwnerIds
  BY DEF FormsBounded, FormsNoted
<1>5. Computing = Forming!Scoring
  <2>1. InCard \cup {"idle", "pick", "done"} =
          {"idle", "pick", "option", "range", "tier", "save", "done"}
    BY DEF InCard
  <2> QED BY <2>1 DEF Computing, Forming!Scoring, Ids
<1>6. \A w \in Scorers : scoring[w] \in Forming!Scoring
  BY <1>5 DEF CardsInv
<1>7. \A r \in Forming!Ids : child[r] # Absent =>
        child[r].owner \in forms \cup {o \in Forming!Ids : child[o] # Absent}
  BY DEF FormsBounded, FormsWhole, Present, Ids
<1>8. \A r \in Forming!Ids : child[r] = Absent =>
        r \notin linked \cup answered /\ \A p \in Forming!Parts : batches[p][r] = {}
  BY DEF FormsBounded, FormsWhole, Present, Ids
<1> QED BY <1>1, <1>2, <1>3, <1>4, <1>6, <1>7, <1>8 DEF Forming!TypeOK

=============================================================================
