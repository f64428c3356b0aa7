------------------------- MODULE LeadPipeline_proofs -------------------------
(***************************************************************************)
(* Proofs about the registration of leads, for any requests, leads,        *)
(* handlers, deliveries and lost locks; and about registration and scoring *)
(* together: what registration guarantees survives the writes of the       *)
(* scores, and what scoring guarantees those of the registrations.         *)
(***************************************************************************)
EXTENDS LeadPipeline, SequenceTheorems, WellFoundedInduction, TLAPS

-----------------------------------------------------------------------------
(* Registration: the inductive invariant *)

\* A handler with a message has a request of that message; one without has
\* nothing else either.
SlotsFilled ==
  \A w \in Consumers :
    IF Busy(w)
      THEN request[w] \in Requests
      ELSE /\ request[w] = NoRequest /\ ~held[w]
           /\ ac[w] = "post" /\ db[w] = "read"
           /\ found[w] = 0 /\ snapshot[w] = NoRow

\* What a handler already did shows in where it is.
StepsInOrder ==
  \A w \in Consumers :
    /\ pc[w] \in {"attach", "save", "complete"} => ac[w] = "ok" /\ db[w] = "ok"
    /\ db[w] = "ok" => found[w] # 0
    /\ pc[w] = "work" /\ db[w] = "commit" /\ found[w] # 0 => snapshot[w] # NoRow
    /\ pc[w] = "save" => snapshot[w] # NoRow

\* A message that can be delivered has a delivery left.
DeliveriesCounted ==
  \A r \in Requests :
    /\ message[r] = "absent" => deliveries[r] = 0
    /\ message[r] = "ready" => deliveries[r] < MaxDeliveries

\* A lock is the lock of one handler, on a message that is locked.
LocksExclusive ==
  /\ \A w \in Consumers : held[w] => message[request[w]] = "locked"
  /\ \A v, w \in Consumers :
       held[v] /\ held[w] /\ request[v] = request[w] => v = w

ContactsPosted ==
  \A w \in Consumers : ac[w] \in {"tag", "ok"} => LeadOf[request[w]] \in contacts

Base ==
  /\ TypeOK /\ SlotsFilled /\ StepsInOrder
  /\ DeliveriesCounted /\ LocksExclusive /\ ContactsPosted

\* A row is of one lead: its own requestId and the requests merged into it.
OfLead(rec, l) ==
  /\ rec.lead = l /\ LeadOf[rec.requestId] = l
  /\ \A r \in rec.requestIds : LeadOf[r] = l

\* Whatever a handler found or copied is of the lead it works for.
LeadsKept ==
  /\ \A c \in Captures : OfLead(captures[c], LeadOf[inserter[c]])
  /\ \A w \in Consumers :
       /\ found[w] # 0 => captures[found[w]].lead = LeadOf[request[w]]
       /\ snapshot[w] # NoRow => OfLead(snapshot[w], LeadOf[request[w]])

\* A handler about to insert saw no capture of its lead within the window.
WindowSeen ==
  \A w \in Consumers :
    db[w] = "commit" /\ found[w] = 0
      => \A c \in 1..seen[w] : ~(recent[c] /\ captures[c].lead = LeadOf[request[w]])

\* The handlers of a lead that was never crowded take turns.
TakingTurns ==
  \A v, w \in Consumers :
    Busy(v) /\ Busy(w) /\ LeadOf[request[v]] = LeadOf[request[w]]
      => v = w \/ LeadOf[request[v]] \in crowded

\* What the handler of a lead read is still so when it writes.
ReadsCurrentOf(l) ==
  \A w \in Consumers : Busy(w) /\ LeadOf[request[w]] = l =>
    /\ pc[w] = "work" /\ db[w] = "commit" /\ found[w] = 0
         => \A c \in Captures : captures[c].requestId # request[w]
    /\ pc[w] = "work" /\ db[w] = "commit" /\ found[w] # 0
         => snapshot[w] = captures[found[w]]
    /\ db[w] = "ok" => captures[found[w]].requestId = request[w]
    /\ pc[w] = "save" => snapshot[w] = captures[found[w]]

ReadsCurrent == \A l \in Leads : l \notin crowded => ReadsCurrentOf(l)

\* A capture names the request that inserted it until a later one displaces it.
InsertersNamed ==
  \A c \in Captures :
    \/ captures[c].requestId = inserter[c]
    \/ inserter[c] \in displaced
    \/ LeadOf[inserter[c]] \in crowded

Inv ==
  /\ Base /\ LeadsKept /\ WindowSeen /\ TakingTurns /\ ReadsCurrent
  /\ InsertersNamed /\ CompletedIsSynced /\ DuplicateOnlyIfDisplaced
  /\ LocatedUnlessCrowded

-----------------------------------------------------------------------------
(* The operators of the model *)

LEMMA ConstantsTyped ==
  /\ LeadOf \in [Requests -> Leads] /\ NoRequest \notin Requests
  /\ MaxDeliveries \in Nat \ {0} /\ MaxFaults \in Nat
BY RegistrationConstants

LEMMA MaximumExists ==
  ASSUME NEW n \in Nat, NEW S \in SUBSET (1..n), S # {}
  PROVE  \E c \in S : \A d \in S : d <= c
<1> DEFINE T == {n - c : c \in S}
<1>1. T \subseteq Nat /\ T # {}
  <2>1. \A c \in S : n - c \in Nat
    OBVIOUS
  <2>2. PICK c \in S : TRUE
    OBVIOUS
  <2>3. n - c \in T
    OBVIOUS
  <2> QED BY <2>1, <2>3
<1>2. PICK x \in T : \A y \in T : ~(<<y, x>> \in OpToRel(<, Nat))
  BY <1>1, NatLessThanWellFounded, WFMin, Zenon
<1>3. \A y \in T : ~(y < x)
  BY <1>1, <1>2, Zenon DEF OpToRel
<1>4. PICK c \in S : x = n - c
  OBVIOUS
<1>5. ASSUME NEW d \in S PROVE d <= c
  <2>1. n - d \in T
    OBVIOUS
  <2>2. ~(n - d < n - c)
    BY <2>1, <1>3, <1>4
  <2>3. c \in 1..n /\ d \in 1..n
    OBVIOUS
  <2> QED BY <2>2, <2>3
<1> QED BY <1>5

\* The youngest of some captures is one of them, and none is younger.
LEMMA YoungestOf ==
  ASSUME NEW n \in Nat, NEW S \in SUBSET (1..n)
  PROVE  /\ Youngest(S) = 0 <=> S = {}
         /\ S # {} => Youngest(S) \in S /\ \A d \in S : d <= Youngest(S)
<1>1. CASE S = {}
  BY <1>1 DEF Youngest
<1>2. CASE S # {}
  <2>1. \E c \in S : \A d \in S : d <= c
    BY <1>2, MaximumExists
  <2>2. Youngest(S) \in S /\ \A d \in S : d <= Youngest(S)
    BY <1>2, <2>1, Zenon DEF Youngest
  <2>3. Youngest(S) \in 1..n
    BY <2>2
  <2> QED BY <1>2, <2>2, <2>3
<1> QED BY <1>1, <1>2

LEMMA CapturesCounted ==
  ASSUME TypeOK
  PROVE  /\ Len(captures) \in Nat
         /\ \A c \in Captures : captures[c] \in Row /\ inserter[c] \in Requests
                                /\ recent[c] \in BOOLEAN
BY DEF TypeOK, Captures

\* What persistLead reuses: a capture of the request or, when there is none, a
\* capture of the lead within the window; nothing only if neither exists.
LEMMA LookupFinds ==
  ASSUME TypeOK, NEW r \in Requests
  PROVE  /\ Lookup(r) \in 0..Len(captures)
         /\ Lookup(r) # 0 =>
              \/ captures[Lookup(r)].requestId = r
              \/ captures[Lookup(r)].lead = LeadOf[r] /\ recent[Lookup(r)]
         /\ Lookup(r) = 0 =>
              \A c \in Captures :
                captures[c].requestId # r /\ ~(captures[c].lead = LeadOf[r] /\ recent[c])
<1> DEFINE A == {c \in Captures : captures[c].requestId = r}
           B == {c \in Captures : captures[c].lead = LeadOf[r] /\ recent[c]}
<1>1. Len(captures) \in Nat
  BY CapturesCounted
<1>2. /\ ByRequestId(r) = 0 <=> A = {}
      /\ A # {} => ByRequestId(r) \in A
  BY <1>1, YoungestOf DEF ByRequestId, Captures
<1>3. /\ ByRecentLead(LeadOf[r]) = 0 <=> B = {}
      /\ B # {} => ByRecentLead(LeadOf[r]) \in B
  BY <1>1, YoungestOf DEF ByRecentLead, Captures
<1>4. CASE A # {}
  <2>1. Lookup(r) \in A
    BY <1>2, <1>4 DEF Lookup
  <2> QED BY <1>1, <2>1 DEF Captures
<1>5. CASE A = {} /\ B # {}
  <2>1. Lookup(r) \in B
    BY <1>2, <1>3, <1>5 DEF Lookup
  <2> QED BY <1>1, <2>1 DEF Captures
<1>6. CASE A = {} /\ B = {}
  <2>1. Lookup(r) = 0
    BY <1>2, <1>3, <1>6 DEF Lookup
  <2> QED BY <1>1, <1>6, <2>1 DEF Captures
<1> QED BY <1>4, <1>5, <1>6

LEMMA MetadataTyped ==
  ASSUME NEW rec \in Row \cup {NoRow}, NEW r \in Requests
  PROVE  /\ Metadata(rec, r) \in Row /\ Metadata(rec, r) # NoRow
         /\ Metadata(rec, r).requestId = r /\ Metadata(rec, r).lead = LeadOf[r]
         /\ r \in Metadata(rec, r).requestIds
         /\ rec # NoRow =>
              Metadata(rec, r).requestIds = {r, rec.requestId} \cup rec.requestIds
         /\ rec = NoRow => Metadata(rec, r).requestIds = {r}
<1>1. Metadata(rec, r) \in Row
  BY ConstantsTyped DEF Metadata, Row
<1>2. Metadata(rec, r) # NoRow
  BY <1>1, NoRowIsNoRow
<1> QED BY <1>1, <1>2 DEF Metadata

\* The capture of a lead stays of the lead in a merge.
LEMMA MetadataOfLead ==
  ASSUME NEW rec \in Row \cup {NoRow}, NEW r \in Requests,
         rec # NoRow => OfLead(rec, LeadOf[r])
  PROVE  OfLead(Metadata(rec, r), LeadOf[r])
BY MetadataTyped DEF OfLead

\* A row is overwritten, or appended: what becomes of the others.
LEMMA RowWritten ==
  ASSUME NEW S, NEW t \in Seq(S), NEW c \in 1..Len(t), NEW x \in S, NEW u,
         u = [t EXCEPT ![c] = x]
  PROVE  /\ u \in Seq(S) /\ Len(u) = Len(t) /\ u[c] = x
         /\ \A d \in 1..Len(t) : d # c => u[d] = t[d]
BY ExceptSeq

LEMMA AppendKeeps ==
  ASSUME NEW S, NEW t \in Seq(S), NEW x \in S
  PROVE  \A d \in 1..Len(t) : Append(t, x)[d] = t[d]
BY AppendProperties

LEMMA RowAppended ==
  ASSUME NEW S, NEW t \in Seq(S), NEW x \in S, NEW u, u = Append(t, x)
  PROVE  /\ u \in Seq(S) /\ Len(u) = Len(t) + 1 /\ u[Len(t) + 1] = x
         /\ \A d \in 1..Len(t) : u[d] = t[d]
BY AppendProperties, Zenon

-----------------------------------------------------------------------------
(* Types, and what the handlers hold *)

LEMMA InitBase == Init => Base
<1> SUFFICES ASSUME Init PROVE Base
  OBVIOUS
<1>1. captures \in Seq(Row) /\ recent \in Seq(BOOLEAN) /\ inserter \in Seq(Requests)
      /\ Len(captures) = 0 /\ Len(recent) = 0 /\ Len(inserter) = 0
  BY EmptySeq DEF Init
<1>2. TypeOK
  BY <1>1, ConstantsTyped DEF Init, TypeOK, MessageStates
<1> QED BY <1>2
    DEF Init, Base, SlotsFilled, StepsInOrder, DeliveriesCounted, LocksExclusive,
        ContactsPosted, Busy

LEMMA EnqueueBase ==
  ASSUME Base, NEW r \in Requests, Enqueue(r)
  PROVE  Base'
<1> USE DEF Base
<1>1. TypeOK'
  BY DEF Enqueue, TypeOK, MessageStates, tableVars, handlerVars, pastVars
<1>2. LocksExclusive'
  BY <1>1 DEF Enqueue, TypeOK, LocksExclusive, handlerVars
<1>3. DeliveriesCounted'
  BY ConstantsTyped DEF Enqueue, TypeOK, DeliveriesCounted
<1> QED BY <1>1, <1>2, <1>3
    DEF Enqueue, SlotsFilled, StepsInOrder, ContactsPosted, Busy, handlerVars

LEMMA DeliverBase ==
  ASSUME Base, NEW w \in Consumers, NEW r \in Requests, Deliver(w, r)
  PROVE  Base'
<1> USE DEF Base
<1>1. deliveries[r] + 1 \in 0..MaxDeliveries
  <2>1. deliveries[r] \in 0..MaxDeliveries /\ deliveries[r] < MaxDeliveries
    BY DEF TypeOK, DeliveriesCounted, Deliver
  <2> QED BY <2>1, ConstantsTyped
<1>2. TypeOK'
  <2>1. LeadOf[r] \in Leads
    BY ConstantsTyped
  <2>2. crowded' \subseteq Leads
    BY <2>1, Zenon DEF Deliver, TypeOK
  <2>3. deliveries' \in [Requests -> 0..MaxDeliveries]
    BY <1>1 DEF Deliver, TypeOK
  <2> QED BY <2>2, <2>3 DEF Deliver, TypeOK, MessageStates, tableVars
<1>3. SlotsFilled' /\ StepsInOrder' /\ ContactsPosted'
  BY DEF Deliver, TypeOK, SlotsFilled, StepsInOrder, ContactsPosted, Busy
<1>4. LocksExclusive'
  BY DEF Deliver, TypeOK, SlotsFilled, LocksExclusive, Busy
<1>5. DeliveriesCounted'
  BY DEF Deliver, TypeOK, DeliveriesCounted
<1> QED BY <1>2, <1>3, <1>4, <1>5

LEMMA PostContactBase ==
  ASSUME Base, NEW w \in Consumers, PostContact(w)
  PROVE  Base'
<1> USE DEF Base
<1>1. request[w] \in Requests /\ LeadOf[request[w]] \in Leads
  BY ConstantsTyped DEF PostContact, SlotsFilled, Busy
<1>2. TypeOK' /\ DeliveriesCounted' /\ LocksExclusive'
  BY <1>1 DEF PostContact, TypeOK, DeliveriesCounted, LocksExclusive,
              tableVars, busVars, pastVars
<1>3. SlotsFilled' /\ StepsInOrder' /\ ContactsPosted'
  BY DEF PostContact, TypeOK, SlotsFilled, StepsInOrder, ContactsPosted, Busy
<1> QED BY <1>2, <1>3

LEMMA TagContactBase ==
  ASSUME Base, NEW w \in Consumers, TagContact(w)
  PROVE  Base'
<1> USE DEF Base
<1>1. TypeOK' /\ DeliveriesCounted' /\ LocksExclusive'
  BY DEF TagContact, TypeOK, DeliveriesCounted, LocksExclusive,
         tableVars, busVars, pastVars
<1>2. SlotsFilled' /\ StepsInOrder' /\ ContactsPosted'
  BY DEF TagContact, TypeOK, SlotsFilled, StepsInOrder, ContactsPosted, Busy
<1> QED BY <1>1, <1>2

LEMMA PersistReadBase ==
  ASSUME Base, NEW w \in Consumers, PersistRead(w)
  PROVE  Base'
<1> USE DEF Base
<1> DEFINE c == Lookup(request[w])
<1>1. request[w] \in Requests
  BY DEF PersistRead, SlotsFilled, Busy
<1>2. c \in 0..Len(captures) /\ Len(captures) \in Nat
  BY <1>1, LookupFinds, CapturesCounted
<1>3. (IF c = 0 THEN NoRow ELSE captures[c]) \in Row \cup {NoRow}
  BY <1>2, CapturesCounted DEF Captures
<1>4. c # 0 => captures[c] # NoRow
  BY <1>2, CapturesCounted, NoRowIsNoRow DEF Captures
<1> HIDE DEF c
<1>5. /\ found' = [found EXCEPT ![w] = c]
      /\ snapshot' = [snapshot EXCEPT ![w] = IF c = 0 THEN NoRow ELSE captures[c]]
      /\ seen' = [seen EXCEPT ![w] = Len(captures)]
      /\ pc[w] = "work" /\ db[w] = "read" /\ db' = [db EXCEPT ![w] = "commit"]
      /\ UNCHANGED <<tableVars, busVars, contacts, pc, request, held, ac, pastVars>>
  BY DEF PersistRead, c
<1>6. TypeOK' /\ DeliveriesCounted' /\ LocksExclusive'
  BY <1>2, <1>3, <1>5 DEF TypeOK, DeliveriesCounted, LocksExclusive,
                          tableVars, busVars, pastVars
<1>7. SlotsFilled' /\ StepsInOrder' /\ ContactsPosted'
  BY <1>4, <1>5 DEF TypeOK, SlotsFilled, StepsInOrder, ContactsPosted, Busy
<1> QED BY <1>6, <1>7

LEMMA PersistInsertBase ==
  ASSUME Base, NEW w \in Consumers, PersistInsert(w)
  PROVE  Base'
<1> USE DEF Base
<1>1. request[w] \in Requests /\ Len(captures) \in Nat
  BY CapturesCounted DEF PersistInsert, SlotsFilled, Busy
<1>2. Metadata(NoRow, request[w]) \in Row
  BY <1>1, MetadataTyped
<1>3. captures' \in Seq(Row) /\ Len(captures') = Len(captures) + 1
  BY <1>2, RowAppended DEF PersistInsert, TypeOK
<1>4. /\ recent' \in Seq(BOOLEAN) /\ Len(recent') = Len(captures')
      /\ inserter' \in Seq(Requests) /\ Len(inserter') = Len(captures')
  BY <1>1, <1>3, RowAppended DEF PersistInsert, TypeOK
<1>5. TypeOK' /\ DeliveriesCounted' /\ LocksExclusive'
  BY <1>1, <1>3, <1>4 DEF PersistInsert, TypeOK, DeliveriesCounted, LocksExclusive,
                          busVars, pastVars
<1>6. SlotsFilled' /\ StepsInOrder' /\ ContactsPosted'
  BY <1>1 DEF PersistInsert, TypeOK, SlotsFilled, StepsInOrder, ContactsPosted, Busy
<1> QED BY <1>5, <1>6

LEMMA PersistMergeBase ==
  ASSUME Base, NEW w \in Consumers, PersistMerge(w)
  PROVE  Base'
<1> USE DEF Base
<1>1. /\ request[w] \in Requests /\ found[w] \in Captures
      /\ captures[found[w]].requestId \in Requests
      /\ Metadata(snapshot[w], request[w]) \in Row
  <2>1. request[w] \in Requests /\ snapshot[w] \in Row \cup {NoRow}
    BY DEF PersistMerge, TypeOK, SlotsFilled, Busy
  <2>2. found[w] \in Captures
    BY DEF PersistMerge, TypeOK, Captures
  <2> QED BY <2>1, <2>2, MetadataTyped, CapturesCounted DEF Row
<1>2. captures' \in Seq(Row) /\ Len(captures') = Len(captures)
  BY <1>1, RowWritten DEF PersistMerge, TypeOK, Captures
<1>3. TypeOK' /\ DeliveriesCounted' /\ LocksExclusive'
  BY <1>1, <1>2 DEF PersistMerge, TypeOK, DeliveriesCounted, LocksExclusive, busVars
<1>4. SlotsFilled' /\ StepsInOrder' /\ ContactsPosted'
  BY DEF PersistMerge, TypeOK, SlotsFilled, StepsInOrder, ContactsPosted, Busy
<1> QED BY <1>3, <1>4

LEMMA PersistThrowsBase ==
  ASSUME Base, NEW w \in Consumers, PersistThrows(w)
  PROVE  Base'
<1> USE DEF Base
<1>1. TypeOK' /\ DeliveriesCounted' /\ LocksExclusive'
  BY DEF PersistThrows, TypeOK, DeliveriesCounted, LocksExclusive,
         tableVars, busVars, pastVars
<1>2. SlotsFilled' /\ StepsInOrder' /\ ContactsPosted'
  BY DEF PersistThrows, TypeOK, SlotsFilled, StepsInOrder, ContactsPosted, Busy
<1> QED BY <1>1, <1>2

LEMMA BothSettledBase ==
  ASSUME Base, NEW w \in Consumers, BothSettled(w)
  PROVE  Base'
<1> USE DEF Base
<1>1. TypeOK' /\ DeliveriesCounted' /\ LocksExclusive'
  BY DEF BothSettled, TypeOK, DeliveriesCounted, LocksExclusive,
         tableVars, busVars, pastVars
<1>2. SlotsFilled' /\ StepsInOrder' /\ ContactsPosted'
  BY DEF BothSettled, TypeOK, SlotsFilled, StepsInOrder, ContactsPosted, Busy
<1> QED BY <1>1, <1>2

LEMMA AttachReadBase ==
  ASSUME Base, NEW w \in Consumers, AttachRead(w)
  PROVE  Base'
<1> USE DEF Base
<1>1. found[w] \in Captures /\ captures[found[w]] \in Row
  <2>1. found[w] # 0 /\ found[w] \in 0..Len(captures)
    BY DEF AttachRead, StepsInOrder, TypeOK
  <2> QED BY <2>1, CapturesCounted DEF Captures
<1>2. TypeOK' /\ DeliveriesCounted' /\ LocksExclusive'
  BY <1>1 DEF AttachRead, TypeOK, DeliveriesCounted, LocksExclusive,
              tableVars, busVars, pastVars
<1>3. SlotsFilled' /\ StepsInOrder' /\ ContactsPosted'
  BY <1>1, NoRowIsNoRow
  DEF AttachRead, TypeOK, SlotsFilled, StepsInOrder, ContactsPosted, Busy
<1> QED BY <1>2, <1>3

LEMMA AttachSaveBase ==
  ASSUME Base, NEW w \in Consumers, AttachSave(w)
  PROVE  Base'
<1> USE DEF Base
<1>1. found[w] \in Captures /\ [snapshot[w] EXCEPT !.attached = TRUE] \in Row
  <2>1. found[w] # 0 /\ found[w] \in 0..Len(captures)
    BY DEF AttachSave, StepsInOrder, TypeOK
  <2>2. snapshot[w] \in Row
    BY DEF AttachSave, StepsInOrder, TypeOK
  <2>3. found[w] \in Captures
    BY <2>1, CapturesCounted DEF Captures
  <2>4. [snapshot[w] EXCEPT !.attached = TRUE] \in Row
    BY <2>2 DEF Row
  <2> QED BY <2>3, <2>4
<1>2. captures' \in Seq(Row) /\ Len(captures') = Len(captures)
  BY <1>1, RowWritten DEF AttachSave, TypeOK, Captures
<1>3. TypeOK' /\ DeliveriesCounted' /\ LocksExclusive'
  BY <1>1, <1>2 DEF AttachSave, TypeOK, DeliveriesCounted, LocksExclusive,
                    busVars, pastVars
<1>4. SlotsFilled' /\ StepsInOrder' /\ ContactsPosted'
  BY DEF AttachSave, TypeOK, SlotsFilled, StepsInOrder, ContactsPosted, Busy
<1> QED BY <1>3, <1>4

LEMMA ReturnedTyped ==
  ASSUME NEW r \in Requests
  PROVE  /\ Returned(r) \in {"ready", "dead"}
         /\ Returned(r) = "ready" => deliveries[r] < MaxDeliveries
BY DEF Returned

\* A handler is freed; whatever became of its message was up to its lock.
LEMMA FreeBase ==
  ASSUME Base, NEW w \in Consumers, Busy(w), Free(w),
         NEW s \in {"ready", "dead", "completed"},
         s = "ready" => deliveries[request[w]] < MaxDeliveries,
         message' = [message EXCEPT ![request[w]] = IF held[w] THEN s ELSE @],
         UNCHANGED <<tableVars, deliveries, contacts, pastVars>>
  PROVE  Base'
<1> USE DEF Base
<1>1. request[w] \in Requests
  BY DEF SlotsFilled
<1>2. TypeOK'
  BY <1>1 DEF Free, TypeOK, MessageStates, tableVars, pastVars
<1>3. SlotsFilled' /\ StepsInOrder' /\ ContactsPosted'
  BY DEF Free, TypeOK, SlotsFilled, StepsInOrder, ContactsPosted, Busy
<1>4. DeliveriesCounted'
  BY <1>1 DEF TypeOK, DeliveriesCounted
<1>5. LocksExclusive'
  BY <1>1 DEF Free, TypeOK, SlotsFilled, LocksExclusive
<1> QED BY <1>2, <1>3, <1>4, <1>5

LEMMA CompleteBase ==
  ASSUME Base, NEW w \in Consumers, Complete(w)
  PROVE  Base'
<1>1. Busy(w) /\ Free(w) /\ UNCHANGED <<tableVars, deliveries, contacts, pastVars>>
  BY DEF Complete, Busy
<1>2. message' = [message EXCEPT ![request[w]] = IF held[w] THEN "completed" ELSE @]
  BY DEF Complete
<1> QED BY <1>1, <1>2, FreeBase

LEMMA AbandonBase ==
  ASSUME Base, NEW w \in Consumers, Abandon(w)
  PROVE  Base'
<1>1. Busy(w) /\ Free(w) /\ UNCHANGED <<tableVars, deliveries, contacts, pastVars>>
  BY DEF Abandon
<1>2. request[w] \in Requests
  BY <1>1 DEF Base, SlotsFilled
<1>3. message' = [message EXCEPT
                    ![request[w]] = IF held[w] THEN Returned(request[w]) ELSE @]
  BY DEF Abandon
<1> QED BY <1>1, <1>2, <1>3, ReturnedTyped, FreeBase

LEMMA LockLapsesBase ==
  ASSUME Base, NEW w \in Consumers, LockLapses(w)
  PROVE  Base'
<1> USE DEF Base
<1>1. /\ request[w] \in Requests /\ Returned(request[w]) \in {"ready", "dead"}
      /\ Returned(request[w]) = "ready" => deliveries[request[w]] < MaxDeliveries
  BY ReturnedTyped DEF LockLapses, SlotsFilled
<1>2. faults' \in 0..MaxFaults
  BY ConstantsTyped DEF LockLapses, TypeOK
<1>3. TypeOK'
  BY <1>1, <1>2 DEF LockLapses, TypeOK, MessageStates, tableVars
<1>4. SlotsFilled' /\ StepsInOrder' /\ ContactsPosted'
  BY DEF LockLapses, TypeOK, SlotsFilled, StepsInOrder, ContactsPosted, Busy
<1>5. DeliveriesCounted'
  BY <1>1 DEF LockLapses, TypeOK, DeliveriesCounted
<1>6. LocksExclusive'
  BY <1>1 DEF LockLapses, TypeOK, SlotsFilled, LocksExclusive
<1> QED BY <1>3, <1>4, <1>5, <1>6

LEMMA WindowClosesBase ==
  ASSUME Base, NEW c \in Captures, WindowCloses(c)
  PROVE  Base'
<1> USE DEF Base
<1>1. c \in 1..Len(recent)
  BY DEF TypeOK, Captures
<1>2. recent' \in Seq(BOOLEAN) /\ Len(recent') = Len(recent)
  BY <1>1, RowWritten DEF WindowCloses, TypeOK
<1>3. TypeOK'
  BY <1>2 DEF WindowCloses, TypeOK, busVars, handlerVars, pastVars
<1> QED BY <1>3 DEF WindowCloses, SlotsFilled, StepsInOrder, DeliveriesCounted,
      LocksExclusive, ContactsPosted, Busy, busVars, handlerVars

LEMMA NextBase ==
  ASSUME Base, [Next]_vars
  PROVE  Base'
<1>1. ASSUME UNCHANGED vars PROVE Base'
  BY <1>1 DEF Base, TypeOK, SlotsFilled, StepsInOrder, DeliveriesCounted,
      LocksExclusive, ContactsPosted, Busy, vars, tableVars, busVars, handlerVars, pastVars
<1>2. ASSUME NEW w \in Consumers, Handle(w) PROVE Base'
  BY <1>2, PostContactBase, TagContactBase, PersistReadBase, PersistInsertBase,
     PersistMergeBase, PersistThrowsBase, BothSettledBase, AttachReadBase,
     AttachSaveBase, CompleteBase, AbandonBase DEF Handle
<1> QED BY <1>1, <1>2, EnqueueBase, DeliverBase, LockLapsesBase, WindowClosesBase DEF Next

\* At all times the registration is in a state of its types.
THEOREM TypeCorrect == Spec => []TypeOK
<1>1. Base => TypeOK
  BY DEF Base
<1> QED BY InitBase, NextBase, <1>1, PTL DEF Spec

-----------------------------------------------------------------------------
(* Leads: captures stay of their lead *)

\* A handler goes on with what it read, or holds nothing.
Kept(w) ==
  /\ pc'[w] = "save" => pc[w] = "save"
  /\ \/ /\ request'[w] = request[w] /\ found'[w] = found[w]
        /\ snapshot'[w] = snapshot[w] /\ seen'[w] = seen[w]
        /\ db'[w] \in {db[w], "failed"}
     \/ found'[w] = 0 /\ snapshot'[w] = NoRow /\ db'[w] = "read"

\* A step that neither reads nor writes the table.
Quiet ==
  /\ UNCHANGED <<captures, inserter>>
  /\ \A c \in Captures : recent'[c] => recent[c]
  /\ \A w \in Consumers : Kept(w)

LEMMA EnqueueQuiet ==
  ASSUME NEW r \in Requests, Enqueue(r)
  PROVE  Quiet
BY DEF Enqueue, Quiet, Kept, tableVars, handlerVars

LEMMA BusQuiet ==
  ASSUME Base, NEW w \in Consumers,
         LockLapses(w) \/ \E r \in Requests : Deliver(w, r)
  PROVE  Quiet
<1>1. ASSUME NEW r \in Requests, Deliver(w, r) PROVE Quiet
  <2>1. ASSUME NEW v \in Consumers PROVE Kept(v)
    BY <1>1 DEF Deliver, Base, TypeOK, SlotsFilled, Busy, Kept
  <2> QED BY <1>1, <2>1 DEF Deliver, Quiet, tableVars
<1>2. CASE LockLapses(w)
  BY <1>2 DEF LockLapses, Quiet, Kept, tableVars
<1> QED BY <1>1, <1>2

LEMMA HandlerQuiet ==
  ASSUME Base, NEW w \in Consumers,
         \/ PostContact(w) \/ TagContact(w) \/ PersistThrows(w) \/ BothSettled(w)
         \/ Complete(w) \/ Abandon(w)
  PROVE  Quiet
<1>1. CASE PostContact(w) \/ TagContact(w) \/ BothSettled(w)
  BY <1>1 DEF PostContact, TagContact, BothSettled, Base, TypeOK, Quiet, Kept, tableVars
<1>2. CASE PersistThrows(w)
  BY <1>2 DEF PersistThrows, Base, TypeOK, Quiet, Kept, tableVars
<1>3. CASE Complete(w) \/ Abandon(w)
  BY <1>3 DEF Complete, Abandon, Free, Base, TypeOK, Quiet, Kept, tableVars
<1> QED BY <1>1, <1>2, <1>3

LEMMA WindowQuiet ==
  ASSUME Base, NEW c \in Captures, WindowCloses(c)
  PROVE  Quiet
<1>1. \A d \in Captures : recent'[d] => recent[d]
  BY DEF WindowCloses, Base, TypeOK, Captures
<1> QED BY <1>1 DEF WindowCloses, Quiet, Kept, handlerVars

\* A step is quiet, or reads or writes the table on behalf of one handler.
LEMMA StepsSorted ==
  ASSUME Base, [Next]_vars
  PROVE  \/ Quiet
         \/ \E w \in Consumers :
              \/ PersistRead(w) \/ AttachRead(w)
              \/ PersistInsert(w) \/ PersistMerge(w) \/ AttachSave(w)
<1>1. ASSUME UNCHANGED vars PROVE Quiet
  BY <1>1 DEF Quiet, Kept, vars, tableVars, handlerVars
<1> QED BY <1>1, EnqueueQuiet, BusQuiet, HandlerQuiet, WindowQuiet DEF Next, Handle

\* A handler is kept as it was by the steps of the others.
LEMMA HandlerMoves ==
  ASSUME Base, [Next]_vars, NEW w \in Consumers
  PROVE  \/ Kept(w)
         \/ PersistRead(w) \/ AttachRead(w)
         \/ PersistInsert(w) \/ PersistMerge(w) \/ AttachSave(w)
<1>1. CASE Quiet
  BY <1>1 DEF Quiet
<1>2. ASSUME NEW v \in Consumers, v # w,
             \/ PersistRead(v) \/ AttachRead(v)
             \/ PersistInsert(v) \/ PersistMerge(v) \/ AttachSave(v)
      PROVE  Kept(w)
  BY <1>2 DEF PersistRead, AttachRead, PersistInsert, PersistMerge, AttachSave,
       Base, TypeOK, Kept
<1> QED BY <1>1, <1>2, StepsSorted

\* A row is written by a handler: for the lead of the row, whoever inserted it.
LEMMA WriteKeepsLeads ==
  ASSUME Base, LeadsKept, NEW c \in Captures, NEW x \in Row,
         OfLead(x, captures[c].lead),
         captures' = [captures EXCEPT ![c] = x],
         UNCHANGED <<inserter, request, found, snapshot>>
  PROVE  LeadsKept'
<1>1. /\ Len(captures') = Len(captures) /\ captures'[c] = x
      /\ \A d \in Captures : d # c => captures'[d] = captures[d]
  BY RowWritten DEF Base, TypeOK, Captures
<1>2. \A d \in Captures :
        OfLead(captures'[d], LeadOf[inserter[d]]) /\ captures'[d].lead = captures[d].lead
  BY <1>1 DEF LeadsKept, OfLead
<1>3. \A w \in Consumers :
        /\ found[w] # 0 => captures'[found[w]].lead = LeadOf[request[w]]
        /\ snapshot[w] # NoRow => OfLead(snapshot[w], LeadOf[request[w]])
  BY <1>2 DEF Base, TypeOK, LeadsKept, Captures
<1> QED BY <1>1, <1>2, <1>3 DEF LeadsKept, Captures, OfLead

LEMMA QuietKeepsLeads ==
  ASSUME LeadsKept, Quiet
  PROVE  LeadsKept'
BY DEF LeadsKept, Quiet, Kept, Captures, OfLead

LEMMA ReadKeepsLeads ==
  ASSUME Base, LeadsKept, NEW w \in Consumers, PersistRead(w) \/ AttachRead(w)
  PROVE  LeadsKept'
<1>1. request[w] \in Requests /\ UNCHANGED <<captures, inserter, request>>
  BY DEF PersistRead, AttachRead, Base, SlotsFilled, Busy, tableVars
<1>2. Len(captures) \in Nat
  BY CapturesCounted DEF Base
<1>3. CASE PersistRead(w)
  <2> DEFINE c == Lookup(request[w])
  <2>1. c \in 0..Len(captures)
    BY <1>1, LookupFinds DEF Base
  <2>2. c # 0 => captures[c].lead = LeadOf[request[w]]
    BY <1>1, <1>2, LookupFinds DEF Base, LeadsKept, OfLead, Captures
  <2>3. c # 0 => OfLead(captures[c], LeadOf[request[w]])
    BY <1>2, <2>1, <2>2 DEF LeadsKept, OfLead, Captures
  <2>4. /\ found' = [found EXCEPT ![w] = c]
        /\ snapshot' = [snapshot EXCEPT ![w] = IF c = 0 THEN NoRow ELSE captures[c]]
    BY <1>3 DEF PersistRead
  <2> HIDE DEF c
  <2> QED BY <1>1, <2>2, <2>3, <2>4 DEF Base, TypeOK, LeadsKept, Captures, OfLead
<1>4. CASE AttachRead(w)
  <2>1. found[w] # 0 /\ found[w] \in Captures
    BY <1>2, <1>4 DEF AttachRead, Base, TypeOK, StepsInOrder, Captures
  <2>2. OfLead(captures[found[w]], LeadOf[request[w]])
    BY <2>1 DEF LeadsKept, OfLead
  <2> QED BY <1>1, <1>4, <2>2 DEF AttachRead, Base, TypeOK, LeadsKept, Captures, OfLead
<1> QED BY <1>3, <1>4

LEMMA InsertKeepsLeads ==
  ASSUME Base, LeadsKept, NEW w \in Consumers, PersistInsert(w)
  PROVE  LeadsKept'
<1> DEFINE r == request[w]
           n == Len(captures)
<1>1. r \in Requests /\ n \in Nat /\ snapshot[w] \in Row \cup {NoRow}
  BY CapturesCounted DEF PersistInsert, Base, TypeOK, SlotsFilled, Busy
<1>2. Metadata(NoRow, r) \in Row /\ OfLead(Metadata(NoRow, r), LeadOf[r])
  BY <1>1, MetadataTyped, MetadataOfLead
<1>3. /\ Len(captures') = n + 1 /\ captures'[n + 1] = Metadata(NoRow, r)
      /\ \A d \in Captures : captures'[d] = captures[d]
  BY <1>2, RowAppended DEF PersistInsert, Base, TypeOK, Captures
<1>4. /\ inserter'[n + 1] = r
      /\ \A d \in Captures : inserter'[d] = inserter[d]
  BY <1>1, RowAppended DEF PersistInsert, Base, TypeOK, Captures
<1>5. Captures' = Captures \cup {n + 1}
  BY <1>1, <1>3 DEF Captures
<1>6. \A c \in Captures' : OfLead(captures'[c], LeadOf[inserter'[c]])
  BY <1>2, <1>3, <1>4, <1>5 DEF LeadsKept
<1>7. ASSUME NEW v \in Consumers
      PROVE  /\ found'[v] # 0 => captures'[found'[v]].lead = LeadOf[request'[v]]
             /\ snapshot'[v] # NoRow => OfLead(snapshot'[v], LeadOf[request'[v]])
  <2>1. snapshot'[v] = snapshot[v] /\ request'[v] = request[v]
    BY DEF PersistInsert
  <2>2. snapshot'[v] # NoRow => OfLead(snapshot'[v], LeadOf[request'[v]])
    BY <2>1 DEF LeadsKept
  <2>3. CASE v = w
    <3>1. found'[v] = n + 1
      BY <2>3 DEF PersistInsert, Base, TypeOK
    <3>2. captures'[n + 1].lead = LeadOf[r]
      BY <1>2, <1>3 DEF OfLead
    <3> QED BY <2>1, <2>2, <2>3, <3>1, <3>2
  <2>4. CASE v # w
    <3>1. found'[v] = found[v] /\ (found[v] # 0 => found[v] \in Captures)
      BY <1>1, <2>4 DEF PersistInsert, Base, TypeOK, Captures
    <3> QED BY <1>3, <2>1, <2>2, <3>1 DEF LeadsKept
  <2> QED BY <2>3, <2>4
<1> QED BY <1>6, <1>7 DEF LeadsKept, OfLead

\* What a merge or an attachment writes.
LEMMA MergeWrites ==
  ASSUME Base, LeadsKept, NEW w \in Consumers, PersistMerge(w)
  PROVE  /\ request[w] \in Requests /\ found[w] \in Captures /\ snapshot[w] \in Row
         /\ captures[found[w]].lead = LeadOf[request[w]]
         /\ Metadata(snapshot[w], request[w]) \in Row
         /\ OfLead(Metadata(snapshot[w], request[w]), LeadOf[request[w]])
<1>1. request[w] \in Requests /\ snapshot[w] # NoRow /\ snapshot[w] \in Row
  BY DEF PersistMerge, Base, TypeOK, SlotsFilled, StepsInOrder, Busy
<1>2. found[w] \in Captures /\ captures[found[w]].lead = LeadOf[request[w]]
  BY DEF PersistMerge, Base, TypeOK, LeadsKept, Captures
<1>3. OfLead(snapshot[w], LeadOf[request[w]])
  BY <1>1 DEF LeadsKept
<1> QED BY <1>1, <1>2, <1>3, MetadataTyped, MetadataOfLead

LEMMA SaveWrites ==
  ASSUME Base, LeadsKept, NEW w \in Consumers, AttachSave(w)
  PROVE  /\ request[w] \in Requests /\ found[w] \in Captures /\ snapshot[w] \in Row
         /\ captures[found[w]].lead = LeadOf[request[w]]
         /\ [snapshot[w] EXCEPT !.attached = TRUE] \in Row
         /\ OfLead([snapshot[w] EXCEPT !.attached = TRUE], LeadOf[request[w]])
<1>1. request[w] \in Requests /\ snapshot[w] # NoRow /\ snapshot[w] \in Row
  BY DEF AttachSave, Base, TypeOK, SlotsFilled, StepsInOrder, Busy
<1>2. found[w] # 0
  BY DEF AttachSave, Base, StepsInOrder
<1>3. found[w] \in Captures /\ captures[found[w]].lead = LeadOf[request[w]]
  BY <1>2 DEF Base, TypeOK, LeadsKept, Captures
<1>4. OfLead(snapshot[w], LeadOf[request[w]])
  BY <1>1 DEF LeadsKept
<1>5. [snapshot[w] EXCEPT !.attached = TRUE] \in Row
  BY <1>1 DEF Row
<1>6. OfLead([snapshot[w] EXCEPT !.attached = TRUE], LeadOf[request[w]])
  BY <1>1, <1>4 DEF OfLead, Row
<1> QED BY <1>1, <1>3, <1>5, <1>6

LEMMA NextKeepsLeads ==
  ASSUME Base, LeadsKept, [Next]_vars
  PROVE  LeadsKept'
<1>1. ASSUME NEW w \in Consumers, PersistMerge(w) PROVE LeadsKept'
  BY <1>1, MergeWrites, WriteKeepsLeads DEF PersistMerge
<1>2. ASSUME NEW w \in Consumers, AttachSave(w) PROVE LeadsKept'
  BY <1>2, SaveWrites, WriteKeepsLeads DEF AttachSave
<1> QED BY <1>1, <1>2, StepsSorted, QuietKeepsLeads, ReadKeepsLeads, InsertKeepsLeads

-----------------------------------------------------------------------------
(* The dedupe window *)

\* A capture that was once inserted stays, with its inserter; the window only
\* closes over it.
LEMMA TableGrows ==
  ASSUME Base, [Next]_vars
  PROVE  /\ Len(captures) \in Nat /\ Len(captures') \in Nat
         /\ Len(captures) <= Len(captures')
         /\ \A c \in Captures : inserter'[c] = inserter[c] /\ (recent'[c] => recent[c])
<1>1. Len(captures) \in Nat
  BY CapturesCounted DEF Base
<1>2. CASE Quiet
  BY <1>1, <1>2 DEF Quiet
<1>3. ASSUME NEW w \in Consumers, PersistRead(w) \/ AttachRead(w)
      PROVE  UNCHANGED <<captures, recent, inserter>>
  BY <1>3 DEF PersistRead, AttachRead, tableVars
<1>4. ASSUME NEW w \in Consumers, PersistMerge(w) \/ AttachSave(w)
      PROVE  Len(captures') = Len(captures) /\ UNCHANGED <<recent, inserter>>
  BY <1>4 DEF PersistMerge, AttachSave, Base, TypeOK
<1>5. ASSUME NEW w \in Consumers, PersistInsert(w)
      PROVE  /\ Len(captures') = Len(captures) + 1
             /\ \A c \in Captures : inserter'[c] = inserter[c] /\ (recent'[c] => recent[c])
  <2>1. request[w] \in Requests
    BY <1>5 DEF PersistInsert, Base, SlotsFilled, Busy
  <2>2. Len(captures') = Len(captures) + 1
    BY <1>5, <2>1, MetadataTyped, RowAppended DEF PersistInsert, Base, TypeOK
  <2>3. \A c \in Captures : inserter'[c] = inserter[c]
    BY <1>5, <2>1, RowAppended DEF PersistInsert, Base, TypeOK, Captures
  <2>4. \A c \in Captures : recent'[c] = recent[c]
    <3>1. recent \in Seq(BOOLEAN) /\ recent' = Append(recent, TRUE)
      BY <1>5 DEF PersistInsert, Base, TypeOK
    <3>2. Captures = 1..Len(recent)
      BY DEF Base, TypeOK, Captures
    <3>3. \A c \in 1..Len(recent) : Append(recent, TRUE)[c] = recent[c]
      BY <3>1, AppendKeeps
    <3> QED BY <3>1, <3>2, <3>3, Zenon
  <2> QED BY <2>2, <2>3, <2>4
<1> QED BY <1>1, <1>2, <1>3, <1>4, <1>5, StepsSorted

\* The lead of a capture never changes.
LEMMA LeadOfCaptureFixed ==
  ASSUME Base, LeadsKept, [Next]_vars
  PROVE  \A c \in Captures : captures'[c].lead = captures[c].lead
<1>1. \A c \in Captures : c \in Captures'
  BY TableGrows DEF Captures
<1> QED BY <1>1, TableGrows, NextKeepsLeads DEF LeadsKept, OfLead

\* A handler that is to write is as it was when it read, or has just read.
LEMMA WritesAsRead ==
  ASSUME Base, [Next]_vars, NEW w \in Consumers, db'[w] = "commit"
  PROVE  \/ PersistRead(w)
         \/ /\ db[w] = "commit" /\ pc[w] = "work"
            /\ UNCHANGED <<found[w], snapshot[w], seen[w], request[w]>>
<1>1. PersistRead(w) \/ db[w] = "commit"
  BY HandlerMoves
  DEF Kept, AttachRead, PersistInsert, PersistMerge, AttachSave, Base, TypeOK
<1>2. db[w] = "commit" => pc[w] = "work"
  BY DEF Base, TypeOK, SlotsFilled, StepsInOrder, Busy
<1> QED BY <1>1, <1>2, HandlerMoves
    DEF Kept, AttachRead, PersistInsert, PersistMerge, AttachSave, Base, TypeOK

LEMMA NextWindow ==
  ASSUME Base, LeadsKept, WindowSeen, [Next]_vars
  PROVE  WindowSeen'
<1> SUFFICES ASSUME NEW w \in Consumers, db'[w] = "commit", found'[w] = 0,
                    NEW c \in 1..seen'[w],
                    recent'[c], captures'[c].lead = LeadOf[request'[w]]
             PROVE  FALSE
  BY DEF WindowSeen
<1>1. CASE PersistRead(w)
  <2>1. request[w] \in Requests /\ request'[w] = request[w]
    BY <1>1 DEF PersistRead, Base, SlotsFilled, Busy
  <2>2. Lookup(request[w]) = 0 /\ seen'[w] = Len(captures)
    BY <1>1 DEF PersistRead, Base, TypeOK
  <2>3. c \in Captures
    BY <2>2 DEF Captures
  <2>4. recent'[c] = recent[c] /\ captures'[c] = captures[c]
    BY <1>1 DEF PersistRead, tableVars
  <2> QED BY <2>1, <2>2, <2>3, <2>4, LookupFinds DEF Base
<1>2. CASE db[w] = "commit" /\ UNCHANGED <<found[w], seen[w], request[w]>>
  <2>1. c \in Captures /\ c \in 1..seen[w]
    BY <1>2, CapturesCounted DEF Base, TypeOK, Captures
  <2>2. recent[c] /\ captures'[c].lead = captures[c].lead
    BY <2>1, TableGrows, LeadOfCaptureFixed
  <2> QED BY <1>2, <2>1, <2>2 DEF WindowSeen
<1> QED BY <1>1, <1>2, WritesAsRead

-----------------------------------------------------------------------------
(* Completed messages *)

\* A message is completed by the handler that ran to its end.
LEMMA CompletedByHandler ==
  ASSUME Base, [Next]_vars
  PROVE  /\ contacts \subseteq contacts'
         /\ \A r \in Requests : Completed(r)' =>
              Completed(r) \/ \E w \in Consumers : pc[w] = "complete" /\ request[w] = r
<1> USE DEF Completed
<1>1. CASE UNCHANGED vars
  BY <1>1 DEF vars, busVars
<1>2. ASSUME NEW r \in Requests, Enqueue(r) \/ \E w \in Consumers : Deliver(w, r)
      PROVE  /\ contacts' = contacts
             /\ \A s \in Requests : Completed(s)' => Completed(s)
  BY <1>2 DEF Enqueue, Deliver, Base, TypeOK
<1>3. ASSUME NEW w \in Consumers,
             \/ PostContact(w) \/ TagContact(w) \/ PersistRead(w) \/ PersistInsert(w)
             \/ PersistMerge(w) \/ PersistThrows(w) \/ BothSettled(w)
             \/ AttachRead(w) \/ AttachSave(w)
      PROVE  contacts \subseteq contacts' /\ message' = message
  BY <1>3 DEF PostContact, TagContact, PersistRead, PersistInsert, PersistMerge,
       PersistThrows, BothSettled, AttachRead, AttachSave, busVars
<1>4. ASSUME NEW w \in Consumers, Complete(w)
      PROVE  /\ contacts' = contacts
             /\ \A s \in Requests : Completed(s)' =>
                  Completed(s) \/ (pc[w] = "complete" /\ request[w] = s)
  BY <1>4 DEF Complete, Base, TypeOK
<1>5. ASSUME NEW w \in Consumers, Abandon(w) \/ LockLapses(w)
      PROVE  /\ contacts' = contacts
             /\ \A s \in Requests : Completed(s)' => Completed(s)
  <2>1. request[w] \in Requests
    BY <1>5 DEF Abandon, LockLapses, Base, SlotsFilled
  <2>2. Returned(request[w]) # "completed"
    BY <2>1, ReturnedTyped
  <2> QED BY <1>5, <2>2 DEF Abandon, LockLapses, Base, TypeOK
<1>6. ASSUME NEW c \in Captures, WindowCloses(c)
      PROVE  contacts' = contacts /\ message' = message
  BY <1>6 DEF WindowCloses, busVars
<1> QED BY <1>1, <1>2, <1>3, <1>4, <1>5, <1>6 DEF Next, Handle

LEMMA NextCompleted ==
  ASSUME Base, LeadsKept, CompletedIsSynced, [Next]_vars
  PROVE  CompletedIsSynced'
<1> SUFFICES ASSUME NEW r \in Requests, Completed(r)'
             PROVE  /\ LeadOf[r] \in contacts'
                    /\ \E c \in Captures' : captures'[c].lead = LeadOf[r]
  BY DEF CompletedIsSynced
<1>1. LeadOf[r] \in contacts /\ \E c \in Captures : captures[c].lead = LeadOf[r]
  <2>1. CASE Completed(r)
    BY <2>1 DEF CompletedIsSynced
  <2>2. ASSUME NEW w \in Consumers, pc[w] = "complete", request[w] = r
        PROVE  LeadOf[r] \in contacts /\ \E c \in Captures : captures[c].lead = LeadOf[r]
    <3>1. ac[w] = "ok" /\ found[w] # 0
      BY <2>2 DEF Base, StepsInOrder
    <3>2. LeadOf[r] \in contacts
      BY <2>2, <3>1 DEF Base, ContactsPosted
    <3>3. found[w] \in Captures /\ captures[found[w]].lead = LeadOf[r]
      BY <2>2, <3>1 DEF Base, TypeOK, LeadsKept, Captures
    <3> QED BY <3>2, <3>3
  <2> QED BY <2>1, <2>2, CompletedByHandler
<1>2. PICK c \in Captures : captures[c].lead = LeadOf[r]
  BY <1>1
<1>3. c \in Captures' /\ captures'[c].lead = LeadOf[r]
  BY <1>2, TableGrows, LeadOfCaptureFixed DEF Captures
<1> QED BY <1>1, <1>3, CompletedByHandler

-----------------------------------------------------------------------------
(* Handlers of one lead that take turns *)

\* A handler at work after a step was so before, or has just been given a
\* message, at its beginning.
LEMMA BusyBefore ==
  ASSUME Base, [Next]_vars
  PROVE  /\ crowded \subseteq crowded'
         /\ displaced \subseteq displaced'
         /\ \/ \A w \in Consumers : Busy(w)' => Busy(w) /\ request'[w] = request[w]
            \/ \E v \in Consumers, r \in Requests : Deliver(v, r)
<1> USE DEF Busy
<1>1. CASE UNCHANGED vars
  BY <1>1 DEF vars, handlerVars, pastVars
<1>2. ASSUME NEW r \in Requests, Enqueue(r)
      PROVE  UNCHANGED <<pc, request, crowded, displaced>>
  BY <1>2 DEF Enqueue, handlerVars, pastVars
<1>3. ASSUME NEW v \in Consumers, NEW r \in Requests, Deliver(v, r)
      PROVE  crowded \subseteq crowded' /\ displaced' = displaced
  BY <1>3 DEF Deliver
<1>4. ASSUME NEW v \in Consumers,
             \/ PostContact(v) \/ TagContact(v) \/ PersistRead(v) \/ PersistInsert(v)
             \/ PersistThrows(v) \/ LockLapses(v)
      PROVE  UNCHANGED <<pc, request, crowded, displaced>>
  BY <1>4 DEF PostContact, TagContact, PersistRead, PersistInsert, PersistThrows,
       LockLapses, pastVars
<1>5. ASSUME NEW v \in Consumers, PersistMerge(v)
      PROVE  UNCHANGED <<pc, request, crowded>> /\ displaced \subseteq displaced'
  BY <1>5 DEF PersistMerge
<1>6. ASSUME NEW v \in Consumers, BothSettled(v) \/ AttachRead(v) \/ AttachSave(v)
      PROVE  /\ UNCHANGED <<request, crowded, displaced>>
             /\ \A w \in Consumers : Busy(w)' => Busy(w)
  BY <1>6 DEF BothSettled, AttachRead, AttachSave, Base, TypeOK, pastVars
<1>7. ASSUME NEW v \in Consumers, Complete(v) \/ Abandon(v)
      PROVE  /\ UNCHANGED <<crowded, displaced>>
             /\ \A w \in Consumers : Busy(w)' => Busy(w) /\ request'[w] = request[w]
  BY <1>7 DEF Complete, Abandon, Free, Base, TypeOK, pastVars
<1>8. ASSUME NEW c \in Captures, WindowCloses(c)
      PROVE  UNCHANGED <<pc, request, crowded, displaced>>
  BY <1>8 DEF WindowCloses, handlerVars, pastVars
<1> QED BY <1>1, <1>2, <1>3, <1>4, <1>5, <1>6, <1>7, <1>8 DEF Next, Handle

LEMMA NextTurns ==
  ASSUME Base, TakingTurns, [Next]_vars
  PROVE  TakingTurns'
<1>1. ASSUME \A w \in Consumers : Busy(w)' => Busy(w) /\ request'[w] = request[w]
      PROVE  TakingTurns'
  BY <1>1, BusyBefore DEF TakingTurns
<1>2. ASSUME NEW v \in Consumers, NEW r \in Requests, Deliver(v, r)
      PROVE  TakingTurns'
  <2>1. /\ Busy(v)' /\ request'[v] = r /\ ~Busy(v)
        /\ \A w \in Consumers \ {v} :
             (Busy(w)' <=> Busy(w)) /\ request'[w] = request[w]
    BY <1>2 DEF Deliver, Base, TypeOK, Busy
  <2>2. \A w \in Consumers : Busy(w) /\ LeadOf[request[w]] = LeadOf[r] => LeadOf[r] \in crowded'
    BY <1>2 DEF Deliver
  <2> QED BY <2>1, <2>2, BusyBefore DEF TakingTurns
<1> QED BY <1>1, <1>2, BusyBefore

\* The handler of a lead was so before, or is at its beginning.
LEMMA OnLeadBefore ==
  ASSUME Base, [Next]_vars, NEW w \in Consumers, Busy(w)'
  PROVE  \/ Busy(w) /\ request'[w] = request[w]
         \/ pc'[w] = "work" /\ db'[w] = "read"
<1>1. ASSUME NEW v \in Consumers, NEW r \in Requests, Deliver(v, r), v = w
      PROVE  pc'[w] = "work" /\ db'[w] = "read"
  BY <1>1 DEF Deliver, Base, TypeOK, SlotsFilled, Busy
<1>2. ASSUME NEW v \in Consumers, NEW r \in Requests, Deliver(v, r), v # w
      PROVE  (Busy(w)' => Busy(w)) /\ request'[w] = request[w]
  BY <1>2 DEF Deliver, Base, TypeOK, Busy
<1> QED BY <1>1, <1>2, BusyBefore

\* Row x takes the place of row y without losing a request.
Succeeds(x, y, r) ==
  /\ x.requestId = r \/ x.requestId = y.requestId
  /\ {y.requestId} \cup y.requestIds \subseteq {x.requestId} \cup x.requestIds

\* What a step does to the captures: at most one is written, by a handler of
\* its lead, and while that handler reads what is current no request is lost.
LEMMA CaptureWritten ==
  ASSUME Base, LeadsKept, [Next]_vars, NEW c \in Captures
  PROVE  \/ captures'[c] = captures[c]
         \/ \E w \in Consumers :
              /\ PersistMerge(w) \/ AttachSave(w)
              /\ Busy(w) /\ request[w] \in Requests /\ found[w] = c
              /\ LeadOf[captures'[c].requestId] = LeadOf[request[w]]
              /\ captures[c].lead = LeadOf[request[w]]
              /\ ReadsCurrentOf(captures[c].lead) =>
                   /\ Succeeds(captures'[c], captures[c], request[w])
                   /\ \/ captures'[c].requestId = captures[c].requestId
                      \/ captures[c].requestId \in displaced'
<1>1. CASE Quiet
  BY <1>1 DEF Quiet
<1>2. ASSUME NEW w \in Consumers, PersistRead(w) \/ AttachRead(w)
      PROVE  captures'[c] = captures[c]
  BY <1>2 DEF PersistRead, AttachRead, tableVars
<1>3. ASSUME NEW w \in Consumers, PersistInsert(w)
      PROVE  captures'[c] = captures[c]
  <2>1. request[w] \in Requests
    BY <1>3 DEF PersistInsert, Base, SlotsFilled, Busy
  <2> QED BY <1>3, <2>1, MetadataTyped, RowAppended DEF PersistInsert, Base, TypeOK, Captures
<1>4. ASSUME NEW w \in Consumers, PersistMerge(w), captures'[c] # captures[c]
      PROVE  /\ Busy(w) /\ request[w] \in Requests /\ found[w] = c
             /\ LeadOf[captures'[c].requestId] = LeadOf[request[w]]
             /\ captures[c].lead = LeadOf[request[w]]
             /\ ReadsCurrentOf(captures[c].lead) =>
                  Succeeds(captures'[c], captures[c], request[w])
             /\ captures'[c].requestId = captures[c].requestId
                  \/ captures[c].requestId \in displaced'
  <2> DEFINE r == request[w]
             x == Metadata(snapshot[w], r)
  <2>1. /\ r \in Requests /\ found[w] \in Captures /\ snapshot[w] \in Row
        /\ captures[found[w]].lead = LeadOf[r] /\ x \in Row
    BY <1>4, MergeWrites
  <2>2. captures'[found[w]] = x /\ \A d \in Captures : d # found[w] => captures'[d] = captures[d]
    BY <1>4, <2>1, RowWritten DEF PersistMerge, Base, TypeOK, Captures
  <2>3. found[w] = c /\ captures'[c] = x
    BY <1>4, <2>2
  <2>4. /\ x.requestId = r
        /\ x.requestIds = {r, snapshot[w].requestId} \cup snapshot[w].requestIds
    BY <2>1, NoRowIsNoRow, MetadataTyped
  <2>5. Busy(w)
    BY <1>4 DEF PersistMerge, Busy
  <2>6. ReadsCurrentOf(captures[c].lead) => snapshot[w] = captures[c]
    BY <1>4, <2>1, <2>3, <2>5 DEF ReadsCurrentOf, PersistMerge
  <2>7. ReadsCurrentOf(captures[c].lead) => Succeeds(x, captures[c], r)
    BY <2>4, <2>6 DEF Succeeds
  <2>8. captures[c].requestId = r \/ captures[c].requestId \in displaced'
    BY <1>4, <2>3 DEF PersistMerge
  <2> HIDE DEF x
  <2> QED BY <2>1, <2>3, <2>4, <2>5, <2>7, <2>8
<1>5. ASSUME NEW w \in Consumers, AttachSave(w), captures'[c] # captures[c]
      PROVE  /\ Busy(w) /\ request[w] \in Requests /\ found[w] = c
             /\ LeadOf[captures'[c].requestId] = LeadOf[request[w]]
             /\ captures[c].lead = LeadOf[request[w]]
             /\ ReadsCurrentOf(captures[c].lead) =>
                  /\ Succeeds(captures'[c], captures[c], request[w])
                  /\ captures'[c].requestId = captures[c].requestId
  <2> DEFINE x == [snapshot[w] EXCEPT !.attached = TRUE]
  <2>1. /\ request[w] \in Requests /\ found[w] \in Captures /\ snapshot[w] \in Row
        /\ captures[found[w]].lead = LeadOf[request[w]] /\ x \in Row
        /\ OfLead(x, LeadOf[request[w]])
    BY <1>5, SaveWrites
  <2>2. captures'[found[w]] = x /\ \A d \in Captures : d # found[w] => captures'[d] = captures[d]
    BY <1>5, <2>1, RowWritten DEF AttachSave, Base, TypeOK, Captures
  <2>3. found[w] = c /\ captures'[c] = x
    BY <1>5, <2>2
  <2>4. x.requestId = snapshot[w].requestId /\ x.requestIds = snapshot[w].requestIds
    BY <2>1 DEF Row
  <2>5. Busy(w)
    BY <1>5 DEF AttachSave, Busy
  <2>6. ReadsCurrentOf(captures[c].lead) => snapshot[w] = captures[c]
    BY <1>5, <2>1, <2>3, <2>5 DEF ReadsCurrentOf, AttachSave
  <2>7. ReadsCurrentOf(captures[c].lead) => Succeeds(x, captures[c], request[w])
    BY <2>4, <2>6 DEF Succeeds
  <2>8. LeadOf[x.requestId] = LeadOf[request[w]]
    BY <2>1 DEF OfLead
  <2> HIDE DEF x
  <2> QED BY <2>1, <2>3, <2>4, <2>5, <2>6, <2>7, <2>8
<1> QED BY <1>1, <1>2, <1>3, <1>4, <1>5, StepsSorted

\* A new capture is inserted by a handler, for the request it works on.
LEMMA CaptureInserted ==
  ASSUME Base, [Next]_vars, NEW c \in Captures', c \notin Captures
  PROVE  \E w \in Consumers :
           /\ PersistInsert(w) /\ Busy(w) /\ request[w] \in Requests
           /\ c = Len(captures) + 1 /\ UNCHANGED <<request, crowded, displaced>>
           /\ captures'[c].requestId = request[w] /\ inserter'[c] = request[w]
<1>1. Len(captures) \in Nat /\ Len(captures') # Len(captures)
  BY CapturesCounted DEF Base, Captures
<1>2. PICK w \in Consumers : PersistInsert(w)
  <2>1. CASE Quiet
    BY <1>1, <2>1 DEF Quiet
  <2>2. ASSUME NEW w \in Consumers,
               PersistRead(w) \/ AttachRead(w) \/ PersistMerge(w) \/ AttachSave(w)
        PROVE  FALSE
    BY <1>1, <2>2 DEF PersistRead, AttachRead, PersistMerge, AttachSave, Base, TypeOK,
         tableVars
  <2> QED BY <2>1, <2>2, StepsSorted
<1>3. Busy(w) /\ request[w] \in Requests /\ UNCHANGED <<request, crowded, displaced>>
  BY <1>2 DEF PersistInsert, Base, SlotsFilled, Busy, pastVars
<1>4. /\ Len(captures') = Len(captures) + 1
      /\ captures'[Len(captures) + 1] = Metadata(NoRow, request[w])
  BY <1>2, <1>3, MetadataTyped, RowAppended DEF PersistInsert, Base, TypeOK
<1>5. inserter'[Len(captures) + 1] = request[w]
  BY <1>2, <1>3, RowAppended DEF PersistInsert, Base, TypeOK
<1>6. c = Len(captures) + 1
  BY <1>1, <1>4 DEF Captures
<1> QED BY <1>2, <1>3, <1>4, <1>5, <1>6, MetadataTyped

\* Where handlers take turns, only one of them writes the captures of a lead.
LEMMA OneWriter ==
  ASSUME Base, LeadsKept, TakingTurns, [Next]_vars,
         NEW w \in Consumers, Busy(w), LeadOf[request[w]] \notin crowded,
         ReadsCurrentOf(LeadOf[request[w]]),
         NEW c \in Captures, captures[c].lead = LeadOf[request[w]],
         captures'[c] # captures[c]
  PROVE  /\ PersistMerge(w) \/ AttachSave(w)
         /\ captures'[c].requestId \in {request[w], captures[c].requestId}
<1>1. PICK v \in Consumers :
        /\ PersistMerge(v) \/ AttachSave(v)
        /\ Busy(v) /\ captures[c].lead = LeadOf[request[v]]
        /\ Succeeds(captures'[c], captures[c], request[v])
  BY CaptureWritten
<1>2. v = w
  BY <1>1 DEF TakingTurns
<1> QED BY <1>1, <1>2 DEF Succeeds

LEMMA NextReadsOf ==
  ASSUME Base, LeadsKept, TakingTurns, [Next]_vars,
         NEW l \in Leads, l \notin crowded', ReadsCurrentOf(l)
  PROVE  ReadsCurrentOf(l)'
<1> SUFFICES ASSUME NEW w \in Consumers, Busy(w)', LeadOf[request'[w]] = l
             PROVE  /\ pc'[w] = "work" /\ db'[w] = "commit" /\ found'[w] = 0
                         => \A c \in Captures' : captures'[c].requestId # request'[w]
                    /\ pc'[w] = "work" /\ db'[w] = "commit" /\ found'[w] # 0
                         => snapshot'[w] = captures'[found'[w]]
                    /\ db'[w] = "ok" => captures'[found'[w]].requestId = request'[w]
                    /\ pc'[w] = "save" => snapshot'[w] = captures'[found'[w]]
  BY DEF ReadsCurrentOf
<1>1. CASE pc'[w] = "work" /\ db'[w] = "read"
  BY <1>1
<1>2. CASE Busy(w) /\ request'[w] = request[w]
  <2> USE <1>2
  <2>0. LeadOf[request[w]] = l /\ l \notin crowded
    BY BusyBefore
  <2>1. /\ Busy(w) /\ request[w] \in Requests /\ Len(captures) \in Nat
        /\ found[w] # 0 => found[w] \in Captures
                           /\ captures[found[w]].lead = LeadOf[request[w]]
    BY <1>2, CapturesCounted DEF Base, TypeOK, SlotsFilled, LeadsKept, Captures
  <2>2. ASSUME db'[w] = "commit", found'[w] = 0, NEW c \in Captures',
               captures'[c].requestId = request[w]
        PROVE  FALSE
    <3>1. CASE PersistRead(w)
      <4>1. Lookup(request[w]) = 0 /\ captures' = captures
        BY <2>2, <3>1 DEF PersistRead, Base, TypeOK, tableVars
      <4>2. c \in Captures /\ captures[c].requestId = request[w]
        BY <2>2, <4>1 DEF Captures
      <4> QED BY <2>1, <4>1, <4>2, LookupFinds DEF Base
    <3>2. CASE db[w] = "commit" /\ pc[w] = "work" /\ found[w] = 0
      <4>1. ASSUME c \in Captures PROVE FALSE
        <5>1. captures[c].requestId # request[w]
          BY <2>0, <3>2, <4>1 DEF ReadsCurrentOf
        <5>2. PICK v \in Consumers :
                /\ Busy(v) /\ found[v] = c
                /\ LeadOf[captures'[c].requestId] = LeadOf[request[v]]
          BY <2>2, <4>1, <5>1, CaptureWritten
        <5>3. v # w
          BY <3>2, <4>1, <5>2 DEF Captures
        <5> QED BY <2>0, <2>2, <5>2, <5>3 DEF TakingTurns
      <4>2. ASSUME c \notin Captures PROVE FALSE
        <5>1. PICK v \in Consumers :
                PersistInsert(v) /\ Busy(v) /\ captures'[c].requestId = request[v]
          BY <4>2, CaptureInserted
        <5>2. v # w
          BY <2>2, <5>1 DEF PersistInsert, Base, TypeOK
        <5> QED BY <2>0, <2>2, <5>1, <5>2 DEF TakingTurns
      <4> QED BY <4>1, <4>2
    <3> QED BY <2>2, <3>1, <3>2, WritesAsRead
  <2>3. ASSUME db'[w] = "commit", found'[w] # 0
        PROVE  snapshot'[w] = captures'[found'[w]]
    <3>1. CASE PersistRead(w)
      BY <2>3, <3>1 DEF PersistRead, Base, TypeOK, tableVars
    <3>2. CASE /\ db[w] = "commit" /\ pc[w] = "work"
               /\ UNCHANGED <<found[w], snapshot[w]>>
      <4>1. snapshot[w] = captures[found[w]]
        BY <2>0, <2>3, <3>2 DEF ReadsCurrentOf
      <4>2. ~PersistMerge(w) /\ ~AttachSave(w)
        BY <2>3, <3>2 DEF PersistMerge, AttachSave, Base, TypeOK
      <4>3. captures'[found[w]] = captures[found[w]]
        BY <2>0, <2>1, <2>3, <3>2, <4>2, OneWriter
      <4> QED BY <3>2, <4>1, <4>3
    <3> QED BY <2>3, <3>1, <3>2, WritesAsRead
  <2>4. ASSUME db'[w] = "ok"
        PROVE  captures'[found'[w]].requestId = request[w]
    <3>1. CASE PersistInsert(w)
      <4>1. found'[w] = Len(captures) + 1
        BY <3>1 DEF PersistInsert, Base, TypeOK
      <4>2. captures'[Len(captures) + 1] = Metadata(NoRow, request[w])
        BY <2>1, <3>1, MetadataTyped, RowAppended DEF PersistInsert, Base, TypeOK
      <4>3. Metadata(NoRow, request[w]).requestId = request[w]
        BY DEF Metadata
      <4> QED BY <4>1, <4>2, <4>3
    <3>2. CASE PersistMerge(w)
      <4>1. captures'[found[w]] = Metadata(snapshot[w], request[w])
        BY <3>2, MergeWrites, RowWritten DEF PersistMerge, Base, TypeOK, Captures
      <4>2. found'[w] = found[w]
        BY <3>2, MergeWrites DEF PersistMerge
      <4>3. Metadata(snapshot[w], request[w]).requestId = request[w]
        BY DEF Metadata
      <4> QED BY <4>1, <4>2, <4>3
    <3>3. CASE db[w] = "ok" /\ found'[w] = found[w]
      <4>1. found[w] # 0 /\ captures[found[w]].requestId = request[w]
        BY <2>0, <3>3 DEF Base, StepsInOrder, ReadsCurrentOf
      <4> QED BY <2>0, <2>1, <3>3, <4>1, OneWriter
    <3> QED BY <2>4, <3>1, <3>2, <3>3, HandlerMoves
        DEF Kept, PersistRead, AttachRead, AttachSave, Base, TypeOK, StepsInOrder
  <2>5. ASSUME pc'[w] = "save"
        PROVE  snapshot'[w] = captures'[found'[w]]
    <3>1. CASE AttachRead(w)
      BY <3>1 DEF AttachRead, Base, TypeOK, tableVars
    <3>2. CASE pc[w] = "save" /\ UNCHANGED <<found[w], snapshot[w]>>
      <4>1. found[w] # 0 /\ snapshot[w] = captures[found[w]]
        BY <2>0, <3>2 DEF Base, StepsInOrder, ReadsCurrentOf
      <4>2. ~PersistMerge(w) /\ ~AttachSave(w)
        BY <2>5, <3>2 DEF PersistMerge, AttachSave, Base, TypeOK
      <4>3. captures'[found[w]] = captures[found[w]]
        BY <2>0, <2>1, <4>1, <4>2, OneWriter
      <4> QED BY <3>2, <4>1, <4>3
    <3>3. AttachRead(w) \/ (pc[w] = "save" /\ UNCHANGED <<found[w], snapshot[w]>>)
      <4>1. db'[w] = "ok"
        BY <2>5, NextBase DEF Base, StepsInOrder
      <4> QED BY <2>5, <4>1, HandlerMoves
          DEF Kept, PersistRead, PersistInsert, PersistMerge, AttachSave, Base, TypeOK
    <3> QED BY <3>1, <3>2, <3>3
  <2> QED BY <2>2, <2>3, <2>4, <2>5
<1> QED BY <1>1, <1>2, OnLeadBefore

LEMMA NextReads ==
  ASSUME Base, LeadsKept, TakingTurns, ReadsCurrent, [Next]_vars
  PROVE  ReadsCurrent'
BY NextReadsOf, BusyBefore DEF ReadsCurrent

-----------------------------------------------------------------------------
(* Duplicates, and requests that locate their capture *)

LEMMA NextInserters ==
  ASSUME Base, LeadsKept, ReadsCurrent, TakingTurns, InsertersNamed, [Next]_vars
  PROVE  InsertersNamed'
<1> SUFFICES ASSUME NEW c \in Captures',
                    inserter'[c] \notin displaced', LeadOf[inserter'[c]] \notin crowded'
             PROVE  captures'[c].requestId = inserter'[c]
  BY DEF InsertersNamed
<1>1. CASE c \in Captures
  <2>1. inserter'[c] = inserter[c]
    BY <1>1, TableGrows
  <2>2. inserter[c] \notin displaced /\ LeadOf[inserter[c]] \notin crowded
    BY <2>1, BusyBefore
  <2>3. captures[c].requestId = inserter[c] /\ captures[c].lead = LeadOf[inserter[c]]
    BY <1>1, <2>2 DEF InsertersNamed, LeadsKept, OfLead
  <2>4. ASSUME captures'[c].requestId # captures[c].requestId PROVE FALSE
    <3>1. PICK w \in Consumers :
            /\ Busy(w) /\ captures[c].lead = LeadOf[request[w]]
            /\ request[w] \in Requests
            /\ ReadsCurrentOf(captures[c].lead) => captures[c].requestId \in displaced'
      BY <1>1, <2>4, CaptureWritten
    <3>2. ReadsCurrentOf(captures[c].lead)
      BY <2>2, <2>3, <3>1, ConstantsTyped DEF ReadsCurrent
    <3> QED BY <2>1, <2>3, <3>1, <3>2
  <2> QED BY <2>1, <2>3, <2>4
<1>2. CASE c \notin Captures
  BY <1>2, CaptureInserted
<1> QED BY <1>1, <1>2

LEMMA NextDuplicate ==
  ASSUME Base, LeadsKept, ReadsCurrent, TakingTurns, InsertersNamed,
         DuplicateOnlyIfDisplaced, [Next]_vars
  PROVE  DuplicateOnlyIfDisplaced'
<1>1. ASSUME NEW c \in Captures', c \notin Captures, NEW d \in Captures,
             inserter'[c] = inserter'[d],
             inserter'[d] \notin displaced', LeadOf[inserter'[d]] \notin crowded'
      PROVE  FALSE
  <2>1. inserter'[d] = inserter[d]
    BY TableGrows
  <2>2. inserter[d] \notin displaced /\ LeadOf[inserter[d]] \notin crowded
    BY <1>1, <2>1, BusyBefore
  <2>3. captures[d].requestId = inserter[d]
    BY <2>2 DEF InsertersNamed
  <2>4. PICK w \in Consumers : PersistInsert(w) /\ Busy(w) /\ inserter'[c] = request[w]
    BY <1>1, CaptureInserted
  <2>5. ReadsCurrentOf(LeadOf[request[w]])
    BY <1>1, <2>1, <2>2, <2>4, ConstantsTyped DEF ReadsCurrent, Base, SlotsFilled
  <2>6. pc[w] = "work" /\ db[w] = "commit" /\ found[w] = 0
    BY <2>4 DEF PersistInsert
  <2>7. captures[d].requestId # request[w]
    BY <2>4, <2>5, <2>6 DEF ReadsCurrentOf
  <2> QED BY <1>1, <2>1, <2>3, <2>4, <2>7
<1>2. ASSUME NEW c \in Captures, NEW d \in Captures, c # d, inserter'[c] = inserter'[d]
      PROVE  inserter'[c] \in displaced' \/ LeadOf[inserter'[c]] \in crowded'
  BY <1>2, TableGrows, BusyBefore DEF DuplicateOnlyIfDisplaced
<1>3. ASSUME NEW c \in Captures', NEW d \in Captures', c \notin Captures, d \notin Captures
      PROVE  c = d
  BY <1>3, CaptureInserted
<1> QED BY <1>1, <1>2, <1>3 DEF DuplicateOnlyIfDisplaced

\* A request keeps the capture it locates while handlers read what is current.
LEMMA LocatesStays ==
  ASSUME Base, LeadsKept, [Next]_vars,
         NEW r \in Requests, ReadsCurrentOf(LeadOf[r]),
         NEW c \in Captures, Locates(c, r)
  PROVE  c \in Captures' /\ Locates(c, r)'
<1>1. captures[c].lead = LeadOf[r]
  BY DEF Locates, LeadsKept, OfLead
<1>2. c \in Captures'
  BY TableGrows DEF Captures
<1>3. ASSUME captures'[c] # captures[c]
      PROVE  Locates(c, r)'
  <2>1. PICK w \in Consumers :
          ReadsCurrentOf(captures[c].lead) =>
            Succeeds(captures'[c], captures[c], request[w])
    BY <1>3, CaptureWritten
  <2> QED BY <1>1, <2>1 DEF Succeeds, Locates
<1> QED BY <1>2, <1>3 DEF Locates

Located(r) == \E c \in Captures : Locates(c, r)

LEMMA NextLocatedOf ==
  ASSUME Base, LeadsKept, [Next]_vars, NEW r \in Requests,
         ReadsCurrentOf(LeadOf[r]), Completed(r) => Located(r), Completed(r)'
  PROVE  Located(r)'
<1>1. ASSUME NEW w \in Consumers, pc[w] = "complete", request[w] = r
      PROVE  Located(r)
  <2>1. db[w] = "ok" /\ found[w] # 0
    BY <1>1 DEF Base, StepsInOrder
  <2>2. found[w] \in Captures /\ Busy(w)
    BY <1>1, <2>1 DEF Base, TypeOK, Captures, Busy
  <2> QED BY <1>1, <2>1, <2>2 DEF ReadsCurrentOf, Locates, Located
<1>2. PICK c \in Captures : Locates(c, r)
  BY <1>1, CompletedByHandler DEF Located
<1> QED BY <1>2, LocatesStays DEF Located

LEMMA NextLocated ==
  ASSUME Base, LeadsKept, ReadsCurrent, LocatedUnlessCrowded, [Next]_vars
  PROVE  LocatedUnlessCrowded'
<1> SUFFICES ASSUME NEW r \in Requests, Completed(r)', LeadOf[r] \notin crowded'
             PROVE  Located(r)'
  BY DEF LocatedUnlessCrowded, Located
<1>1. LeadOf[r] \notin crowded
  BY BusyBefore
<1>2. ReadsCurrentOf(LeadOf[r]) /\ (Completed(r) => Located(r))
  BY <1>1, ConstantsTyped DEF ReadsCurrent, LocatedUnlessCrowded, Located
<1> QED BY <1>2, NextLocatedOf

-----------------------------------------------------------------------------
(* The theorems about registration *)

LEMMA InitInv == Init => Inv
<1> SUFFICES ASSUME Init PROVE Inv
  OBVIOUS
<1>1. Len(captures) = 0
  BY EmptySeq DEF Init
<1>2. Captures = {}
  BY <1>1 DEF Captures
<1>3. \A w \in Consumers : ~Busy(w) /\ db[w] = "read" /\ found[w] = 0 /\ snapshot[w] = NoRow
  BY DEF Init, Busy
<1>4. \A r \in Requests : ~Completed(r)
  BY DEF Init, Completed
<1> QED BY <1>2, <1>3, <1>4, InitBase
    DEF Inv, LeadsKept, WindowSeen, TakingTurns, ReadsCurrent, ReadsCurrentOf, InsertersNamed,
        CompletedIsSynced, DuplicateOnlyIfDisplaced, LocatedUnlessCrowded

LEMMA NextInv ==
  ASSUME Inv, [Next]_vars
  PROVE  Inv'
BY NextBase, NextKeepsLeads, NextWindow, NextCompleted, NextTurns, NextReads,
   NextInserters, NextDuplicate, NextLocated DEF Inv

LEMMA Invariance == Spec => []Inv
BY InitInv, NextInv, PTL DEF Spec

\* A completed message did both halves of its work: the contact was posted and
\* a capture of the lead exists, however it was retried or repeated.
THEOREM CompletedSynced == Spec => []CompletedIsSynced
<1>1. Inv => CompletedIsSynced
  BY DEF Inv
<1> QED BY Invariance, <1>1, PTL

\* No retry, merge or stale attachment writes one lead over another.
THEOREM CapturesKeepLead == Spec => []CaptureKeepsLead
<1>1. Inv => CaptureKeepsLead
  BY DEF Inv, LeadsKept, OfLead, CaptureKeepsLead
<1> QED BY Invariance, <1>1, PTL

\* persistLead inserts a second capture within the window only next to one
\* that it could not have seen.
THEOREM WindowRespected == Spec => NoDuplicateInWindow
<1> DEFINE Step ==
      \A w \in Consumers :
        db[w] = "commit" /\ db'[w] = "ok" /\ found[w] = 0
          => \A c \in 1..seen[w] : ~(recent[c] /\ captures[c].lead = LeadOf[request[w]])
<1>1. Inv /\ [Next]_vars => [Step]_vars
  BY DEF Inv, WindowSeen
<1>2. Spec => [][Step]_vars
  BY Invariance, <1>1, PTL DEF Spec
<1> QED BY <1>2 DEF NoDuplicateInWindow

\* A request gets a second capture only after a later one took over its
\* requestId, or handlers of the lead overlapped.
THEOREM DuplicatesExplained == Spec => []DuplicateOnlyIfDisplaced
<1>1. Inv => DuplicateOnlyIfDisplaced
  BY DEF Inv
<1> QED BY Invariance, <1>1, PTL

\* Where the handlers of a lead never overlapped, the requestId of a completed
\* registration locates a capture.
THEOREM CompletedLocated == Spec => []LocatedUnlessCrowded
<1>1. Inv => LocatedUnlessCrowded
  BY DEF Inv
<1> QED BY Invariance, <1>1, PTL

-----------------------------------------------------------------------------
(* Registration and scoring: the inductive invariant *)

\* What registration keeps whoever writes captures of the right lead.
RegistrationInv ==
  Base /\ LeadsKept /\ WindowSeen /\ TakingTurns /\ CompletedIsSynced

ScoringTyped ==
  /\ results \in Seq([score : Scores, capture : Nat])
  /\ accepted \subseteq Scores /\ dead \subseteq Scores
  /\ waiting \in [Scoring!Message -> 0..MaxCopies]
  /\ at \in [Scorers -> {"idle", "read", "commit", "requeue", "ack"}]
  /\ msg \in [Scorers -> Scoring!Message \cup {NoMessage}]
  /\ locked \in [Scorers -> BOOLEAN]
  /\ target \in [Scorers -> Nat]
  /\ row \in [Scorers -> Row \cup {NoRow}]
  /\ overlapped \subseteq Scores

\* A handler at work has a message, and one about to publish again may.
ScorersFilled ==
  \A w \in Scorers :
    /\ at[w] # "idle" => msg[w] \in Scoring!Message
    /\ at[w] = "requeue" => msg[w].retry < RetryMax
    /\ locked[w] => at[w] # "idle"

\* A message that waits has a delivery left.
TriesLeft == \A m \in Scoring!Message : waiting[m] > 0 => m.tries < MaxTries

\* A handler about to commit read a capture of the lead its score is of.
TargetsOnLead ==
  \A w \in Scorers : at[w] = "commit" =>
    /\ target[w] \in Captures /\ row[w] \in Row
    /\ captures[target[w]].lead = ScoredLead(w)
    /\ OfLead(row[w], ScoredLead(w))

ResultsOnLead ==
  \A i \in DOMAIN results :
    /\ results[i].capture \in Captures
    /\ captures[results[i].capture].lead = LeadOf[RegistrationOf[results[i].score]]

Shared ==
  /\ RegistrationInv /\ ScoringTyped /\ ScorersFilled /\ TriesLeft
  /\ TargetsOnLead /\ ResultsOnLead

\* A score in hand even if every message that is about to be completed were.
InHand(s) ==
  \/ Scoring!Scored(s) \/ s \in dead
  \/ \E m \in Scoring!Message : m.score = s /\ waiting[m] > 0
  \/ \E w \in Scorers :
       at[w] \in {"read", "commit", "requeue"} /\ locked[w] /\ Scoring!ScoreOf(w) = s

AllInHand == \A s \in accepted \ Offline : InHand(s)

\* Two handlers of one score make it overlapped.
ScorersApart ==
  \A v, w \in Scorers :
    at[v] # "idle" /\ at[w] # "idle" /\ Scoring!ScoreOf(v) = Scoring!ScoreOf(w)
      => v = w \/ Scoring!ScoreOf(v) \in overlapped

\* A score about to be committed has no result yet.
CommitsFirst ==
  \A w \in Scorers :
    at[w] = "commit" /\ Scoring!Scored(Scoring!ScoreOf(w))
      => Scoring!ScoreOf(w) \in overlapped

\* On a lead never handled by both at once, everything read is current.
MixedNoted == Mixed \subseteq mixed

RowsCurrent ==
  \A w \in Scorers :
    at[w] = "commit" /\ ScoredLead(w) \notin mixed => row[w] = captures[target[w]]

ReadsCurrentUnmixed ==
  \A l \in Leads : l \notin crowded \cup mixed => ReadsCurrentOf(l)

CompletedLocated2 ==
  \A r \in Requests : Completed(r) /\ LeadOf[r] \notin crowded \cup mixed => Located(r)

PipelineInv ==
  /\ Shared /\ AllInHand /\ ScorersApart /\ CommitsFirst /\ OneResultUnlessOverlapped
  /\ MixedNoted /\ RowsCurrent /\ ReadsCurrentUnmixed /\ CompletedLocated2

-----------------------------------------------------------------------------
(* The operators of the scoring *)

LEMMA ScoringConstantsTyped ==
  /\ RegistrationOf \in [Scores -> Requests]
  /\ RetryMax \in Nat /\ MaxTries \in Nat \ {0} /\ MaxCopies \in Nat \ {0}
BY ScoresNameRegistrations, PipelineConstants DEF Scoring!ScoringConstants

LEMMA ScoredLeadTyped ==
  ASSUME NEW s \in Scores
  PROVE  RegistrationOf[s] \in Requests /\ LeadOf[RegistrationOf[s]] \in Leads
BY ScoringConstantsTyped, ConstantsTyped

\* resolveCapture finds a capture that the request locates, if there is one.
LEMMA ResolveFinds ==
  ASSUME TypeOK, NEW r \in Requests
  PROVE  /\ Scoring!Resolve(r) \in 0..Len(captures)
         /\ Scoring!Resolve(r) # 0 => Locates(Scoring!Resolve(r), r)
         /\ Located(r) => Scoring!Resolve(r) # 0
<1> DEFINE A == {c \in DOMAIN captures : captures[c].requestId = r}
           B == {c \in DOMAIN captures : r \in captures[c].requestIds}
<1>1. Len(captures) \in Nat /\ DOMAIN captures = 1..Len(captures)
  BY CapturesCounted DEF TypeOK
<1>2. \A S : Scoring!Youngest(S) = Youngest(S)
  BY DEF Scoring!Youngest, Youngest
<1>3. /\ Scoring!Current(r) = 0 <=> A = {}
      /\ A # {} => Scoring!Current(r) \in A
  BY <1>1, <1>2, YoungestOf DEF Scoring!Current
<1>4. /\ Scoring!Listed(r) = 0 <=> B = {}
      /\ B # {} => Scoring!Listed(r) \in B
  BY <1>1, <1>2, YoungestOf DEF Scoring!Listed
<1>5. CASE A # {}
  <2>1. Scoring!Resolve(r) \in A
    BY <1>3, <1>5 DEF Scoring!Resolve
  <2> QED BY <1>1, <2>1 DEF Locates
<1>6. CASE A = {} /\ B # {}
  <2>1. Scoring!Resolve(r) \in B
    BY <1>3, <1>4, <1>6 DEF Scoring!Resolve
  <2> QED BY <1>1, <2>1 DEF Locates
<1>7. CASE A = {} /\ B = {}
  <2>1. Scoring!Resolve(r) = 0
    BY <1>3, <1>4, <1>7 DEF Scoring!Resolve
  <2>2. ~Located(r)
    BY <1>1, <1>7 DEF Located, Locates, Captures
  <2> QED BY <1>1, <2>1, <2>2
<1> QED BY <1>5, <1>6, <1>7

\* A publication adds to what waits.
LEMMA PublishedAdds ==
  ASSUME waiting \in [Scoring!Message -> 0..MaxCopies], NEW m \in Scoring!Message
  PROVE  /\ Scoring!Published(m) \in [Scoring!Message -> 0..MaxCopies]
         /\ Scoring!Published(m)[m] > 0
         /\ \A n \in Scoring!Message \ {m} : Scoring!Published(m)[n] = waiting[n]
<1>1. MaxCopies \in Nat \ {0} /\ waiting[m] \in 0..MaxCopies
  BY ScoringConstantsTyped
<1>2. (IF waiting[m] < MaxCopies THEN waiting[m] + 1 ELSE MaxCopies) \in (0..MaxCopies) \ {0}
  BY <1>1
<1> QED BY <1>1, <1>2 DEF Scoring!Published

\* What is there while a message of a score waits or is dead.
Waits(s) == s \in dead \/ \E m \in Scoring!Message : m.score = s /\ waiting[m] > 0

LEMMA PublishKeeps ==
  ASSUME ScoringTyped, TriesLeft, NEW m \in Scoring!Message, m.tries < MaxTries,
         waiting' = Scoring!Published(m), UNCHANGED dead
  PROVE  /\ waiting' \in [Scoring!Message -> 0..MaxCopies] /\ dead' \subseteq Scores
         /\ TriesLeft' /\ Waits(m.score)'
         /\ \A s \in Scores : Waits(s) => Waits(s)'
<1>1. /\ waiting' \in [Scoring!Message -> 0..MaxCopies] /\ waiting'[m] > 0
      /\ \A n \in Scoring!Message \ {m} : waiting'[n] = waiting[n]
  BY PublishedAdds DEF ScoringTyped
<1>2. TriesLeft'
  BY <1>1 DEF TriesLeft
<1>3. \A s \in Scores : Waits(s) => Waits(s)'
  BY <1>1 DEF Waits
<1>4. Waits(m.score)'
  BY <1>1 DEF Waits
<1> QED BY <1>1, <1>2, <1>3, <1>4 DEF ScoringTyped

LEMMA TakeBackKeeps ==
  ASSUME ScoringTyped, TriesLeft, NEW w \in Scorers, msg[w] \in Scoring!Message,
         Scoring!TakeBack(w), NEW t, t = Scoring!ScoreOf(w)
  PROVE  /\ waiting' \in [Scoring!Message -> 0..MaxCopies] /\ dead' \subseteq Scores
         /\ TriesLeft' /\ t \in Scores /\ Waits(t)'
         /\ \A s \in Scores : Waits(s) => Waits(s)'
<1>1. t \in Scores /\ t = msg[w].score
  BY DEF Scoring!Message, Scoring!ScoreOf
<1>2. CASE msg[w].tries < MaxTries
  <2>1. waiting' = Scoring!Published(msg[w]) /\ dead' = dead
    BY <1>2 DEF Scoring!TakeBack
  <2> QED BY <1>1, <1>2, <2>1, PublishKeeps
<1>3. CASE ~(msg[w].tries < MaxTries)
  <2>1. waiting' = waiting /\ dead' = dead \cup {t}
    BY <1>3 DEF Scoring!TakeBack
  <2>2. \A s \in Scores : Waits(s) => Waits(s)'
    BY <2>1 DEF Waits
  <2>3. Waits(t)'
    BY <2>1 DEF Waits
  <2> QED BY <1>1, <2>1, <2>2, <2>3 DEF ScoringTyped, TriesLeft
<1> QED BY <1>2, <1>3

-----------------------------------------------------------------------------
(* The steps of both *)

\* A step is one of the registration, of the scoring, or of neither.
LEMMA PipelineSteps ==
  ASSUME [PipelineNext]_pipelineVars
  PROVE  \/ [Next]_vars /\ UNCHANGED scoreVars /\ mixed \subseteq mixed'
            /\ (MixedNoted => MixedNoted')
         \/ Scoring!Next /\ UNCHANGED <<recent, inserter, busVars, contacts, handlerVars, pastVars>>
            /\ mixed \subseteq mixed' /\ MixedNoted'
<1>1. CASE UNCHANGED pipelineVars
  <2>1. UNCHANGED <<vars, scoreVars, mixed>>
    BY <1>1 DEF pipelineVars
  <2>2. Mixed' = Mixed
    BY <2>1 DEF Mixed, ScoredLead, Scoring!ScoreOf, Busy, vars, handlerVars, scoreVars
  <2> QED BY <2>1, <2>2 DEF MixedNoted
<1>2. CASE PipelineNext
  BY <1>2 DEF PipelineNext, ByRegistration, ByScoring, MixedNoted
<1> QED BY <1>1, <1>2

\* The scoring writes a capture only as it was read, of the same lead.
LEMMA ScoringWrites ==
  ASSUME Shared, Scoring!Next
  PROVE  \/ UNCHANGED captures
         \/ \E w \in Scorers :
              /\ Scoring!Commit(w) /\ target[w] \in Captures
              /\ captures' = [captures EXCEPT ![target[w]] = row[w]]
<1>1. ASSUME NEW w \in Scorers, Scoring!Commit(w)
      PROVE  \/ UNCHANGED captures
             \/ /\ target[w] \in Captures
                /\ captures' = [captures EXCEPT ![target[w]] = row[w]]
  BY <1>1 DEF Scoring!Commit, Shared, TargetsOnLead
<1>2. ASSUME NEW w \in Scorers, NEW m \in Scoring!Message, Scoring!Deliver(w, m)
      PROVE  UNCHANGED captures
  BY <1>2 DEF Scoring!Deliver
<1>3. ASSUME NEW s \in Scores, Scoring!Enqueue(s) PROVE UNCHANGED captures
  BY <1>3 DEF Scoring!Enqueue
<1>4. ASSUME NEW w \in Scorers,
             \/ Scoring!Read(w) \/ Scoring!Requeue(w) \/ Scoring!Ack(w) \/ Scoring!Throw(w)
             \/ Scoring!LockLapses(w)
      PROVE  UNCHANGED captures
  BY <1>4 DEF Scoring!Read, Scoring!Requeue, Scoring!Ack, Scoring!Throw, Scoring!LockLapses
<1> QED BY <1>1, <1>2, <1>3, <1>4 DEF Scoring!Next, Scoring!Handle

LEMMA CommitWrites ==
  ASSUME Shared, NEW w \in Scorers, Scoring!Commit(w),
         captures' = [captures EXCEPT ![target[w]] = row[w]]
  PROVE  /\ captures' \in Seq(Row) /\ Len(captures') = Len(captures)
         /\ captures'[target[w]] = row[w]
         /\ \A c \in Captures : c # target[w] => captures'[c] = captures[c]
         /\ \A c \in Captures : captures'[c].lead = captures[c].lead
<1>1. /\ target[w] \in Captures /\ row[w] \in Row
      /\ captures[target[w]].lead = row[w].lead
  BY DEF Scoring!Commit, Shared, TargetsOnLead, OfLead
<1>2. captures \in Seq(Row) /\ target[w] \in 1..Len(captures)
  BY <1>1 DEF Shared, RegistrationInv, Base, TypeOK, Captures
<1>3. /\ captures' \in Seq(Row) /\ Len(captures') = Len(captures)
      /\ captures'[target[w]] = row[w]
      /\ \A c \in Captures : c # target[w] => captures'[c] = captures[c]
  BY <1>1, <1>2, RowWritten DEF Captures
<1> QED BY <1>1, <1>3

\* Captures stay, with their lead, whatever the step.
LEMMA CapturesStay ==
  ASSUME Shared, [PipelineNext]_pipelineVars
  PROVE  \A c \in Captures : c \in Captures' /\ captures'[c].lead = captures[c].lead
<1>1. CASE [Next]_vars
  <2>1. Base /\ LeadsKept
    BY DEF Shared, RegistrationInv
  <2> QED BY <1>1, <2>1, TableGrows, LeadOfCaptureFixed DEF Captures
<1>2. CASE Scoring!Next
  <2>1. CASE UNCHANGED captures
    BY <2>1 DEF Captures
  <2>2. ASSUME NEW w \in Scorers, Scoring!Commit(w),
               captures' = [captures EXCEPT ![target[w]] = row[w]]
        PROVE  \A c \in Captures : c \in Captures' /\ captures'[c].lead = captures[c].lead
    BY <2>2, CommitWrites DEF Captures
  <2> QED BY <1>2, <2>1, <2>2, ScoringWrites
<1> QED BY <1>1, <1>2, PipelineSteps

LEMMA NextRegistrationInv ==
  ASSUME Shared, [PipelineNext]_pipelineVars
  PROVE  RegistrationInv'
<1>1. RegistrationInv
  BY DEF Shared
<1>2. CASE [Next]_vars
  BY <1>1, <1>2, NextBase, NextKeepsLeads, NextWindow, NextTurns, NextCompleted
  DEF RegistrationInv
<1>3. CASE /\ Scoring!Next
           /\ UNCHANGED <<recent, inserter, busVars, contacts, handlerVars, pastVars>>
  <2>1. CASE UNCHANGED captures
    <3>1. UNCHANGED vars
      BY <1>3, <2>1 DEF vars, tableVars
    <3> QED BY <1>2, <3>1
  <2>2. ASSUME NEW w \in Scorers, Scoring!Commit(w), target[w] \in Captures,
               captures' = [captures EXCEPT ![target[w]] = row[w]]
        PROVE  RegistrationInv'
    <3>1. /\ captures' \in Seq(Row) /\ Len(captures') = Len(captures)
          /\ \A c \in Captures : captures'[c].lead = captures[c].lead
      BY <2>2, CommitWrites
    <3>2. Base'
      BY <1>1, <1>3, <3>1
      DEF RegistrationInv, Base, TypeOK, SlotsFilled, StepsInOrder, DeliveriesCounted,
          LocksExclusive, ContactsPosted, Busy, busVars, handlerVars, pastVars
    <3>3. row[w] \in Row /\ OfLead(row[w], captures[target[w]].lead)
      BY <2>2 DEF Scoring!Commit, Shared, TargetsOnLead
    <3>4. LeadsKept'
      BY <1>1, <1>3, <2>2, <3>3, WriteKeepsLeads DEF RegistrationInv, handlerVars
    <3>5. WindowSeen'
      <4>1. \A v \in Consumers : \A c \in 1..seen[v] : c \in Captures
        BY <1>1, CapturesCounted DEF RegistrationInv, Base, TypeOK, Captures
      <4> QED BY <1>1, <1>3, <3>1, <4>1 DEF RegistrationInv, WindowSeen, handlerVars
    <3>6. TakingTurns'
      BY <1>1, <1>3 DEF RegistrationInv, TakingTurns, Busy, handlerVars, pastVars
    <3>7. CompletedIsSynced'
      BY <1>1, <1>3, <3>1
      DEF RegistrationInv, CompletedIsSynced, Completed, Captures, busVars
    <3> QED BY <3>2, <3>4, <3>5, <3>6, <3>7 DEF RegistrationInv
  <2> QED BY <1>3, <2>1, <2>2, ScoringWrites
<1> QED BY <1>2, <1>3, PipelineSteps

-----------------------------------------------------------------------------
(* The handlers of scores: types, and what they hold *)

Slots == ScoringTyped /\ ScorersFilled /\ TriesLeft

LEMMA EnqueueSlots ==
  ASSUME Slots, NEW s \in Scores, Scoring!Enqueue(s)
  PROVE  /\ Slots'
         /\ s \notin Offline => Waits(s)'
         /\ \A t \in Scores : Waits(t) => Waits(t)'
<1> DEFINE m == [score |-> s, retry |-> 0, tries |-> 0]
<1>1. m \in Scoring!Message /\ m.tries < MaxTries /\ m.score = s
  BY ScoringConstantsTyped DEF Scoring!Message
<1>2. waiting' = (IF s \in Offline THEN waiting ELSE Scoring!Published(m)) /\ dead' = dead
  BY DEF Scoring!Enqueue
<1> HIDE DEF m
<1>3. /\ waiting' \in [Scoring!Message -> 0..MaxCopies] /\ dead' \subseteq Scores
      /\ TriesLeft'
      /\ s \notin Offline => Waits(s)'
      /\ \A t \in Scores : Waits(t) => Waits(t)'
  <2>1. CASE s \in Offline
    BY <1>2, <2>1 DEF Slots, ScoringTyped, TriesLeft, Waits
  <2>2. CASE s \notin Offline
    BY <1>1, <1>2, <2>2, PublishKeeps DEF Slots
  <2> QED BY <2>1, <2>2
<1>4. ScoringTyped' /\ ScorersFilled'
  BY <1>3 DEF Scoring!Enqueue, Scoring!handlers, Slots, ScoringTyped, ScorersFilled
<1> QED BY <1>3, <1>4 DEF Slots

LEMMA DeliverSlots ==
  ASSUME Slots, NEW w \in Scorers, NEW m \in Scoring!Message, Scoring!Deliver(w, m)
  PROVE  /\ Slots' /\ m.score \in Scores
         /\ at' = [at EXCEPT ![w] = "read"] /\ locked' = [locked EXCEPT ![w] = TRUE]
         /\ at[w] = "idle" /\ msg'[w].score = m.score
         /\ \A v \in Scorers : v # w => msg'[v] = msg[v]
         /\ \A s \in Scores : Waits(s) => Waits(s)' \/ s = m.score
<1> DEFINE n == [m EXCEPT !.tries = @ + 1]
<1>1. m.score \in Scores /\ m.retry \in 0..RetryMax /\ m.tries \in 0..MaxTries
  BY DEF Scoring!Message
<1>2. m.tries < MaxTries /\ waiting[m] \in 0..MaxCopies /\ waiting[m] > 0
  BY DEF Slots, ScoringTyped, TriesLeft, Scoring!Deliver
<1>3. n \in Scoring!Message /\ n.score = m.score
  BY <1>1, <1>2, ScoringConstantsTyped DEF Scoring!Message
<1>4. /\ at[w] = "idle" /\ waiting' = [waiting EXCEPT ![m] = waiting[m] - 1]
      /\ at' = [at EXCEPT ![w] = "read"] /\ msg' = [msg EXCEPT ![w] = n]
      /\ locked' = [locked EXCEPT ![w] = TRUE]
      /\ UNCHANGED <<results, accepted, dead, target, row>>
  BY DEF Scoring!Deliver
<1>5. overlapped' = overlapped \/ overlapped' = overlapped \cup {m.score}
  BY DEF Scoring!Deliver
<1> HIDE DEF n
<1>6. waiting[m] - 1 \in 0..MaxCopies /\ waiting[m] - 1 < waiting[m]
  BY <1>2, ScoringConstantsTyped
<1>7. /\ waiting' \in [Scoring!Message -> 0..MaxCopies]
      /\ \A k \in Scoring!Message : waiting'[k] > 0 => waiting[k] > 0
      /\ \A k \in Scoring!Message \ {m} : waiting'[k] = waiting[k]
  BY <1>2, <1>4, <1>6 DEF Slots, ScoringTyped
<1>8. ScoringTyped'
  BY <1>1, <1>3, <1>4, <1>5, <1>7 DEF Slots, ScoringTyped
<1>9. ScorersFilled'
  BY <1>3, <1>4 DEF Slots, ScoringTyped, ScorersFilled
<1>10. TriesLeft'
  BY <1>7 DEF Slots, TriesLeft
<1>11. \A s \in Scores : Waits(s) => Waits(s)' \/ s = m.score
  BY <1>4, <1>7 DEF Waits
<1>12. msg'[w] = n /\ \A v \in Scorers : v # w => msg'[v] = msg[v]
  BY <1>4 DEF Slots, ScoringTyped
<1> QED BY <1>1, <1>3, <1>4, <1>8, <1>9, <1>10, <1>11, <1>12 DEF Slots

LEMMA ReadSlots ==
  ASSUME TypeOK, Slots, NEW w \in Scorers, Scoring!Read(w)
  PROVE  Slots' /\ Scoring!ScoreOf(w) \in Scores
<1>1. msg[w] \in Scoring!Message /\ Scoring!ScoreOf(w) \in Scores
  BY DEF Scoring!Read, Slots, ScorersFilled, Scoring!ScoreOf, Scoring!Message
<1> DEFINE c == Scoring!Resolve(RegistrationOf[Scoring!ScoreOf(w)])
<1>2. c # 0 => c \in Nat /\ captures[c] \in Row
  <2>1. RegistrationOf[Scoring!ScoreOf(w)] \in Requests
    BY <1>1, ScoredLeadTyped
  <2> QED BY <2>1, ResolveFinds, CapturesCounted DEF Captures
<1> HIDE DEF c
<1>3. \/ at' = [at EXCEPT ![w] = "ack"] /\ UNCHANGED <<target, row>>
      \/ /\ c # 0 /\ at' = [at EXCEPT ![w] = "commit"]
         /\ target' = [target EXCEPT ![w] = c] /\ row' = [row EXCEPT ![w] = captures[c]]
      \/ /\ at' = [at EXCEPT ![w] = "requeue"] /\ msg[w].retry < RetryMax
         /\ UNCHANGED <<target, row>>
  BY DEF Scoring!Read, c
<1>4. /\ at[w] = "read"
      /\ UNCHANGED <<results, accepted, waiting, dead, msg, locked, overlapped>>
  BY DEF Scoring!Read
<1>5. ScoringTyped'
  BY <1>2, <1>3, <1>4 DEF Slots, ScoringTyped
<1>6. ScorersFilled' /\ TriesLeft'
  BY <1>3, <1>4 DEF Slots, ScoringTyped, ScorersFilled, TriesLeft
<1> QED BY <1>1, <1>5, <1>6 DEF Slots

LEMMA CommitSlots ==
  ASSUME Slots, NEW w \in Scorers, Scoring!Commit(w)
  PROVE  Slots' /\ Scoring!ScoreOf(w) \in Scores
<1>1. msg[w] \in Scoring!Message /\ Scoring!ScoreOf(w) \in Scores
  BY DEF Scoring!Commit, Slots, ScorersFilled, Scoring!ScoreOf, Scoring!Message
<1>2. [score |-> Scoring!ScoreOf(w), capture |-> target[w]] \in [score : Scores, capture : Nat]
  BY <1>1 DEF Slots, ScoringTyped
<1>3. results' \in Seq([score : Scores, capture : Nat])
  BY <1>2, RowAppended DEF Scoring!Commit, Slots, ScoringTyped
<1>4. ScoringTyped' /\ ScorersFilled' /\ TriesLeft'
  BY <1>3 DEF Scoring!Commit, Slots, ScoringTyped, ScorersFilled, TriesLeft
<1> QED BY <1>1, <1>4 DEF Slots

LEMMA RequeueSlots ==
  ASSUME Slots, NEW w \in Scorers, Scoring!Requeue(w), NEW t, t = Scoring!ScoreOf(w)
  PROVE  Slots' /\ t \in Scores /\ Waits(t)' /\ \A s \in Scores : Waits(s) => Waits(s)'
<1> DEFINE m == [score |-> t, retry |-> msg[w].retry + 1, tries |-> 0]
<1>1. /\ msg[w] \in Scoring!Message /\ msg[w].retry < RetryMax
      /\ t \in Scores /\ msg[w].retry \in 0..RetryMax
  BY DEF Scoring!Requeue, Slots, ScorersFilled, Scoring!ScoreOf, Scoring!Message
<1>2. m \in Scoring!Message /\ m.tries < MaxTries /\ m.score = t
  BY <1>1, ScoringConstantsTyped DEF Scoring!Message
<1>3. waiting' = Scoring!Published(m) /\ dead' = dead
  BY DEF Scoring!Requeue
<1> HIDE DEF m
<1>4. /\ waiting' \in [Scoring!Message -> 0..MaxCopies] /\ dead' \subseteq Scores
      /\ TriesLeft' /\ Waits(t)' /\ \A s \in Scores : Waits(s) => Waits(s)'
  BY <1>2, <1>3, PublishKeeps DEF Slots
<1>5. ScoringTyped' /\ ScorersFilled'
  BY <1>4 DEF Scoring!Requeue, Slots, ScoringTyped, ScorersFilled
<1> QED BY <1>1, <1>4, <1>5 DEF Slots

LEMMA ReleaseSlots ==
  ASSUME Slots, NEW w \in Scorers, Scoring!Release(w),
         waiting' \in [Scoring!Message -> 0..MaxCopies], dead' \subseteq Scores, TriesLeft',
         UNCHANGED <<results, accepted, overlapped>>
  PROVE  Slots'
<1>1. ScoringTyped'
  BY DEF Scoring!Release, Slots, ScoringTyped
<1>2. ScorersFilled'
  BY DEF Scoring!Release, Slots, ScoringTyped, ScorersFilled
<1> QED BY <1>1, <1>2 DEF Slots

LEMMA AckSlots ==
  ASSUME Slots, NEW w \in Scorers, Scoring!Ack(w)
  PROVE  Slots' /\ UNCHANGED <<waiting, dead>>
<1>1. UNCHANGED <<waiting, dead, results, accepted, overlapped>> /\ Scoring!Release(w)
  BY DEF Scoring!Ack
<1>2. /\ waiting' \in [Scoring!Message -> 0..MaxCopies] /\ dead' \subseteq Scores /\ TriesLeft'
  BY <1>1 DEF Slots, ScoringTyped, TriesLeft
<1> QED BY <1>1, <1>2, ReleaseSlots

LEMMA ThrowSlots ==
  ASSUME Slots, NEW w \in Scorers, Scoring!Throw(w), NEW t, t = Scoring!ScoreOf(w)
  PROVE  /\ Slots' /\ t \in Scores /\ (locked[w] => Waits(t)')
         /\ \A s \in Scores : Waits(s) => Waits(s)'
<1>1. msg[w] \in Scoring!Message /\ t \in Scores
  BY DEF Scoring!Throw, Slots, ScorersFilled, Scoring!ScoreOf, Scoring!Message
<1>2. /\ waiting' \in [Scoring!Message -> 0..MaxCopies] /\ dead' \subseteq Scores
      /\ TriesLeft' /\ (locked[w] => Waits(t)')
      /\ \A s \in Scores : Waits(s) => Waits(s)'
  <2>1. CASE locked[w] /\ Scoring!TakeBack(w)
    BY <1>1, <2>1, TakeBackKeeps DEF Slots
  <2>2. CASE ~locked[w] /\ UNCHANGED <<waiting, dead>>
    BY <2>2 DEF Slots, ScoringTyped, TriesLeft, Waits
  <2> QED BY <2>1, <2>2 DEF Scoring!Throw
<1>3. Scoring!Release(w) /\ UNCHANGED <<results, accepted, overlapped>>
  BY DEF Scoring!Throw
<1> QED BY <1>1, <1>2, <1>3, ReleaseSlots

LEMMA LapseSlots ==
  ASSUME Slots, NEW w \in Scorers, Scoring!LockLapses(w), NEW t, t = Scoring!ScoreOf(w)
  PROVE  Slots' /\ t \in Scores /\ Waits(t)' /\ \A s \in Scores : Waits(s) => Waits(s)'
<1>1. msg[w] \in Scoring!Message
  BY DEF Scoring!LockLapses, Slots, ScorersFilled
<1>2. /\ waiting' \in [Scoring!Message -> 0..MaxCopies] /\ dead' \subseteq Scores
      /\ TriesLeft' /\ t \in Scores /\ Waits(t)' /\ \A s \in Scores : Waits(s) => Waits(s)'
  BY <1>1, TakeBackKeeps DEF Slots, Scoring!LockLapses
<1>3. ScoringTyped' /\ ScorersFilled'
  BY <1>2 DEF Scoring!LockLapses, Slots, ScoringTyped, ScorersFilled
<1> QED BY <1>2, <1>3 DEF Slots

LEMMA NextSlots ==
  ASSUME Shared, [PipelineNext]_pipelineVars
  PROVE  Slots'
<1>1. Slots /\ TypeOK
  BY DEF Shared, Slots, RegistrationInv, Base
<1>2. CASE UNCHANGED scoreVars
  BY <1>1, <1>2 DEF Slots, ScoringTyped, ScorersFilled, TriesLeft, scoreVars
<1>3. CASE Scoring!Next
  <2>1. ASSUME NEW w \in Scorers, Scoring!Requeue(w) \/ Scoring!Throw(w) \/ Scoring!LockLapses(w)
        PROVE  Slots'
    BY <1>1, <2>1, RequeueSlots, ThrowSlots, LapseSlots
  <2>2. ASSUME NEW w \in Scorers, Scoring!Read(w) \/ Scoring!Commit(w) \/ Scoring!Ack(w)
        PROVE  Slots'
    BY <1>1, <2>2, ReadSlots, CommitSlots, AckSlots
  <2> QED BY <1>1, <1>3, <2>1, <2>2, EnqueueSlots, DeliverSlots
      DEF Scoring!Next, Scoring!Handle
<1> QED BY <1>2, <1>3, PipelineSteps

-----------------------------------------------------------------------------
(* Results are of the lead that registered *)

\* A handler about to commit is as it was when it read, or has just read.
LEMMA CommitsAsRead ==
  ASSUME Shared, [PipelineNext]_pipelineVars, NEW w \in Scorers, at'[w] = "commit"
  PROVE  \/ at[w] = "commit" /\ UNCHANGED <<msg[w], target[w], row[w]>>
         \/ /\ Scoring!Read(w) /\ msg'[w] = msg[w]
            /\ ~Scoring!Scored(Scoring!ScoreOf(w))
            /\ Scoring!Resolve(RegistrationOf[Scoring!ScoreOf(w)]) # 0
            /\ target'[w] = Scoring!Resolve(RegistrationOf[Scoring!ScoreOf(w)])
            /\ row'[w] = captures[target'[w]]
<1> USE DEF Shared, ScoringTyped
<1>1. CASE UNCHANGED scoreVars
  BY <1>1 DEF scoreVars
<1>2. ASSUME NEW s \in Scores, Scoring!Enqueue(s)
      PROVE  UNCHANGED <<at, msg, target, row>>
  BY <1>2 DEF Scoring!Enqueue, Scoring!handlers
<1>3. ASSUME NEW v \in Scorers, NEW m \in Scoring!Message, Scoring!Deliver(v, m)
      PROVE  at[w] = "commit" /\ UNCHANGED <<msg[w], target[w], row[w]>>
  BY <1>3 DEF Scoring!Deliver
<1>4. ASSUME NEW v \in Scorers, v # w, Scoring!Read(v)
      PROVE  at[w] = "commit" /\ UNCHANGED <<msg[w], target[w], row[w]>>
  BY <1>4 DEF Scoring!Read
<1>5. ASSUME Scoring!Read(w)
      PROVE  /\ Scoring!Read(w) /\ msg'[w] = msg[w]
             /\ ~Scoring!Scored(Scoring!ScoreOf(w))
             /\ Scoring!Resolve(RegistrationOf[Scoring!ScoreOf(w)]) # 0
             /\ target'[w] = Scoring!Resolve(RegistrationOf[Scoring!ScoreOf(w)])
             /\ row'[w] = captures[target'[w]]
  BY <1>5 DEF Scoring!Read
<1>6. ASSUME NEW v \in Scorers,
             Scoring!Commit(v) \/ Scoring!Requeue(v) \/ Scoring!LockLapses(v)
      PROVE  at[w] = "commit" /\ UNCHANGED <<msg[w], target[w], row[w]>>
  BY <1>6 DEF Scoring!Commit, Scoring!Requeue, Scoring!LockLapses
<1>7. ASSUME NEW v \in Scorers, Scoring!Ack(v) \/ Scoring!Throw(v)
      PROVE  at[w] = "commit" /\ UNCHANGED <<msg[w], target[w], row[w]>>
  BY <1>7 DEF Scoring!Ack, Scoring!Throw, Scoring!Release
<1> QED BY <1>1, <1>2, <1>3, <1>4, <1>5, <1>6, <1>7, PipelineSteps
    DEF Scoring!Next, Scoring!Handle

\* A request that locates a capture is of its lead.
LEMMA LocatesOnLead ==
  ASSUME LeadsKept, NEW c \in Captures, NEW r, Locates(c, r)
  PROVE  OfLead(captures[c], LeadOf[r])
BY DEF LeadsKept, Locates, OfLead

LEMMA NextTargets ==
  ASSUME Shared, [PipelineNext]_pipelineVars
  PROVE  TargetsOnLead'
<1> SUFFICES ASSUME NEW w \in Scorers, at'[w] = "commit"
             PROVE  /\ target'[w] \in Captures' /\ row'[w] \in Row
                    /\ captures'[target'[w]].lead = ScoredLead(w)'
                    /\ OfLead(row'[w], ScoredLead(w)')
  BY DEF TargetsOnLead
<1>1. CASE at[w] = "commit" /\ UNCHANGED <<msg[w], target[w], row[w]>>
  <2>1. ScoredLead(w)' = ScoredLead(w)
    BY <1>1 DEF ScoredLead, Scoring!ScoreOf
  <2> QED BY <1>1, <2>1, CapturesStay DEF Shared, TargetsOnLead
<1>2. ASSUME Scoring!Read(w), msg'[w] = msg[w],
             Scoring!Resolve(RegistrationOf[Scoring!ScoreOf(w)]) # 0,
             target'[w] = Scoring!Resolve(RegistrationOf[Scoring!ScoreOf(w)]),
             row'[w] = captures[target'[w]]
      PROVE  /\ target'[w] \in Captures' /\ row'[w] \in Row
             /\ captures'[target'[w]].lead = ScoredLead(w)'
             /\ OfLead(row'[w], ScoredLead(w)')
  <2> DEFINE r == RegistrationOf[Scoring!ScoreOf(w)]
             c == Scoring!Resolve(r)
  <2>1. Scoring!ScoreOf(w) \in Scores /\ r \in Requests
    BY <1>2, ReadSlots, ScoredLeadTyped
    DEF Shared, Slots, RegistrationInv, Base
  <2>2. c \in Captures /\ Locates(c, r)
    BY <1>2, <2>1, ResolveFinds, CapturesCounted DEF Shared, RegistrationInv, Base, Captures
  <2>3. OfLead(captures[c], LeadOf[r]) /\ captures[c] \in Row
    BY <2>2, LocatesOnLead, CapturesCounted DEF Shared, RegistrationInv, Base
  <2>4. ScoredLead(w)' = LeadOf[r]
    BY <1>2 DEF ScoredLead, Scoring!ScoreOf
  <2>5. captures'[c].lead = LeadOf[r] /\ c \in Captures'
    BY <2>2, <2>3, CapturesStay DEF OfLead
  <2> QED BY <1>2, <2>3, <2>4, <2>5
<1> QED BY <1>1, <1>2, CommitsAsRead

\* Results are only added, by the handler that commits.
LEMMA ResultsGrow ==
  ASSUME Shared, [PipelineNext]_pipelineVars
  PROVE  \/ UNCHANGED results
         \/ \E w \in Scorers :
              /\ Scoring!Commit(w) /\ Scoring!ScoreOf(w) \in Scores
              /\ DOMAIN results' = 1..(Len(results) + 1)
              /\ results'[Len(results) + 1]
                   = [score |-> Scoring!ScoreOf(w), capture |-> target[w]]
              /\ \A i \in DOMAIN results : results'[i] = results[i]
<1>1. CASE UNCHANGED scoreVars
  BY <1>1 DEF scoreVars
<1>2. ASSUME NEW w \in Scorers, Scoring!Commit(w)
      PROVE  /\ Scoring!ScoreOf(w) \in Scores
             /\ DOMAIN results' = 1..(Len(results) + 1)
             /\ results'[Len(results) + 1]
                  = [score |-> Scoring!ScoreOf(w), capture |-> target[w]]
             /\ \A i \in DOMAIN results : results'[i] = results[i]
  <2>1. Scoring!ScoreOf(w) \in Scores
    BY <1>2, CommitSlots DEF Shared, Slots
  <2>2. /\ results \in Seq([score : Scores, capture : Nat])
        /\ [score |-> Scoring!ScoreOf(w), capture |-> target[w]] \in [score : Scores, capture : Nat]
    BY <2>1 DEF Shared, ScoringTyped
  <2>3. results' = Append(results, [score |-> Scoring!ScoreOf(w), capture |-> target[w]])
    BY <1>2 DEF Scoring!Commit
  <2>4. /\ results' \in Seq([score : Scores, capture : Nat])
        /\ Len(results') = Len(results) + 1
        /\ results'[Len(results) + 1]
             = [score |-> Scoring!ScoreOf(w), capture |-> target[w]]
        /\ \A i \in 1..Len(results) : results'[i] = results[i]
    BY <2>2, <2>3, RowAppended
  <2>5. DOMAIN results = 1..Len(results) /\ DOMAIN results' = 1..Len(results')
    BY <2>2, <2>4
  <2> QED BY <2>1, <2>4, <2>5
<1>3. ASSUME NEW w \in Scorers, NEW m \in Scoring!Message, Scoring!Deliver(w, m)
      PROVE  UNCHANGED results
  BY <1>3 DEF Scoring!Deliver
<1>4. ASSUME NEW s \in Scores, Scoring!Enqueue(s) PROVE UNCHANGED results
  BY <1>4 DEF Scoring!Enqueue
<1>5. ASSUME NEW w \in Scorers,
             \/ Scoring!Read(w) \/ Scoring!Requeue(w) \/ Scoring!Ack(w) \/ Scoring!Throw(w)
             \/ Scoring!LockLapses(w)
      PROVE  UNCHANGED results
  BY <1>5 DEF Scoring!Read, Scoring!Requeue, Scoring!Ack, Scoring!Throw, Scoring!LockLapses
<1> QED BY <1>1, <1>2, <1>3, <1>4, <1>5, PipelineSteps DEF Scoring!Next, Scoring!Handle

LEMMA NextResults ==
  ASSUME Shared, [PipelineNext]_pipelineVars
  PROVE  ResultsOnLead'
<1> SUFFICES ASSUME NEW i \in DOMAIN results'
             PROVE  /\ results'[i].capture \in Captures'
                    /\ captures'[results'[i].capture].lead
                         = LeadOf[RegistrationOf[results'[i].score]]
  BY DEF ResultsOnLead
<1>1. ASSUME i \in DOMAIN results, results'[i] = results[i]
      PROVE  /\ results'[i].capture \in Captures'
             /\ captures'[results'[i].capture].lead
                  = LeadOf[RegistrationOf[results'[i].score]]
  <2>1. /\ results[i].capture \in Captures
        /\ captures[results[i].capture].lead = LeadOf[RegistrationOf[results[i].score]]
    BY <1>1 DEF Shared, ResultsOnLead
  <2> QED BY <1>1, <2>1, CapturesStay
<1>2. ASSUME NEW w \in Scorers, Scoring!Commit(w),
             results'[i] = [score |-> Scoring!ScoreOf(w), capture |-> target[w]]
      PROVE  /\ results'[i].capture \in Captures'
             /\ captures'[results'[i].capture].lead
                  = LeadOf[RegistrationOf[results'[i].score]]
  <2>1. target[w] \in Captures /\ captures[target[w]].lead = ScoredLead(w)
    BY <1>2 DEF Scoring!Commit, Shared, TargetsOnLead
  <2> QED BY <1>2, <2>1, CapturesStay DEF ScoredLead
<1>3. DOMAIN results = 1..Len(results) /\ Len(results) \in Nat
  BY DEF Shared, ScoringTyped
<1>4. CASE UNCHANGED results
  BY <1>1, <1>4
<1>5. ASSUME NEW w \in Scorers, Scoring!Commit(w),
             DOMAIN results' = 1..(Len(results) + 1),
             results'[Len(results) + 1]
               = [score |-> Scoring!ScoreOf(w), capture |-> target[w]],
             \A j \in DOMAIN results : results'[j] = results[j]
      PROVE  /\ results'[i].capture \in Captures'
             /\ captures'[results'[i].capture].lead
                  = LeadOf[RegistrationOf[results'[i].score]]
  <2>1. i \in DOMAIN results \/ i = Len(results) + 1
    BY <1>3, <1>5
  <2> QED BY <1>1, <1>2, <1>5, <2>1
<1> QED BY <1>4, <1>5, ResultsGrow

LEMMA NextShared ==
  ASSUME Shared, [PipelineNext]_pipelineVars
  PROVE  Shared'
BY NextRegistrationInv, NextSlots, NextTargets, NextResults DEF Shared, Slots

-----------------------------------------------------------------------------
(* No score is dropped *)

LEMMA ScoredStays ==
  ASSUME Shared, [PipelineNext]_pipelineVars, NEW s, Scoring!Scored(s)
  PROVE  Scoring!Scored(s)'
<1>1. PICK i \in DOMAIN results : results[i].score = s
  BY DEF Scoring!Scored
<1>2. DOMAIN results = 1..Len(results) /\ Len(results) \in Nat
  BY DEF Shared, ScoringTyped
<1>3. CASE UNCHANGED results
  BY <1>1, <1>3 DEF Scoring!Scored
<1>4. ASSUME NEW w \in Scorers, DOMAIN results' = 1..(Len(results) + 1),
             \A j \in DOMAIN results : results'[j] = results[j]
      PROVE  Scoring!Scored(s)'
  BY <1>1, <1>2, <1>4 DEF Scoring!Scored
<1> QED BY <1>3, <1>4, ResultsGrow

Handled(s) ==
  \E w \in Scorers :
    at[w] \in {"read", "commit", "requeue"} /\ locked[w] /\ Scoring!ScoreOf(w) = s

\* What a handler does to the scores in hand: those of the others stay.
LEMMA OthersHandled ==
  ASSUME NEW w \in Scorers, NEW s, Scoring!ScoreOf(w) # s, Handled(s),
         \A v \in Scorers : v # w => UNCHANGED <<at[v], locked[v], msg[v]>>
  PROVE  Handled(s)'
<1>1. PICK v \in Scorers :
        at[v] \in {"read", "commit", "requeue"} /\ locked[v] /\ Scoring!ScoreOf(v) = s
  BY DEF Handled
<1>2. v # w
  BY <1>1
<1>3. UNCHANGED <<at[v], locked[v], msg[v]>>
  BY <1>2
<1> QED BY <1>1, <1>3 DEF Handled, Scoring!ScoreOf

\* If the score a handler gives up is in hand without it, all are.
LEMMA GivesUp ==
  ASSUME Shared, [PipelineNext]_pipelineVars, AllInHand, NEW w \in Scorers,
         \A v \in Scorers : v # w => UNCHANGED <<at[v], locked[v], msg[v]>>,
         accepted' = accepted,
         \A s \in Scores : Waits(s) => Waits(s)',
         NEW t, t = Scoring!ScoreOf(w),
         \/ Scoring!Scored(t)' \/ Waits(t)'
         \/ ~locked[w] \/ at[w] \notin {"read", "commit", "requeue"}
  PROVE  AllInHand'
<1> SUFFICES ASSUME NEW s \in accepted \ Offline PROVE InHand(s)'
  BY DEF AllInHand
<1>1. InHand(s) /\ s \in Scores
  BY DEF AllInHand, Shared, ScoringTyped
<1>2. InHand(s) <=> Scoring!Scored(s) \/ Waits(s) \/ Handled(s)
  BY DEF InHand, Waits, Handled
<1>3. Scoring!Scored(s)' \/ Waits(s)' \/ Handled(s)' => InHand(s)'
  BY DEF InHand, Waits, Handled
<1>4. CASE Scoring!Scored(s) \/ Waits(s)
  BY <1>1, <1>3, <1>4, ScoredStays
<1>5. CASE Handled(s) /\ t # s
  BY <1>3, <1>5, OthersHandled
<1>6. CASE Handled(s) /\ t = s /\ (Scoring!Scored(t)' \/ Waits(t)')
  BY <1>3, <1>6
<1>7. CASE Handled(s) /\ (~locked[w] \/ at[w] \notin {"read", "commit", "requeue"})
  <2>1. PICK v \in Scorers :
          at[v] \in {"read", "commit", "requeue"} /\ locked[v] /\ Scoring!ScoreOf(v) = s
    BY <1>7 DEF Handled
  <2>2. v # w
    BY <1>7, <2>1
  <2>3. UNCHANGED <<at[v], locked[v], msg[v]>>
    BY <2>2
  <2>4. Handled(s)'
    BY <2>1, <2>3 DEF Handled, Scoring!ScoreOf
  <2> QED BY <1>3, <2>4
<1> QED BY <1>1, <1>2, <1>4, <1>5, <1>6, <1>7

LEMMA NextInHand ==
  ASSUME Shared, AllInHand, [PipelineNext]_pipelineVars
  PROVE  AllInHand'
<1>0. Slots /\ TypeOK
  BY DEF Shared, Slots, RegistrationInv, Base
<1> USE DEF Slots, ScoringTyped
<1>1. CASE UNCHANGED scoreVars
  BY <1>1 DEF scoreVars, AllInHand, InHand, Scoring!Scored, Scoring!ScoreOf
<1>2. ASSUME NEW s \in Scores, Scoring!Enqueue(s) PROVE AllInHand'
  <2>1. /\ accepted' = accepted \cup {s}
        /\ UNCHANGED <<results, at, locked, msg>>
    BY <1>2 DEF Scoring!Enqueue, Scoring!handlers
  <2>2. /\ s \notin Offline => Waits(s)'
        /\ \A t \in Scores : Waits(t) => Waits(t)'
    BY <1>0, <1>2, EnqueueSlots
  <2>3. ASSUME NEW t \in accepted \ Offline PROVE InHand(t)'
    <3>1. Scoring!Scored(t) \/ Waits(t) \/ Handled(t)
      BY DEF AllInHand, InHand, Waits, Handled
    <3>2. Scoring!Scored(t)' \/ Waits(t)' \/ Handled(t)'
      BY <1>0, <2>1, <2>2, <3>1 DEF Handled, Scoring!Scored, Scoring!ScoreOf
    <3> QED BY <3>2 DEF InHand, Waits, Handled
  <2>4. s \notin Offline => InHand(s)'
    BY <2>2 DEF InHand, Waits
  <2> QED BY <2>1, <2>3, <2>4 DEF AllInHand
<1>3. ASSUME NEW w \in Scorers, NEW m \in Scoring!Message, Scoring!Deliver(w, m)
      PROVE  AllInHand'
  <2>1. /\ m.score \in Scores
        /\ at' = [at EXCEPT ![w] = "read"] /\ locked' = [locked EXCEPT ![w] = TRUE]
        /\ at[w] = "idle" /\ msg'[w].score = m.score
        /\ \A v \in Scorers : v # w => msg'[v] = msg[v]
        /\ \A s \in Scores : Waits(s) => Waits(s)' \/ s = m.score
    BY <1>0, <1>3, DeliverSlots
  <2>2. UNCHANGED <<results, accepted>>
    BY <1>3 DEF Scoring!Deliver
  <2>3. ASSUME NEW s \in accepted \ Offline PROVE InHand(s)'
    <3>1. Scoring!Scored(s) \/ Waits(s) \/ Handled(s)
      BY DEF AllInHand, InHand, Waits, Handled
    <3>2. s = m.score => Handled(s)'
      <4>1. at'[w] = "read" /\ locked'[w]
        BY <1>0, <2>1
      <4> QED BY <2>1, <4>1 DEF Handled, Scoring!ScoreOf
    <3>3. Handled(s) => Handled(s)'
      <4> SUFFICES ASSUME NEW v \in Scorers,
                          at[v] \in {"read", "commit", "requeue"}, locked[v],
                          Scoring!ScoreOf(v) = s
                   PROVE  Handled(s)'
        BY DEF Handled
      <4>1. v # w
        BY <2>1
      <4>2. UNCHANGED <<at[v], locked[v], msg[v]>>
        BY <1>0, <2>1, <4>1
      <4> QED BY <4>2 DEF Handled, Scoring!ScoreOf
    <3>4. Scoring!Scored(s) => Scoring!Scored(s)'
      BY <2>2 DEF Scoring!Scored
    <3>5. Scoring!Scored(s)' \/ Waits(s)' \/ Handled(s)'
      BY <1>0, <2>1, <3>1, <3>2, <3>3, <3>4
    <3> QED BY <3>5 DEF InHand, Waits, Handled
  <2> QED BY <2>2, <2>3 DEF AllInHand
<1>4. ASSUME NEW w \in Scorers, Scoring!Read(w) PROVE AllInHand'
  <2>1. /\ UNCHANGED <<results, accepted, waiting, dead, msg, locked>> /\ at[w] = "read"
        /\ \/ at' = [at EXCEPT ![w] = "ack"] /\ Scoring!Scored(Scoring!ScoreOf(w))
           \/ at' = [at EXCEPT ![w] = "commit"] \/ at' = [at EXCEPT ![w] = "requeue"]
    BY <1>4 DEF Scoring!Read
  <2>2. \A s \in Scores : Waits(s) => Waits(s)'
    BY <2>1 DEF Waits
  <2>3. CASE at' = [at EXCEPT ![w] = "ack"] /\ Scoring!Scored(Scoring!ScoreOf(w))
    <3>1. \A v \in Scorers : v # w => UNCHANGED <<at[v], locked[v], msg[v]>>
      BY <1>0, <2>1, <2>3
    <3>2. \A t : t = Scoring!ScoreOf(w) => Scoring!Scored(t)'
      BY <2>3, ScoredStays
    <3> QED BY <2>1, <2>2, <3>1, <3>2, GivesUp
  <2>4. CASE at' = [at EXCEPT ![w] = "commit"] \/ at' = [at EXCEPT ![w] = "requeue"]
    <3>1. \A v \in Scorers : at[v] \in {"read", "commit", "requeue"}
                               => at'[v] \in {"read", "commit", "requeue"}
      BY <1>0, <2>4
    <3> QED BY <2>1, <3>1 DEF AllInHand, InHand, Scoring!Scored, Scoring!ScoreOf
  <2> QED BY <2>1, <2>3, <2>4
<1>5. ASSUME NEW w \in Scorers, Scoring!Commit(w) PROVE AllInHand'
  <2>1. /\ UNCHANGED <<accepted, waiting, dead, msg, locked>>
        /\ at' = [at EXCEPT ![w] = "ack"]
        /\ results' = Append(results, [score |-> Scoring!ScoreOf(w), capture |-> target[w]])
    BY <1>5 DEF Scoring!Commit
  <2>2. \A s \in Scores : Waits(s) => Waits(s)'
    BY <2>1 DEF Waits
  <2>3. \A v \in Scorers : v # w => UNCHANGED <<at[v], locked[v], msg[v]>>
    BY <1>0, <2>1
  <2>4. ASSUME NEW t, t = Scoring!ScoreOf(w) PROVE Scoring!Scored(t)'
    <3>1. /\ results \in Seq([score : Scores, capture : Nat])
          /\ [score |-> t, capture |-> target[w]] \in [score : Scores, capture : Nat]
      BY <1>0, <1>5, <2>4, CommitSlots
    <3>2. /\ Len(results) + 1 \in DOMAIN results'
          /\ results'[Len(results) + 1] = [score |-> t, capture |-> target[w]]
      BY <2>1, <2>4, <3>1, RowAppended
    <3> QED BY <3>2 DEF Scoring!Scored
  <2> QED BY <2>1, <2>2, <2>3, <2>4, GivesUp
<1>6. ASSUME NEW w \in Scorers, Scoring!Requeue(w) PROVE AllInHand'
  <2>1. at' = [at EXCEPT ![w] = "ack"] /\ UNCHANGED <<accepted, msg, locked>>
    BY <1>6 DEF Scoring!Requeue
  <2>2. \A v \in Scorers : v # w => UNCHANGED <<at[v], locked[v], msg[v]>>
    BY <1>0, <2>1
  <2>3. \A t : t = Scoring!ScoreOf(w) =>
          Waits(t)' /\ \A s \in Scores : Waits(s) => Waits(s)'
    BY <1>0, <1>6, RequeueSlots
  <2> QED BY <2>1, <2>2, <2>3, GivesUp
<1>7. ASSUME NEW w \in Scorers, Scoring!Ack(w) PROVE AllInHand'
  <2>1. at[w] = "ack" /\ accepted' = accepted
    BY <1>7 DEF Scoring!Ack
  <2>2. \A v \in Scorers : v # w => UNCHANGED <<at[v], locked[v], msg[v]>>
    BY <1>0, <1>7 DEF Scoring!Ack, Scoring!Release
  <2>3. \A s \in Scores : Waits(s) => Waits(s)'
    BY <1>0, <1>7, AckSlots DEF Waits
  <2> QED BY <2>1, <2>2, <2>3, GivesUp
<1>8. ASSUME NEW w \in Scorers, Scoring!Throw(w) PROVE AllInHand'
  <2>1. accepted' = accepted
    BY <1>8 DEF Scoring!Throw
  <2>2. \A v \in Scorers : v # w => UNCHANGED <<at[v], locked[v], msg[v]>>
    BY <1>0, <1>8 DEF Scoring!Throw, Scoring!Release
  <2>3. \A t : t = Scoring!ScoreOf(w) =>
          /\ locked[w] => Waits(t)'
          /\ \A s \in Scores : Waits(s) => Waits(s)'
    BY <1>0, <1>8, ThrowSlots
  <2> QED BY <2>1, <2>2, <2>3, GivesUp
<1>9. ASSUME NEW w \in Scorers, Scoring!LockLapses(w) PROVE AllInHand'
  <2>1. accepted' = accepted
    BY <1>9 DEF Scoring!LockLapses
  <2>2. \A v \in Scorers : v # w => UNCHANGED <<at[v], locked[v], msg[v]>>
    BY <1>0, <1>9 DEF Scoring!LockLapses
  <2>3. \A t : t = Scoring!ScoreOf(w) =>
          Waits(t)' /\ \A s \in Scores : Waits(s) => Waits(s)'
    BY <1>0, <1>9, LapseSlots
  <2> QED BY <2>1, <2>2, <2>3, GivesUp
<1> QED BY <1>1, <1>2, <1>3, <1>4, <1>5, <1>6, <1>7, <1>8, <1>9, PipelineSteps
    DEF Scoring!Next, Scoring!Handle

-----------------------------------------------------------------------------
(* One result, unless two handlers held the score *)

\* A handler at work was so before, with its message, or is given one now.
LEMMA ScorerBefore ==
  ASSUME Shared, [PipelineNext]_pipelineVars
  PROVE  /\ overlapped \subseteq overlapped'
         /\ \/ \A w \in Scorers : at'[w] # "idle" => at[w] # "idle" /\ msg'[w] = msg[w]
            \/ \E v \in Scorers, m \in Scoring!Message : Scoring!Deliver(v, m)
<1> USE DEF Shared, ScoringTyped
<1>1. CASE UNCHANGED scoreVars
  BY <1>1 DEF scoreVars
<1>2. ASSUME NEW s \in Scores, Scoring!Enqueue(s)
      PROVE  UNCHANGED <<at, msg, overlapped>>
  BY <1>2 DEF Scoring!Enqueue, Scoring!handlers
<1>3. ASSUME NEW v \in Scorers, NEW m \in Scoring!Message, Scoring!Deliver(v, m)
      PROVE  overlapped \subseteq overlapped'
  BY <1>3 DEF Scoring!Deliver
<1>4. ASSUME NEW v \in Scorers,
             \/ Scoring!Read(v) \/ Scoring!Commit(v) \/ Scoring!Requeue(v)
             \/ Scoring!LockLapses(v)
      PROVE  /\ UNCHANGED overlapped
             /\ \A w \in Scorers : at'[w] # "idle" => at[w] # "idle" /\ msg'[w] = msg[w]
  <2>1. UNCHANGED <<msg, overlapped>>
    BY <1>4 DEF Scoring!Read, Scoring!Commit, Scoring!Requeue, Scoring!LockLapses
  <2>2. ASSUME NEW w \in Scorers, at'[w] # "idle" PROVE at[w] # "idle"
    BY <1>4, <2>2 DEF Scoring!Read, Scoring!Commit, Scoring!Requeue, Scoring!LockLapses
  <2> QED BY <2>1, <2>2
<1>5. ASSUME NEW v \in Scorers, Scoring!Ack(v) \/ Scoring!Throw(v)
      PROVE  /\ UNCHANGED overlapped
             /\ \A w \in Scorers : at'[w] # "idle" => at[w] # "idle" /\ msg'[w] = msg[w]
  BY <1>5 DEF Scoring!Ack, Scoring!Throw, Scoring!Release
<1> QED BY <1>1, <1>2, <1>3, <1>4, <1>5, PipelineSteps DEF Scoring!Next, Scoring!Handle

LEMMA NextScorersApart ==
  ASSUME Shared, ScorersApart, [PipelineNext]_pipelineVars
  PROVE  ScorersApart'
<1> USE DEF Scoring!ScoreOf
<1>1. ASSUME \A w \in Scorers : at'[w] # "idle" => at[w] # "idle" /\ msg'[w] = msg[w]
      PROVE  ScorersApart'
  BY <1>1, ScorerBefore DEF ScorersApart
<1>2. ASSUME NEW v \in Scorers, NEW m \in Scoring!Message, Scoring!Deliver(v, m)
      PROVE  ScorersApart'
  <2>1. /\ at' = [at EXCEPT ![v] = "read"] /\ at[v] = "idle" /\ msg'[v].score = m.score
        /\ \A w \in Scorers : w # v => msg'[w] = msg[w]
    BY <1>2, DeliverSlots DEF Shared, Slots
  <2>2. \A w \in Scorers : w # v => at'[w] = at[w]
    BY <2>1 DEF Shared, ScoringTyped
  <2>3. \A w \in Scorers : at[w] # "idle" /\ msg[w].score = m.score => m.score \in overlapped'
    BY <1>2 DEF Scoring!Deliver
  <2> QED BY <2>1, <2>2, <2>3, ScorerBefore DEF ScorersApart
<1> QED BY <1>1, <1>2, ScorerBefore

LEMMA NextCommitsFirst ==
  ASSUME Shared, ScorersApart, CommitsFirst, [PipelineNext]_pipelineVars
  PROVE  CommitsFirst'
<1> SUFFICES ASSUME NEW w \in Scorers, at'[w] = "commit", NEW t, t = Scoring!ScoreOf(w)',
                    Scoring!Scored(t)'
             PROVE  t \in overlapped'
  BY DEF CommitsFirst
<1>1. CASE at[w] = "commit" /\ msg'[w] = msg[w]
  <2>1. t = Scoring!ScoreOf(w)
    BY <1>1 DEF Scoring!ScoreOf
  <2>2. CASE Scoring!Scored(t)
    BY <1>1, <2>1, <2>2, ScorerBefore DEF CommitsFirst
  <2>3. CASE ~Scoring!Scored(t)
    <3>1. PICK i \in DOMAIN results' : results'[i].score = t
      BY DEF Scoring!Scored
    <3>2. DOMAIN results = 1..Len(results) /\ Len(results) \in Nat
      BY DEF Shared, ScoringTyped
    <3>3. ~UNCHANGED results
      BY <2>3, <3>1 DEF Scoring!Scored
    <3>4. ASSUME NEW v \in Scorers, Scoring!Commit(v),
                 DOMAIN results' = 1..(Len(results) + 1),
                 results'[Len(results) + 1]
                   = [score |-> Scoring!ScoreOf(v), capture |-> target[v]],
                 \A j \in DOMAIN results : results'[j] = results[j]
          PROVE  t \in overlapped'
      <4>1. i \notin DOMAIN results
        BY <2>3, <3>1, <3>4 DEF Scoring!Scored
      <4>2. i = Len(results) + 1
        BY <3>1, <3>2, <3>4, <4>1
      <4>3. Scoring!ScoreOf(v) = t
        BY <3>1, <3>4, <4>2
      <4>4. at[v] = "commit" /\ at'[v] = "ack"
        BY <3>4 DEF Scoring!Commit, Shared, ScoringTyped
      <4>5. v # w
        BY <4>4
      <4> QED BY <1>1, <2>1, <4>3, <4>4, <4>5, ScorerBefore DEF ScorersApart
    <3> QED BY <3>3, <3>4, ResultsGrow
  <2> QED BY <2>2, <2>3
<1>2. CASE Scoring!Read(w) /\ msg'[w] = msg[w] /\ ~Scoring!Scored(Scoring!ScoreOf(w))
  <2>1. t = Scoring!ScoreOf(w)
    BY <1>2 DEF Scoring!ScoreOf
  <2>2. results' = results
    BY <1>2 DEF Scoring!Read
  <2> QED BY <1>2, <2>1, <2>2 DEF Scoring!Scored
<1> QED BY <1>1, <1>2, CommitsAsRead

LEMMA NextOneResult ==
  ASSUME Shared, CommitsFirst, OneResultUnlessOverlapped, [PipelineNext]_pipelineVars
  PROVE  OneResultUnlessOverlapped'
<1> USE DEF OneResultUnlessOverlapped, Scoring!OneResultUnlessOverlapped
<1>1. DOMAIN results = 1..Len(results) /\ Len(results) \in Nat
  BY DEF Shared, ScoringTyped
<1>2. CASE UNCHANGED results
  BY <1>2, ScorerBefore
<1>3. ASSUME NEW w \in Scorers, Scoring!Commit(w), NEW t, t = Scoring!ScoreOf(w),
             DOMAIN results' = 1..(Len(results) + 1),
             results'[Len(results) + 1] = [score |-> t, capture |-> target[w]],
             \A j \in DOMAIN results : results'[j] = results[j]
      PROVE  OneResultUnlessOverlapped'
  <2>1. DOMAIN results' = DOMAIN results \cup {Len(results) + 1}
    BY <1>1, <1>3
  <2>2. ASSUME NEW j \in DOMAIN results, results[j].score = t PROVE t \in overlapped'
    <3>1. Scoring!Scored(t)
      BY <2>2 DEF Scoring!Scored
    <3>2. at[w] = "commit"
      BY <1>3 DEF Scoring!Commit
    <3> QED BY <1>3, <3>1, <3>2, ScorerBefore DEF CommitsFirst
  <2>3. results'[Len(results) + 1].score = t
    BY <1>3
  <2> QED BY <1>3, <2>1, <2>2, <2>3, ScorerBefore
<1> QED BY <1>2, <1>3, ResultsGrow

-----------------------------------------------------------------------------
(* Leads on which registration and scoring were never at work at once *)

\* The captures of such a lead are not changed by the scoring, and none of
\* another lead takes a request of it.
LEMMA ScoringSparesUnmixed ==
  ASSUME Shared, RowsCurrent, Scoring!Next, NEW l, l \notin mixed
  PROVE  /\ Len(captures') = Len(captures)
         /\ \A c \in Captures :
              \/ captures'[c] = captures[c]
              \/ captures[c].lead # l /\ LeadOf[captures'[c].requestId] # l
<1>1. CASE UNCHANGED captures
  BY <1>1
<1>2. ASSUME NEW w \in Scorers, Scoring!Commit(w), target[w] \in Captures,
             captures' = [captures EXCEPT ![target[w]] = row[w]]
      PROVE  /\ Len(captures') = Len(captures)
             /\ \A c \in Captures :
                  \/ captures'[c] = captures[c]
                  \/ captures[c].lead # l /\ LeadOf[captures'[c].requestId] # l
  <2>1. /\ Len(captures') = Len(captures) /\ captures'[target[w]] = row[w]
        /\ \A c \in Captures : c # target[w] => captures'[c] = captures[c]
    BY <1>2, CommitWrites
  <2>2. at[w] = "commit"
    BY <1>2 DEF Scoring!Commit
  <2>3. captures[target[w]].lead = ScoredLead(w) /\ LeadOf[row[w].requestId] = ScoredLead(w)
    BY <2>2 DEF Shared, TargetsOnLead, OfLead
  <2>4. ScoredLead(w) = l => row[w] = captures[target[w]]
    BY <2>2 DEF RowsCurrent
  <2> QED BY <2>1, <2>3, <2>4
<1> QED BY <1>1, <1>2, ScoringWrites

LEMMA NextRows ==
  ASSUME Shared, MixedNoted, RowsCurrent, [PipelineNext]_pipelineVars
  PROVE  RowsCurrent'
<1> SUFFICES ASSUME NEW w \in Scorers, at'[w] = "commit", ScoredLead(w)' \notin mixed'
             PROVE  row'[w] = captures'[target'[w]]
  BY DEF RowsCurrent
<1>1. ASSUME at[w] = "commit", UNCHANGED <<msg[w], target[w], row[w]>>
      PROVE  row'[w] = captures'[target'[w]]
  <2>1. ScoredLead(w)' = ScoredLead(w)
    BY <1>1 DEF ScoredLead, Scoring!ScoreOf
  <2>2. ScoredLead(w) \notin mixed
    BY <2>1, PipelineSteps
  <2>3. row[w] = captures[target[w]]
    BY <1>1, <2>2 DEF RowsCurrent
  <2>4. target[w] \in Captures /\ captures[target[w]].lead = ScoredLead(w)
    BY <1>1 DEF Shared, TargetsOnLead
  <2>5. ASSUME [Next]_vars, captures'[target[w]] # captures[target[w]] PROVE FALSE
    <3>1. Base /\ LeadsKept
      BY DEF Shared, RegistrationInv
    <3>2. PICK v \in Consumers : Busy(v) /\ captures[target[w]].lead = LeadOf[request[v]]
      BY <2>4, <2>5, <3>1, CaptureWritten
    <3>3. ScoredLead(w) \in Mixed
      BY <1>1, <2>4, <3>2 DEF Mixed
    <3> QED BY <2>2, <3>3 DEF MixedNoted
  <2>6. ASSUME Scoring!Next PROVE captures'[target[w]] = captures[target[w]]
    BY <2>2, <2>4, <2>6, ScoringSparesUnmixed
  <2> QED BY <1>1, <2>3, <2>5, <2>6, PipelineSteps
<1>2. ASSUME Scoring!Read(w), row'[w] = captures[target'[w]]
      PROVE  row'[w] = captures'[target'[w]]
  <2>1. captures' = captures
    BY <1>2 DEF Scoring!Read
  <2> QED BY <1>2, <2>1
<1> QED BY <1>1, <1>2, CommitsAsRead

LEMMA NextReadsUnmixed ==
  ASSUME Shared, RowsCurrent, ReadsCurrentUnmixed, [PipelineNext]_pipelineVars
  PROVE  ReadsCurrentUnmixed'
<1> SUFFICES ASSUME NEW l \in Leads, l \notin crowded' \cup mixed'
             PROVE  ReadsCurrentOf(l)'
  BY DEF ReadsCurrentUnmixed
<1>1. Base /\ LeadsKept /\ TakingTurns /\ l \notin mixed
  BY PipelineSteps DEF Shared, RegistrationInv
<1>2. CASE [Next]_vars
  <2>1. ReadsCurrentOf(l)
    BY <1>1, <1>2, BusyBefore DEF ReadsCurrentUnmixed
  <2> QED BY <1>1, <1>2, <2>1, NextReadsOf
<1>3. CASE Scoring!Next /\ UNCHANGED <<handlerVars, pastVars>>
  <2>1. ReadsCurrentOf(l) /\ UNCHANGED <<pc, request, db, found, snapshot>>
    BY <1>1, <1>3 DEF ReadsCurrentUnmixed, handlerVars, pastVars
  <2>2. /\ Len(captures') = Len(captures)
        /\ \A c \in Captures :
             \/ captures'[c] = captures[c]
             \/ captures[c].lead # l /\ LeadOf[captures'[c].requestId] # l
    BY <1>1, <1>3, ScoringSparesUnmixed
  <2>3. ASSUME NEW w \in Consumers, Busy(w), LeadOf[request[w]] = l
        PROVE  /\ \A c \in Captures :
                    captures'[c].requestId = request[w] => captures'[c] = captures[c]
               /\ found[w] # 0 => captures'[found[w]] = captures[found[w]]
    <3>1. found[w] # 0 => found[w] \in Captures /\ captures[found[w]].lead = l
      BY <1>1, <2>3, CapturesCounted DEF Base, TypeOK, LeadsKept, Captures
    <3> QED BY <2>2, <2>3, <3>1
  <2>4. ASSUME NEW w \in Consumers, db[w] = "ok" \/ pc[w] = "save" PROVE found[w] # 0
    BY <1>1, <2>4 DEF Base, StepsInOrder
  <2> QED BY <2>1, <2>2, <2>3, <2>4 DEF ReadsCurrentOf, Captures, Busy
<1> QED BY <1>2, <1>3, PipelineSteps

LEMMA NextLocated2 ==
  ASSUME Shared, RowsCurrent, ReadsCurrentUnmixed, CompletedLocated2,
         [PipelineNext]_pipelineVars
  PROVE  CompletedLocated2'
<1> SUFFICES ASSUME NEW r \in Requests, Completed(r)', LeadOf[r] \notin crowded' \cup mixed'
             PROVE  Located(r)'
  BY DEF CompletedLocated2
<1>1. Base /\ LeadsKept /\ LeadOf[r] \in Leads /\ LeadOf[r] \notin mixed
  BY PipelineSteps, ConstantsTyped DEF Shared, RegistrationInv
<1>2. CASE [Next]_vars
  <2>1. LeadOf[r] \notin crowded
    BY <1>1, <1>2, BusyBefore
  <2>2. ReadsCurrentOf(LeadOf[r]) /\ (Completed(r) => Located(r))
    BY <1>1, <2>1 DEF ReadsCurrentUnmixed, CompletedLocated2
  <2> QED BY <1>1, <1>2, <2>2, NextLocatedOf
<1>3. CASE Scoring!Next /\ UNCHANGED <<busVars, pastVars>>
  <2>1. Completed(r) /\ LeadOf[r] \notin crowded
    BY <1>3 DEF Completed, busVars, pastVars
  <2>2. PICK c \in Captures : Locates(c, r)
    BY <1>1, <2>1 DEF CompletedLocated2, Located
  <2>3. captures[c].lead = LeadOf[r]
    BY <1>1, <2>2, LocatesOnLead DEF OfLead
  <2>4. Len(captures') = Len(captures) /\ captures'[c] = captures[c]
    BY <1>1, <1>3, <2>3, ScoringSparesUnmixed
  <2> QED BY <2>2, <2>4 DEF Located, Locates, Captures
<1> QED BY <1>2, <1>3, PipelineSteps

-----------------------------------------------------------------------------
(* The theorems about both *)

LEMMA PipelineInitInv == PipelineInit => PipelineInv
<1> SUFFICES ASSUME PipelineInit PROVE PipelineInv
  OBVIOUS
<1>1. Inv /\ mixed = {} /\ results = <<>> /\ accepted = {} /\ crowded = {}
  BY InitInv DEF PipelineInit, Init, Scoring!Init
<1>2. RegistrationInv
  BY <1>1 DEF Inv, RegistrationInv
<1>3. \A w \in Scorers : at[w] = "idle" /\ locked[w] = FALSE
  BY DEF PipelineInit, Scoring!Init
<1>4. results \in Seq([score : Scores, capture : Nat]) /\ DOMAIN results = {}
  BY <1>1
<1>5. ScoringTyped
  BY <1>4, ScoringConstantsTyped DEF PipelineInit, Scoring!Init, ScoringTyped
<1>6. Shared
  BY <1>2, <1>3, <1>4, <1>5
  DEF Shared, ScorersFilled, TriesLeft, TargetsOnLead, ResultsOnLead, PipelineInit, Scoring!Init
<1>7. Mixed = {}
  BY <1>3 DEF Mixed
<1>8. ReadsCurrentUnmixed
  BY <1>1 DEF Inv, ReadsCurrent, ReadsCurrentUnmixed
<1>9. CompletedLocated2
  BY <1>1 DEF Inv, LocatedUnlessCrowded, CompletedLocated2, Located
<1> QED BY <1>1, <1>3, <1>4, <1>6, <1>7, <1>8, <1>9
    DEF PipelineInv, AllInHand, ScorersApart, CommitsFirst, MixedNoted, RowsCurrent,
        OneResultUnlessOverlapped, Scoring!OneResultUnlessOverlapped

LEMMA NextPipelineInv ==
  ASSUME PipelineInv, [PipelineNext]_pipelineVars
  PROVE  PipelineInv'
<1>1. MixedNoted'
  BY PipelineSteps DEF PipelineInv
<1> QED BY <1>1, NextShared, NextInHand, NextScorersApart, NextCommitsFirst, NextOneResult,
       NextRows, NextReadsUnmixed, NextLocated2 DEF PipelineInv

LEMMA PipelineInvariance == PipelineSpec => []PipelineInv
BY PipelineInitInv, NextPipelineInv, PTL DEF PipelineSpec

\* No accepted score that is sent is dropped: until its result is stored, a message
\* of it waits, is locked by a handler or is dead-lettered.
THEOREM ScoresNotDropped == PipelineSpec => []ScoreNotDropped
<1>1. PipelineInv => ScoreNotDropped
  <2> SUFFICES ASSUME PipelineInv, NEW s \in accepted \ Offline
               PROVE  Scoring!Scored(s) \/ s \in dead \/ Scoring!InFlight(s)
    BY DEF ScoreNotDropped, Scoring!ScoreNotDropped
  <2>1. InHand(s)
    BY DEF PipelineInv, AllInHand
  <2>2. \A w \in Scorers : at[w] \in {"read", "commit", "requeue"} => at[w] # "idle"
    OBVIOUS
  <2> QED BY <2>1, <2>2 DEF InHand, Scoring!InFlight
<1> QED BY PipelineInvariance, <1>1, PTL

\* A request is scored once unless two handlers held it at the same time.
THEOREM ScoredOnce == PipelineSpec => []OneResultUnlessOverlapped
<1>1. PipelineInv => OneResultUnlessOverlapped
  BY DEF PipelineInv
<1> QED BY PipelineInvariance, <1>1, PTL

\* A result is attributed to the lead that registered, whatever was merged,
\* retried or rewritten from old snapshots in between.
THEOREM ResultsKeepLead == PipelineSpec => []ResultOnOwnLead
<1>1. PipelineInv => ResultOnOwnLead
  BY DEF PipelineInv, Shared, ResultsOnLead, ResultOnOwnLead
<1> QED BY PipelineInvariance, <1>1, PTL

\* The scores, which save captures as they read them, never write one lead
\* over another either.
THEOREM CapturesKeepLeadInPipeline == PipelineSpec => []CaptureKeepsLead
<1>1. PipelineInv => CaptureKeepsLead
  BY DEF PipelineInv, Shared, RegistrationInv, LeadsKept, OfLead, CaptureKeepsLead
<1> QED BY PipelineInvariance, <1>1, PTL

\* A completed registration is synchronised whatever the scores do beside it.
THEOREM CompletedSyncedInPipeline == PipelineSpec => []CompletedIsSynced
<1>1. PipelineInv => CompletedIsSynced
  BY DEF PipelineInv, Shared, RegistrationInv
<1> QED BY PipelineInvariance, <1>1, PTL

\* Once a registration is completed its scores find their capture, unless
\* handlers of the same lead overlapped.
THEOREM CompletedResolved == PipelineSpec => []CompletedIsResolved
<1>1. PipelineInv => CompletedIsResolved
  <2> SUFFICES ASSUME PipelineInv, NEW r \in Requests, Completed(r),
                      LeadOf[r] \notin crowded \cup mixed
               PROVE  Scoring!Resolve(r) # 0
    BY DEF CompletedIsResolved
  <2>1. TypeOK /\ Located(r)
    BY DEF PipelineInv, Shared, RegistrationInv, Base, CompletedLocated2
  <2> QED BY <2>1, ResolveFinds
<1> QED BY PipelineInvariance, <1>1, PTL
=============================================================================
