-------------------------- MODULE LeadRegistration --------------------------
(***************************************************************************)
(* The registration of leads: POST lead-registration/start publishes a     *)
(* request, consumers of the queue send the lead to ActiveCampaign and     *)
(* persist it as a capture, both at once, then attach the answer of        *)
(* ActiveCampaign to the capture and complete the message.                 *)
(*                                                                         *)
(* A transaction reads, later commits: READ COMMITTED lets other           *)
(* transactions commit in between.  save() of an entity compares it with   *)
(* the row of that moment and writes the columns that differ, so the row   *)
(* is rewritten from the snapshot the entity was read as.                  *)
(***************************************************************************)
EXTENDS Integers, Sequences, FiniteSets

CONSTANTS
  Requests,       \* requestId of each call of the start endpoint
  Leads,          \* what leadRegistrationDedupeKey tells apart
  LeadOf,         \* LeadOf[r]: the lead the payload of r describes
  Consumers,      \* handler slots of the registration consumers
  MaxDeliveries,  \* deliveries of one message before it is dead-lettered
  MaxFaults,      \* bound: lost message locks
  NoRequest,      \* what an idle handler works on
  NoRow           \* the snapshot of a capture still to be inserted

ASSUME RegistrationConstants ==
  /\ LeadOf \in [Requests -> Leads]
  /\ MaxDeliveries \in Nat \ {0}
  /\ MaxFaults \in Nat
  /\ NoRequest \notin Requests

VARIABLES
  \* the table of captures, in order of created_at; for each whether it is
  \* younger than the dedupe window, and the request that inserted it
  captures, recent, inserter,
  \* the messages of the queue, and how often each was delivered
  message, deliveries,
  \* the contacts of ActiveCampaign (external)
  contacts,
  \* the handlers
  pc, request, held, ac, db, found, snapshot, seen,
  \* what the properties need to know of the past
  displaced, crowded, faults

tableVars   == <<captures, recent, inserter>>
busVars     == <<message, deliveries>>
handlerVars == <<pc, request, held, ac, db, found, snapshot, seen>>
pastVars    == <<displaced, crowded, faults>>
vars == <<tableVars, busVars, contacts, handlerVars, pastVars>>

-----------------------------------------------------------------------------
(* Types *)

\* The metadata of a capture: requestId, leadRegistrationRequestIds,
\* leadRegistrationDedupeKey, and whether activeCampaign was attached.
Row == [requestId : Requests, requestIds : SUBSET Requests,
        lead : Leads, attached : BOOLEAN]

ASSUME NoRowIsNoRow == NoRow \notin Row

MessageStates == {"absent", "ready", "locked", "completed", "dead"}

TypeOK ==
  /\ captures \in Seq(Row)
  /\ recent \in Seq(BOOLEAN) /\ Len(recent) = Len(captures)
  /\ inserter \in Seq(Requests) /\ Len(inserter) = Len(captures)
  /\ message \in [Requests -> MessageStates]
  /\ deliveries \in [Requests -> 0..MaxDeliveries]
  /\ contacts \subseteq Leads
  /\ pc \in [Consumers -> {"idle", "work", "attach", "save", "complete"}]
  /\ request \in [Consumers -> Requests \cup {NoRequest}]
  /\ held \in [Consumers -> BOOLEAN]
  /\ ac \in [Consumers -> {"post", "tag", "ok", "failed"}]
  /\ db \in [Consumers -> {"read", "commit", "ok", "failed"}]
  /\ found \in [Consumers -> 0..Len(captures)]
  /\ snapshot \in [Consumers -> Row \cup {NoRow}]
  /\ seen \in [Consumers -> 0..Len(captures)]
  /\ displaced \subseteq Requests
  /\ crowded \subseteq Leads
  /\ faults \in 0..MaxFaults

Init ==
  /\ captures = <<>> /\ recent = <<>> /\ inserter = <<>>
  /\ message = [r \in Requests |-> "absent"]
  /\ deliveries = [r \in Requests |-> 0]
  /\ contacts = {}
  /\ pc = [w \in Consumers |-> "idle"]
  /\ request = [w \in Consumers |-> NoRequest]
  /\ held = [w \in Consumers |-> FALSE]
  /\ ac = [w \in Consumers |-> "post"]
  /\ db = [w \in Consumers |-> "read"]
  /\ found = [w \in Consumers |-> 0]
  /\ snapshot = [w \in Consumers |-> NoRow]
  /\ seen = [w \in Consumers |-> 0]
  /\ displaced = {}
  /\ crowded = {}
  /\ faults = 0

-----------------------------------------------------------------------------
(* Helpers *)

Captures == 1..Len(captures)

\* The youngest of some captures, or 0: ORDER BY created_at DESC, first row.
Youngest(S) == IF S = {} THEN 0 ELSE CHOOSE c \in S : \A d \in S : d <= c

ByRequestId(r) == Youngest({c \in Captures : captures[c].requestId = r})

ByRecentLead(l) == Youngest({c \in Captures : captures[c].lead = l /\ recent[c]})

\* Faulty variant: any recent capture will do.
LookupByRecency(r) ==
  IF ByRequestId(r) # 0 THEN ByRequestId(r) ELSE Youngest({c \in Captures : recent[c]})

\* Faulty variant: retries are not recognised by their requestId.
LookupByLeadOnly(r) == ByRecentLead(LeadOf[r])

\* Faulty variant: the window of the dedupe key is not consulted.
LookupByRequestOnly(r) == ByRequestId(r)

\* The capture persistLead reuses: first by requestId, for the retries of the
\* consumer, then by the dedupe key within the window.
Lookup(r) ==
  IF ByRequestId(r) # 0 THEN ByRequestId(r) ELSE ByRecentLead(LeadOf[r])

\* Faulty variant: a merge forgets the requests merged before.
MetadataForgetful(row, r) ==
  [requestId |-> r, requestIds |-> {r}, lead |-> LeadOf[r],
   attached |-> row # NoRow /\ row.attached]

\* buildLeadRegistrationMetadata: the payload, and with it its requestId,
\* replaces what was there; the list of requests keeps everyone.
Metadata(row, r) ==
  [requestId  |-> r,
   requestIds |-> {r} \cup IF row = NoRow THEN {}
                           ELSE row.requestIds \cup {row.requestId},
   lead       |-> LeadOf[r],
   attached   |-> row # NoRow /\ row.attached]

Busy(w) == pc[w] # "idle"

\* The handler is done with its message.
Free(w) ==
  /\ pc' = [pc EXCEPT ![w] = "idle"]
  /\ request' = [request EXCEPT ![w] = NoRequest]
  /\ held' = [held EXCEPT ![w] = FALSE]
  /\ ac' = [ac EXCEPT ![w] = "post"]
  /\ db' = [db EXCEPT ![w] = "read"]
  /\ found' = [found EXCEPT ![w] = 0]
  /\ snapshot' = [snapshot EXCEPT ![w] = NoRow]
  /\ seen' = [seen EXCEPT ![w] = 0]

\* Where an uncompleted message goes: back, or to the dead-letter queue.
Returned(r) == IF deliveries[r] < MaxDeliveries THEN "ready" ELSE "dead"

-----------------------------------------------------------------------------
(* The API *)

\* enqueueLeadRegistration: a fresh requestId, published and returned.  Where the
\* Service Bus is disabled nothing is sent, and the request stays absent.
Enqueue(r) ==
  /\ message[r] = "absent"
  /\ message' = [message EXCEPT ![r] = "ready"]
  /\ UNCHANGED <<tableVars, deliveries, contacts, handlerVars, pastVars>>

-----------------------------------------------------------------------------
(* The handler of one message *)

\* The broker locks a message for a free slot; both branches start.
Deliver(w, r) ==
  /\ pc[w] = "idle"
  /\ message[r] = "ready"
  /\ message' = [message EXCEPT ![r] = "locked"]
  /\ deliveries' = [deliveries EXCEPT ![r] = @ + 1]
  /\ pc' = [pc EXCEPT ![w] = "work"]
  /\ request' = [request EXCEPT ![w] = r]
  /\ held' = [held EXCEPT ![w] = TRUE]
  /\ crowded' = IF \E v \in Consumers : Busy(v) /\ LeadOf[request[v]] = LeadOf[r]
                THEN crowded \cup {LeadOf[r]} ELSE crowded
  /\ UNCHANGED <<tableVars, contacts, ac, db, found, snapshot, seen, displaced, faults>>

\* createContact posts the contact (an existing one is found and updated) and
\* then tags it; either call may fail, the first after taking effect too.
PostContact(w) ==
  /\ pc[w] = "work" /\ ac[w] = "post"
  /\ \/ /\ contacts' = contacts \cup {LeadOf[request[w]]}
        /\ \E outcome \in {"tag", "failed"} : ac' = [ac EXCEPT ![w] = outcome]
     \/ ac' = [ac EXCEPT ![w] = "failed"] /\ UNCHANGED contacts
  /\ UNCHANGED <<tableVars, busVars, pc, request, held, db, found, snapshot, seen,
                 pastVars>>

TagContact(w) ==
  /\ pc[w] = "work" /\ ac[w] = "tag"
  /\ \E outcome \in {"ok", "failed"} : ac' = [ac EXCEPT ![w] = outcome]
  /\ UNCHANGED <<tableVars, busVars, contacts, pc, request, held, db, found, snapshot,
                 seen, pastVars>>

\* persistLead reads: which capture to reuse, and its row.
PersistRead(w) ==
  LET c == Lookup(request[w]) IN
  /\ pc[w] = "work" /\ db[w] = "read"
  /\ found' = [found EXCEPT ![w] = c]
  /\ snapshot' = [snapshot EXCEPT ![w] = IF c = 0 THEN NoRow ELSE captures[c]]
  /\ seen' = [seen EXCEPT ![w] = Len(captures)]
  /\ db' = [db EXCEPT ![w] = "commit"]
  /\ UNCHANGED <<tableVars, busVars, contacts, pc, request, held, ac, pastVars>>

\* persistLead inserts a capture and commits.
PersistInsert(w) ==
  /\ pc[w] = "work" /\ db[w] = "commit" /\ found[w] = 0
  /\ captures' = Append(captures, Metadata(NoRow, request[w]))
  /\ recent' = Append(recent, TRUE)
  /\ inserter' = Append(inserter, request[w])
  /\ found' = [found EXCEPT ![w] = Len(captures) + 1]
  /\ db' = [db EXCEPT ![w] = "ok"]
  /\ UNCHANGED <<busVars, contacts, pc, request, held, ac, snapshot, seen, pastVars>>

\* persistLead merges into the capture it found and commits.
PersistMerge(w) ==
  LET c == found[w] IN
  /\ pc[w] = "work" /\ db[w] = "commit" /\ c # 0
  /\ captures' = [captures EXCEPT ![c] = Metadata(snapshot[w], request[w])]
  /\ displaced' = displaced \cup ({captures[c].requestId} \ {request[w]})
  /\ db' = [db EXCEPT ![w] = "ok"]
  /\ UNCHANGED <<recent, inserter, busVars, contacts, pc, request, held, ac, found,
                 snapshot, seen, crowded, faults>>

\* persistLead throws and rolls back: a launch, season, temperature or
\* strategy that does not resolve, or the database.
PersistThrows(w) ==
  /\ pc[w] = "work" /\ db[w] \in {"read", "commit"}
  /\ db' = [db EXCEPT ![w] = "failed"]
  /\ UNCHANGED <<tableVars, busVars, contacts, pc, request, held, ac, found, snapshot,
                 seen, pastVars>>

\* Faulty variant: the database alone decides.
BothSettledDbOnly(w) ==
  /\ pc[w] = "work" /\ ac[w] \in {"ok", "failed"} /\ db[w] = "ok"
  /\ pc' = [pc EXCEPT ![w] = "attach"]
  /\ UNCHANGED <<tableVars, busVars, contacts, request, held, ac, db, found, snapshot,
                 seen, pastVars>>

\* Promise.allSettled with both branches fulfilled.
BothSettled(w) ==
  /\ pc[w] = "work" /\ ac[w] = "ok" /\ db[w] = "ok"
  /\ pc' = [pc EXCEPT ![w] = "attach"]
  /\ UNCHANGED <<tableVars, busVars, contacts, request, held, ac, db, found, snapshot,
                 seen, pastVars>>

\* attachActiveCampaign reads the capture ...
AttachRead(w) ==
  /\ pc[w] = "attach"
  /\ snapshot' = [snapshot EXCEPT ![w] = captures[found[w]]]
  /\ pc' = [pc EXCEPT ![w] = "save"]
  /\ UNCHANGED <<tableVars, busVars, contacts, request, held, ac, db, found, seen,
                 pastVars>>

\* ... and, outside any transaction, saves it with the answer.
AttachSave(w) ==
  /\ pc[w] = "save"
  /\ captures' = [captures EXCEPT ![found[w]] = [snapshot[w] EXCEPT !.attached = TRUE]]
  /\ pc' = [pc EXCEPT ![w] = "complete"]
  /\ UNCHANGED <<recent, inserter, busVars, contacts, request, held, ac, db, found,
                 snapshot, seen, pastVars>>

\* The handler returned: completeMessage, in vain when the lock is gone.
Complete(w) ==
  /\ pc[w] = "complete"
  /\ message' = [message EXCEPT ![request[w]] = IF held[w] THEN "completed" ELSE @]
  /\ Free(w)
  /\ UNCHANGED <<tableVars, deliveries, contacts, pastVars>>

\* The handler ends without completing: a branch was rejected, the attachment
\* threw, or the process died anywhere; the message is delivered again.
Abandon(w) ==
  /\ Busy(w)
  /\ message' = [message EXCEPT ![request[w]] = IF held[w] THEN Returned(request[w]) ELSE @]
  /\ Free(w)
  /\ UNCHANGED <<tableVars, deliveries, contacts, pastVars>>

\* The lock expires while the handler is still at work.
LockLapses(w) ==
  /\ held[w]
  /\ faults < MaxFaults
  /\ faults' = faults + 1
  /\ held' = [held EXCEPT ![w] = FALSE]
  /\ message' = [message EXCEPT ![request[w]] = Returned(request[w])]
  /\ UNCHANGED <<tableVars, deliveries, contacts, pc, request, ac, db, found, snapshot,
                 seen, displaced, crowded>>

-----------------------------------------------------------------------------

\* The oldest capture still in the dedupe window leaves it.
WindowCloses(c) ==
  /\ recent[c]
  /\ \A d \in Captures : d < c => ~recent[d]
  /\ recent' = [recent EXCEPT ![c] = FALSE]
  /\ UNCHANGED <<captures, inserter, busVars, contacts, handlerVars, pastVars>>

Handle(w) ==
  \/ PostContact(w) \/ TagContact(w)
  \/ PersistRead(w) \/ PersistInsert(w) \/ PersistMerge(w) \/ PersistThrows(w)
  \/ BothSettled(w) \/ AttachRead(w) \/ AttachSave(w) \/ Complete(w) \/ Abandon(w)

Next ==
  \/ \E r \in Requests : Enqueue(r) \/ \E w \in Consumers : Deliver(w, r)
  \/ \E w \in Consumers : Handle(w) \/ LockLapses(w)
  \/ \E c \in Captures : WindowCloses(c)

Spec == Init /\ [][Next]_vars

-----------------------------------------------------------------------------
(* Properties *)

Completed(r) == message[r] = "completed"

\* A completed message did both halves of its work, whatever was retried or
\* repeated: the contact is in ActiveCampaign and a capture of the lead exists.
CompletedIsSynced ==
  \A r \in Requests : Completed(r) =>
    /\ LeadOf[r] \in contacts
    /\ \E c \in Captures : captures[c].lead = LeadOf[r]

\* A capture keeps the lead it was inserted for: no retry, merge or stale
\* attachment ever writes the metadata of one lead over another.
CaptureKeepsLead ==
  \A c \in Captures :
    /\ captures[c].lead = LeadOf[inserter[c]]
    /\ \A r \in captures[c].requestIds : LeadOf[r] = captures[c].lead

\* persistLead inserts a second capture within the dedupe window of a lead
\* only next to one that was committed after it had looked.
NoDuplicateInWindow ==
  [][\A w \in Consumers :
       db[w] = "commit" /\ db'[w] = "ok" /\ found[w] = 0
         => \A c \in 1..seen[w] : ~(recent[c] /\ captures[c].lead = LeadOf[request[w]])]_vars

\* A retried request gets a second capture only if a later request of the lead
\* took its requestId over, or two handlers worked on the lead at once.
DuplicateOnlyIfDisplaced ==
  \A c, d \in Captures :
    c # d /\ inserter[c] = inserter[d]
      => inserter[c] \in displaced \/ LeadOf[inserter[c]] \in crowded

\* The captures resolveCapture may find for a requestId.
Locates(c, r) == captures[c].requestId = r \/ r \in captures[c].requestIds

\* When the handlers of a lead never overlapped, the requestId of a completed
\* registration locates a capture for as long as the capture lives.
LocatedUnlessCrowded ==
  \A r \in Requests :
    Completed(r) /\ LeadOf[r] \notin crowded => \E c \in Captures : Locates(c, r)

\* What the consumer's comment says of its retries: persistence is idempotent
\* by requestId, no request has two captures.
OneCapturePerRequest ==
  \A c, d \in Captures : inserter[c] = inserter[d] => c = d

\* What the lead score's API says: the requestId returned by the start
\* endpoint locates the capture, once the registration was completed.
RequestIdLocatesCapture ==
  \A r \in Requests : Completed(r) => \E c \in Captures : Locates(c, r)
=============================================================================
