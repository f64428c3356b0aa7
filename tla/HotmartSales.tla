----------------------------- MODULE HotmartSales -----------------------------
(***************************************************************************)
(* The sales of Hotmart (src/src/hotmart): webhooks and pages of the sales *)
(* history are recorded as raw rows, one per transaction, and every row    *)
(* that changed is processed into a sale of a person, from a queue or by a *)
(* call that nobody awaits; a batch can be asked for what is pending.      *)
(*                                                                         *)
(* A purchase goes through versions; of a payload the code compares the    *)
(* purchase status alone, and two versions may have the same one.          *)
(***************************************************************************)
EXTENDS Integers, FiniteSets

CONSTANTS
  Sales,        \* transaction codes
  Buyers,       \* e-mail addresses of the buyers
  BuyerOf,      \* BuyerOf[t]: who bought
  LastVersion,  \* bound: versions of each purchase
  Statuses,     \* purchase statuses
  StatusOf,     \* StatusOf[v]: the status of a purchase in its version v
  Receivers,    \* requests and sync runs that record events at once
  Processors,   \* calls of processRaw that run at once
  Modes,        \* values of HOTMART_PROCESS_VIA_QUEUE to start with
  MaxRequests,  \* bound: webhooks, pages and batches together
  MaxFaults,    \* bound: crashes, failures of a publication or a statement
  NoSale        \* what an idle processor works on

Versions == UNION {1..LastVersion[t] : t \in Sales}

ASSUME HotmartConstants ==
  /\ BuyerOf \in [Sales -> Buyers]
  /\ LastVersion \in [Sales -> Nat \ {0}]
  /\ DOMAIN StatusOf = Versions /\ \A v \in Versions : StatusOf[v] \in Statuses
  /\ Modes \subseteq BOOLEAN
  /\ MaxRequests \in Nat /\ MaxFaults \in Nat
  /\ NoSale \notin Sales

VARIABLES
  viaQueue,     \* HOTMART_PROCESS_VIA_QUEUE, fixed at the start
  \* hotmart_sale_raw: the version of the payload (0: no row), import_status
  raw, import,
  sale,         \* hotmart_sale: the version it was written from (0: no row)
  persons,      \* persons found by the e-mail of each buyer
  messages,     \* messages of the queue, per row
  calls,        \* calls of processRaw that wait to run, per row
  \* the receivers: the versions received, the rows found, and what is to do
  recv, page, seen,
  \* the processors: their row, the payload read, whether a message is held
  pc, work, read, held,
  \* what the properties need to know of the past
  newest, reordered, overtaken, crowded, dropped,
  requests, faults

table     == <<raw, import, sale, persons>>
receivers == <<recv, page, seen>>
slots     == <<pc, work, read, held>>
past      == <<newest, reordered, overtaken, crowded, dropped>>
budget    == <<requests, faults>>
vars == <<viaQueue, table, messages, calls, receivers, slots, past, budget>>

NoRow == 0
NoPage == [t \in Sales |-> NoRow]

\* The versions a receiver or a table holds, one per transaction.
Payloads == [Sales -> Versions \cup {NoRow}]

TypeOK ==
  /\ viaQueue \in BOOLEAN
  /\ {raw, sale, newest} \subseteq Payloads
  /\ import \in [Sales -> {"none", "pending", "processing", "processed", "error"}]
  /\ \A t \in Sales : raw[t] = NoRow <=> import[t] = "none"
  /\ persons \in [Buyers -> Nat]
  /\ messages \in [Sales -> Nat] /\ calls \in [Sales -> Nat]
  /\ recv \in [Receivers -> {"idle", "look", "insert", "update"}]
  /\ page \in [Receivers -> Payloads] /\ seen \in [Receivers -> Payloads]
  /\ pc \in [Processors -> {"idle", "read", "mark", "person", "create", "upsert",
                            "finish", "failing"}]
  /\ work \in [Processors -> Sales \cup {NoSale}]
  /\ read \in [Processors -> Versions \cup {NoRow}]
  /\ held \in [Processors -> BOOLEAN]
  /\ reordered \subseteq Sales /\ overtaken \subseteq Sales /\ dropped \subseteq Sales
  /\ crowded \subseteq Buyers
  /\ requests \in 0..MaxRequests /\ faults \in 0..MaxFaults

Init ==
  /\ viaQueue \in Modes
  /\ raw = NoPage /\ sale = NoPage /\ newest = NoPage
  /\ import = [t \in Sales |-> "none"]
  /\ persons = [b \in Buyers |-> 0]
  /\ messages = [t \in Sales |-> 0] /\ calls = [t \in Sales |-> 0]
  /\ recv = [w \in Receivers |-> "idle"]
  /\ page = [w \in Receivers |-> NoPage] /\ seen = [w \in Receivers |-> NoPage]
  /\ pc = [p \in Processors |-> "idle"]
  /\ work = [p \in Processors |-> NoSale]
  /\ read = [p \in Processors |-> NoRow]
  /\ held = [p \in Processors |-> FALSE]
  /\ reordered = {} /\ overtaken = {} /\ crowded = {} /\ dropped = {}
  /\ requests = 0 /\ faults = 0

-----------------------------------------------------------------------------
(* Helpers *)

\* The transactions a receiver still has to record.
Open(w) == {t \in Sales : page[w][t] # NoRow}

\* Faulty variant: only the first event of a transaction counts.
ChangedNever(old, new) == FALSE

\* A recorded payload is replaced when the purchase status differs.
Changed(old, new) == StatusOf[old] # StatusOf[new]

\* The import_status of a row that was just inserted.
FirstStatus == "pending"

Later(new, t) == IF new > newest[t] THEN new ELSE newest[t]

\* The reception goes on with what is left, or ends.
Continue(w, left) ==
  /\ page' = [page EXCEPT ![w] = left]
  /\ IF left = NoPage
       THEN recv' = [recv EXCEPT ![w] = "idle"] /\ seen' = [seen EXCEPT ![w] = NoPage]
       ELSE /\ recv' = [recv EXCEPT ![w] = "update"]
            /\ seen' = [seen EXCEPT ![w] =
                 [t \in Sales |-> IF left[t] # NoRow THEN seen[w][t] ELSE NoRow]]

ReceiverFree(w) ==
  /\ recv' = [recv EXCEPT ![w] = "idle"]
  /\ page' = [page EXCEPT ![w] = NoPage]
  /\ seen' = [seen EXCEPT ![w] = NoPage]

Holders(t) == {p \in Processors : work[p] = t}

\* triggerProcessing for some rows just written, in the step that wrote them:
\* published or called; a publication that fails, or is ignored because the
\* Service Bus is disabled, or a process that dies before it, leaves the rows
\* pending.
Trigger(rows) ==
  \/ /\ viaQueue
     /\ messages' = [t \in Sales |-> IF t \in rows THEN messages[t] + 1 ELSE messages[t]]
     /\ UNCHANGED <<calls, dropped, faults>>
  \/ /\ ~viaQueue
     /\ calls' = [t \in Sales |-> IF t \in rows THEN calls[t] + 1 ELSE calls[t]]
     /\ UNCHANGED <<messages, dropped, faults>>
  \/ /\ faults < MaxFaults /\ rows # {}
     /\ faults' = faults + 1
     /\ dropped' = dropped \cup rows
     /\ UNCHANGED <<messages, calls>>

-----------------------------------------------------------------------------
(* Recording *)

\* A receiver takes on some versions.  Properties note those that overtake or
\* accompany another reception of their transaction.
Take(w, versions) ==
  /\ recv[w] = "idle"
  /\ requests < MaxRequests
  /\ requests' = requests + 1
  /\ recv' = [recv EXCEPT ![w] = "look"]
  /\ page' = [page EXCEPT ![w] = versions]
  /\ reordered' = reordered \cup
       {t \in Sales : /\ versions[t] # NoRow
                      /\ \/ versions[t] < newest[t]
                         \/ \E v \in Receivers : t \in Open(v)}
  /\ UNCHANGED <<table, messages, calls, seen, slots, newest, overtaken,
                 crowded, dropped, faults>>

\* A webhook: any version of a purchase, perhaps late, again or out of order.
ReceiveWebhook(w, t) ==
  \E v \in 1..LastVersion[t] : Take(w, [NoPage EXCEPT ![t] = v])

\* A page of syncHistory: some purchases, each as it was when the page was read.
FetchPage(w) ==
  \E versions \in Payloads \ {NoPage} :
    (\A t \in Sales : versions[t] <= LastVersion[t]) /\ Take(w, versions)

\* The rows of these transactions are looked up.
Look(w) ==
  /\ recv[w] = "look"
  /\ seen' = [seen EXCEPT ![w] = [t \in Sales |-> IF t \in Open(w) THEN raw[t] ELSE NoRow]]
  /\ recv' = [recv EXCEPT ![w] = "insert"]
  /\ UNCHANGED <<table, messages, calls, page, slots, past, budget>>

\* Those not found are inserted by one statement, which the unique index lets
\* fail as a whole: then the error ends the reception, its updates included.
InsertNew(w) ==
  LET new == {t \in Open(w) : seen[w][t] = NoRow} IN
  /\ recv[w] = "insert"
  /\ \/ /\ \A t \in new : raw[t] = NoRow
        /\ raw' = [t \in Sales |-> IF t \in new THEN page[w][t] ELSE raw[t]]
        /\ import' = [t \in Sales |-> IF t \in new THEN FirstStatus ELSE import[t]]
        /\ newest' = [t \in Sales |-> IF t \in new THEN Later(page[w][t], t) ELSE newest[t]]
        /\ Trigger(new)
        /\ Continue(w, [t \in Sales |-> IF t \in new THEN NoRow ELSE page[w][t]])
     \/ /\ \E t \in new : raw[t] # NoRow
        /\ ReceiverFree(w)
        /\ UNCHANGED <<raw, import, newest, messages, calls, dropped, faults>>
  /\ UNCHANGED <<sale, persons, slots, reordered, overtaken, crowded, requests>>

\* A row that was found takes the payload if the status it had then differs.
UpdateRow(w, t) ==
  LET v == page[w][t] IN
  /\ recv[w] = "update"
  /\ t \in Open(w)
  /\ \/ /\ Changed(seen[w][t], v)
        /\ raw' = [raw EXCEPT ![t] = v]
        /\ import' = [import EXCEPT ![t] = "pending"]
        /\ overtaken' = IF Holders(t) # {} THEN overtaken \cup {t} ELSE overtaken
        /\ Trigger({t})
     \/ /\ ~Changed(seen[w][t], v)
        /\ UNCHANGED <<raw, import, overtaken, messages, calls, dropped, faults>>
  /\ newest' = [newest EXCEPT ![t] = Later(v, t)]
  /\ Continue(w, [page[w] EXCEPT ![t] = NoRow])
  /\ UNCHANGED <<sale, persons, slots, reordered, crowded, requests>>

\* A statement of the reception raises, or its process dies.
ReceiveThrows(w) ==
  /\ recv[w] # "idle"
  /\ faults < MaxFaults /\ faults' = faults + 1
  /\ ReceiverFree(w)
  /\ UNCHANGED <<table, messages, calls, slots, past, requests>>

-----------------------------------------------------------------------------
(* Processing *)

\* A processor starts on the row of t.
Begin(p, t, message) ==
  /\ pc[p] = "idle"
  /\ pc' = [pc EXCEPT ![p] = "read"]
  /\ work' = [work EXCEPT ![p] = t]
  /\ held' = [held EXCEPT ![p] = message]
  /\ overtaken' = IF Holders(t) # {} THEN overtaken \cup {t} ELSE overtaken
  /\ crowded' = IF \E q \in Processors : work[q] # NoSale /\ BuyerOf[work[q]] = BuyerOf[t]
                THEN crowded \cup {BuyerOf[t]} ELSE crowded
  /\ UNCHANGED <<table, receivers, read, newest, reordered, dropped, budget>>

\* The consumer of the queue, or the call itself.
Deliver(p, t) ==
  /\ messages[t] > 0
  /\ messages' = [messages EXCEPT ![t] = @ - 1]
  /\ Begin(p, t, TRUE)
  /\ UNCHANGED calls

Call(p, t) ==
  /\ calls[t] > 0
  /\ calls' = [calls EXCEPT ![t] = @ - 1]
  /\ Begin(p, t, FALSE)
  /\ UNCHANGED messages

\* processBatch: calls for the rows that are pending, and only for those.
Batch ==
  /\ requests < MaxRequests
  /\ requests' = requests + 1
  /\ calls' = [t \in Sales |-> IF import[t] = "pending" THEN calls[t] + 1 ELSE calls[t]]
  /\ UNCHANGED <<table, messages, receivers, slots, past, faults>>

Free(p) ==
  /\ pc' = [pc EXCEPT ![p] = "idle"]
  /\ work' = [work EXCEPT ![p] = NoSale]
  /\ read' = [read EXCEPT ![p] = NoRow]
  /\ held' = [held EXCEPT ![p] = FALSE]

Goto(p, where) == pc' = [pc EXCEPT ![p] = where]

\* Faulty variant: a row that is being processed is left alone, too.
ReadRawIdle(p) ==
  LET t == work[p] IN
  /\ pc[p] = "read"
  /\ \/ /\ import[t] \in {"processing", "processed"}
        /\ Free(p)
     \/ /\ import[t] \in {"pending", "error"}
        /\ read' = [read EXCEPT ![p] = raw[t]]
        /\ Goto(p, "mark")
        /\ UNCHANGED <<work, held>>
  /\ UNCHANGED <<table, messages, calls, receivers, past, budget>>

\* processRaw reads the row; one that is processed is left alone.
ReadRaw(p) ==
  LET t == work[p] IN
  /\ pc[p] = "read"
  /\ \/ /\ import[t] = "processed"
        /\ Free(p)
     \/ /\ import[t] # "processed"
        /\ read' = [read EXCEPT ![p] = raw[t]]
        /\ Goto(p, "mark")
        /\ UNCHANGED <<work, held>>
  /\ UNCHANGED <<table, messages, calls, receivers, past, budget>>

MarkProcessing(p) ==
  /\ pc[p] = "mark"
  /\ import' = [import EXCEPT ![work[p]] = "processing"]
  /\ Goto(p, "person")
  /\ UNCHANGED <<raw, sale, persons, messages, calls, receivers, work, read, held,
                 past, budget>>

\* Faulty variant: an identifier that exists is not found.
FindPersonNever(p) ==
  /\ pc[p] = "person"
  /\ Goto(p, "create")
  /\ UNCHANGED <<table, messages, calls, receivers, work, read, held, past, budget>>

\* findOrCreatePerson looks for the e-mail among the identifiers ...
FindPerson(p) ==
  /\ pc[p] = "person"
  /\ \/ persons[BuyerOf[work[p]]] > 0 /\ Goto(p, "upsert")
     \/ persons[BuyerOf[work[p]]] = 0 /\ Goto(p, "create")
  /\ UNCHANGED <<table, messages, calls, receivers, work, read, held, past, budget>>

\* ... and inserts a person, then the identifier; no index makes it unique.  A
\* person left without the identifier is not found again and not counted.
CreatePerson(p) ==
  /\ pc[p] = "create"
  /\ persons' = [persons EXCEPT ![BuyerOf[work[p]]] = @ + 1]
  /\ Goto(p, "upsert")
  /\ UNCHANGED <<raw, import, sale, messages, calls, receivers, work, read, held,
                 past, budget>>

\* Faulty variant: a sale that exists is kept.
InsertSale(p) ==
  /\ pc[p] = "upsert"
  /\ sale' = [sale EXCEPT ![work[p]] = IF @ = NoRow THEN read[p] ELSE @]
  /\ read' = [read EXCEPT ![p] = NoRow]
  /\ Goto(p, "finish")
  /\ UNCHANGED <<raw, import, persons, messages, calls, receivers, work, held, past,
                 budget>>

\* The sale takes the payload that was read.
UpsertSale(p) ==
  /\ pc[p] = "upsert"
  /\ sale' = [sale EXCEPT ![work[p]] = read[p]]
  /\ read' = [read EXCEPT ![p] = NoRow]
  /\ Goto(p, "finish")
  /\ UNCHANGED <<raw, import, persons, messages, calls, receivers, work, held, past,
                 budget>>

\* The row is processed, whatever it holds by now.
Finish(p) ==
  /\ pc[p] = "finish"
  /\ import' = [import EXCEPT ![work[p]] = "processed"]
  /\ Free(p)
  /\ UNCHANGED <<raw, sale, persons, messages, calls, receivers, past, budget>>

\* Something in the try block raises; the catch block marks the row ...
ProcessThrows(p) ==
  /\ pc[p] \in {"person", "create", "upsert", "finish"}
  /\ faults < MaxFaults /\ faults' = faults + 1
  /\ Goto(p, "failing")
  /\ UNCHANGED <<table, messages, calls, receivers, work, read, held, past, requests>>

\* A handler that throws: its message comes back or is dead-lettered, a call
\* is just gone.
GiveBack(p) ==
  \/ /\ held[p]
     /\ messages' = [messages EXCEPT ![work[p]] = @ + 1]
     /\ UNCHANGED dropped
  \/ /\ dropped' = dropped \cup {work[p]}
     /\ UNCHANGED messages

\* ... and throws on.
MarkError(p) ==
  /\ pc[p] = "failing"
  /\ import' = [import EXCEPT ![work[p]] = "error"]
  /\ GiveBack(p)
  /\ Free(p)
  /\ UNCHANGED <<raw, sale, persons, calls, receivers, newest, reordered, overtaken,
                 crowded, budget>>

\* The process dies, or a statement outside the try block raises.
Crash(p) ==
  /\ pc[p] # "idle"
  /\ faults < MaxFaults /\ faults' = faults + 1
  /\ GiveBack(p)
  /\ Free(p)
  /\ UNCHANGED <<table, calls, receivers, newest, reordered, overtaken, crowded,
                 requests>>

\* The lock of the message expires while its handler runs.
LockLapses(p) ==
  /\ held[p]
  /\ faults < MaxFaults /\ faults' = faults + 1
  /\ held' = [held EXCEPT ![p] = FALSE]
  /\ messages' = [messages EXCEPT ![work[p]] = @ + 1]
  /\ UNCHANGED <<table, calls, receivers, pc, work, read, past, requests>>

-----------------------------------------------------------------------------

Record(w) == Look(w) \/ InsertNew(w) \/ \E t \in Sales : UpdateRow(w, t)

Process(p) ==
  \/ ReadRaw(p) \/ MarkProcessing(p) \/ FindPerson(p) \/ CreatePerson(p)
  \/ UpsertSale(p) \/ Finish(p) \/ MarkError(p)

Next ==
  \/ \E w \in Receivers :
       \/ \E t \in Sales : ReceiveWebhook(w, t)
       \/ FetchPage(w)
       \/ Record(w) \/ ReceiveThrows(w)
  \/ \E p \in Processors :
       \/ \E t \in Sales : Deliver(p, t) \/ Call(p, t)
       \/ Process(p) \/ ProcessThrows(p) \/ Crash(p) \/ LockLapses(p)
  \/ Batch

Spec == Init /\ [][Next /\ UNCHANGED viaQueue]_vars

-----------------------------------------------------------------------------
(* Properties *)

\* The raw row shows the status of the newest event recorded, through changes
\* of status and back, webhooks and pages, unless an event arrived after a
\* newer one or two receptions of the transaction ran at once.
RawShowsNewest ==
  \A t \in Sales \ reordered :
    newest[t] # NoRow => /\ raw[t] # NoRow
                         /\ StatusOf[raw[t]] = StatusOf[newest[t]]

\* A row marked processed has its payload in the sale, unless it changed while
\* a processor had it or two had it at once.
ProcessedShowsRaw ==
  \A t \in Sales \ overtaken : import[t] = "processed" => sale[t] = raw[t]

\* The e-mail of a buyer leads to one person, however many of the purchases
\* are processed and repeated, unless two of them were processed at once.
OnePersonPerBuyer ==
  \A b \in Buyers \ crowded : persons[b] <= 1

\* A row that is not processed is still on its way, in a message, a call or a
\* handler, also after its handler died or failed, unless a publication, a call
\* or the last delivery was lost.
NoRowForgotten ==
  \A t \in Sales \ dropped :
    import[t] \notin {"none", "processed"} =>
      messages[t] > 0 \/ calls[t] > 0 \/ Holders(t) # {}
=============================================================================
