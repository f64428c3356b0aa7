-------------------------- MODULE HotmartSales_proofs --------------------------
(***************************************************************************)
(* Proofs about the sales of Hotmart, for any purchases, buyers, versions, *)
(* requests, processors, crashes and lost publications.                    *)
(***************************************************************************)
EXTENDS HotmartSales, TLAPS

-----------------------------------------------------------------------------
(* The inductive invariant *)

\* A processor has a row from its beginning to its end.
SlotsFilled == \A p \in Processors : pc[p] = "idle" <=> work[p] = NoSale

\* Nothing is known of a row before it was inserted.
RowsFirst ==
  \A t \in Sales : raw[t] = NoRow =>
    /\ messages[t] = 0 /\ calls[t] = 0 /\ Holders(t) = {}
    /\ newest[t] = NoRow /\ \A w \in Receivers : seen[w][t] = NoRow

\* What is left to update was found.
UpdatesFound ==
  \A w \in Receivers : recv[w] = "update" => \A t \in Open(w) : seen[w][t] # NoRow

Base == TypeOK /\ SlotsFilled /\ RowsFirst /\ UpdatesFound

\* A reception of a transaction that is neither late nor accompanied has the
\* newest version in hand, and the row as it found it.
ReceivedInOrder ==
  \A t \in Sales \ reordered :
    /\ \A v, w \in Receivers : t \in Open(v) /\ t \in Open(w) => v = w
    /\ \A w \in Receivers : t \in Open(w) =>
         /\ page[w][t] >= newest[t]
         /\ recv[w] \in {"insert", "update"} => seen[w][t] = raw[t]

\* A row in undisturbed hands is as it was read, and then as it was saved.
HeldAsRead ==
  \A t \in Sales \ overtaken :
    /\ \A p, q \in Processors : work[p] = t /\ work[q] = t => p = q
    /\ \A p \in Processors : work[p] = t =>
         /\ pc[p] \in {"mark", "person", "create", "upsert"} => read[p] = raw[t]
         /\ pc[p] = "finish" => sale[t] = raw[t]

Serves(p, b) == work[p] # NoSale /\ BuyerOf[work[p]] = b

\* Where the processors of a buyer take turns, nobody else creates the person.
BuyersApart ==
  \A b \in Buyers \ crowded :
    /\ \A p, q \in Processors : Serves(p, b) /\ Serves(q, b) => p = q
    /\ \A p \in Processors : pc[p] = "create" /\ Serves(p, b) => persons[b] = 0

Inv ==
  /\ Base /\ ReceivedInOrder /\ HeldAsRead /\ BuyersApart
  /\ RawShowsNewest /\ ProcessedShowsRaw /\ OnePersonPerBuyer /\ NoRowForgotten

-----------------------------------------------------------------------------
(* The operators of the model *)

LEMMA ConstantsTyped ==
  /\ BuyerOf \in [Sales -> Buyers] /\ NoSale \notin Sales
  /\ \A v \in Versions : v \in Nat /\ v > 0
  /\ MaxRequests \in Nat /\ MaxFaults \in Nat
<1>1. ASSUME NEW v \in Versions PROVE v \in Nat /\ v > 0
  <2>1. PICK t \in Sales : v \in 1..LastVersion[t]
    BY DEF Versions
  <2>2. LastVersion[t] \in Nat \ {0}
    BY HotmartConstants
  <2> QED BY <2>1, <2>2
<1> QED BY <1>1, HotmartConstants

LEMMA LaterOf ==
  ASSUME TypeOK, NEW t \in Sales, NEW v \in Versions
  PROVE  /\ Later(v, t) \in Versions
         /\ v >= newest[t] => Later(v, t) = v
<1>1. newest[t] \in Versions \cup {NoRow}
  BY DEF TypeOK, Payloads
<1>2. v \in Nat /\ v > 0 /\ newest[t] \in Nat /\ (newest[t] # 0 => newest[t] \in Versions)
  BY <1>1, ConstantsTyped DEF NoRow
<1> QED BY <1>2 DEF Later

\* The rows that are triggered are on their way, or noted as dropped.
LEMMA TriggerDoes ==
  ASSUME TypeOK, NEW rows \in SUBSET Sales, Trigger(rows)
  PROVE  /\ messages' \in [Sales -> Nat] /\ calls' \in [Sales -> Nat]
         /\ faults' \in 0..MaxFaults /\ dropped' \subseteq Sales
         /\ dropped \subseteq dropped'
         /\ \A t \in rows : messages'[t] > 0 \/ calls'[t] > 0 \/ t \in dropped'
         /\ \A t \in Sales : messages[t] > 0 => messages'[t] > 0
         /\ \A t \in Sales : calls[t] > 0 => calls'[t] > 0
         /\ \A t \in Sales \ rows : messages'[t] = messages[t] /\ calls'[t] = calls[t]
<1>1. messages \in [Sales -> Nat] /\ calls \in [Sales -> Nat] /\ faults \in 0..MaxFaults
      /\ dropped \subseteq Sales
  BY DEF TypeOK
<1>2. CASE /\ messages' = [t \in Sales |-> IF t \in rows THEN messages[t] + 1 ELSE messages[t]]
           /\ UNCHANGED <<calls, dropped, faults>>
  BY <1>1, <1>2
<1>3. CASE /\ calls' = [t \in Sales |-> IF t \in rows THEN calls[t] + 1 ELSE calls[t]]
           /\ UNCHANGED <<messages, dropped, faults>>
  BY <1>1, <1>3
<1>4. CASE /\ faults < MaxFaults /\ faults' = faults + 1 /\ dropped' = dropped \cup rows
           /\ UNCHANGED <<messages, calls>>
  BY <1>1, <1>4, ConstantsTyped
<1> QED BY <1>2, <1>3, <1>4 DEF Trigger

\* What is left of a reception is still to be recorded, as it was found.
LEMMA ContinueDoes ==
  ASSUME TypeOK, NEW w \in Receivers, NEW left \in Payloads, Continue(w, left)
  PROVE  /\ recv' \in [Receivers -> {"idle", "look", "insert", "update"}]
         /\ page' \in [Receivers -> Payloads] /\ seen' \in [Receivers -> Payloads]
         /\ page'[w] = left
         /\ \A t \in Sales : left[t] # NoRow => seen'[w][t] = seen[w][t]
         /\ \A t \in Sales : seen'[w][t] # NoRow => seen'[w][t] = seen[w][t]
         /\ \A v \in Receivers \ {w} :
              recv'[v] = recv[v] /\ page'[v] = page[v] /\ seen'[v] = seen[v]
<1>1. /\ recv \in [Receivers -> {"idle", "look", "insert", "update"}]
      /\ page \in [Receivers -> Payloads] /\ seen \in [Receivers -> Payloads]
      /\ page' = [page EXCEPT ![w] = left]
  BY DEF TypeOK, Continue
<1>2. NoPage \in Payloads
  BY DEF NoPage, Payloads
<1>3. CASE left = NoPage
  <2>1. recv' = [recv EXCEPT ![w] = "idle"] /\ seen' = [seen EXCEPT ![w] = NoPage]
    BY <1>3 DEF Continue
  <2> QED BY <1>1, <1>2, <1>3, <2>1 DEF NoPage
<1>4. CASE left # NoPage
  <2> DEFINE rest == [t \in Sales |-> IF left[t] # NoRow THEN seen[w][t] ELSE NoRow]
  <2>1. recv' = [recv EXCEPT ![w] = "update"] /\ seen' = [seen EXCEPT ![w] = rest]
    BY <1>4 DEF Continue
  <2>2. rest \in Payloads /\ \A t \in Sales : rest[t] = IF left[t] # NoRow THEN seen[w][t] ELSE NoRow
    BY <1>1 DEF Payloads
  <2> HIDE DEF rest
  <2> QED BY <1>1, <2>1, <2>2
<1> QED BY <1>3, <1>4

LEMMA ReceiverFreed ==
  ASSUME TypeOK, NEW w \in Receivers, ReceiverFree(w)
  PROVE  /\ recv' \in [Receivers -> {"idle", "look", "insert", "update"}]
         /\ page' \in [Receivers -> Payloads] /\ seen' \in [Receivers -> Payloads]
         /\ recv'[w] = "idle" /\ \A t \in Sales : page'[w][t] = NoRow /\ seen'[w][t] = NoRow
         /\ \A v \in Receivers \ {w} :
              recv'[v] = recv[v] /\ page'[v] = page[v] /\ seen'[v] = seen[v]
BY DEF TypeOK, ReceiverFree, NoPage, Payloads

LEMMA ProcessorFreed ==
  ASSUME TypeOK, NEW p \in Processors, Free(p)
  PROVE  /\ pc' \in [Processors -> {"idle", "read", "mark", "person", "create", "upsert",
                                    "finish", "failing"}]
         /\ work' \in [Processors -> Sales \cup {NoSale}]
         /\ read' \in [Processors -> Versions \cup {NoRow}]
         /\ held' \in [Processors -> BOOLEAN]
         /\ pc'[p] = "idle" /\ work'[p] = NoSale
         /\ \A q \in Processors \ {p} :
              pc'[q] = pc[q] /\ work'[q] = work[q] /\ read'[q] = read[q]
BY DEF TypeOK, Free

\* A processor at work has a row of the table.
LEMMA WorksOn ==
  ASSUME Base, NEW p \in Processors, pc[p] # "idle"
  PROVE  work[p] \in Sales /\ p \in Holders(work[p]) /\ raw[work[p]] # NoRow
<1>1. work[p] \in Sales
  BY DEF Base, TypeOK, SlotsFilled
<1>2. p \in Holders(work[p])
  BY DEF Holders
<1> QED BY <1>1, <1>2 DEF Base, RowsFirst

-----------------------------------------------------------------------------
(* What the steps change *)

\* A reception begins, goes on or ends without a row being written.
Receiving(w) ==
  /\ UNCHANGED <<table, messages, calls, slots, newest, overtaken, crowded, dropped>>
  /\ \/ /\ recv[w] = "idle" /\ recv'[w] = "look"
        /\ page'[w] \in Payloads /\ seen' = seen
        /\ reordered \subseteq reordered' /\ reordered' \subseteq Sales
        /\ \A t \in Sales \ reordered' : page'[w][t] # NoRow =>
             page'[w][t] >= newest[t] /\ \A v \in Receivers : t \notin Open(v)
     \/ /\ recv[w] = "look" /\ recv'[w] = "insert" /\ UNCHANGED <<page, reordered>>
        /\ seen'[w] \in Payloads
        /\ \A t \in Sales : seen'[w][t] = IF t \in Open(w) THEN raw[t] ELSE NoRow
     \/ /\ recv'[w] = "idle" /\ UNCHANGED reordered
        /\ \A t \in Sales : page'[w][t] = NoRow /\ seen'[w][t] = NoRow
  /\ recv' \in [Receivers -> {"idle", "look", "insert", "update"}]
  /\ page' \in [Receivers -> Payloads] /\ seen' \in [Receivers -> Payloads]
  /\ \A v \in Receivers \ {w} :
       recv'[v] = recv[v] /\ page'[v] = page[v] /\ seen'[v] = seen[v]
  /\ requests' \in 0..MaxRequests /\ faults' \in 0..MaxFaults

LEMMA ReceptionSteps ==
  ASSUME TypeOK, NEW w \in Receivers,
         \/ \E t \in Sales : ReceiveWebhook(w, t)
         \/ FetchPage(w) \/ Look(w) \/ ReceiveThrows(w)
         \/ InsertNew(w) /\ ReceiverFree(w) /\ UNCHANGED <<raw, import, newest, messages, calls, dropped, faults>>
  PROVE  Receiving(w)
<1>1. ASSUME NEW versions \in Payloads, Take(w, versions) PROVE Receiving(w)
  <2>1. recv' = [recv EXCEPT ![w] = "look"] /\ page' = [page EXCEPT ![w] = versions]
        /\ recv[w] = "idle" /\ requests' = requests + 1 /\ requests < MaxRequests
        /\ UNCHANGED <<table, messages, calls, seen, slots, newest, overtaken,
                       crowded, dropped, faults>>
    BY <1>1 DEF Take
  <2>2. \A t \in Sales \ reordered' : versions[t] # NoRow =>
          versions[t] >= newest[t] /\ \A v \in Receivers : t \notin Open(v)
    <3>1. \A t \in Sales : newest[t] \in Nat /\ versions[t] \in Nat
      BY ConstantsTyped DEF TypeOK, Payloads, NoRow
    <3>2. \A t \in Sales \ reordered' : versions[t] # NoRow =>
            ~(versions[t] < newest[t]) /\ \A v \in Receivers : t \notin Open(v)
      BY <1>1 DEF Take
    <3> QED BY <3>1, <3>2
  <2>3. reordered \subseteq reordered' /\ reordered' \subseteq Sales
    BY <1>1 DEF Take, TypeOK
  <2>4. requests' \in 0..MaxRequests
    BY <2>1, ConstantsTyped DEF TypeOK
  <2>5. /\ recv' \in [Receivers -> {"idle", "look", "insert", "update"}]
        /\ page' \in [Receivers -> Payloads] /\ recv'[w] = "look" /\ page'[w] = versions
        /\ \A v \in Receivers \ {w} :
             recv'[v] = recv[v] /\ page'[v] = page[v] /\ seen'[v] = seen[v]
    BY <2>1 DEF TypeOK
  <2> QED BY <2>1, <2>2, <2>3, <2>4, <2>5 DEF Receiving, TypeOK
<1>2. ASSUME NEW t \in Sales, ReceiveWebhook(w, t) PROVE Receiving(w)
  <2>1. PICK v \in 1..LastVersion[t] : Take(w, [NoPage EXCEPT ![t] = v])
    BY <1>2 DEF ReceiveWebhook
  <2>2. v \in Versions
    BY DEF Versions
  <2>3. [NoPage EXCEPT ![t] = v] \in Payloads
    BY <2>2 DEF NoPage, Payloads
  <2> QED BY <1>1, <2>1, <2>3
<1>3. ASSUME FetchPage(w) PROVE Receiving(w)
  BY <1>1, <1>3 DEF FetchPage
<1>4. ASSUME Look(w) PROVE Receiving(w)
  <2> DEFINE found == [t \in Sales |-> IF t \in Open(w) THEN raw[t] ELSE NoRow]
  <2>1. found \in Payloads /\ \A t \in Sales : found[t] = IF t \in Open(w) THEN raw[t] ELSE NoRow
    BY DEF TypeOK, Payloads
  <2>2. /\ recv[w] = "look" /\ recv' = [recv EXCEPT ![w] = "insert"]
        /\ seen' = [seen EXCEPT ![w] = found]
        /\ UNCHANGED <<table, messages, calls, page, slots, past, budget>>
    BY <1>4 DEF Look
  <2> HIDE DEF found
  <2>3. /\ recv' \in [Receivers -> {"idle", "look", "insert", "update"}] /\ recv'[w] = "insert"
        /\ seen' \in [Receivers -> Payloads] /\ seen'[w] = found
        /\ \A v \in Receivers \ {w} : recv'[v] = recv[v] /\ seen'[v] = seen[v]
    BY <2>1, <2>2 DEF TypeOK
  <2>4. UNCHANGED <<page, reordered, requests, faults, table, messages, calls, slots, newest,
                    overtaken, crowded, dropped>>
    BY <2>2 DEF past, budget
  <2> QED BY <2>1, <2>2, <2>3, <2>4 DEF Receiving, TypeOK
<1>5. ASSUME ReceiveThrows(w) PROVE Receiving(w)
  <2>1. /\ faults' \in 0..MaxFaults /\ ReceiverFree(w)
        /\ UNCHANGED <<table, messages, calls, slots, past, requests>>
    BY <1>5, ConstantsTyped DEF ReceiveThrows, TypeOK
  <2> QED BY <2>1, ReceiverFreed DEF Receiving, past, TypeOK
<1>6. ASSUME InsertNew(w), ReceiverFree(w),
             UNCHANGED <<raw, import, newest, messages, calls, dropped, faults>>
      PROVE  Receiving(w)
  <2>1. UNCHANGED <<sale, persons, slots, reordered, overtaken, crowded, requests>>
    BY <1>6 DEF InsertNew
  <2> QED BY <1>6, <2>1, ReceiverFreed DEF Receiving, table, TypeOK
<1> QED BY <1>2, <1>3, <1>4, <1>5, <1>6

\* The rows that were not found are inserted, if they still are not there.
LEMMA InsertDoes ==
  ASSUME TypeOK, NEW w \in Receivers, InsertNew(w),
         NEW new, new = {t \in Open(w) : seen[w][t] = NoRow}
  PROVE  \/ Receiving(w)
         \/ /\ UNCHANGED <<sale, persons, slots, reordered, overtaken, crowded, requests>>
            /\ recv[w] = "insert" /\ new \subseteq Sales
            /\ {raw', newest'} \subseteq Payloads
            /\ import' \in [Sales -> {"none", "pending", "processing", "processed", "error"}]
            /\ \A t \in new :
                 /\ page[w][t] \in Versions /\ raw[t] = NoRow /\ raw'[t] = page[w][t]
                 /\ import'[t] = "pending" /\ newest'[t] = Later(page[w][t], t)
            /\ \A t \in Sales \ new :
                 raw'[t] = raw[t] /\ import'[t] = import[t] /\ newest'[t] = newest[t]
            /\ Trigger(new)
            /\ \E left \in Payloads :
                 /\ Continue(w, left)
                 /\ \A t \in Sales : left[t] = IF t \in new THEN NoRow ELSE page[w][t]
<1>1. /\ recv[w] = "insert"
      /\ UNCHANGED <<sale, persons, slots, reordered, overtaken, crowded, requests>>
  BY DEF InsertNew
<1>2. CASE /\ \E t \in new : raw[t] # NoRow
           /\ ReceiverFree(w)
           /\ UNCHANGED <<raw, import, newest, messages, calls, dropped, faults>>
  BY <1>2, ReceptionSteps
<1>3. CASE /\ \A t \in new : raw[t] = NoRow
           /\ raw' = [t \in Sales |-> IF t \in new THEN page[w][t] ELSE raw[t]]
           /\ import' = [t \in Sales |-> IF t \in new THEN FirstStatus ELSE import[t]]
           /\ newest' = [t \in Sales |-> IF t \in new THEN Later(page[w][t], t) ELSE newest[t]]
           /\ Trigger(new)
           /\ Continue(w, [t \in Sales |-> IF t \in new THEN NoRow ELSE page[w][t]])
  <2>1. new \subseteq Sales /\ \A t \in new : page[w][t] # NoRow
    BY DEF Open
  <2>2. \A t \in Sales : page[w][t] \in Versions \cup {NoRow} /\ raw[t] \in Versions \cup {NoRow}
                         /\ newest[t] \in Versions \cup {NoRow}
    BY DEF TypeOK, Payloads
  <2>3. \A t \in new : page[w][t] \in Versions /\ Later(page[w][t], t) \in Versions
    BY <2>1, <2>2, LaterOf
  <2>4. {raw', newest'} \subseteq Payloads
    BY <1>3, <2>2, <2>3 DEF Payloads
  <2>5. import' \in [Sales -> {"none", "pending", "processing", "processed", "error"}]
    BY <1>3 DEF TypeOK, FirstStatus
  <2> DEFINE left == [t \in Sales |-> IF t \in new THEN NoRow ELSE page[w][t]]
  <2>6. /\ left \in Payloads /\ Continue(w, left)
        /\ \A t \in Sales : left[t] = IF t \in new THEN NoRow ELSE page[w][t]
    BY <1>3, <2>2 DEF Payloads
  <2>7. \A t \in new :
          /\ raw[t] = NoRow /\ raw'[t] = page[w][t]
          /\ import'[t] = "pending" /\ newest'[t] = Later(page[w][t], t)
    BY <1>3, <2>1 DEF FirstStatus
  <2>8. \A t \in Sales \ new :
          raw'[t] = raw[t] /\ import'[t] = import[t] /\ newest'[t] = newest[t]
    BY <1>3
  <2> HIDE DEF left
  <2> QED BY <1>1, <1>3, <2>1, <2>3, <2>4, <2>5, <2>6, <2>7, <2>8
<1> QED BY <1>2, <1>3 DEF InsertNew

LEMMA UpdateDoes ==
  ASSUME TypeOK, NEW w \in Receivers, NEW t \in Sales, UpdateRow(w, t)
  PROVE  /\ UNCHANGED <<sale, persons, slots, reordered, crowded, requests>>
         /\ recv[w] = "update" /\ t \in Open(w) /\ page[w][t] \in Versions
         /\ {raw', newest'} \subseteq Payloads
         /\ import' \in [Sales -> {"none", "pending", "processing", "processed", "error"}]
         /\ \/ /\ Changed(seen[w][t], page[w][t])
               /\ raw'[t] = page[w][t] /\ import'[t] = "pending"
               /\ overtaken' = IF Holders(t) # {} THEN overtaken \cup {t} ELSE overtaken
               /\ Trigger({t})
            \/ /\ ~Changed(seen[w][t], page[w][t])
               /\ UNCHANGED <<raw, import, overtaken, messages, calls, dropped, faults>>
         /\ newest'[t] = Later(page[w][t], t)
         /\ \A u \in Sales \ {t} :
              raw'[u] = raw[u] /\ import'[u] = import[u] /\ newest'[u] = newest[u]
         /\ \E left \in Payloads :
              /\ Continue(w, left)
              /\ \A u \in Sales : left[u] = IF u = t THEN NoRow ELSE page[w][u]
<1>1. /\ recv[w] = "update" /\ t \in Open(w)
      /\ UNCHANGED <<sale, persons, slots, reordered, crowded, requests>>
      /\ newest' = [newest EXCEPT ![t] = Later(page[w][t], t)]
  BY DEF UpdateRow
<1>2. page[w] \in Payloads /\ raw \in Payloads /\ newest \in Payloads
  BY DEF TypeOK
<1>3. page[w][t] \in Versions /\ Later(page[w][t], t) \in Versions
  BY <1>1, <1>2, LaterOf DEF Open, Payloads
<1>4. newest' \in Payloads /\ newest'[t] = Later(page[w][t], t)
      /\ \A u \in Sales \ {t} : newest'[u] = newest[u]
  BY <1>1, <1>2, <1>3 DEF Payloads
<1>5. \/ /\ Changed(seen[w][t], page[w][t])
         /\ raw' = [raw EXCEPT ![t] = page[w][t]]
         /\ import' = [import EXCEPT ![t] = "pending"]
         /\ overtaken' = IF Holders(t) # {} THEN overtaken \cup {t} ELSE overtaken
         /\ Trigger({t})
      \/ /\ ~Changed(seen[w][t], page[w][t])
         /\ UNCHANGED <<raw, import, overtaken, messages, calls, dropped, faults>>
  BY DEF UpdateRow
<1>6. /\ raw' \in Payloads
      /\ import' \in [Sales -> {"none", "pending", "processing", "processed", "error"}]
      /\ \A u \in Sales \ {t} : raw'[u] = raw[u] /\ import'[u] = import[u]
      /\ \/ raw' = raw /\ import' = import
         \/ raw'[t] = page[w][t] /\ import'[t] = "pending"
  BY <1>2, <1>3, <1>5 DEF TypeOK, Payloads
<1>7. \/ /\ Changed(seen[w][t], page[w][t])
         /\ raw'[t] = page[w][t] /\ import'[t] = "pending"
         /\ overtaken' = IF Holders(t) # {} THEN overtaken \cup {t} ELSE overtaken
         /\ Trigger({t})
      \/ /\ ~Changed(seen[w][t], page[w][t])
         /\ UNCHANGED <<raw, import, overtaken, messages, calls, dropped, faults>>
  BY <1>2, <1>5 DEF TypeOK, Payloads
<1> DEFINE left == [page[w] EXCEPT ![t] = NoRow]
<1>8. /\ left \in Payloads /\ Continue(w, left)
      /\ \A u \in Sales : left[u] = IF u = t THEN NoRow ELSE page[w][u]
  BY <1>2 DEF UpdateRow, Payloads
<1> HIDE DEF left
<1> QED BY <1>1, <1>3, <1>4, <1>6, <1>7, <1>8

-----------------------------------------------------------------------------
(* Types, and what is known of a row *)

LEMMA InitBase == Init => Base
<1> SUFFICES ASSUME Init PROVE Base
  OBVIOUS
<1>1. NoPage \in Payloads /\ \A t \in Sales : NoPage[t] = NoRow
  BY DEF NoPage, Payloads
<1>2. TypeOK
  BY <1>1, HotmartConstants DEF Init, TypeOK
<1>3. \A t \in Sales : Holders(t) = {}
  BY ConstantsTyped DEF Init, Holders
<1> QED BY <1>1, <1>2, <1>3 DEF Init, Base, SlotsFilled, RowsFirst, UpdatesFound

LEMMA ReceivingBase ==
  ASSUME Base, viaQueue' = viaQueue, NEW w \in Receivers, Receiving(w)
  PROVE  Base'
<1> USE DEF Base, Receiving, table, slots
<1>1. TypeOK'
  BY DEF TypeOK
<1>2. SlotsFilled'
  BY DEF SlotsFilled
<1>3. RowsFirst'
  BY DEF RowsFirst, Holders
<1>4. UpdatesFound'
  <2> SUFFICES ASSUME NEW v \in Receivers, recv'[v] = "update", NEW t \in Open(v)'
               PROVE  seen'[v][t] # NoRow
    BY DEF UpdatesFound
  <2>1. v # w
    OBVIOUS
  <2> QED BY <2>1 DEF UpdatesFound, Open
<1> QED BY <1>1, <1>2, <1>3, <1>4

LEMMA InsertBase ==
  ASSUME Base, viaQueue' = viaQueue, NEW w \in Receivers, InsertNew(w)
  PROVE  Base'
<1> DEFINE new == {t \in Open(w) : seen[w][t] = NoRow}
<1>1. CASE Receiving(w)
  BY <1>1, ReceivingBase
<1>2. ASSUME /\ UNCHANGED <<sale, persons, slots, reordered, overtaken, crowded, requests>>
             /\ recv[w] = "insert" /\ new \subseteq Sales
             /\ {raw', newest'} \subseteq Payloads
             /\ import' \in [Sales -> {"none", "pending", "processing", "processed", "error"}]
             /\ \A t \in new :
                  /\ page[w][t] \in Versions /\ raw[t] = NoRow /\ raw'[t] = page[w][t]
                  /\ import'[t] = "pending" /\ newest'[t] = Later(page[w][t], t)
             /\ \A t \in Sales \ new :
                  raw'[t] = raw[t] /\ import'[t] = import[t] /\ newest'[t] = newest[t]
             /\ Trigger(new),
             NEW left \in Payloads, Continue(w, left),
             \A t \in Sales : left[t] = IF t \in new THEN NoRow ELSE page[w][t]
      PROVE  Base'
  <2>0. TypeOK
    BY DEF Base
  <2>1. \A t \in new : raw'[t] # NoRow
    BY <1>2, ConstantsTyped DEF NoRow
  <2>2. \A t \in Sales : raw'[t] = NoRow <=> import'[t] = "none"
    BY <1>2, <2>0, <2>1 DEF TypeOK
  <2>3. /\ messages' \in [Sales -> Nat] /\ calls' \in [Sales -> Nat]
        /\ faults' \in 0..MaxFaults /\ dropped' \subseteq Sales
        /\ \A t \in Sales \ new : messages'[t] = messages[t] /\ calls'[t] = calls[t]
    BY <1>2, <2>0, TriggerDoes
  <2>4. /\ recv' \in [Receivers -> {"idle", "look", "insert", "update"}]
        /\ page' \in [Receivers -> Payloads] /\ seen' \in [Receivers -> Payloads]
        /\ page'[w] = left
        /\ \A t \in Sales : left[t] # NoRow => seen'[w][t] = seen[w][t]
        /\ \A t \in Sales : seen'[w][t] # NoRow => seen'[w][t] = seen[w][t]
        /\ \A v \in Receivers \ {w} :
             recv'[v] = recv[v] /\ page'[v] = page[v] /\ seen'[v] = seen[v]
    BY <1>2, <2>0, ContinueDoes
  <2> HIDE DEF new
  <2>5. TypeOK'
    BY <1>2, <2>0, <2>2, <2>3, <2>4 DEF TypeOK, slots
  <2>6. SlotsFilled'
    BY <1>2 DEF Base, SlotsFilled, slots
  <2>7. RowsFirst'
    <3> SUFFICES ASSUME NEW t \in Sales, raw'[t] = NoRow
                 PROVE  /\ messages'[t] = 0 /\ calls'[t] = 0 /\ Holders(t)' = {}
                        /\ newest'[t] = NoRow /\ \A v \in Receivers : seen'[v][t] = NoRow
      BY DEF RowsFirst
    <3>1. t \notin new /\ raw[t] = NoRow
      BY <1>2, <2>1
    <3>2. /\ messages[t] = 0 /\ calls[t] = 0 /\ Holders(t) = {}
          /\ newest[t] = NoRow /\ \A v \in Receivers : seen[v][t] = NoRow
      BY <3>1 DEF Base, RowsFirst
    <3> QED BY <1>2, <2>3, <2>4, <3>1, <3>2 DEF Holders, slots
  <2>8. UpdatesFound'
    <3> SUFFICES ASSUME NEW v \in Receivers, recv'[v] = "update", NEW t \in Open(v)'
                 PROVE  seen'[v][t] # NoRow
      BY DEF UpdatesFound
    <3>1. CASE v # w
      BY <2>4, <3>1 DEF Base, UpdatesFound, Open
    <3>2. CASE v = w
      <4>1. t \in Sales /\ left[t] # NoRow
        BY <2>4, <3>2 DEF Open
      <4>2. t \notin new /\ t \in Open(w)
        BY <1>2, <4>1 DEF Open
      <4>3. seen[w][t] # NoRow
        BY <4>2 DEF new
      <4> QED BY <2>4, <3>2, <4>1, <4>3
    <3> QED BY <3>1, <3>2
  <2> QED BY <2>5, <2>6, <2>7, <2>8 DEF Base
<1> QED BY <1>1, <1>2, InsertDoes DEF Base

LEMMA UpdateBase ==
  ASSUME Base, viaQueue' = viaQueue, NEW w \in Receivers, NEW t \in Sales, UpdateRow(w, t)
  PROVE  Base'
<1>0. TypeOK
  BY DEF Base
<1>1. /\ UNCHANGED <<sale, persons, slots, reordered, crowded, requests>>
      /\ recv[w] = "update" /\ t \in Open(w) /\ page[w][t] \in Versions
      /\ {raw', newest'} \subseteq Payloads
      /\ import' \in [Sales -> {"none", "pending", "processing", "processed", "error"}]
      /\ newest'[t] = Later(page[w][t], t)
      /\ \A u \in Sales \ {t} :
           raw'[u] = raw[u] /\ import'[u] = import[u] /\ newest'[u] = newest[u]
  BY <1>0, UpdateDoes
<1>2. PICK left \in Payloads :
        /\ Continue(w, left)
        /\ \A u \in Sales : left[u] = IF u = t THEN NoRow ELSE page[w][u]
  BY <1>0, UpdateDoes
<1>3. raw[t] # NoRow
  BY <1>1 DEF Base, RowsFirst, UpdatesFound
<1>4. raw'[t] # NoRow /\ import'[t] # "none" /\ overtaken' \subseteq Sales
  <2>1. page[w][t] # NoRow /\ import[t] # "none" /\ overtaken \subseteq Sales
    BY <1>0, <1>1, <1>3, ConstantsTyped DEF TypeOK, NoRow
  <2>2. \/ raw'[t] = page[w][t] /\ import'[t] = "pending"
        \/ raw' = raw /\ import' = import
    BY <1>0, UpdateDoes
  <2>3. overtaken' \in {overtaken, overtaken \cup {t}}
    BY <1>0, UpdateDoes
  <2> QED BY <1>3, <2>1, <2>2, <2>3
<1>5. /\ messages' \in [Sales -> Nat] /\ calls' \in [Sales -> Nat]
      /\ faults' \in 0..MaxFaults /\ dropped' \subseteq Sales
      /\ \A u \in Sales \ {t} : messages'[u] = messages[u] /\ calls'[u] = calls[u]
  <2>1. CASE Trigger({t})
    BY <1>0, <2>1, TriggerDoes
  <2>2. CASE UNCHANGED <<messages, calls, dropped, faults>>
    BY <1>0, <2>2 DEF TypeOK
  <2> QED BY <1>0, <2>1, <2>2, UpdateDoes
<1>6. /\ recv' \in [Receivers -> {"idle", "look", "insert", "update"}]
      /\ page' \in [Receivers -> Payloads] /\ seen' \in [Receivers -> Payloads]
      /\ page'[w] = left
      /\ \A u \in Sales : left[u] # NoRow => seen'[w][u] = seen[w][u]
      /\ \A u \in Sales : seen'[w][u] # NoRow => seen'[w][u] = seen[w][u]
      /\ \A v \in Receivers \ {w} :
           recv'[v] = recv[v] /\ page'[v] = page[v] /\ seen'[v] = seen[v]
  BY <1>0, <1>2, ContinueDoes
<1>7. TypeOK'
  BY <1>0, <1>1, <1>4, <1>5, <1>6 DEF TypeOK, slots
<1>8. SlotsFilled'
  BY <1>1 DEF Base, SlotsFilled, slots
<1>9. RowsFirst'
  <2> SUFFICES ASSUME NEW u \in Sales, raw'[u] = NoRow
               PROVE  /\ messages'[u] = 0 /\ calls'[u] = 0 /\ Holders(u)' = {}
                      /\ newest'[u] = NoRow /\ \A v \in Receivers : seen'[v][u] = NoRow
    BY DEF RowsFirst
  <2>1. u # t /\ raw[u] = NoRow
    BY <1>1, <1>4
  <2>2. /\ messages[u] = 0 /\ calls[u] = 0 /\ Holders(u) = {}
        /\ newest[u] = NoRow /\ \A v \in Receivers : seen[v][u] = NoRow
    BY <2>1 DEF Base, RowsFirst
  <2> QED BY <1>1, <1>5, <1>6, <2>1, <2>2 DEF Holders, slots
<1>10. UpdatesFound'
  <2> SUFFICES ASSUME NEW v \in Receivers, recv'[v] = "update", NEW u \in Open(v)'
               PROVE  seen'[v][u] # NoRow
    BY DEF UpdatesFound
  <2>1. CASE v # w
    BY <1>6, <2>1 DEF Base, UpdatesFound, Open
  <2>2. CASE v = w
    <3>1. u \in Sales /\ left[u] # NoRow
      BY <1>6, <2>2 DEF Open
    <3>2. u \in Open(w)
      BY <1>2, <3>1 DEF Open
    <3> QED BY <1>1, <1>6, <2>2, <3>1, <3>2 DEF Base, UpdatesFound
  <2> QED BY <2>1, <2>2
<1> QED BY <1>7, <1>8, <1>9, <1>10 DEF Base

LEMMA BeginBase ==
  ASSUME Base, viaQueue' = viaQueue, NEW p \in Processors, NEW t \in Sales,
         Deliver(p, t) \/ Call(p, t)
  PROVE  Base'
<1>1. /\ messages' \in [Sales -> Nat] /\ calls' \in [Sales -> Nat]
      /\ \A u \in Sales : messages'[u] <= messages[u] /\ calls'[u] <= calls[u]
      /\ messages[t] > 0 \/ calls[t] > 0
  <2>1. messages \in [Sales -> Nat] /\ calls \in [Sales -> Nat]
    BY DEF Base, TypeOK
  <2>2. CASE messages[t] > 0 /\ messages' = [messages EXCEPT ![t] = messages[t] - 1] /\ calls' = calls
    BY <2>1, <2>2
  <2>3. CASE calls[t] > 0 /\ calls' = [calls EXCEPT ![t] = calls[t] - 1] /\ messages' = messages
    BY <2>1, <2>3
  <2> QED BY <2>2, <2>3 DEF Deliver, Call
<1>2. PICK m \in BOOLEAN : Begin(p, t, m)
  BY DEF Deliver, Call
<1>3. raw[t] # NoRow
  BY <1>1 DEF Base, TypeOK, RowsFirst
<1>4. /\ pc' = [pc EXCEPT ![p] = "read"] /\ work' = [work EXCEPT ![p] = t]
      /\ held' = [held EXCEPT ![p] = m]
      /\ overtaken' \in {overtaken, overtaken \cup {t}}
      /\ crowded' \in {crowded, crowded \cup {BuyerOf[t]}}
      /\ UNCHANGED <<table, receivers, read, newest, reordered, dropped, budget>>
  BY <1>2 DEF Begin
<1>5. TypeOK'
  BY <1>1, <1>4, ConstantsTyped DEF Base, TypeOK, table, receivers, budget
<1>6. SlotsFilled'
  BY <1>4, ConstantsTyped DEF Base, TypeOK, SlotsFilled
<1>7. RowsFirst'
  <2> SUFFICES ASSUME NEW u \in Sales, raw'[u] = NoRow
               PROVE  /\ messages'[u] = 0 /\ calls'[u] = 0 /\ Holders(u)' = {}
                      /\ newest'[u] = NoRow /\ \A v \in Receivers : seen'[v][u] = NoRow
    BY DEF RowsFirst
  <2>1. u # t /\ raw[u] = NoRow
    BY <1>3, <1>4 DEF table
  <2>2. /\ messages[u] = 0 /\ calls[u] = 0 /\ Holders(u) = {}
        /\ newest[u] = NoRow /\ \A v \in Receivers : seen[v][u] = NoRow
    BY <2>1 DEF Base, RowsFirst
  <2>3. Holders(u)' = {}
    BY <1>4, <2>1, <2>2 DEF Base, TypeOK, Holders
  <2> QED BY <1>1, <1>4, <2>2, <2>3 DEF Base, TypeOK, receivers
<1>8. UpdatesFound'
  BY <1>4 DEF Base, UpdatesFound, Open, receivers
<1> QED BY <1>5, <1>6, <1>7, <1>8 DEF Base

LEMMA BatchBase ==
  ASSUME Base, viaQueue' = viaQueue, Batch
  PROVE  Base'
<1> USE DEF Base
<1>1. requests' \in 0..MaxRequests /\ calls' \in [Sales -> Nat]
      /\ \A t \in Sales : import[t] # "pending" => calls'[t] = calls[t]
  BY ConstantsTyped DEF Batch, TypeOK
<1>2. UNCHANGED <<table, messages, receivers, slots, past, faults>>
  BY DEF Batch
<1>3. TypeOK'
  BY <1>1, <1>2 DEF TypeOK, table, receivers, slots, past
<1>4. RowsFirst'
  BY <1>1, <1>2 DEF TypeOK, RowsFirst, Holders, table, receivers, slots, past
<1> QED BY <1>2, <1>3, <1>4 DEF SlotsFilled, UpdatesFound, Open, receivers, slots

\* A processor goes on with its row, and writes what belongs to the row.
LEMMA WorkingBase ==
  ASSUME Base, viaQueue' = viaQueue, NEW p \in Processors, pc[p] # "idle",
         UNCHANGED <<raw, messages, calls, receivers, past, requests, work>>,
         faults' \in 0..MaxFaults, held' \in [Processors -> BOOLEAN],
         import' \in {import, [import EXCEPT ![work[p]] = "processing"]},
         sale' \in {sale, [sale EXCEPT ![work[p]] = read[p]]},
         persons' \in [Buyers -> Nat],
         read' \in {read, [read EXCEPT ![p] = raw[work[p]]], [read EXCEPT ![p] = NoRow]},
         NEW at \in {"read", "mark", "person", "create", "upsert", "finish", "failing"},
         pc' = [pc EXCEPT ![p] = at]
  PROVE  Base'
<1> USE DEF Base
<1>1. work[p] \in Sales /\ raw[work[p]] # NoRow
  BY WorksOn
<1>2. raw[work[p]] \in Versions \cup {NoRow} /\ read[p] \in Versions \cup {NoRow}
  BY <1>1 DEF TypeOK, Payloads
<1>3. sale' \in Payloads
  BY <1>2 DEF TypeOK, Payloads
<1>4. read' \in [Processors -> Versions \cup {NoRow}]
  BY <1>2 DEF TypeOK
<1>5. import' \in [Sales -> {"none", "pending", "processing", "processed", "error"}]
      /\ \A t \in Sales : raw[t] = NoRow <=> import'[t] = "none"
  BY <1>1 DEF TypeOK
<1>6. TypeOK'
  <2>1. pc' \in [Processors -> {"idle", "read", "mark", "person", "create", "upsert",
                               "finish", "failing"}]
    BY DEF TypeOK
  <2>2. {raw', sale', newest'} \subseteq Payloads
    BY <1>3 DEF TypeOK, past
  <2> QED BY <1>4, <1>5, <2>1, <2>2 DEF TypeOK, receivers, past
<1>7. SlotsFilled'
  BY DEF TypeOK, SlotsFilled
<1>8. RowsFirst'
  BY DEF RowsFirst, Holders, receivers, past
<1> QED BY <1>6, <1>7, <1>8 DEF UpdatesFound, Open, receivers

\* A processor leaves its row, whatever becomes of the message.
LEMMA LeavingBase ==
  ASSUME Base, viaQueue' = viaQueue, NEW p \in Processors, pc[p] # "idle", Free(p),
         UNCHANGED <<raw, sale, persons, calls, receivers, newest, reordered, overtaken,
                     crowded, requests>>,
         faults' \in 0..MaxFaults,
         NEW s \in {"processed", "error"},
         import' \in {import, [import EXCEPT ![work[p]] = s]},
         GiveBack(p) \/ UNCHANGED <<messages, dropped>>
  PROVE  Base'
<1> USE DEF Base
<1>1. work[p] \in Sales /\ raw[work[p]] # NoRow
  BY WorksOn
<1>2. /\ messages' \in [Sales -> Nat] /\ dropped' \subseteq Sales
      /\ \A t \in Sales : t # work[p] => messages'[t] = messages[t]
  BY <1>1 DEF TypeOK, GiveBack
<1>3. import' \in [Sales -> {"none", "pending", "processing", "processed", "error"}]
      /\ \A t \in Sales : raw[t] = NoRow <=> import'[t] = "none"
  BY <1>1 DEF TypeOK
<1>4. TypeOK'
  BY <1>2, <1>3, ProcessorFreed DEF TypeOK, receivers
<1>5. SlotsFilled'
  BY ProcessorFreed DEF TypeOK, SlotsFilled
<1>6. RowsFirst'
  <2> SUFFICES ASSUME NEW u \in Sales, raw'[u] = NoRow
               PROVE  /\ messages'[u] = 0 /\ calls'[u] = 0 /\ Holders(u)' = {}
                      /\ newest'[u] = NoRow /\ \A v \in Receivers : seen'[v][u] = NoRow
    BY DEF RowsFirst
  <2>1. u # work[p] /\ raw[u] = NoRow /\ u # NoSale
    BY <1>1, ConstantsTyped
  <2>2. /\ messages[u] = 0 /\ calls[u] = 0 /\ Holders(u) = {}
        /\ newest[u] = NoRow /\ \A v \in Receivers : seen[v][u] = NoRow
    BY <2>1 DEF RowsFirst
  <2>3. Holders(u)' = {}
    BY <2>1, <2>2, ProcessorFreed DEF Holders
  <2> QED BY <1>2, <2>1, <2>2, <2>3 DEF receivers
<1> QED BY <1>4, <1>5, <1>6 DEF UpdatesFound, Open, receivers

LEMMA ProcessBase ==
  ASSUME Base, viaQueue' = viaQueue, NEW p \in Processors,
         Process(p) \/ ProcessThrows(p) \/ Crash(p)
  PROVE  Base'
<1> USE DEF Goto
<1>1. CASE ReadRaw(p)
  <2>1. pc[p] # "idle" /\ UNCHANGED <<table, messages, calls, receivers, past, budget>>
    BY <1>1 DEF ReadRaw
  <2>2. CASE Free(p)
    BY <2>1, <2>2, LeavingBase DEF table, past, budget, Base, TypeOK
  <2>3. CASE /\ read' = [read EXCEPT ![p] = raw[work[p]]]
             /\ Goto(p, "mark") /\ UNCHANGED <<work, held>>
    BY <2>1, <2>3, WorkingBase DEF table, budget, Base, TypeOK
  <2> QED BY <1>1, <2>2, <2>3 DEF ReadRaw
<1>2. CASE MarkProcessing(p)
  BY <1>2, WorkingBase DEF MarkProcessing, budget, Base, TypeOK
<1>3. CASE FindPerson(p)
  BY <1>3, WorkingBase DEF FindPerson, table, budget, Base, TypeOK
<1>4. CASE CreatePerson(p)
  <2>1. work[p] \in Sales
    BY <1>4, WorksOn DEF CreatePerson
  <2>2. persons' \in [Buyers -> Nat]
    BY <1>4, <2>1, ConstantsTyped DEF CreatePerson, Base, TypeOK
  <2> QED BY <1>4, <2>2, WorkingBase DEF CreatePerson, budget, Base, TypeOK
<1>5. CASE UpsertSale(p)
  BY <1>5, WorkingBase DEF UpsertSale, budget, Base, TypeOK
<1>6. CASE Finish(p)
  BY <1>6, LeavingBase DEF Finish, past, budget, Base, TypeOK
<1>7. CASE ProcessThrows(p)
  <2>1. faults' \in 0..MaxFaults
    BY <1>7, ConstantsTyped DEF ProcessThrows, Base, TypeOK
  <2> QED BY <1>7, <2>1, WorkingBase DEF ProcessThrows, table, Base, TypeOK
<1>8. CASE MarkError(p)
  BY <1>8, LeavingBase DEF MarkError, budget, Base, TypeOK
<1>9. CASE Crash(p)
  <2>1. faults' \in 0..MaxFaults
    BY <1>9, ConstantsTyped DEF Crash, Base, TypeOK
  <2> QED BY <1>9, <2>1, LeavingBase DEF Crash, table, Base, TypeOK
<1> QED BY <1>1, <1>2, <1>3, <1>4, <1>5, <1>6, <1>7, <1>8, <1>9 DEF Process

LEMMA LockLapsesBase ==
  ASSUME Base, viaQueue' = viaQueue, NEW p \in Processors, LockLapses(p)
  PROVE  Base'
<1> USE DEF Base
<1>1. /\ faults' \in 0..MaxFaults /\ held' \in [Processors -> BOOLEAN]
      /\ messages' = [messages EXCEPT ![work[p]] = messages[work[p]] + 1]
      /\ UNCHANGED <<table, calls, receivers, pc, work, read, past, requests>>
  BY ConstantsTyped DEF LockLapses, TypeOK
<1>2. /\ messages' \in [Sales -> Nat]
      /\ \A t \in Sales : t # work[p] => messages'[t] = messages[t]
  <2>1. messages \in [Sales -> Nat]
    BY DEF TypeOK
  <2>2. CASE work[p] \in Sales
    BY <1>1, <2>1, <2>2
  <2>3. CASE work[p] \notin Sales
    BY <1>1, <2>1, <2>3
  <2> QED BY <2>2, <2>3
<1>3. work[p] \in Sales => raw[work[p]] # NoRow
  BY DEF RowsFirst, Holders
<1>4. TypeOK'
  BY <1>1, <1>2 DEF TypeOK, table, receivers, past
<1>5. RowsFirst'
  BY <1>1, <1>2, <1>3 DEF RowsFirst, Holders, table, receivers, past
<1> QED BY <1>1, <1>4, <1>5 DEF SlotsFilled, UpdatesFound, Open, receivers

\* A step is one of a reception, of a processor, or a batch.
LEMMA StepsSorted ==
  ASSUME Base, [Next /\ UNCHANGED viaQueue]_vars
  PROVE  /\ viaQueue' = viaQueue
         /\ \/ UNCHANGED vars
            \/ \E w \in Receivers :
                 Receiving(w) \/ InsertNew(w) \/ \E t \in Sales : UpdateRow(w, t)
            \/ \E p \in Processors :
                 \/ \E t \in Sales : Deliver(p, t) \/ Call(p, t)
                 \/ Process(p) \/ ProcessThrows(p) \/ Crash(p) \/ LockLapses(p)
            \/ Batch
BY ReceptionSteps DEF Next, Record, Base, vars

LEMMA NextBase ==
  ASSUME Base, [Next /\ UNCHANGED viaQueue]_vars
  PROVE  Base'
<1>1. CASE UNCHANGED vars
  BY <1>1 DEF Base, TypeOK, SlotsFilled, RowsFirst, UpdatesFound, Holders, Open,
              vars, table, receivers, slots, past, budget
<1> QED BY <1>1, StepsSorted, ReceivingBase, InsertBase, UpdateBase, BeginBase, BatchBase,
       ProcessBase, LockLapsesBase

\* At all times the sales are in a state of their types.
THEOREM TypeCorrect == Spec => []TypeOK
<1>1. Base => TypeOK
  BY DEF Base
<1> QED BY InitBase, NextBase, <1>1, PTL DEF Spec

-----------------------------------------------------------------------------
(* The raw row shows the newest event *)

LEMMA ProcessingKeepsRecords ==
  ASSUME \/ Batch
         \/ \E p \in Processors :
              \/ \E t \in Sales : Deliver(p, t) \/ Call(p, t)
              \/ Process(p) \/ ProcessThrows(p) \/ Crash(p) \/ LockLapses(p)
  PROVE  UNCHANGED <<raw, newest, reordered, recv, page, seen>>
<1>1. CASE Batch
  BY <1>1 DEF Batch, table, receivers, past
<1>2. ASSUME NEW p \in Processors, NEW t \in Sales, Deliver(p, t) \/ Call(p, t)
      PROVE  UNCHANGED <<raw, newest, reordered, recv, page, seen>>
  BY <1>2 DEF Deliver, Call, Begin, table, receivers
<1>3. ASSUME NEW p \in Processors, Process(p)
      PROVE  UNCHANGED <<raw, newest, reordered, recv, page, seen>>
  BY <1>3 DEF Process, ReadRaw, MarkProcessing, FindPerson, CreatePerson, UpsertSale,
       Finish, MarkError, table, receivers, past
<1>4. ASSUME NEW p \in Processors, ProcessThrows(p) \/ Crash(p) \/ LockLapses(p)
      PROVE  UNCHANGED <<raw, newest, reordered, recv, page, seen>>
  BY <1>4 DEF ProcessThrows, Crash, LockLapses, table, receivers, past
<1> QED BY <1>1, <1>2, <1>3, <1>4

Recorded == Base /\ ReceivedInOrder /\ RawShowsNewest

LEMMA ReceivingInOrder ==
  ASSUME Recorded, NEW w \in Receivers, Receiving(w)
  PROVE  ReceivedInOrder' /\ RawShowsNewest'
<1> USE DEF Recorded
<1>1. UNCHANGED <<raw, newest>> /\ reordered \subseteq reordered'
  BY DEF Receiving, table
<1>2. RawShowsNewest'
  BY <1>1 DEF RawShowsNewest
<1>3. \A v \in Receivers \ {w} : recv'[v] = recv[v] /\ page'[v] = page[v] /\ seen'[v] = seen[v]
  BY DEF Receiving
<1> SUFFICES ASSUME NEW t \in Sales, t \notin reordered'
             PROVE  /\ \A u, v \in Receivers : t \in Open(u)' /\ t \in Open(v)' => u = v
                    /\ \A v \in Receivers : t \in Open(v)' =>
                         /\ page'[v][t] >= newest'[t]
                         /\ recv'[v] \in {"insert", "update"} => seen'[v][t] = raw'[t]
  BY <1>2 DEF ReceivedInOrder
<1>4. /\ \A u, v \in Receivers : t \in Open(u) /\ t \in Open(v) => u = v
      /\ \A v \in Receivers : t \in Open(v) =>
           /\ page[v][t] >= newest[t]
           /\ recv[v] \in {"insert", "update"} => seen[v][t] = raw[t]
  BY <1>1 DEF ReceivedInOrder
<1>5. \A v \in Receivers \ {w} : t \in Open(v)' <=> t \in Open(v)
  BY <1>3 DEF Open
<1>6. CASE /\ recv'[w] = "look"
           /\ page'[w][t] # NoRow =>
                page'[w][t] >= newest[t] /\ \A v \in Receivers : t \notin Open(v)
  <2>1. t \in Open(w)' => page'[w][t] # NoRow
    BY DEF Open
  <2> QED BY <1>1, <1>3, <1>4, <1>5, <1>6, <2>1
<1>7. CASE /\ page' = page
           /\ seen'[w][t] = IF t \in Open(w) THEN raw[t] ELSE NoRow
  <2>1. \A v \in Receivers : t \in Open(v)' <=> t \in Open(v)
    BY <1>7 DEF Open
  <2>2. \A v \in Receivers \ {w} : t \in Open(v)' =>
          /\ page'[v][t] >= newest'[t]
          /\ recv'[v] \in {"insert", "update"} => seen'[v][t] = raw'[t]
    BY <1>1, <1>3, <1>4, <2>1
  <2>3. t \in Open(w)' => page'[w][t] >= newest'[t] /\ seen'[w][t] = raw'[t]
    BY <1>1, <1>4, <1>7, <2>1
  <2> QED BY <1>4, <2>1, <2>2, <2>3
<1>8. CASE page'[w][t] = NoRow
  <2>1. t \notin Open(w)'
    BY <1>8 DEF Open
  <2> QED BY <1>1, <1>3, <1>4, <1>5, <2>1
<1> QED BY <1>6, <1>7, <1>8 DEF Receiving

\* A reception that records a version, of rows as they were found, goes on in order.
LEMMA RecordsInOrder ==
  ASSUME Recorded, NEW w \in Receivers, recv[w] \in {"insert", "update"},
         NEW rows \in SUBSET Sales, reordered' = reordered,
         \A t \in rows :
           /\ t \in Open(w) /\ page[w][t] \in Versions
           /\ newest'[t] = Later(page[w][t], t)
           /\ \/ raw'[t] = page[w][t]
              \/ raw'[t] = raw[t] /\ raw[t] # NoRow /\ ~Changed(seen[w][t], page[w][t]),
         \A t \in Sales \ rows : raw'[t] = raw[t] /\ newest'[t] = newest[t],
         NEW left \in Payloads, Continue(w, left),
         \A t \in Sales : left[t] = IF t \in rows THEN NoRow ELSE page[w][t]
  PROVE  ReceivedInOrder' /\ RawShowsNewest'
<1> USE DEF Recorded
<1>0. TypeOK
  BY DEF Base
<1>1. /\ page'[w] = left
      /\ \A t \in Sales : left[t] # NoRow => seen'[w][t] = seen[w][t]
      /\ \A v \in Receivers \ {w} :
           recv'[v] = recv[v] /\ page'[v] = page[v] /\ seen'[v] = seen[v]
  BY <1>0, ContinueDoes
<1>2. ASSUME NEW t \in Sales, NEW v \in Receivers, t \in Open(v)'
      PROVE  /\ t \in Open(v) /\ page'[v][t] = page[v][t] /\ seen'[v][t] = seen[v][t]
             /\ v = w => t \notin rows
             /\ recv'[v] \in {"insert", "update"} => recv[v] \in {"insert", "update"}
  <2>1. CASE v = w
    <3>1. left[t] # NoRow
      BY <1>1, <1>2, <2>1 DEF Open
    <3> QED BY <1>1, <2>1, <3>1 DEF Open
  <2>2. CASE v # w
    BY <1>1, <1>2, <2>2 DEF Open
  <2> QED BY <2>1, <2>2
<1>3. ReceivedInOrder'
  <2> SUFFICES ASSUME NEW t \in Sales, t \notin reordered
               PROVE  /\ \A u, v \in Receivers : t \in Open(u)' /\ t \in Open(v)' => u = v
                      /\ \A v \in Receivers : t \in Open(v)' =>
                           /\ page'[v][t] >= newest'[t]
                           /\ recv'[v] \in {"insert", "update"} => seen'[v][t] = raw'[t]
    BY DEF ReceivedInOrder
  <2>1. /\ \A u, v \in Receivers : t \in Open(u) /\ t \in Open(v) => u = v
        /\ \A v \in Receivers : t \in Open(v) =>
             /\ page[v][t] >= newest[t]
             /\ recv[v] \in {"insert", "update"} => seen[v][t] = raw[t]
    BY DEF ReceivedInOrder
  <2>2. \A v \in Receivers : t \in Open(v)' => t \notin rows
    BY <1>2, <2>1
  <2> QED BY <1>2, <2>1, <2>2
<1>4. RawShowsNewest'
  <2> SUFFICES ASSUME NEW t \in Sales, t \notin reordered, newest'[t] # NoRow
               PROVE  raw'[t] # NoRow /\ StatusOf[raw'[t]] = StatusOf[newest'[t]]
    BY DEF RawShowsNewest
  <2>1. CASE t \notin rows
    BY <2>1 DEF RawShowsNewest
  <2>2. CASE t \in rows
    <3>1. /\ page[w][t] >= newest[t] /\ seen[w][t] = raw[t]
          /\ page[w][t] \in Versions /\ page[w][t] # NoRow
      BY <2>2, ConstantsTyped DEF ReceivedInOrder, Open
    <3>2. newest'[t] = page[w][t]
      BY <1>0, <2>2, <3>1, LaterOf
    <3>3. \/ raw'[t] = page[w][t]
          \/ raw'[t] = raw[t] /\ raw[t] # NoRow /\ ~Changed(seen[w][t], page[w][t])
      BY <2>2
    <3> QED BY <3>1, <3>2, <3>3 DEF Changed
  <2> QED BY <2>1, <2>2
<1> QED BY <1>3, <1>4

LEMMA NextInOrder ==
  ASSUME Recorded, [Next /\ UNCHANGED viaQueue]_vars
  PROVE  ReceivedInOrder' /\ RawShowsNewest'
<1>0. Base /\ TypeOK
  BY DEF Recorded, Base
<1>1. CASE UNCHANGED <<raw, newest, reordered, recv, page, seen>>
  BY <1>1 DEF Recorded, ReceivedInOrder, RawShowsNewest, Open
<1>2. ASSUME NEW w \in Receivers, InsertNew(w)
      PROVE  ReceivedInOrder' /\ RawShowsNewest'
  <2> DEFINE new == {t \in Open(w) : seen[w][t] = NoRow}
  <2>1. new \subseteq Sales /\ \A t \in new : t \in Open(w)
    BY DEF Open
  <2>2. CASE Receiving(w)
    BY <2>2, ReceivingInOrder
  <2>3. ASSUME recv[w] = "insert", UNCHANGED reordered,
               \A t \in new :
                 /\ page[w][t] \in Versions /\ raw'[t] = page[w][t]
                 /\ newest'[t] = Later(page[w][t], t),
               \A t \in Sales \ new : raw'[t] = raw[t] /\ newest'[t] = newest[t],
               NEW left \in Payloads, Continue(w, left),
               \A t \in Sales : left[t] = IF t \in new THEN NoRow ELSE page[w][t]
        PROVE  ReceivedInOrder' /\ RawShowsNewest'
    <3> HIDE DEF new
    <3> QED BY <2>1, <2>3, RecordsInOrder
  <2>4. \/ Receiving(w)
        \/ /\ recv[w] = "insert" /\ UNCHANGED reordered
           /\ \A t \in new :
                /\ page[w][t] \in Versions /\ raw'[t] = page[w][t]
                /\ newest'[t] = Later(page[w][t], t)
           /\ \A t \in Sales \ new : raw'[t] = raw[t] /\ newest'[t] = newest[t]
           /\ \E left \in Payloads :
                /\ Continue(w, left)
                /\ \A t \in Sales : left[t] = IF t \in new THEN NoRow ELSE page[w][t]
    <3> HIDE DEF new
    <3>1. new = {t \in Open(w) : seen[w][t] = NoRow}
      BY DEF new
    <3> QED BY <1>0, <1>2, <3>1, InsertDoes
  <2> HIDE DEF new
  <2> QED BY <2>2, <2>3, <2>4
<1>3. ASSUME NEW w \in Receivers, NEW t \in Sales, UpdateRow(w, t)
      PROVE  ReceivedInOrder' /\ RawShowsNewest'
  <2>1. /\ UNCHANGED reordered
        /\ recv[w] = "update" /\ t \in Open(w) /\ page[w][t] \in Versions
        /\ newest'[t] = Later(page[w][t], t)
        /\ \A u \in Sales \ {t} : raw'[u] = raw[u] /\ newest'[u] = newest[u]
    BY <1>0, <1>3, UpdateDoes
  <2>2. raw[t] # NoRow
    BY <1>0, <2>1 DEF Base, RowsFirst, UpdatesFound
  <2>3. \/ raw'[t] = page[w][t]
        \/ raw'[t] = raw[t] /\ raw[t] # NoRow /\ ~Changed(seen[w][t], page[w][t])
    BY <1>0, <1>3, <2>2, UpdateDoes
  <2>4. PICK left \in Payloads :
          /\ Continue(w, left)
          /\ \A u \in Sales : left[u] = IF u = t THEN NoRow ELSE page[w][u]
    BY <1>0, <1>3, UpdateDoes
  <2> DEFINE rows == {t}
  <2>5. /\ rows \in SUBSET Sales /\ recv[w] \in {"insert", "update"}
        /\ reordered' = reordered
        /\ \A u \in rows : u = t
        /\ \A u \in Sales : left[u] = IF u \in rows THEN NoRow ELSE page[w][u]
        /\ \A u \in Sales \ rows : raw'[u] = raw[u] /\ newest'[u] = newest[u]
    BY <2>1, <2>4
  <2> HIDE DEF rows
  <2>6. \A u \in rows :
          /\ u \in Open(w) /\ page[w][u] \in Versions
          /\ newest'[u] = Later(page[w][u], u)
          /\ \/ raw'[u] = page[w][u]
             \/ raw'[u] = raw[u] /\ raw[u] # NoRow /\ ~Changed(seen[w][u], page[w][u])
    BY <2>1, <2>3, <2>5
  <2> QED BY <2>4, <2>5, <2>6, RecordsInOrder, SMTT(60)
<1>4. ASSUME NEW w \in Receivers, Receiving(w)
      PROVE  ReceivedInOrder' /\ RawShowsNewest'
  BY <1>4, ReceivingInOrder
<1>5. UNCHANGED vars => UNCHANGED <<raw, newest, reordered, recv, page, seen>>
  BY DEF vars, table, receivers, past
<1> QED BY <1>0, <1>1, <1>2, <1>3, <1>4, <1>5, StepsSorted, ProcessingKeepsRecords

-----------------------------------------------------------------------------
(* A row marked processed has its payload in the sale *)

Held == Base /\ HeldAsRead /\ ProcessedShowsRaw

\* A processor goes on with its row, or leaves it, and touches no other.
LEMMA HandsGoOn ==
  ASSUME Held, NEW p \in Processors, pc[p] # "idle", UNCHANGED <<raw, overtaken>>,
         \A q \in Processors \ {p} : work'[q] = work[q] /\ pc'[q] = pc[q] /\ read'[q] = read[q],
         work'[p] \in {work[p], NoSale},
         \A t \in Sales : t # work[p] => sale'[t] = sale[t] /\ import'[t] = import[t],
         work[p] \notin overtaken =>
           /\ work'[p] = work[p] =>
                /\ pc'[p] \in {"mark", "person", "create", "upsert"} => read'[p] = raw[work[p]]
                /\ pc'[p] = "finish" => sale'[work[p]] = raw[work[p]]
           /\ import'[work[p]] = "processed" => sale'[work[p]] = raw[work[p]]
  PROVE  HeldAsRead' /\ ProcessedShowsRaw'
<1> USE DEF Held
<1>1. ProcessedShowsRaw'
  <2> SUFFICES ASSUME NEW t \in Sales, t \notin overtaken, import'[t] = "processed"
               PROVE  sale'[t] = raw[t]
    BY DEF ProcessedShowsRaw
  <2> QED BY DEF ProcessedShowsRaw
<1>2. HeldAsRead'
  <2> SUFFICES ASSUME NEW t \in Sales, t \notin overtaken
               PROVE  /\ \A q, r \in Processors : work'[q] = t /\ work'[r] = t => q = r
                      /\ \A q \in Processors : work'[q] = t =>
                           /\ pc'[q] \in {"mark", "person", "create", "upsert"} => read'[q] = raw[t]
                           /\ pc'[q] = "finish" => sale'[t] = raw[t]
    BY DEF HeldAsRead
  <2>1. /\ \A q, r \in Processors : work[q] = t /\ work[r] = t => q = r
        /\ \A q \in Processors : work[q] = t =>
             /\ pc[q] \in {"mark", "person", "create", "upsert"} => read[q] = raw[t]
             /\ pc[q] = "finish" => sale[t] = raw[t]
    BY DEF HeldAsRead
  <2>2. \A q \in Processors : work'[q] = t => work[q] = t
    BY ConstantsTyped
  <2>3. ASSUME NEW q \in Processors, work'[q] = t
        PROVE  /\ pc'[q] \in {"mark", "person", "create", "upsert"} => read'[q] = raw[t]
               /\ pc'[q] = "finish" => sale'[t] = raw[t]
    <3>1. work[q] = t
      BY <2>2, <2>3
    <3>2. CASE q = p
      BY <2>3, <3>1, <3>2
    <3>3. CASE q # p
      <4>1. work[p] # t
        BY <2>1, <3>1, <3>3
      <4> QED BY <2>1, <3>1, <3>3, <4>1
    <3> QED BY <3>2, <3>3
  <2> QED BY <2>1, <2>2, <2>3
<1> QED BY <1>1, <1>2

LEMMA ProcessHeld ==
  ASSUME Held, NEW p \in Processors, Process(p) \/ ProcessThrows(p) \/ Crash(p)
  PROVE  HeldAsRead' /\ ProcessedShowsRaw'
<1>0. pc[p] # "idle"
  BY DEF Process, ReadRaw, MarkProcessing, FindPerson, CreatePerson, UpsertSale, Finish,
         MarkError, ProcessThrows, Crash
<1>1. TypeOK /\ work[p] \in Sales
  BY <1>0, WorksOn DEF Held, Base
<1>2. work[p] \notin overtaken =>
        /\ pc[p] \in {"mark", "person", "create", "upsert"} => read[p] = raw[work[p]]
        /\ pc[p] = "finish" => sale[work[p]] = raw[work[p]]
        /\ import[work[p]] = "processed" => sale[work[p]] = raw[work[p]]
  BY <1>1 DEF Held, HeldAsRead, ProcessedShowsRaw
<1>3. ASSUME ReadRaw(p) PROVE HeldAsRead' /\ ProcessedShowsRaw'
  <2>1. UNCHANGED <<table, past>>
    BY <1>3 DEF ReadRaw
  <2>2. CASE Free(p)
    BY <1>0, <1>1, <1>2, <2>1, <2>2, ProcessorFreed, ConstantsTyped, HandsGoOn DEF table, past
  <2>3. CASE read' = [read EXCEPT ![p] = raw[work[p]]] /\ Goto(p, "mark") /\ work' = work
    BY <1>0, <1>1, <1>2, <2>1, <2>3, HandsGoOn DEF table, past, Goto, TypeOK
  <2> QED BY <1>3, <2>2, <2>3 DEF ReadRaw
<1>4. ASSUME MarkProcessing(p) PROVE HeldAsRead' /\ ProcessedShowsRaw'
  <2>1. pc[p] = "mark" /\ UNCHANGED <<raw, sale, work, read, overtaken>>
        /\ pc' = [pc EXCEPT ![p] = "person"] /\ import' = [import EXCEPT ![work[p]] = "processing"]
    BY <1>4 DEF MarkProcessing, Goto, past
  <2> QED BY <1>0, <1>1, <1>2, <2>1, HandsGoOn DEF TypeOK
<1>5. ASSUME FindPerson(p) PROVE HeldAsRead' /\ ProcessedShowsRaw'
  <2>1. /\ pc[p] = "person" /\ UNCHANGED <<raw, sale, import, work, read, overtaken>>
        /\ pc' = [pc EXCEPT ![p] = "upsert"] \/ pc' = [pc EXCEPT ![p] = "create"]
    BY <1>5 DEF FindPerson, Goto, past, table
  <2> QED BY <1>0, <1>1, <1>2, <2>1, HandsGoOn DEF TypeOK
<1>6. ASSUME CreatePerson(p) PROVE HeldAsRead' /\ ProcessedShowsRaw'
  <2>1. pc[p] = "create" /\ UNCHANGED <<raw, sale, import, work, read, overtaken>>
        /\ pc' = [pc EXCEPT ![p] = "upsert"]
    BY <1>6 DEF CreatePerson, Goto, past
  <2> QED BY <1>0, <1>1, <1>2, <2>1, HandsGoOn DEF TypeOK
<1>7. ASSUME UpsertSale(p) PROVE HeldAsRead' /\ ProcessedShowsRaw'
  <2>1. /\ pc[p] = "upsert" /\ UNCHANGED <<raw, import, work, overtaken>>
        /\ pc' = [pc EXCEPT ![p] = "finish"] /\ read' = [read EXCEPT ![p] = NoRow]
        /\ sale' = [sale EXCEPT ![work[p]] = read[p]]
    BY <1>7 DEF UpsertSale, Goto, past
  <2>2. sale'[work[p]] = read[p] /\ \A t \in Sales : t # work[p] => sale'[t] = sale[t]
    BY <1>1, <2>1 DEF TypeOK, Payloads
  <2>3. /\ pc'[p] = "finish"
        /\ \A q \in Processors \ {p} : pc'[q] = pc[q] /\ read'[q] = read[q]
    BY <1>1, <2>1 DEF TypeOK
  <2> QED BY <1>0, <1>1, <1>2, <2>1, <2>2, <2>3, HandsGoOn
<1>8. ASSUME Finish(p) PROVE HeldAsRead' /\ ProcessedShowsRaw'
  <2>1. /\ pc[p] = "finish" /\ UNCHANGED <<raw, sale, overtaken>> /\ Free(p)
        /\ import' = [import EXCEPT ![work[p]] = "processed"]
    BY <1>8 DEF Finish, past
  <2> QED BY <1>0, <1>1, <1>2, <2>1, ProcessorFreed, ConstantsTyped, HandsGoOn DEF TypeOK
<1>9. ASSUME ProcessThrows(p) PROVE HeldAsRead' /\ ProcessedShowsRaw'
  <2>1. UNCHANGED <<raw, sale, import, work, read, overtaken>>
        /\ pc' = [pc EXCEPT ![p] = "failing"]
    BY <1>9 DEF ProcessThrows, Goto, table, past
  <2> QED BY <1>0, <1>1, <1>2, <2>1, HandsGoOn DEF TypeOK
<1>10. ASSUME MarkError(p) PROVE HeldAsRead' /\ ProcessedShowsRaw'
  <2>1. /\ UNCHANGED <<raw, sale, overtaken>> /\ Free(p)
        /\ import' = [import EXCEPT ![work[p]] = "error"]
    BY <1>10 DEF MarkError
  <2> QED BY <1>0, <1>1, <1>2, <2>1, ProcessorFreed, ConstantsTyped, HandsGoOn DEF TypeOK
<1>11. ASSUME Crash(p) PROVE HeldAsRead' /\ ProcessedShowsRaw'
  <2>1. UNCHANGED <<raw, sale, import, overtaken>> /\ Free(p)
    BY <1>11 DEF Crash, table
  <2> QED BY <1>0, <1>1, <1>2, <2>1, ProcessorFreed, ConstantsTyped, HandsGoOn
<1> QED BY <1>3, <1>4, <1>5, <1>6, <1>7, <1>8, <1>9, <1>10, <1>11 DEF Process

\* Whoever starts on a row that another processor has is noted.
LEMMA BeginHeld ==
  ASSUME Held, NEW p \in Processors, NEW t \in Sales, Deliver(p, t) \/ Call(p, t)
  PROVE  HeldAsRead' /\ ProcessedShowsRaw'
<1> USE DEF Held
<1>1. /\ pc' = [pc EXCEPT ![p] = "read"] /\ work' = [work EXCEPT ![p] = t]
      /\ overtaken' = IF Holders(t) # {} THEN overtaken \cup {t} ELSE overtaken
      /\ UNCHANGED <<raw, import, sale, read>>
  BY DEF Deliver, Call, Begin, table
<1>2. \A u \in Sales \ overtaken' : u \notin overtaken /\ (u = t => Holders(u) = {})
  BY <1>1
<1>3. ProcessedShowsRaw'
  BY <1>1, <1>2 DEF ProcessedShowsRaw
<1>4. HeldAsRead'
  <2> SUFFICES ASSUME NEW u \in Sales, u \notin overtaken'
               PROVE  /\ \A q, r \in Processors : work'[q] = u /\ work'[r] = u => q = r
                      /\ \A q \in Processors : work'[q] = u =>
                           /\ pc'[q] \in {"mark", "person", "create", "upsert"} => read'[q] = raw'[u]
                           /\ pc'[q] = "finish" => sale'[u] = raw'[u]
    BY DEF HeldAsRead
  <2>1. /\ \A q, r \in Processors : work[q] = u /\ work[r] = u => q = r
        /\ \A q \in Processors : work[q] = u =>
             /\ pc[q] \in {"mark", "person", "create", "upsert"} => read[q] = raw[u]
             /\ pc[q] = "finish" => sale[u] = raw[u]
    BY <1>2 DEF HeldAsRead
  <2>2. /\ work'[p] = t /\ pc'[p] = "read"
        /\ \A q \in Processors \ {p} : work'[q] = work[q] /\ pc'[q] = pc[q]
    BY <1>1 DEF Base, TypeOK
  <2>3. \A q \in Processors : work[q] = u => u # t
    BY <1>2 DEF Holders
  <2> QED BY <1>1, <2>1, <2>2, <2>3
<1> QED BY <1>3, <1>4

LEMMA RecordHeld ==
  ASSUME Held, NEW w \in Receivers,
         Receiving(w) \/ InsertNew(w) \/ \E t \in Sales : UpdateRow(w, t)
  PROVE  HeldAsRead' /\ ProcessedShowsRaw'
<1> USE DEF Held
<1>0. TypeOK
  BY DEF Base
<1>1. CASE Receiving(w)
  <2>1. UNCHANGED <<raw, sale, import, overtaken, pc, work, read>>
    BY <1>1 DEF Receiving, table, slots
  <2> QED BY <2>1 DEF HeldAsRead, ProcessedShowsRaw
\* Rows that change are pending, and in no hands unless noted.
<1>2. ASSUME NEW rows \in SUBSET Sales, UNCHANGED <<sale, pc, work, read>>,
             overtaken \subseteq overtaken',
             \A t \in rows : import'[t] = "pending"
                             /\ (t \notin overtaken' => Holders(t) = {}),
             \A t \in Sales \ rows : raw'[t] = raw[t] /\ import'[t] = import[t]
      PROVE  HeldAsRead' /\ ProcessedShowsRaw'
  <2>1. ProcessedShowsRaw'
    BY <1>2 DEF ProcessedShowsRaw
  <2>2. HeldAsRead'
    BY <1>2 DEF HeldAsRead, Holders
  <2> QED BY <2>1, <2>2
<1>3. ASSUME InsertNew(w) PROVE HeldAsRead' /\ ProcessedShowsRaw'
  <2> DEFINE new == {t \in Open(w) : seen[w][t] = NoRow}
  <2>1. CASE UNCHANGED <<sale, persons, slots, reordered, overtaken, crowded, requests>>
             /\ new \subseteq Sales
             /\ (\A t \in new : raw[t] = NoRow /\ import'[t] = "pending")
             /\ (\A t \in Sales \ new : raw'[t] = raw[t] /\ import'[t] = import[t])
    <3> HIDE DEF new
    <3>1. \A t \in new : Holders(t) = {}
      BY <2>1 DEF Base, RowsFirst
    <3> QED BY <1>2, <2>1, <3>1 DEF slots
  <2>2. \/ Receiving(w)
        \/ /\ UNCHANGED <<sale, persons, slots, reordered, overtaken, crowded, requests>>
           /\ new \subseteq Sales
           /\ \A t \in new : raw[t] = NoRow /\ import'[t] = "pending"
           /\ \A t \in Sales \ new : raw'[t] = raw[t] /\ import'[t] = import[t]
    <3> HIDE DEF new
    <3>1. new = {t \in Open(w) : seen[w][t] = NoRow}
      BY DEF new
    <3> QED BY <1>0, <1>3, <3>1, InsertDoes
  <2> HIDE DEF new
  <2> QED BY <1>1, <2>1, <2>2
<1>4. ASSUME NEW t \in Sales, UpdateRow(w, t) PROVE HeldAsRead' /\ ProcessedShowsRaw'
  <2>1. /\ UNCHANGED <<sale, pc, work, read>>
        /\ \A u \in Sales \ {t} : raw'[u] = raw[u] /\ import'[u] = import[u]
    BY <1>0, <1>4, UpdateDoes DEF slots
  <2>2. CASE /\ import'[t] = "pending"
             /\ overtaken' = IF Holders(t) # {} THEN overtaken \cup {t} ELSE overtaken
    <3>1. {t} \in SUBSET Sales /\ overtaken \subseteq overtaken'
          /\ (t \notin overtaken' => Holders(t) = {})
      BY <2>2
    <3> QED BY <1>2, <2>1, <2>2, <3>1
  <2>3. CASE UNCHANGED <<raw, import, overtaken>>
    BY <2>1, <2>3 DEF HeldAsRead, ProcessedShowsRaw
  <2> QED BY <1>0, <1>4, <2>2, <2>3, UpdateDoes
<1> QED BY <1>1, <1>3, <1>4

LEMMA NextHeld ==
  ASSUME Held, [Next /\ UNCHANGED viaQueue]_vars
  PROVE  HeldAsRead' /\ ProcessedShowsRaw'
<1>0. Base
  BY DEF Held
<1>1. CASE UNCHANGED <<raw, sale, import, overtaken, pc, work, read>>
  BY <1>1 DEF Held, HeldAsRead, ProcessedShowsRaw
<1>2. UNCHANGED vars \/ Batch => UNCHANGED <<raw, sale, import, overtaken, pc, work, read>>
  BY DEF Batch, vars, table, slots, past
<1>3. ASSUME NEW p \in Processors, LockLapses(p)
      PROVE  UNCHANGED <<raw, sale, import, overtaken, pc, work, read>>
  BY <1>3 DEF LockLapses, table, past
<1> QED BY <1>0, <1>1, <1>2, <1>3, StepsSorted, RecordHeld, BeginHeld, ProcessHeld

-----------------------------------------------------------------------------
(* One person per buyer *)

Met == Base /\ BuyersApart /\ OnePersonPerBuyer

\* A processor that creates no person, and asks for one where none is.
LEMMA ServingGoesOn ==
  ASSUME Met, NEW p \in Processors, pc[p] # "idle", UNCHANGED <<persons, crowded>>,
         \A q \in Processors \ {p} : work'[q] = work[q] /\ pc'[q] = pc[q],
         work'[p] \in {work[p], NoSale},
         pc'[p] = "create" => work'[p] = work[p] /\ persons[BuyerOf[work[p]]] = 0
  PROVE  BuyersApart' /\ OnePersonPerBuyer'
<1> USE DEF Met
<1>1. OnePersonPerBuyer'
  BY DEF OnePersonPerBuyer
<1>2. \A q \in Processors, b \in Buyers : Serves(q, b)' => Serves(q, b)
  BY DEF Serves
<1>3. \A q \in Processors, b \in Buyers \ crowded :
        pc'[q] = "create" /\ Serves(q, b)' => persons[b] = 0
  <2> TAKE q \in Processors, b \in Buyers \ crowded
  <2>1. CASE q = p
    BY <2>1 DEF Serves
  <2>2. CASE q # p
    BY <1>2, <2>2 DEF BuyersApart
  <2> QED BY <2>1, <2>2
<1> QED BY <1>1, <1>2, <1>3 DEF BuyersApart

LEMMA CreateApart ==
  ASSUME Met, NEW p \in Processors, CreatePerson(p)
  PROVE  BuyersApart' /\ OnePersonPerBuyer'
<1> USE DEF Met
<1>0. Base /\ TypeOK
  BY DEF Base
<1>1. /\ pc[p] = "create" /\ pc' = [pc EXCEPT ![p] = "upsert"]
      /\ persons' = [persons EXCEPT ![BuyerOf[work[p]]] = @ + 1]
      /\ UNCHANGED <<work, crowded>>
  BY DEF CreatePerson, Goto, past
<1>2. work[p] \in Sales /\ Serves(p, BuyerOf[work[p]])
  BY <1>0, <1>1, WorksOn, ConstantsTyped DEF Serves
<1>3. \A b \in Buyers : persons'[b] = IF b = BuyerOf[work[p]] THEN persons[b] + 1 ELSE persons[b]
  BY <1>0, <1>1 DEF TypeOK
<1>4. pc'[p] = "upsert" /\ \A q \in Processors \ {p} : pc'[q] = pc[q]
  BY <1>0, <1>1 DEF TypeOK
<1>5. OnePersonPerBuyer'
  <2> SUFFICES ASSUME NEW b \in Buyers \ crowded PROVE persons'[b] <= 1
    BY <1>1 DEF OnePersonPerBuyer
  <2>1. b = BuyerOf[work[p]] => persons[b] = 0
    BY <1>1, <1>2 DEF BuyersApart
  <2>2. persons[b] <= 1
    BY DEF OnePersonPerBuyer
  <2> QED BY <1>3, <2>1, <2>2
<1>6. \A q \in Processors, b \in Buyers : Serves(q, b)' <=> Serves(q, b)
  BY <1>1 DEF Serves
<1>7. ASSUME NEW q \in Processors, NEW b \in Buyers \ crowded, pc'[q] = "create", Serves(q, b)
      PROVE  persons'[b] = 0
  <2>1. q # p /\ pc[q] = "create"
    BY <1>4, <1>7
  <2>2. b # BuyerOf[work[p]] /\ persons[b] = 0
    BY <1>2, <1>7, <2>1 DEF BuyersApart
  <2> QED BY <1>3, <2>2
<1> QED BY <1>1, <1>5, <1>6, <1>7 DEF BuyersApart

LEMMA ProcessApart ==
  ASSUME Met, NEW p \in Processors, Process(p) \/ ProcessThrows(p) \/ Crash(p)
  PROVE  BuyersApart' /\ OnePersonPerBuyer'
<1>0. pc[p] # "idle"
  BY DEF Process, ReadRaw, MarkProcessing, FindPerson, CreatePerson, UpsertSale, Finish,
         MarkError, ProcessThrows, Crash
<1>1. TypeOK
  BY DEF Met, Base
<1>2. ASSUME Free(p), UNCHANGED <<persons, crowded>>
      PROVE  BuyersApart' /\ OnePersonPerBuyer'
  BY <1>0, <1>1, <1>2, ProcessorFreed, ServingGoesOn
<1>3. ASSUME NEW at, at # "create", pc' = [pc EXCEPT ![p] = at],
             UNCHANGED <<work, persons, crowded>>
      PROVE  BuyersApart' /\ OnePersonPerBuyer'
  BY <1>0, <1>1, <1>3, ServingGoesOn DEF TypeOK
<1>4. CASE FindPerson(p)
  <2>1. /\ UNCHANGED <<work, persons, crowded>>
        /\ \/ pc' = [pc EXCEPT ![p] = "upsert"]
           \/ pc' = [pc EXCEPT ![p] = "create"] /\ persons[BuyerOf[work[p]]] = 0
    BY <1>4 DEF FindPerson, Goto, table, past
  <2>2. CASE pc' = [pc EXCEPT ![p] = "create"] /\ persons[BuyerOf[work[p]]] = 0
    BY <1>0, <1>1, <2>1, <2>2, ServingGoesOn DEF TypeOK
  <2> QED BY <1>3, <2>1, <2>2
<1>5. CASE ReadRaw(p)
  <2>1. \/ Free(p)
        \/ pc' = [pc EXCEPT ![p] = "mark"] /\ work' = work
    BY <1>5 DEF ReadRaw, Goto
  <2>2. UNCHANGED <<persons, crowded>>
    BY <1>5 DEF ReadRaw, table, past
  <2> QED BY <1>2, <1>3, <2>1, <2>2
<1>6. CASE MarkProcessing(p) \/ UpsertSale(p) \/ ProcessThrows(p)
  <2>1. /\ UNCHANGED <<work, persons, crowded>>
        /\ \/ pc' = [pc EXCEPT ![p] = "person"] \/ pc' = [pc EXCEPT ![p] = "finish"]
           \/ pc' = [pc EXCEPT ![p] = "failing"]
    BY <1>6 DEF MarkProcessing, UpsertSale, ProcessThrows, Goto, table, past
  <2> QED BY <1>3, <2>1
<1>7. CASE Finish(p) \/ MarkError(p) \/ Crash(p)
  BY <1>2, <1>7 DEF Finish, MarkError, Crash, table, past
<1> QED BY <1>4, <1>5, <1>6, <1>7, CreateApart DEF Process

\* Whoever starts on a purchase of a buyer another one serves is noted.
LEMMA BeginApart ==
  ASSUME Met, NEW p \in Processors, NEW t \in Sales, Deliver(p, t) \/ Call(p, t)
  PROVE  BuyersApart' /\ OnePersonPerBuyer'
<1> USE DEF Met
<1>1. /\ pc' = [pc EXCEPT ![p] = "read"] /\ work' = [work EXCEPT ![p] = t]
      /\ crowded' = IF \E q \in Processors : work[q] # NoSale /\ BuyerOf[work[q]] = BuyerOf[t]
                    THEN crowded \cup {BuyerOf[t]} ELSE crowded
      /\ UNCHANGED persons
  BY DEF Deliver, Call, Begin, table
<1>2. /\ work'[p] = t /\ pc'[p] = "read"
      /\ \A q \in Processors \ {p} : work'[q] = work[q] /\ pc'[q] = pc[q]
  BY <1>1 DEF Base, TypeOK
<1>3. \A b \in Buyers \ crowded' :
        b \notin crowded /\ (b = BuyerOf[t] => \A q \in Processors : ~Serves(q, b))
  BY <1>1 DEF Serves
<1>4. OnePersonPerBuyer'
  BY <1>1, <1>3 DEF OnePersonPerBuyer
<1>5. \A q \in Processors \ {p}, b \in Buyers : Serves(q, b)' <=> Serves(q, b)
  BY <1>2 DEF Serves
<1>6. \A b \in Buyers : Serves(p, b)' => b = BuyerOf[t]
  BY <1>2 DEF Serves
<1>7. BuyersApart'
  <2> SUFFICES ASSUME NEW b \in Buyers \ crowded'
               PROVE  /\ \A q, r \in Processors : Serves(q, b)' /\ Serves(r, b)' => q = r
                      /\ \A q \in Processors :
                           pc'[q] = "create" /\ Serves(q, b)' => persons'[b] = 0
    BY DEF BuyersApart
  <2>1. /\ \A q, r \in Processors : Serves(q, b) /\ Serves(r, b) => q = r
        /\ \A q \in Processors : pc[q] = "create" /\ Serves(q, b) => persons[b] = 0
    BY <1>3 DEF BuyersApart
  <2> QED BY <1>1, <1>2, <1>3, <1>5, <1>6, <2>1
<1> QED BY <1>4, <1>7

LEMMA NextApart ==
  ASSUME Met, [Next /\ UNCHANGED viaQueue]_vars
  PROVE  BuyersApart' /\ OnePersonPerBuyer'
<1>0. Base /\ TypeOK
  BY DEF Met, Base
<1>1. CASE UNCHANGED <<persons, crowded, pc, work>>
  BY <1>1 DEF Met, BuyersApart, OnePersonPerBuyer, Serves
<1>2. UNCHANGED vars \/ Batch => UNCHANGED <<persons, crowded, pc, work>>
  BY DEF Batch, vars, table, slots, past
<1>3. ASSUME NEW p \in Processors, LockLapses(p)
      PROVE  UNCHANGED <<persons, crowded, pc, work>>
  BY <1>3 DEF LockLapses, table, past
<1>4. ASSUME NEW w \in Receivers,
             Receiving(w) \/ InsertNew(w) \/ \E t \in Sales : UpdateRow(w, t)
      PROVE  UNCHANGED <<persons, crowded, pc, work>>
  BY <1>4 DEF Receiving, InsertNew, UpdateRow, table, slots
<1> QED BY <1>0, <1>1, <1>2, <1>3, <1>4, StepsSorted, BeginApart, ProcessApart

-----------------------------------------------------------------------------
(* No row is forgotten *)

Minded == Base /\ NoRowForgotten

\* Where nothing is taken off a row's ways, it stays on its way.
LEMMA StaysOnItsWay ==
  ASSUME Minded, NEW t \in Sales, t \notin dropped',
         dropped \subseteq dropped',
         import'[t] \notin {"none", "processed"} =>
           \/ /\ import'[t] = import[t]
              /\ messages[t] > 0 => messages'[t] > 0
              /\ calls[t] > 0 => calls'[t] > 0
              /\ \A q \in Holders(t) : work'[q] = work[q]
           \/ messages'[t] > 0 \/ calls'[t] > 0 \/ Holders(t)' # {}
  PROVE  import'[t] \notin {"none", "processed"} =>
           messages'[t] > 0 \/ calls'[t] > 0 \/ Holders(t)' # {}
<1> HAVE import'[t] \notin {"none", "processed"}
<1>1. CASE messages'[t] > 0 \/ calls'[t] > 0 \/ Holders(t)' # {}
  BY <1>1
<1>2. CASE /\ import'[t] = import[t]
           /\ messages[t] > 0 => messages'[t] > 0
           /\ calls[t] > 0 => calls'[t] > 0
           /\ \A q \in Holders(t) : work'[q] = work[q]
  <2>1. messages[t] > 0 \/ calls[t] > 0 \/ Holders(t) # {}
    BY <1>2 DEF Minded, NoRowForgotten
  <2>2. Holders(t) \subseteq Holders(t)'
    BY <1>2 DEF Holders
  <2> QED BY <1>2, <2>1, <2>2
<1> QED BY <1>1, <1>2

LEMMA RecordMinded ==
  ASSUME Minded, NEW w \in Receivers,
         Receiving(w) \/ InsertNew(w) \/ \E t \in Sales : UpdateRow(w, t)
  PROVE  NoRowForgotten'
<1>0. TypeOK
  BY DEF Minded, Base
<1>1. CASE UNCHANGED <<import, messages, calls, work, dropped>>
  BY <1>1 DEF Minded, NoRowForgotten, Holders
<1>2. Receiving(w) => UNCHANGED <<import, messages, calls, work, dropped>>
  BY DEF Receiving, table, slots
<1>3. ASSUME NEW rows \in SUBSET Sales, Trigger(rows), UNCHANGED work,
             \A t \in Sales \ rows : import'[t] = import[t]
      PROVE  NoRowForgotten'
  <2>1. /\ dropped \subseteq dropped'
        /\ \A t \in rows : messages'[t] > 0 \/ calls'[t] > 0 \/ t \in dropped'
        /\ \A t \in Sales \ rows : messages'[t] = messages[t] /\ calls'[t] = calls[t]
    BY <1>0, <1>3, TriggerDoes
  <2> QED BY <1>3, <2>1, StaysOnItsWay DEF NoRowForgotten
<1>4. ASSUME InsertNew(w) PROVE NoRowForgotten'
  <2> DEFINE new == {t \in Open(w) : seen[w][t] = NoRow}
  <2>1. \/ Receiving(w)
        \/ /\ new \subseteq Sales /\ Trigger(new) /\ UNCHANGED slots
           /\ \A t \in Sales \ new : import'[t] = import[t]
    <3> HIDE DEF new
    <3>1. new = {t \in Open(w) : seen[w][t] = NoRow}
      BY DEF new
    <3> QED BY <1>0, <1>4, <3>1, InsertDoes
  <2> HIDE DEF new
  <2>2. CASE /\ new \subseteq Sales /\ Trigger(new) /\ UNCHANGED slots
             /\ \A t \in Sales \ new : import'[t] = import[t]
    BY <1>3, <2>2 DEF slots
  <2> QED BY <1>1, <1>2, <2>1, <2>2
<1>5. ASSUME NEW t \in Sales, UpdateRow(w, t) PROVE NoRowForgotten'
  <2>1. /\ UNCHANGED work
        /\ \A u \in Sales \ {t} : import'[u] = import[u]
        /\ Trigger({t}) \/ UNCHANGED <<import, messages, calls, dropped>>
    BY <1>0, <1>5, UpdateDoes DEF slots
  <2>2. CASE Trigger({t})
    <3>1. {t} \in SUBSET Sales
      OBVIOUS
    <3> QED BY <1>3, <2>1, <2>2, <3>1
  <2> QED BY <1>1, <2>1, <2>2
<1> QED BY <1>1, <1>2, <1>4, <1>5

\* The message or the call that is taken is in the hands of the processor.
LEMMA BeginMinded ==
  ASSUME Minded, NEW p \in Processors, NEW t \in Sales, Deliver(p, t) \/ Call(p, t)
  PROVE  NoRowForgotten'
<1> USE DEF Minded
<1>1. /\ pc[p] = "idle" /\ work' = [work EXCEPT ![p] = t] /\ UNCHANGED <<import, dropped>>
  BY DEF Deliver, Call, Begin, table
<1>2. work[p] = NoSale /\ work'[p] = t /\ \A q \in Processors \ {p} : work'[q] = work[q]
  BY <1>1 DEF Base, TypeOK, SlotsFilled
<1>3. \A u \in Sales \ {t} : messages'[u] = messages[u] /\ calls'[u] = calls[u]
  BY DEF Deliver, Call, Base, TypeOK
<1> SUFFICES ASSUME NEW u \in Sales, u \notin dropped'
             PROVE  import'[u] \notin {"none", "processed"} =>
                      messages'[u] > 0 \/ calls'[u] > 0 \/ Holders(u)' # {}
  BY DEF NoRowForgotten
<1>4. CASE u = t
  BY <1>2, <1>4 DEF Holders
<1>5. CASE u # t
  <2>1. \A q \in Holders(u) : work'[q] = work[q]
    BY <1>2, ConstantsTyped DEF Holders
  <2> QED BY <1>1, <1>3, <1>5, <2>1, StaysOnItsWay
<1> QED BY <1>4, <1>5

LEMMA BatchMinded ==
  ASSUME Minded, Batch
  PROVE  NoRowForgotten'
<1>1. UNCHANGED <<import, messages, work, dropped>>
  BY DEF Batch, table, slots, past
<1>2. \A t \in Sales : calls[t] > 0 => calls'[t] > 0
  BY DEF Minded, Base, TypeOK, Batch
<1> QED BY <1>1, <1>2, StaysOnItsWay DEF NoRowForgotten

\* A processor keeps its row, or leaves it processed, given back or noted.
LEMMA ProcessMinded ==
  ASSUME Minded, NEW p \in Processors, Process(p) \/ ProcessThrows(p) \/ Crash(p)
  PROVE  NoRowForgotten'
<1> USE DEF Minded
<1>0. pc[p] # "idle"
  BY DEF Process, ReadRaw, MarkProcessing, FindPerson, CreatePerson, UpsertSale, Finish,
         MarkError, ProcessThrows, Crash
<1>1. TypeOK /\ work[p] \in Sales /\ p \in Holders(work[p])
  BY <1>0, WorksOn DEF Base
<1>2. ASSUME UNCHANGED <<messages, calls, work, dropped>>,
             \A t \in Sales : t # work[p] => import'[t] = import[t]
      PROVE  NoRowForgotten'
  <2>1. \A t \in Sales : Holders(t)' = Holders(t)
    BY <1>2 DEF Holders
  <2> QED BY <1>1, <1>2, <2>1 DEF NoRowForgotten
<1>3. ASSUME Free(p), UNCHANGED calls,
             dropped \subseteq dropped',
             \A t \in Sales : t # work[p] =>
               import'[t] = import[t] /\ messages'[t] = messages[t],
             \/ import'[work[p]] = "processed"
             \/ messages'[work[p]] > 0 \/ work[p] \in dropped'
      PROVE  NoRowForgotten'
  <2> SUFFICES ASSUME NEW t \in Sales, t \notin dropped'
               PROVE  import'[t] \notin {"none", "processed"} =>
                        messages'[t] > 0 \/ calls'[t] > 0 \/ Holders(t)' # {}
    BY DEF NoRowForgotten
  <2>1. CASE t = work[p]
    BY <1>3, <2>1
  <2>2. CASE t # work[p]
    <3>1. \A q \in Holders(t) : work'[q] = work[q]
      BY <1>1, <1>3, <2>2, ProcessorFreed DEF Holders
    <3> QED BY <1>3, <2>2, <3>1, StaysOnItsWay
  <2> QED BY <2>1, <2>2
<1>4. ASSUME GiveBack(p)
      PROVE  /\ dropped \subseteq dropped'
             /\ \A t \in Sales : t # work[p] => messages'[t] = messages[t]
             /\ messages'[work[p]] > 0 \/ work[p] \in dropped'
  BY <1>1, <1>4 DEF GiveBack, TypeOK
<1>5. CASE ReadRaw(p)
  <2>1. UNCHANGED <<import, messages, calls, dropped>>
    BY <1>5 DEF ReadRaw, table, past
  <2>2. \/ Free(p) /\ import[work[p]] = "processed"
        \/ UNCHANGED work
    BY <1>5 DEF ReadRaw
  <2> QED BY <1>2, <1>3, <2>1, <2>2
<1>6. CASE MarkProcessing(p)
  BY <1>1, <1>2, <1>6 DEF MarkProcessing, past, TypeOK
<1>7. CASE FindPerson(p) \/ CreatePerson(p) \/ UpsertSale(p) \/ ProcessThrows(p)
  BY <1>2, <1>7 DEF FindPerson, CreatePerson, UpsertSale, ProcessThrows, table, past
<1>8. CASE Finish(p)
  BY <1>1, <1>3, <1>8 DEF Finish, past, TypeOK
<1>9. CASE MarkError(p)
  BY <1>1, <1>3, <1>4, <1>9 DEF MarkError, TypeOK
<1>10. CASE Crash(p)
  BY <1>3, <1>4, <1>10 DEF Crash, table
<1> QED BY <1>5, <1>6, <1>7, <1>8, <1>9, <1>10 DEF Process

LEMMA LockLapsesMinded ==
  ASSUME Minded, NEW p \in Processors, LockLapses(p)
  PROVE  NoRowForgotten'
<1>1. UNCHANGED <<import, calls, work, dropped>>
  BY DEF LockLapses, table, past
<1>2. messages \in [Sales -> Nat] /\ messages' = [messages EXCEPT ![work[p]] = @ + 1]
  BY DEF LockLapses, Minded, Base, TypeOK
<1>3. \A t \in Sales : messages[t] > 0 => messages'[t] > 0
  BY <1>2
<1> QED BY <1>1, <1>3, StaysOnItsWay DEF NoRowForgotten

LEMMA NextMinded ==
  ASSUME Minded, [Next /\ UNCHANGED viaQueue]_vars
  PROVE  NoRowForgotten'
<1>0. Base
  BY DEF Minded
<1>1. CASE UNCHANGED vars
  BY <1>1 DEF Minded, NoRowForgotten, Holders, vars, table, slots, past
<1> QED BY <1>0, <1>1, StepsSorted, RecordMinded, BeginMinded, BatchMinded, ProcessMinded,
       LockLapsesMinded

-----------------------------------------------------------------------------
(* The theorems *)

LEMMA InitInv == Init => Inv
<1> SUFFICES ASSUME Init PROVE Inv
  OBVIOUS
<1>1. Base
  BY InitBase
<1>2. ReceivedInOrder
  BY DEF Init, ReceivedInOrder, Open, NoPage
<1>3. \A p \in Processors : work[p] = NoSale /\ pc[p] = "idle"
  BY DEF Init
<1>4. HeldAsRead /\ BuyersApart
  BY <1>3, ConstantsTyped DEF HeldAsRead, BuyersApart, Serves
<1>5. RawShowsNewest /\ ProcessedShowsRaw /\ OnePersonPerBuyer /\ NoRowForgotten
  BY DEF Init, RawShowsNewest, ProcessedShowsRaw, OnePersonPerBuyer, NoRowForgotten, NoPage
<1> QED BY <1>1, <1>2, <1>4, <1>5 DEF Inv

LEMMA NextInv == Inv /\ [Next /\ UNCHANGED viaQueue]_vars => Inv'
BY NextBase, NextInOrder, NextHeld, NextApart, NextMinded
   DEF Inv, Recorded, Held, Met, Minded

LEMMA Invariance == Spec => []Inv
BY InitInv, NextInv, PTL DEF Spec

\* At all times the raw row of a purchase shows the status of the newest event
\* recorded, through changes of status and back, webhooks and pages, unless an
\* event came after a newer one or two receptions had the purchase at once.
THEOREM RawIsNewest == Spec => []RawShowsNewest
<1>1. Inv => RawShowsNewest
  BY DEF Inv
<1> QED BY <1>1, Invariance, PTL

\* At all times a row that is marked processed has its payload in the sale,
\* whatever was delivered again, crashed or failed, unless the row changed in
\* the hands of a processor or two had it at once.
THEOREM ProcessedIsRaw == Spec => []ProcessedShowsRaw
<1>1. Inv => ProcessedShowsRaw
  BY DEF Inv
<1> QED BY <1>1, Invariance, PTL

\* At all times the e-mail of a buyer leads to one person at most, unless two
\* purchases of the buyer were processed at once.
THEOREM BuyersOnce == Spec => []OnePersonPerBuyer
<1>1. Inv => OnePersonPerBuyer
  BY DEF Inv
<1> QED BY <1>1, Invariance, PTL

\* At all times a row that is not processed is in a message, a call or the
\* hands of a processor, unless what would bring it there was lost.
THEOREM RowsMinded == Spec => []NoRowForgotten
<1>1. Inv => NoRowForgotten
  BY DEF Inv
<1> QED BY <1>1, Invariance, PTL
=============================================================================
