-------------------------- MODULE VersionQuestions --------------------------
(***************************************************************************)
(* The questions of a form, their options, and the links that put questions*)
(* into a version of the form, each at a place.                            *)
(*                                                                         *)
(* A request reads the rows it changes and saves them later: the save loads*)
(* them once more and writes what differs, so that they end as the request *)
(* has them, and those no longer there are inserted again.  Removing a     *)
(* question removes its options and links; no constraint keeps a question  *)
(* from being linked twice.                                                *)
(***************************************************************************)
EXTENDS Integers, FiniteSetsExt

CONSTANTS
  Forms,           \* the version is one of a form among these
  Clients,         \* requests in progress at a time
  MaxPlace,        \* bound: display_order
  MaxItems,        \* bound: rows
  MaxRequests,     \* bound: requests
  Absent           \* no such row

VARIABLES
  row,             \* the tables: questions, options and links
  made,            \* rows inserted so far
  client,          \* the request each client is in
  requests,
  asked,           \* each row as requests left it
  tail,            \* links added without a place, and never given one since
  raced            \* rows two requests had in hand, or inserted after a check that was no longer so

vars == <<row, made, client, requests, asked, tail, raced>>

Rows == 1..MaxItems
Places == 0..MaxPlace
Own == CHOOSE f \in Forms : TRUE
Fields == {"place", "mark"}

\* mark: a question's or an option's text, a link's required.
Question == [kind : {"question"}, of : Forms, place : {0}, mark : BOOLEAN]
Option == [kind : {"option"}, of : Rows, place : Places, mark : BOOLEAN]
Link == [kind : {"link"}, of : Rows, place : Places, mark : BOOLEAN]
Row == Question \cup Option \cup Link

Idle == [op |-> "idle"]
\* alone: no link was saved since the request looked for one.
Adding == [op : {"place", "insert"}, want : Link, alone : BOOLEAN, last : BOOLEAN]

TypeOK ==
  /\ row \in [Rows -> Row \cup {Absent}]
  /\ made \in 0..MaxItems
  /\ \A a \in Clients :
        \/ client[a] = Idle \/ client[a] \in Adding
        \/ /\ client[a].op = "save" /\ DOMAIN client[a].want \subseteq Rows
           /\ \A r \in DOMAIN client[a].want : client[a].want[r] \in Row
  /\ requests \in 0..MaxRequests
  /\ asked \in [Rows -> Row \cup {Absent}]
  /\ tail \subseteq Rows
  /\ raced \subseteq Rows
  \* what the foreign keys promise
  /\ \A r \in Rows : row[r] \in Option \cup Link => row[row[r].of] \in Question

\* Two questions, one in the version.
Init ==
  /\ row = [r \in Rows |->
       CASE r \in 1..2 -> [kind |-> "question", of |-> Own, place |-> 0, mark |-> FALSE]
         [] r = 3 -> [kind |-> "link", of |-> 1, place |-> 1, mark |-> FALSE]
         [] OTHER -> Absent]
  /\ made = 3
  /\ client = [a \in Clients |-> Idle]
  /\ requests = 0
  /\ asked = row
  /\ tail = {}
  /\ raced = {}

-----------------------------------------------------------------------------
Exists(r) == row[r] # Absent
Is(r, kind) == Exists(r) /\ row[r].kind = kind
Under(r, q) == Exists(r) /\ row[r].kind # "question" /\ row[r].of = q

\* The links of the version.
Links == {r \in Rows : Is(r, "link")}

\* The rows the others have in hand.
Held(a) ==
  UNION {DOMAIN client[b].want : b \in {b \in Clients \ {a} : client[b].op = "save"}}

\* a goes on to t; where it saved links, those about to add one are no longer alone.
Do(a, t, linked) ==
  client' = [b \in Clients |->
    CASE b = a -> t
      [] b # a /\ linked /\ client[b].op \in {"place", "insert"} -> [client[b] EXCEPT !.alone = FALSE]
      [] OTHER -> client[b]]

Insert(new) ==
  /\ made < MaxItems
  /\ made' = made + 1
  /\ row' = [row EXCEPT ![made + 1] = new]
  /\ asked' = [asked EXCEPT ![made + 1] = new]

-----------------------------------------------------------------------------
(* Questions and options *)

CreateQuestion(f) ==
  /\ Insert([kind |-> "question", of |-> f, place |-> 0, mark |-> FALSE])
  /\ UNCHANGED <<client, tail, raced>>

\* An option goes where the request says, else to place 0.
CreateQuestionOption(q, place) ==
  /\ Is(q, "question")
  /\ Insert([kind |-> "option", of |-> q, place |-> place, mark |-> FALSE])
  /\ UNCHANGED <<client, tail, raced>>

\* The rows are read, and changed in memory in the columns asked for.
Read(a, want, fields) ==
  /\ fields # {}
  /\ Do(a, [op |-> "save", want |-> want, fields |-> fields], FALSE)
  /\ raced' = raced \cup (DOMAIN want \cap Held(a))
  /\ UNCHANGED <<row, made, asked, tail>>

Changed(r, fields, place, mark) ==
  [row[r] EXCEPT !.place = IF "place" \in fields THEN place ELSE @,
                 !.mark = IF "mark" \in fields THEN mark ELSE @]

UpdateQuestion(a, q, mark) ==
  /\ Is(q, "question")
  /\ Read(a, [r \in {q} |-> Changed(q, {"mark"}, 0, mark)], {"mark"})

UpdateQuestionOption(a, o, fields, place, mark) ==
  /\ Is(o, "option")
  /\ Read(a, [r \in {o} |-> Changed(o, fields, place, mark)], fields)

UpdateFormVersionQuestion(a, l, fields, place, mark) ==
  /\ Is(l, "link")
  /\ Read(a, [r \in {l} |-> Changed(l, fields, place, mark)], fields)

\* The links listed get the places listed, and are required or not where that is listed too.
ReorderFormVersionQuestions(a, place, fields, mark) ==
  /\ DOMAIN place # {} /\ DOMAIN place \subseteq Links
  /\ "place" \in fields
  /\ Read(a, [r \in DOMAIN place |-> Changed(r, fields, place[r], mark)], fields)

\* The rows a save inserts again although what they belong to is gone: it fails.
Orphans(want) ==
  {r \in DOMAIN want : want[r].kind # "question" /\ ~Exists(want[r].of)}

SaveRows(a) ==
  /\ client[a].op = "save"
  /\ LET want == client[a].want
         fields == client[a].fields
         saved == Orphans(want) = {}
         After(r) == IF asked[r] = Absent THEN want[r]
                     ELSE [f \in DOMAIN want[r] |->
                             IF f \in fields THEN want[r][f] ELSE asked[r][f]] IN
       /\ row' = [r \in Rows |-> IF saved /\ r \in DOMAIN want THEN want[r] ELSE row[r]]
       /\ asked' = [r \in Rows |-> IF saved /\ r \in DOMAIN want THEN After(r) ELSE asked[r]]
       /\ tail' = IF saved /\ "place" \in fields THEN tail \ DOMAIN want ELSE tail
       /\ Do(a, Idle, saved /\ \E r \in DOMAIN want : want[r].kind = "link")
  /\ UNCHANGED <<made, requests, raced>>

\* removeQuestion, removeQuestionOption, removeFormVersionQuestion
RemoveRow(a, r) ==
  /\ Exists(r)
  /\ LET gone == {r} \cup {s \in Rows : Under(s, r)} IN
       /\ row' = [s \in Rows |-> IF s \in gone THEN Absent ELSE row[s]]
       /\ asked' = [s \in Rows |-> IF s \in gone THEN Absent ELSE asked[s]]
       /\ tail' = tail \ gone
       /\ raced' = raced \cup (gone \cap Held(a))
  /\ UNCHANGED <<made, client>>

-----------------------------------------------------------------------------
(* Questions put into the version *)

\* Faulty variant: the question may be in the version already.
LinkedNever(q) == FALSE

Linked(q) == \E l \in Links : row[l].of = q

\* The question is of the form, and not in the version; it is required if that is sent.
AddFormVersionQuestion(a, q, place, mark, last) ==
  /\ Is(q, "question")
  /\ row[q].of = Own
  /\ ~Linked(q)
  /\ last => place = 0
  /\ Do(a, [op |-> IF last THEN "place" ELSE "insert", alone |-> TRUE, last |-> last,
            want |-> [kind |-> "link", of |-> q, place |-> place, mark |-> mark]], FALSE)
  /\ UNCHANGED <<row, made, asked, tail, raced>>

\* After the last, and 1 where there is none.
NextFormVersionQuestionOrder == Max({row[l].place : l \in Links} \cup {0}) + 1

FindPlace(a) ==
  /\ client[a].op = "place"
  /\ NextFormVersionQuestionOrder <= MaxPlace
  /\ Do(a, [client[a] EXCEPT !.op = "insert", !.want.place = NextFormVersionQuestionOrder], FALSE)
  /\ UNCHANGED <<row, made, requests, asked, tail, raced>>

\* Inserted, unless the question has gone.
InsertLink(a) ==
  /\ client[a].op = "insert"
  /\ LET t == client[a] IN
       IF Exists(t.want.of)
       THEN /\ Insert(t.want)
            /\ tail' = IF t.last THEN tail \cup {made + 1} ELSE tail
            /\ raced' = IF t.alone THEN raced ELSE raced \cup {made + 1}
            /\ Do(a, Idle, TRUE)
       ELSE Do(a, Idle, FALSE) /\ UNCHANGED <<row, made, asked, tail, raced>>
  /\ UNCHANGED requests

-----------------------------------------------------------------------------
\* A request starts.
Request(a) ==
  /\ client[a] = Idle
  /\ requests < MaxRequests /\ requests' = requests + 1
  /\ \/ \E f \in Forms : CreateQuestion(f)
     \/ \E q \in Rows, place \in Places : CreateQuestionOption(q, place)
     \/ \E q \in Rows, mark \in BOOLEAN : UpdateQuestion(a, q, mark)
     \/ \E r \in Rows, fields \in SUBSET Fields, place \in Places, mark \in BOOLEAN :
           \/ UpdateQuestionOption(a, r, fields, place, mark)
           \/ UpdateFormVersionQuestion(a, r, fields, place, mark)
     \/ \E S \in SUBSET Links, fields \in SUBSET Fields, mark \in BOOLEAN :
           \E place \in [S -> Places] : ReorderFormVersionQuestions(a, place, fields, mark)
     \/ \E r \in Rows : RemoveRow(a, r)
     \/ \E q \in Rows, place \in Places, mark, last \in BOOLEAN :
           AddFormVersionQuestion(a, q, place, mark, last)

Next == \E a \in Clients : Request(a) \/ SaveRows(a) \/ FindPlace(a) \/ InsertLink(a)

Spec == Init /\ [][Next]_vars

-----------------------------------------------------------------------------
(* Properties *)

\* A row is in each column as the last request about it asked, and gone where that
\* was to remove it, or what it belongs to; a question is in the version
\* once, and those put at its end, and never given another place, have each its
\* own; all unless two requests had the row in hand, or one added a link when
\* the links it had looked at had changed.
QuestionsAsAskedUnlessRaced ==
  /\ \A r \in Rows \ raced : row[r] = asked[r]
  /\ \A l, m \in Links \ raced : l # m => row[l].of # row[m].of
  /\ \A l, m \in (Links \cap tail) \ raced : l # m => row[l].place # row[m].place

=============================================================================
