--------------------------- MODULE CaptureReports ---------------------------
(***************************************************************************)
(* What is told about captures: the file of an export, the pages of a list *)
(* and the answers in a batch of the feed, each gathered in several        *)
(* statements while captures are registered, scored and synchronised.      *)
(*                                                                         *)
(* Captures are numbered in the order of created_at and id.  Questions are *)
(* written <<key, form>>: forms may use the same key.  The text of a       *)
(* question is that of its key in the beginning, and may be edited.        *)
(***************************************************************************)
EXTENDS Integers, SequencesExt

CONSTANTS
  MaxCapture,      \* bound: captures
  Keys, QuizForms, \* of questions
  BatchSize,       \* rows of a batch of the export, and of a page
  MaxResponses,    \* bound: responses to forms
  MaxNews          \* bound: responses, texts edited and contacts attached

VARIABLES
  capture,         \* the table, with what is not committed yet
  response,        \* responses, each of a capture, with the questions answered
  latest,          \* the response of each capture that was submitted last
  label,           \* the text of each question
  news,            \* responses, edits and contacts so far
  reader,          \* the report under way
  report,          \* the rows it has told of, in order
  constant,        \* captures that the report should tell of all along
  unheaded,        \* questions answered or edited after the headers were read
  superseded,      \* captures answered again while their row was gathered
  shaken           \* a capture left the list, or a page was read around a change

tables == <<capture, response, latest, label, news>>
vars == <<tables, reader, report, constant, unheaded, superseded, shaken>>

Captures == 1..MaxCapture
Responses == 1..MaxResponses
Questions == Keys \X QuizForms
Key(q) == q[1]
Form(q) == q[2]

\* The filters of captures, and the two lists of what ActiveCampaign has.
Filters == {"all", "answered", "unanswered", "missing", "tagged"}
Kinds == {"file", "whole", "pages", "feed"}
NoReader == [kind |-> "none", at |-> "idle", filter |-> "all", headers |-> {}, rows |-> {},
             cursor |-> MaxCapture + 1, scored |-> [i \in Captures |-> 0], page |-> 1,
             total |-> 0]

Row == [capture : Captures, scored : 0..MaxResponses, answered : 0..MaxResponses,
        shown : SUBSET Questions]

TypeOK ==
  /\ capture \in [Captures -> [state : {"none", "open", "stored"}, version : BOOLEAN,
                               contact : BOOLEAN]]
  /\ response \in Seq([capture : Captures, questions : SUBSET Questions])
  /\ Len(response) <= MaxResponses
  /\ latest \in [Captures -> 0..Len(response)]
  /\ label \in [Questions -> Keys] /\ news \in 0..MaxNews
  /\ reader.kind \in Kinds \cup {"none"} /\ reader.filter \in Filters
  /\ reader.at \in {"idle", "rows", "quiz", "answers", "page", "total", "done"}
  /\ report \in Seq(Row)
  /\ constant \subseteq Captures /\ unheaded \subseteq Questions /\ superseded \subseteq Captures
  /\ shaken \in BOOLEAN
  \* a capture's latest response is its own, and has the version set
  /\ \A i \in Captures : latest[i] # 0 => response[latest[i]].capture = i /\ capture[i].version

Init ==
  /\ capture = [i \in Captures |-> [state |-> "none", version |-> FALSE, contact |-> FALSE]]
  /\ response = <<>> /\ latest = [i \in Captures |-> 0]
  /\ label = [q \in Questions |-> Key(q)] /\ news = 0
  /\ reader = NoReader /\ report = <<>>
  /\ constant = {} /\ unheaded = {} /\ superseded = {} /\ shaken = FALSE

-----------------------------------------------------------------------------
(* What is read *)

\* applyFilters, and the base queries of both lists
Meets(c, filter) ==
  CASE filter = "all" -> TRUE
    [] filter = "answered" -> c.version
    [] filter = "unanswered" -> ~c.version
    [] filter = "missing" -> ~c.contact
    [] filter = "tagged" -> c.contact
Matching(captures) ==
  {i \in Captures : captures[i].state = "stored" /\ Meets(captures[i], reader.filter)}

\* The questions of the responses to which the report goes back.
Answered(responses) == UNION {response[r].questions : r \in responses}

\* One label for each key of the questions, the first by some order: a way of
\* taking questions that stand for all of their keys.
HeaderPicks(questions) ==
  {P \in SUBSET questions :
     /\ \A q \in questions : \E p \in P : Key(p) = Key(q)
     /\ \A p, q \in P : Key(p) = Key(q) => p = q}
Labelled(questions) == {label[q] : q \in questions}

\* Of two questions with one label, the one whose key comes last is shown.
Shown(r, headers) ==
  {q \in response[r].questions :
     /\ label[q] \in headers
     /\ \A p \in response[r].questions : label[p] = label[q] => Key(p) <= Key(q)}

\* The first n rows, created_at DESC, id DESC
First(S, n) == {i \in S : Cardinality({j \in S : j > i}) < n}

\* The rows in that order
Descending(S) ==
  [k \in 1..Cardinality(S) |-> CHOOSE i \in S : Cardinality({j \in S : j > i}) = k - 1]

\* Faulty variant: the next batch begins with the last row of the one before.
BeyondOrAt(i) == i <= reader.cursor

\* (created_at, id) < (:cursorCreatedAt, :cursorId), in microseconds
Beyond(i) == i < reader.cursor

-----------------------------------------------------------------------------
(* What goes on meanwhile *)

Told == {report[k].capture : k \in 1..Len(report)}

\* Something happens, until the report has ended.
Meanwhile == reader.at # "done"
New == Meanwhile /\ news < MaxNews /\ news' = news + 1

\* What the change to captures' means for the report under way.
Noticed(captures) ==
  /\ constant' = constant \cap Matching(captures)
  /\ shaken' = \/ shaken
                \/ /\ reader.kind = "pages"
                   /\ \/ Matching(capture) \ Matching(captures) # {}
                      \/ reader.at = "total" /\ Matching(capture) # Matching(captures)
Unheaded(questions) ==
  unheaded' = IF reader = NoReader THEN {} ELSE unheaded \cup questions

\* A registration takes its created_at ...
Register(i, version) ==
  /\ Meanwhile
  /\ capture[i].state = "none" /\ \A j \in 1 .. i - 1 : capture[j].state # "none"
  /\ capture' = [capture EXCEPT ![i] = [@ EXCEPT !.state = "open", !.version = version]]
  /\ UNCHANGED <<response, latest, label, news, reader, report, constant, unheaded, superseded,
                 shaken>>

\* ... and commits.
Commit(i) ==
  /\ Meanwhile
  /\ capture[i].state = "open"
  /\ capture' = [capture EXCEPT ![i].state = "stored"]
  /\ Noticed(capture')
  /\ UNCHANGED <<response, latest, label, news, reader, report, unheaded, superseded>>

\* A score is stored, with the answers of a response, which may have been
\* submitted before the one that was stored before it.
Respond(i, f, K, last) ==
  /\ New
  /\ capture[i].state = "stored"
  /\ Len(response) < MaxResponses
  /\ response' = Append(response, [capture |-> i, questions |-> K \X {f}])
  /\ capture' = [capture EXCEPT ![i].version = TRUE]
  /\ IF last \/ latest[i] = 0
     THEN /\ latest' = [latest EXCEPT ![i] = Len(response) + 1]
          /\ Unheaded(K \X {f})
          /\ superseded' = IF reader.at = "answers" THEN superseded \cup {i} ELSE superseded
     ELSE UNCHANGED <<latest, unheaded, superseded>>
  /\ Noticed(capture')
  /\ UNCHANGED <<label, reader, report>>

\* A registration's other branch attaches the contact, with its tag.
Attach(i) ==
  /\ New
  /\ capture[i].state = "stored" /\ ~capture[i].contact
  /\ capture' = [capture EXCEPT ![i].contact = TRUE]
  /\ Noticed(capture')
  /\ UNCHANGED <<response, latest, label, reader, report, unheaded, superseded>>

\* An administrator edits the text of a question.
EditText(q, k) ==
  /\ k # label[q]
  /\ New
  /\ label' = [label EXCEPT ![q] = k]
  /\ Unheaded({p \in Questions : label[p] \in {k, label[q]}})
  /\ UNCHANGED <<capture, response, latest, reader, report, constant, superseded, shaken>>

-----------------------------------------------------------------------------
(* The reports *)

Begun(kind, filter) ==
  /\ reader = NoReader
  /\ constant' = {i \in Captures : capture[i].state = "stored" /\ Meets(capture[i], filter)}
  /\ UNCHANGED <<tables, report, unheaded, superseded, shaken>>

LatestOf(S) == {latest[i] : i \in S} \ {0}

\* collectExportQuestionHeaders, and the stream goes on to the batches.
BeginFile(filter) ==
  /\ Begun("file", filter)
  /\ \E P \in HeaderPicks(Answered(LatestOf(constant'))) :
       reader' = [NoReader EXCEPT !.kind = "file", !.at = "rows", !.filter = filter,
                                  !.headers = Labelled(P)]

\* buildExportDataset reads every row first.
BeginWhole(filter) ==
  /\ Begun("whole", filter)
  /\ reader' = [NoReader EXCEPT !.kind = "whole", !.at = "quiz", !.filter = filter,
                                !.rows = constant']

\* A client asks for the first page.
BeginPages(filter) ==
  /\ Begun("pages", filter)
  /\ reader' = [NoReader EXCEPT !.kind = "pages", !.at = "page", !.filter = filter]

\* listCapturesForSync reads a batch.
BeginFeed ==
  /\ Begun("feed", "all")
  /\ reader' = [NoReader EXCEPT !.kind = "feed", !.at = "quiz", !.rows = First(constant', BatchSize)]

\* The loop of streamCapturesExcel and streamCapturesCsv reads a batch ...
ReadBatch ==
  /\ reader.kind = "file" /\ reader.at = "rows"
  /\ LET rows == First({i \in Matching(capture) : Beyond(i)}, BatchSize) IN
       reader' = IF rows = {} THEN [reader EXCEPT !.at = "done"]
                 ELSE [reader EXCEPT !.at = "quiz", !.rows = rows]
  /\ UNCHANGED <<tables, report, constant, unheaded, superseded, shaken>>

RowsTold(headers) ==
  [k \in 1..Cardinality(reader.rows) |->
     LET i == Descending(reader.rows)[k] IN
       [capture |-> i, scored |-> latest[i], answered |-> latest[i],
        shown |-> IF latest[i] = 0 THEN {} ELSE Shown(latest[i], headers)]]

\* ... and then the latest responses to it, with their scores and answers, which do not
\* change once they are stored, and writes them.
ReadQuiz ==
  /\ reader.kind = "file" /\ reader.at = "quiz"
  /\ report' = report \o RowsTold(reader.headers)
  /\ reader' = [reader EXCEPT !.cursor = Min(reader.rows), !.rows = {},
       !.at = IF Cardinality(reader.rows) < BatchSize THEN "done" ELSE "rows"]
  /\ UNCHANGED <<tables, constant, unheaded, superseded, shaken>>

\* The whole file's headers come from the answers it shows.
ReadQuizWhole ==
  /\ reader.kind = "whole" /\ reader.at = "quiz"
  /\ \E P \in HeaderPicks(Answered(LatestOf(reader.rows))) : report' = RowsTold(Labelled(P))
  /\ reader' = [reader EXCEPT !.at = "done", !.rows = {}]
  /\ UNCHANGED <<tables, constant, unheaded, superseded, shaken>>

\* The feed reads scores with the latest responses ...
ReadScores ==
  /\ reader.kind = "feed" /\ reader.at = "quiz"
  /\ reader' = [reader EXCEPT !.at = "answers",
       !.scored = [i \in Captures |-> IF i \in reader.rows THEN latest[i] ELSE 0]]
  /\ UNCHANGED <<tables, report, constant, unheaded, superseded, shaken>>

\* ... and answers, by the keys asked for, with what are the latest then.
ReadAnswers ==
  /\ reader.kind = "feed" /\ reader.at = "answers"
  /\ report' = [k \in 1..Cardinality(reader.rows) |->
       LET i == Descending(reader.rows)[k] IN
         [capture |-> i, scored |-> reader.scored[i], answered |-> latest[i],
          shown |-> IF latest[i] = 0 THEN {} ELSE response[latest[i]].questions]]
  /\ reader' = [reader EXCEPT !.at = "done", !.rows = {}]
  /\ UNCHANGED <<tables, constant, unheaded, superseded, shaken>>

\* The rows of a page and the number of all are read at a time, one of them first.
PageRows ==
  LET n == reader.page * BatchSize
  IN First(Matching(capture), n) \ First(Matching(capture), n - BatchSize)

\* The client asks for one page after another, as many as there are said to be.
NextPage(total) ==
  IF reader.page * BatchSize >= total THEN [reader EXCEPT !.at = "done", !.total = total]
  ELSE [reader EXCEPT !.at = "page", !.page = @ + 1, !.total = total]

ReadPage ==
  /\ reader.kind = "pages" /\ reader.at \in {"page", "total"}
  /\ report' = report \o [k \in 1..Cardinality(PageRows) |->
       [capture |-> Descending(PageRows)[k], scored |-> 0, answered |-> 0, shown |-> {}]]
  /\ reader' = IF reader.at = "page" THEN [reader EXCEPT !.at = "rows"]
               ELSE NextPage(reader.total)
  /\ UNCHANGED <<tables, constant, unheaded, superseded, shaken>>

CountPages ==
  /\ reader.kind = "pages" /\ reader.at \in {"page", "rows"}
  /\ LET total == Cardinality(Matching(capture)) IN
       reader' = IF reader.at = "page" THEN [reader EXCEPT !.at = "total", !.total = total]
                 ELSE NextPage(total)
  /\ UNCHANGED <<tables, report, constant, unheaded, superseded, shaken>>

Next ==
  \/ \E i \in Captures :
       \/ \E version \in BOOLEAN : Register(i, version)
       \/ Commit(i) \/ Attach(i)
       \/ \E f \in QuizForms, K \in (SUBSET Keys) \ {{}}, last \in BOOLEAN : Respond(i, f, K, last)
  \/ \E q \in Questions, k \in Keys : EditText(q, k)
  \/ \E filter \in {"all", "answered", "unanswered"} : BeginFile(filter) \/ BeginWhole(filter)
  \/ \E filter \in Filters : BeginPages(filter)
  \/ BeginFeed
  \/ ReadBatch \/ ReadQuiz \/ ReadQuizWhole \/ ReadScores \/ ReadAnswers
  \/ ReadPage \/ CountPages

Spec == Init /\ [][Next]_vars

-----------------------------------------------------------------------------
(* Properties *)

\* Questions of which a file shows one only: they have a key in common and not
\* the text, or the text and not the key.
Clash(q) ==
  \E p \in Questions : (Key(p) = Key(q)) # (label[p] = label[q])

\* A report that has ended told of each capture that was to be told of all along,
\* a file of each once and in order; pages did unless a capture left the list or
\* came between the number of pages and a page.  The score and the answers beside
\* it are of one response unless another came between, and each answer is there
\* unless its question clashes with another or came after the headers.
ToldInFull ==
  /\ reader.at = "done" /\ reader.kind # "feed" => constant \subseteq Told \/ shaken
  /\ reader.kind # "pages" =>
       \A j, k \in 1..Len(report) : j < k => report[j].capture > report[k].capture
  /\ \A k \in 1..Len(report) : LET row == report[k] IN
       /\ row.scored = row.answered \/ row.capture \in superseded
       /\ row.answered = 0 \/
            \A q \in response[row.answered].questions :
              q \in row.shown \/ Clash(q) \/ q \in unheaded

=============================================================================
