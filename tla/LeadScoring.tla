----------------------------- MODULE LeadScoring -----------------------------
(***************************************************************************)
(* The lead score: POST lead-score/start publishes the answers of a form,  *)
(* which name the registration they belong to by its requestId.  The       *)
(* consumer looks the capture of that registration up, stores the answers  *)
(* and the score, and, as long as the registration has not been persisted, *)
(* publishes the message again with a delay and a count.                   *)
(*                                                                         *)
(* The table of captures is shared with the registration (LeadRegistration *)
(* changes it); the columns of a capture are those of its Row.             *)
(***************************************************************************)
EXTENDS Integers, Sequences, FiniteSets

CONSTANTS
  Scores,          \* requestId of each call of lead-score/start
  RegistrationOf,  \* the lead_registration_request_id each one carries
  Offline,         \* those answered by a process whose Service Bus is disabled
  Forms, FormOf,   \* the form_version_id each one carries
  Scorers,         \* handler slots of the lead-score consumers
  RetryMax,        \* publications again while there is no capture (12)
  MaxTries,        \* deliveries of one message before it is dead-lettered
  MaxCaptures,     \* bound: rows of the table of captures
  MaxCopies,       \* bound: equal messages counted, more are not told apart
  MaxLapses,       \* bound: lost message locks
  NoMessage, NoSnapshot, NoForm

VARIABLES
  captures,       \* the table of captures, shared
  form,           \* the form_version column of each capture
  results,        \* the table of results, in order of commit
  \* requests accepted by the API, messages waiting, requests dead-lettered
  accepted, waiting, dead,
  \* the handlers: what they do, their message, its lock, the capture found,
  \* the snapshots of its columns
  at, msg, locked, target, row, rowForm,
  \* requests two handlers worked on at once, and the lost locks
  overlapped, lapses

handlers  == <<at, msg, locked, target, row, rowForm>>
scoreVars == <<form, results, accepted, waiting, dead, handlers, overlapped, lapses>>
vars      == <<captures, scoreVars>>

Message == [score : Scores, retry : 0..RetryMax, tries : 0..MaxTries]
Result == [score : Scores, capture : 1..MaxCaptures]

\* What the constants must satisfy; the module that composes assumes it.
ScoringConstants ==
  /\ DOMAIN RegistrationOf = Scores
  /\ FormOf \in [Scores -> Forms]
  /\ Offline \subseteq Scores
  /\ RetryMax \in Nat /\ MaxTries \in Nat \ {0} /\ MaxCaptures \in Nat
  /\ MaxCopies \in Nat \ {0} /\ MaxLapses \in Nat
  /\ NoForm \notin Forms
  /\ NoMessage \notin Message

TypeOK ==
  /\ form \in [1..MaxCaptures -> Forms \cup {NoForm}]
  /\ results \in Seq(Result)
  /\ accepted \subseteq Scores /\ dead \subseteq Scores
  /\ waiting \in [Message -> 0..MaxCopies]
  /\ at \in [Scorers -> {"idle", "read", "commit", "requeue", "ack"}]
  /\ msg \in [Scorers -> Message \cup {NoMessage}]
  /\ locked \in [Scorers -> BOOLEAN]
  /\ target \in [Scorers -> 0..MaxCaptures]
  /\ rowForm \in [Scorers -> Forms \cup {NoForm}]
  /\ \A w \in Scorers : row[w] = NoSnapshot <=> target[w] = 0
  /\ overlapped \subseteq Scores
  /\ lapses \in 0..MaxLapses

\* The state of the scoring beside an already initialised table of captures.
Init ==
  /\ form = [c \in 1..MaxCaptures |-> NoForm]
  /\ results = <<>>
  /\ accepted = {} /\ dead = {}
  /\ waiting = [m \in Message |-> 0]
  /\ at = [w \in Scorers |-> "idle"]
  /\ msg = [w \in Scorers |-> NoMessage]
  /\ locked = [w \in Scorers |-> FALSE]
  /\ target = [w \in Scorers |-> 0]
  /\ row = [w \in Scorers |-> NoSnapshot]
  /\ rowForm = [w \in Scorers |-> NoForm]
  /\ overlapped = {}
  /\ lapses = 0

-----------------------------------------------------------------------------
(* Helpers *)

Youngest(S) == IF S = {} THEN 0 ELSE CHOOSE c \in S : \A d \in S : d <= c

Current(r) == Youngest({c \in DOMAIN captures : captures[c].requestId = r})

Listed(r) == Youngest({c \in DOMAIN captures : r \in captures[c].requestIds})

\* Faulty variant: requests that were merged are not looked for.
ResolveCurrentOnly(r) == Current(r)

\* Faulty variant: the request in the query is forgotten.
ResolveYoungest(r) == Youngest(DOMAIN captures)

\* resolveCapture by lead_registration_request_id, or 0.
Resolve(r) == IF Current(r) # 0 THEN Current(r) ELSE Listed(r)

\* Faulty variant: every delivery is scored anew.
ScoredNever(s) == FALSE

\* A response of the request exists, with its result.
Scored(s) == \E i \in DOMAIN results : results[i].score = s

Published(m) ==
  [waiting EXCEPT ![m] = IF @ < MaxCopies THEN @ + 1 ELSE MaxCopies]

ScoreOf(w) == msg[w].score

Release(w) ==
  /\ at' = [at EXCEPT ![w] = "idle"]
  /\ msg' = [msg EXCEPT ![w] = NoMessage]
  /\ locked' = [locked EXCEPT ![w] = FALSE]
  /\ target' = [target EXCEPT ![w] = 0]
  /\ row' = [row EXCEPT ![w] = NoSnapshot]
  /\ rowForm' = [rowForm EXCEPT ![w] = NoForm]

\* The broker takes the message of w back: waiting again, or dead-lettered.
TakeBack(w) ==
  IF msg[w].tries < MaxTries
    THEN waiting' = Published(msg[w]) /\ UNCHANGED dead
    ELSE dead' = dead \cup {ScoreOf(w)} /\ UNCHANGED waiting

-----------------------------------------------------------------------------
(* Actions *)

\* enqueueLeadScore: the caller is told that the request is queued, though publish
\* sends nothing where the Service Bus is disabled.
Enqueue(s) ==
  /\ s \notin accepted
  /\ accepted' = accepted \cup {s}
  /\ waiting' = IF s \in Offline THEN waiting
                 ELSE Published([score |-> s, retry |-> 0, tries |-> 0])
  /\ UNCHANGED <<captures, form, results, dead, handlers, overlapped, lapses>>

Deliver(w, m) ==
  /\ at[w] = "idle"
  /\ waiting[m] > 0
  /\ waiting' = [waiting EXCEPT ![m] = @ - 1]
  /\ at' = [at EXCEPT ![w] = "read"]
  /\ msg' = [msg EXCEPT ![w] = [m EXCEPT !.tries = @ + 1]]
  /\ locked' = [locked EXCEPT ![w] = TRUE]
  /\ overlapped' = IF \E v \in Scorers : at[v] # "idle" /\ ScoreOf(v) = m.score
                   THEN overlapped \cup {m.score} ELSE overlapped
  /\ UNCHANGED <<captures, form, results, accepted, dead, target, row, rowForm, lapses>>

\* persistLeadScore reads: the response already stored for the request, then
\* the capture and its form version.
Read(w) ==
  LET c == Resolve(RegistrationOf[ScoreOf(w)]) IN
  /\ at[w] = "read"
  /\ \/ /\ Scored(ScoreOf(w))
        /\ at' = [at EXCEPT ![w] = "ack"]
        /\ UNCHANGED <<target, row, rowForm>>
     \/ /\ ~Scored(ScoreOf(w)) /\ c # 0
        /\ at' = [at EXCEPT ![w] = "commit"]
        /\ target' = [target EXCEPT ![w] = c]
        /\ row' = [row EXCEPT ![w] = captures[c]]
        /\ rowForm' = [rowForm EXCEPT ![w] = form[c]]
     \/ /\ ~Scored(ScoreOf(w)) /\ c = 0 /\ msg[w].retry < RetryMax
        /\ at' = [at EXCEPT ![w] = "requeue"]
        /\ UNCHANGED <<target, row, rowForm>>
  /\ UNCHANGED <<captures, form, results, accepted, waiting, dead, msg, locked,
                 overlapped, lapses>>

\* persistLeadScore commits the response, its answers and the result; a form
\* version that differs is saved with the capture as it was read.
Commit(w) ==
  LET c == target[w]  f == FormOf[ScoreOf(w)] IN
  /\ at[w] = "commit"
  /\ results' = Append(results, [score |-> ScoreOf(w), capture |-> c])
  /\ \/ /\ rowForm[w] # f
        /\ form' = [form EXCEPT ![c] = f]
        /\ captures' = [captures EXCEPT ![c] = row[w]]
     \/ /\ rowForm[w] = f
        /\ UNCHANGED <<captures, form>>
  /\ at' = [at EXCEPT ![w] = "ack"]
  /\ UNCHANGED <<accepted, waiting, dead, msg, locked, target, row, rowForm,
                 overlapped, lapses>>

\* Faulty variant: the count of publications is not carried on.
RequeueUncounted(w) ==
  /\ at[w] = "requeue"
  /\ waiting' = Published([msg[w] EXCEPT !.tries = 0])
  /\ at' = [at EXCEPT ![w] = "ack"]
  /\ UNCHANGED <<captures, form, results, accepted, dead, msg, locked, target, row,
                 rowForm, overlapped, lapses>>

\* Faulty variant: a publication that fails is ignored.
RequeueUnchecked(w) ==
  /\ at[w] = "requeue"
  /\ \/ waiting' = Published([score |-> ScoreOf(w), retry |-> msg[w].retry + 1, tries |-> 0])
     \/ UNCHANGED waiting
  /\ at' = [at EXCEPT ![w] = "ack"]
  /\ UNCHANGED <<captures, form, results, accepted, dead, msg, locked, target, row,
                 rowForm, overlapped, lapses>>

\* No capture yet: a new message with the next count, then the handler
\* returns.  A publication that fails makes the handler throw (Throw).
Requeue(w) ==
  /\ at[w] = "requeue"
  /\ waiting' = Published([score |-> ScoreOf(w), retry |-> msg[w].retry + 1, tries |-> 0])
  /\ at' = [at EXCEPT ![w] = "ack"]
  /\ UNCHANGED <<captures, form, results, accepted, dead, msg, locked, target, row,
                 rowForm, overlapped, lapses>>

\* completeMessage, in vain when the lock is gone.
Ack(w) ==
  /\ at[w] = "ack"
  /\ Release(w)
  /\ UNCHANGED <<captures, form, results, accepted, waiting, dead, overlapped, lapses>>

\* The handler does not complete its message: no capture and no publication
\* left, invalid answers, a form version or score that is not active, an error
\* of the database or the bus, or the end of the process wherever it was.
Throw(w) ==
  /\ at[w] # "idle"
  /\ Release(w)
  /\ \/ locked[w] /\ TakeBack(w)
     \/ ~locked[w] /\ UNCHANGED <<waiting, dead>>
  /\ UNCHANGED <<captures, form, results, accepted, overlapped, lapses>>

\* The lock expires while the handler is still at work.
LockLapses(w) ==
  /\ locked[w]
  /\ lapses < MaxLapses
  /\ lapses' = lapses + 1
  /\ locked' = [locked EXCEPT ![w] = FALSE]
  /\ TakeBack(w)
  /\ UNCHANGED <<captures, form, results, accepted, at, msg, target, row, rowForm,
                 overlapped>>

Handle(w) == Read(w) \/ Commit(w) \/ Requeue(w) \/ Ack(w) \/ Throw(w)

Next ==
  \/ \E s \in Scores : Enqueue(s)
  \/ \E w \in Scorers : Handle(w) \/ LockLapses(w) \/ \E m \in Message : Deliver(w, m)

-----------------------------------------------------------------------------
(* Properties *)

\* A message of the request is somewhere: waiting, or locked by a handler.
InFlight(s) ==
  \/ \E m \in Message : m.score = s /\ waiting[m] > 0
  \/ \E w \in Scorers : at[w] # "idle" /\ locked[w] /\ ScoreOf(w) = s

\* No accepted score is dropped but where the Service Bus is disabled: until its
\* result is stored, a message of it is on its way or in the dead-letter queue, in
\* particular between the publication of a retry and the completion of the message
\* it replaces.
ScoreNotDropped ==
  \A s \in accepted \ Offline : Scored(s) \/ s \in dead \/ InFlight(s)

\* A request is scored once, however often it is delivered or published again,
\* as long as two handlers never hold it at the same time.
OneResultUnlessOverlapped ==
  \A i, j \in DOMAIN results :
    i # j /\ results[i].score = results[j].score => results[i].score \in overlapped

\* Every score that is accepted and sent ends, with a result or in the dead-letter
\* queue: the publications again are counted and do not go on forever.
EveryScoreEnds ==
  \A s \in Scores \ Offline : s \in accepted ~> Scored(s) \/ s \in dead
=============================================================================
