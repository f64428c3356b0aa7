----------------------------- MODULE CopilotChat -----------------------------
(***************************************************************************)
(* The conversations with the copilot, and its configuration for a launch. *)
(*                                                                         *)
(* A request saves a question, reads the conversation, has the model answer*)
(* it, which may ask for tools in a few rounds, and saves the answer.  No  *)
(* lock keeps another request out of the conversation meanwhile, and a     *)
(* question that fails stays.  The tools only read.                        *)
(***************************************************************************)
EXTENDS Integers, FiniteSets, Sequences, SequencesExt

CONSTANTS
  Conversations,
  Clients,         \* requests in progress at a time
  MaxRounds,       \* MAX_TOOL_ITERATIONS
  MaxRequests,     \* bound: requests
  MaxFaults,       \* bound: calls and statements that fail
  Absent           \* no such row

VARIABLES
  chat,            \* the messages of each conversation, in the order they were saved
  config,          \* the row of the configuration
  client,          \* the request each client is in
  requests, faults,
  mixed,           \* conversations two requests were in at a time
  asked,           \* the configuration as the requests done say
  raced            \* two requests had the configuration in hand at a time

vars == <<chat, config, client, requests, faults, mixed, asked, raced>>

RequestIds == 1..MaxRequests
Fields == {"sensitivity", "rules", "context"}
Config == [Fields -> 0..1]
Default == [f \in Fields |-> 0]

Idle == [op |-> "idle", at |-> "idle"]

Exists(row) == row # Absent
Talking(a) == client[a].op = "send"
Configuring(a) == client[a].op = "configure"
In(a, step) == client[a].at = step

TypeOK ==
  /\ DOMAIN chat = Conversations
  \* an answer has its question before it, and there is one
  /\ \A c \in Conversations : \A i \in 1..Len(chat[c]) :
       /\ chat[c][i].request \in 1..requests
       /\ chat[c][i].role = "assistant" =>
            \E j \in 1 .. i - 1 : chat[c][j] = [role |-> "user", request |-> chat[c][i].request]
       /\ \A j \in 1 .. i - 1 :
            chat[c][j].role = chat[c][i].role => chat[c][j].request # chat[c][i].request
  /\ config \in Config \cup {Absent} /\ asked \in Config \cup {Absent}
  /\ \A a \in Clients :
       /\ In(a, "work") => client[a].rounds \in 0..MaxRounds
       /\ Configuring(a) => client[a].want \in Config
  /\ requests \in 0..MaxRequests /\ faults \in 0..MaxFaults
  /\ mixed \subseteq Conversations /\ raced \in BOOLEAN

Init ==
  /\ chat = [c \in Conversations |-> <<>>]
  /\ config = Absent /\ asked = Absent
  /\ client = [a \in Clients |-> Idle]
  /\ requests = 0 /\ faults = 0
  /\ mixed = {} /\ raced = FALSE

-----------------------------------------------------------------------------
(* Conversations *)

NextRequest == requests < MaxRequests /\ requests' = requests + 1
Do(a, t) == client' = [client EXCEPT ![a] = t]

\* sendMessage: the conversation is read ...
Send(a, c) ==
  /\ client[a] = Idle /\ NextRequest
  /\ Do(a, [op |-> "send", at |-> "ask", request |-> requests + 1, conversation |-> c])
  /\ mixed' = IF \E b \in Clients : Talking(b) /\ client[b].conversation = c
              THEN mixed \cup {c} ELSE mixed
  /\ UNCHANGED <<chat, config, faults, asked, raced>>

\* ... the question is saved ...
SaveQuestion(a) ==
  /\ Talking(a) /\ In(a, "ask")
  /\ chat' = [chat EXCEPT ![client[a].conversation] =
       Append(@, [role |-> "user", request |-> client[a].request])]
  /\ Do(a, [client[a] EXCEPT !.at = "read"])
  /\ UNCHANGED <<config, requests, faults, mixed, asked, raced>>

\* Faulty variant: the conversation as it was before the question.
HistoryBefore(messages) == SelectSeq(Front(messages), LAMBDA m : m.role \in {"user", "assistant"})

\* What the model is told: all that is stored, of users and of the model.
History(messages) ==
  LET kept == {i \in DOMAIN messages : messages[i].role \in {"user", "assistant"}} IN
    [k \in 1..Cardinality(kept) |->
       messages[CHOOSE i \in kept : Cardinality({j \in kept : j <= i}) = k]]

Told(messages) == [i \in DOMAIN messages |-> [role |-> messages[i].role, request |-> messages[i].request]]

\* ... the conversation is read, and the notes of the configuration ...
ReadHistory(a) ==
  /\ Talking(a) /\ In(a, "read")
  /\ Do(a, [op |-> "send", at |-> "work", request |-> client[a].request,
            conversation |-> client[a].conversation, rounds |-> 0, text |-> "tools",
            saw |-> Told(History(chat[client[a].conversation]))])
  /\ UNCHANGED <<chat, config, requests, faults, mixed, asked, raced>>

\* ... the model answers, with nothing perhaps, or asks for tools ...
Complete(a, reply) ==
  /\ Talking(a) /\ In(a, "work")
  /\ client[a].rounds < MaxRounds
  /\ Do(a, [client[a] EXCEPT !.at = IF reply = "tools" THEN "dispatch" ELSE "reply", !.text = reply])
  /\ UNCHANGED <<chat, config, requests, faults, mixed, asked, raced>>

\* ... which are run, an unknown one too, and it is asked again, in MaxRounds rounds ...
Dispatch(a) ==
  /\ Talking(a) /\ In(a, "dispatch")
  /\ LET rounds == client[a].rounds + 1 IN
       Do(a, [client[a] EXCEPT !.rounds = rounds, !.at = IF rounds = MaxRounds THEN "reply" ELSE "work"])
  /\ UNCHANGED <<chat, config, requests, faults, mixed, asked, raced>>

\* ... and its answer is saved, or an apology in place of one.  The conversation is
\* saved as it was read, which writes nothing.
SaveAnswer(a) ==
  /\ Talking(a) /\ In(a, "reply")
  /\ chat' = [chat EXCEPT ![client[a].conversation] =
       Append(@, [role |-> "assistant", request |-> client[a].request, saw |-> client[a].saw,
                  text |-> IF client[a].text = "answer" THEN "answer" ELSE "apology"])]
  /\ Do(a, Idle)
  /\ UNCHANGED <<config, requests, faults, mixed, asked, raced>>

-----------------------------------------------------------------------------
(* The configuration *)

\* Faulty variant: what is not given is as in the beginning.
GivenOnly(row, fields, value) == [f \in Fields |-> IF f \in fields THEN value ELSE 0]

Given(row, fields, value) == [f \in Fields |-> IF f \in fields THEN value ELSE row[f]]

\* upsertConfig: the row is read ...
Configure(a, fields, value) ==
  /\ client[a] = Idle /\ NextRequest
  /\ LET row == IF Exists(config) THEN config ELSE Default IN
       Do(a, [op |-> "configure", at |-> IF Exists(config) THEN "load" ELSE "insert",
              want |-> Given(row, fields, value), loaded |-> Absent, fields |-> fields])
  /\ raced' = (raced \/ \E b \in Clients : Configuring(b))
  /\ UNCHANGED <<chat, config, faults, mixed, asked>>

Ask(t) ==
  asked' = [f \in Fields |->
    IF f \in t.fields THEN t.want[f] ELSE IF Exists(asked) THEN asked[f] ELSE Default[f]]

\* ... it is inserted, if another did not do so, ...
InsertConfig(a) ==
  /\ Configuring(a) /\ In(a, "insert")
  /\ IF Exists(config) THEN UNCHANGED <<config, asked>>
     ELSE config' = client[a].want /\ Ask(client[a])
  /\ Do(a, Idle)
  /\ UNCHANGED <<chat, requests, faults, mixed, raced>>

\* ... or loaded once more by the save,
LoadConfig(a) ==
  /\ Configuring(a) /\ In(a, "load")
  /\ Do(a, [client[a] EXCEPT !.at = "write", !.loaded = config])
  /\ UNCHANGED <<chat, config, requests, faults, mixed, asked, raced>>

\* which writes the columns that differ.
WriteConfig(a) ==
  /\ Configuring(a) /\ In(a, "write")
  /\ LET t == client[a] IN
       /\ config' = [f \in Fields |-> IF t.want[f] # t.loaded[f] THEN t.want[f] ELSE config[f]]
       /\ Ask(t)
  /\ Do(a, Idle)
  /\ UNCHANGED <<chat, requests, faults, mixed, raced>>

\* The model, a tool or a statement fails, or the process dies.
CutOff(a) ==
  /\ client[a] # Idle
  /\ faults < MaxFaults /\ faults' = faults + 1
  /\ Do(a, Idle)
  /\ UNCHANGED <<chat, config, requests, mixed, asked, raced>>

Next ==
  \E a \in Clients :
    \/ \E c \in Conversations : Send(a, c)
    \/ SaveQuestion(a) \/ ReadHistory(a) \/ Dispatch(a) \/ SaveAnswer(a)
    \/ \E reply \in {"tools", "answer", "nothing"} : Complete(a, reply)
    \/ \E fields \in SUBSET Fields, value \in 0..1 : Configure(a, fields, value)
    \/ InsertConfig(a) \/ LoadConfig(a) \/ WriteConfig(a)
    \/ CutOff(a)

Spec == Init /\ [][Next]_vars

-----------------------------------------------------------------------------
(* Properties *)

\* An answer is given to its own question, with everything before it in sight: unless
\* two requests were in the conversation at a time it follows its question and goes by
\* all there was, the questions that were left without an answer included; and in
\* any case it goes by its question and by every message stored when that was saved.
AnswersSeeAllUnlessMixed ==
  \A c \in Conversations : \A i \in 1..Len(chat[c]) :
    LET reply == chat[c][i] IN
      reply.role = "assistant" =>
        \E j \in 1 .. i - 1 :
          /\ chat[c][j] = [role |-> "user", request |-> reply.request]
          /\ IsPrefix(Told(SubSeq(chat[c], 1, j)), reply.saw)
          /\ c \notin mixed => j = i - 1 /\ Len(reply.saw) = j

\* The configuration is as asked, field by field, unless two requests had it in hand.
ConfigAsAskedUnlessRaced == ~raced => config = asked

=============================================================================
