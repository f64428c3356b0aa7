------------------------------ MODULE SyncFeed ------------------------------
(***************************************************************************)
(* The feed of captures for other systems: each call gives a batch in the  *)
(* order of created_at and id, after the cursor of the batch before.       *)
(*                                                                         *)
(* A capture's created_at is the time its transaction began, in            *)
(* microseconds; a cursor gives it back in milliseconds.  Here a tick is a *)
(* microsecond, and PerMilli of them are a millisecond.                    *)
(***************************************************************************)
EXTENDS Integers, FiniteSets

CONSTANTS
  MaxCapture,      \* bound: captures, their ids being 1..MaxCapture
  PerMilli,        \* ticks of a millisecond
  MaxTick,         \* bound: time
  MaxLimit,        \* bound: the size of a batch
  MaxGiven         \* bound: times a capture is given

VARIABLES
  tick,            \* the clock
  capture,         \* the table, with what is not committed yet
  cursor,          \* that of the consumer
  given,           \* how often each capture was given to it
  late             \* captures committed after a later one was given

vars == <<tick, capture, cursor, given, late>>

Ids == 1..MaxCapture
None == [at |-> 0, state |-> "none"]
Beginning == [milli |-> 0, id |-> 0]

TypeOK ==
  /\ tick \in 0..MaxTick
  /\ capture \in [Ids -> [at : 0..MaxTick, state : {"none", "open", "stored"}]]
  /\ cursor \in [milli : 0 .. MaxTick \div PerMilli, id : 0..MaxCapture]
  /\ given \in [Ids -> 0..MaxGiven]
  /\ late \subseteq Ids
  /\ \A i \in Ids : given[i] > 0 => capture[i].state = "stored"

Init ==
  /\ tick = 0
  /\ capture = [i \in Ids |-> None]
  /\ cursor = Beginning
  /\ given = [i \in Ids |-> 0]
  /\ late = {}

\* Row order: created_at, then id.
Before(i, j) ==
  \/ capture[i].at < capture[j].at
  \/ capture[i].at = capture[j].at /\ i < j

\* (created_at, id) > (:cursorCreatedAt, :cursorId)
After(i, c) ==
  LET at == c.milli * PerMilli IN capture[i].at > at \/ (capture[i].at = at /\ i > c.id)

Tick == tick < MaxTick /\ tick' = tick + 1 /\ UNCHANGED <<capture, cursor, given, late>>

\* A registration begins to store a capture, under any id.
BeginCapture(i) ==
  /\ capture[i] = None
  /\ capture' = [capture EXCEPT ![i] = [at |-> tick, state |-> "open"]]
  /\ UNCHANGED <<tick, cursor, given, late>>

CommitCapture(i) ==
  /\ capture[i].state = "open"
  /\ capture' = [capture EXCEPT ![i].state = "stored"]
  /\ late' = IF \E j \in Ids : given[j] > 0 /\ Before(i, j) THEN late \cup {i} ELSE late
  /\ UNCHANGED <<tick, cursor, given>>

\* The rows selected: one more than the batch holds, to know if there are more.
Rows(limit) ==
  LET later == {i \in Ids : capture[i].state = "stored" /\ After(i, cursor)} IN
    {i \in later : Cardinality({j \in later : Before(j, i)}) <= limit}

PageRows(limit) ==
  {i \in Rows(limit) : Cardinality({j \in Rows(limit) : Before(j, i)}) < limit}

\* Faulty variant: the cursor is that of the last row selected.
LastRowSelected(limit) ==
  CHOOSE i \in Rows(limit) : \A j \in Rows(limit) \ {i} : Before(j, i)

LastRow(limit) ==
  CHOOSE i \in PageRows(limit) : \A j \in PageRows(limit) \ {i} : Before(j, i)

\* toIsoString
Milli(at) == at \div PerMilli

\* listCapturesForSync, and the consumer takes the batch and its cursor.
ListCapturesForSync(limit) ==
  /\ PageRows(limit) # {}
  /\ \A i \in PageRows(limit) : given[i] < MaxGiven
  /\ given' = [i \in Ids |-> IF i \in PageRows(limit) THEN given[i] + 1 ELSE given[i]]
  /\ cursor' = [milli |-> Milli(capture[LastRow(limit)].at), id |-> LastRow(limit)]
  /\ UNCHANGED <<tick, capture, late>>

Next ==
  \/ Tick
  \/ \E i \in Ids : BeginCapture(i) \/ CommitCapture(i)
  \/ \E limit \in 1..MaxLimit : ListCapturesForSync(limit)

Spec == Init /\ [][Next]_vars

-----------------------------------------------------------------------------
(* Properties *)

\* A stored capture is still to come or was given, whatever the ids, the size of
\* the batches and the truncation of the cursor, unless its transaction began
\* before that of one already given and ended after.
FeedSkipsNothing ==
  \A i \in Ids : capture[i].state = "stored" => After(i, cursor) \/ given[i] > 0 \/ i \in late

\* Calls that pass on the cursor bring only new captures.
OnlyNewCaptures == \A i \in Ids : given[i] <= 1

=============================================================================
