---------------------------- MODULE SyncSchedules ----------------------------
(***************************************************************************)
(* Schedules of synchronisations with Hotmart and with Meta: each is to run*)
(* once a day at its minute.  Schedulers look for those that are due once a*)
(* minute, a user can ask for one at any time.  A run is dispatched and not*)
(* waited for; only then its time is saved, which is what keeps the next   *)
(* look from running it again.                                             *)
(*                                                                         *)
(* A save loads the row and writes it in one step; a row that is gone is   *)
(* inserted again.                                                         *)
(***************************************************************************)
EXTENDS Integers, FiniteSets

CONSTANTS
  Schedules,       \* ids, each used once
  Runners,         \* schedulers of the processes, and requests
  MaxMinute,       \* bound: minutes of a day
  MaxDay,          \* bound: days
  MaxRequests,     \* bound: requests
  MaxFaults,       \* bound: crashes and failed saves
  Absent           \* no such row

VARIABLES
  schedule,        \* the table
  new,             \* ids not used yet
  day, minute,     \* the clock
  runner,          \* what each runner does
  inTurn,          \* Hotmart's scheduler runs one after the other until one fails
  ran,             \* days on which a schedule was dispatched
  again,           \* schedules a scheduler dispatched on such a day
  held,            \* those two runners had in hand at a time, or one did not mark
  requests, faults

vars == <<schedule, new, day, minute, runner, inTurn, ran, again, held, requests, faults>>
clock == <<day, minute>>

Schedule == [minute : 0..MaxMinute, active : BOOLEAN, last : 0..MaxDay]
Idle == [at |-> "idle", minute |-> 0, todo |-> {}, id |-> Absent, row |-> Absent, day |-> 0,
         asked |-> FALSE]

TypeOK ==
  /\ schedule \in [Schedules -> Schedule \cup {Absent}]
  /\ new \subseteq Schedules
  /\ day \in 1..MaxDay /\ minute \in 0..MaxMinute
  /\ runner \in [Runners -> [at : {"idle", "tick", "runs", "save"}, minute : 0..MaxMinute,
       todo : SUBSET Schedules, id : Schedules \cup {Absent}, row : Schedule \cup {Absent},
       day : 0..MaxDay, asked : BOOLEAN]]
  /\ inTurn \in BOOLEAN
  /\ ran \in [Schedules -> SUBSET (1..MaxDay)]
  /\ again \subseteq Schedules /\ held \subseteq Schedules
  /\ requests \in 0..MaxRequests /\ faults \in 0..MaxFaults
  \* a run is not marked before it is dispatched
  /\ \A s \in Schedules : schedule[s] # Absent /\ schedule[s].last # 0 =>
       schedule[s].last \in ran[s]

Init ==
  /\ schedule = [s \in Schedules |-> Absent] /\ new = Schedules
  /\ day = 1 /\ minute = 0
  /\ runner = [r \in Runners |-> Idle]
  /\ inTurn \in BOOLEAN
  /\ ran = [s \in Schedules |-> {}] /\ again = {} /\ held = {}
  /\ requests = 0 /\ faults = 0

-----------------------------------------------------------------------------
Exists(row) == row # Absent
Asked == requests < MaxRequests /\ requests' = requests + 1
Fault == faults < MaxFaults /\ faults' = faults + 1
Do(r, t) == runner' = [runner EXCEPT ![r] = t]

InHand(r) == runner[r].todo \cup ({runner[r].id} \ {Absent})

\* r takes the schedules S in hand.
Hold(r, S) == held' = held \cup (S \cap UNION {InHand(q) : q \in Runners \ {r}})

Create(s, m, active) ==
  /\ Asked
  /\ s \in new /\ new' = new \ {s}
  /\ schedule' = [schedule EXCEPT ![s] = [minute |-> m, active |-> active, last |-> 0]]
  /\ UNCHANGED <<clock, runner, inTurn, ran, again, held, faults>>

Remove(s) ==
  /\ Asked
  /\ Exists(schedule[s])
  /\ schedule' = [schedule EXCEPT ![s] = Absent]
  /\ UNCHANGED <<new, clock, runner, inTurn, ran, again, held, faults>>

\* runNow, asked for
RunNow(r, s) ==
  /\ runner[r] = Idle /\ Asked
  /\ Do(r, [Idle EXCEPT !.at = "runs", !.todo = {s}, !.asked = TRUE])
  /\ Hold(r, {s})
  /\ UNCHANGED <<schedule, new, clock, inTurn, ran, again, faults>>

\* A scheduler's minute.  Hotmart's default run may come before it looks.
Tick(r) ==
  /\ runner[r] = Idle
  /\ Do(r, [Idle EXCEPT !.at = "tick", !.minute = minute])
  /\ UNCHANGED <<schedule, new, clock, inTurn, ran, again, held, requests, faults>>

\* Faulty variant: a run of today does not count.
DueSinceToday(row, m) == row.active /\ row.minute = m /\ row.last <= day

Due(row, m) == row.active /\ row.minute = m /\ row.last < day

\* getActiveSchedulesForTime
Look(r) ==
  /\ runner[r].at = "tick"
  /\ LET due == {s \in Schedules : Exists(schedule[s]) /\ Due(schedule[s], runner[r].minute)} IN
       /\ Do(r, IF due = {} THEN Idle ELSE [Idle EXCEPT !.at = "runs", !.todo = due])
       /\ Hold(r, due)
  /\ UNCHANGED <<schedule, new, clock, inTurn, ran, again, requests, faults>>

\* After s, the others.
Rest(r, s) ==
  IF runner[r].todo \ {s} = {} THEN Idle
  ELSE [Idle EXCEPT !.at = "runs", !.todo = runner[r].todo \ {s}]

AfterFailure(r, s) == IF inTurn THEN Idle ELSE Rest(r, s)

\* runNow: the schedule is read and dispatched, in one turn.
Dispatch(r, s) ==
  /\ runner[r].at = "runs" /\ s \in runner[r].todo
  /\ IF Exists(schedule[s])
     THEN /\ Do(r, [runner[r] EXCEPT !.at = "save", !.id = s, !.row = schedule[s], !.day = day])
          /\ ran' = [ran EXCEPT ![s] = @ \cup {day}]
          /\ again' = IF day \in ran[s] /\ ~runner[r].asked THEN again \cup {s} ELSE again
     ELSE Do(r, AfterFailure(r, s)) /\ UNCHANGED <<ran, again>>
  /\ UNCHANGED <<schedule, new, clock, inTurn, held, requests, faults>>

SaveRun(r) ==
  /\ runner[r].at = "save"
  /\ LET t == runner[r] IN
       /\ schedule' = [schedule EXCEPT ![t.id] = [t.row EXCEPT !.last = t.day]]
       /\ Do(r, Rest(r, t.id))
  /\ UNCHANGED <<new, clock, inTurn, ran, again, held, requests, faults>>

\* The save fails: the run is not marked.
SaveFails(r) ==
  /\ runner[r].at = "save"
  /\ Fault
  /\ Do(r, AfterFailure(r, runner[r].id))
  /\ held' = held \cup {runner[r].id}
  /\ UNCHANGED <<schedule, new, clock, inTurn, ran, again, requests>>

RunnerDies(r) ==
  /\ runner[r] # Idle
  /\ Fault
  /\ Do(r, Idle)
  /\ held' = IF runner[r].at = "save" THEN held \cup {runner[r].id} ELSE held
  /\ UNCHANGED <<schedule, new, clock, inTurn, ran, again, requests>>

Advance ==
  /\ \/ minute < MaxMinute /\ minute' = minute + 1 /\ UNCHANGED day
     \/ minute = MaxMinute /\ minute' = 0 /\ day < MaxDay /\ day' = day + 1
  /\ UNCHANGED <<schedule, new, runner, inTurn, ran, again, held, requests, faults>>

Next ==
  \/ \E s \in Schedules, m \in 0..MaxMinute, on \in BOOLEAN : Create(s, m, on)
  \/ \E s \in Schedules : Remove(s)
  \/ \E r \in Runners :
       \/ Tick(r) \/ Look(r) \/ SaveRun(r) \/ SaveFails(r) \/ RunnerDies(r)
       \/ \E s \in Schedules : RunNow(r, s) \/ Dispatch(r, s)
  \/ Advance

-----------------------------------------------------------------------------
(* Properties *)

\* A scheduler does not dispatch a schedule that was dispatched that day, be it
\* by a user, unless two runners had it in hand at a time, or the first was cut off
\* before it marked the run.
OncePerDayUnlessHeld == again \subseteq held

=============================================================================
