---------------------------- MODULE CopilotAlerts ----------------------------
(***************************************************************************)
(* The alerts of the copilot.  A scan looks at every signal of every launch*)
(* (an ad, a rule and a day), asks whether it is bad and was not alerted,  *)
(* has a language model explain it and inserts the alert under a unique    *)
(* index.  Every process scans on an interval and waits for no earlier     *)
(* scan, its own neither.                                                  *)
(***************************************************************************)
EXTENDS Integers, FiniteSets

CONSTANTS
  Signals,         \* what the unique index tells apart
  Scans,           \* scans in progress at a time
  MaxScans,        \* bound: scans
  MaxChanges,      \* bound: statuses users set
  MaxFaults,       \* bound: failures of the model and of statements, restarts
  Absent           \* no such row

VARIABLES
  alert,           \* the table of alerts
  scan,            \* what each scan does
  scans, changes, faults,
  calls,           \* explanations asked of the model for each signal
  handled,         \* statuses as users set them
  doubled          \* signals two scans had in hand at a time, or one did not store

vars == <<alert, scan, scans, changes, faults, calls, handled, doubled>>

Statuses == {"open", "acknowledged", "resolved", "dismissed_false_positive"}
Alert == [status : Statuses, explained : BOOLEAN]
Idle == [at |-> "idle", todo |-> {}, signal |-> Absent, explained |-> FALSE]

TypeOK ==
  /\ alert \in [Signals -> Alert \cup {Absent}]
  /\ scan \in [Scans -> [at : {"idle", "next", "new", "store"}, todo : SUBSET Signals,
                         signal : Signals \cup {Absent}, explained : BOOLEAN]]
  /\ scans \in 0..MaxScans /\ changes \in 0..MaxChanges /\ faults \in 0..MaxFaults
  /\ calls \in [Signals -> 0..MaxScans]
  /\ handled \in [Signals -> Statuses]
  /\ doubled \subseteq Signals
  \* an alert was explained if the model was asked
  /\ \A s \in Signals : alert[s] # Absent => calls[s] > 0

Init ==
  /\ alert = [s \in Signals |-> Absent]
  /\ scan = [n \in Scans |-> Idle]
  /\ scans = 0 /\ changes = 0 /\ faults = 0
  /\ calls = [s \in Signals |-> 0]
  /\ handled = [s \in Signals |-> "open"]
  /\ doubled = {}

-----------------------------------------------------------------------------
Exists(row) == row # Absent
Fault == faults < MaxFaults /\ faults' = faults + 1
Do(n, t) == scan' = [scan EXCEPT ![n] = t]

\* What the rules may find bad: figures and thresholds change from scan to scan,
\* and a rule may be off.
Findings == (SUBSET Signals) \ {{}}

\* scanAllLaunches, with the signals S that are bad
Begin(n, S) ==
  /\ scan[n] = Idle
  /\ scans < MaxScans /\ scans' = scans + 1
  /\ Do(n, [Idle EXCEPT !.at = "next", !.todo = S])
  /\ UNCHANGED <<alert, changes, faults, calls, handled, doubled>>

\* Faulty variant: only open alerts count.
AlreadyOpen(s) == Exists(alert[s]) /\ alert[s].status = "open"

\* exists
AlreadyAlerted(s) == Exists(alert[s])

Rest(n) == IF scan[n].todo = {} THEN Idle ELSE [Idle EXCEPT !.at = "next", !.todo = scan[n].todo]

\* raiseAlert, up to the call of the model
Look(n, s) ==
  /\ scan[n].at = "next" /\ s \in scan[n].todo
  /\ LET t == [scan[n] EXCEPT !.todo = @ \ {s}] IN
       Do(n, IF ~AlreadyAlerted(s) THEN [t EXCEPT !.at = "new", !.signal = s]
             ELSE IF t.todo = {} THEN Idle ELSE t)
  /\ doubled' = IF ~AlreadyAlerted(s) /\ \E m \in Scans \ {n} : scan[m].signal = s
                THEN doubled \cup {s} ELSE doubled
  /\ UNCHANGED <<alert, scans, changes, faults, calls, handled>>

\* explainRiskSignal; its failure is an alert without a narrative.
Explain(n, ok) ==
  /\ scan[n].at = "new"
  /\ IF ok THEN UNCHANGED faults ELSE Fault
  /\ calls' = [calls EXCEPT ![scan[n].signal] = @ + 1]
  /\ Do(n, [scan[n] EXCEPT !.at = "store", !.explained = ok])
  /\ UNCHANGED <<alert, scans, changes, handled, doubled>>

\* createIfNotExists: ON CONFLICT DO NOTHING
Store(n) ==
  /\ scan[n].at = "store"
  /\ LET t == scan[n] IN
       alert' = IF Exists(alert[t.signal]) THEN alert
                ELSE [alert EXCEPT ![t.signal] = [status |-> "open", explained |-> t.explained]]
  /\ Do(n, Rest(n))
  /\ UNCHANGED <<scans, changes, faults, calls, handled, doubled>>

\* A statement fails: the rest of the launch is not looked at, be it all that
\* is left.  Or the process restarts.
CutOff(n, left) ==
  /\ scan[n] # Idle /\ left \subseteq scan[n].todo
  /\ Fault
  /\ Do(n, IF left = {} THEN Idle ELSE [Idle EXCEPT !.at = "next", !.todo = left])
  /\ doubled' = doubled \cup ({scan[n].signal} \ {Absent})
  /\ UNCHANGED <<alert, scans, changes, calls, handled>>

UpdateStatus(s, status) ==
  /\ Exists(alert[s])
  /\ changes < MaxChanges /\ changes' = changes + 1
  /\ alert' = [alert EXCEPT ![s].status = status]
  /\ handled' = [handled EXCEPT ![s] = status]
  /\ UNCHANGED <<scan, scans, faults, calls, doubled>>

Next ==
  \/ \E n \in Scans :
       \/ \E S \in Findings : Begin(n, S)
       \/ \E S \in SUBSET Signals : CutOff(n, S)
       \/ \E s \in Signals : Look(n, s)
       \/ \E ok \in BOOLEAN : Explain(n, ok)
       \/ Store(n)
  \/ \E s \in Signals, status \in Statuses : UpdateStatus(s, status)

-----------------------------------------------------------------------------
(* Properties *)

\* The model explains a signal once, however often and by however many
\* processes it is seen, unless two scans had it in hand at a time or one was
\* cut off before it stored the alert; and no scan opens again an alert that a
\* user closed.
ExplainedOnceUnlessDoubled ==
  \A s \in Signals :
    /\ s \notin doubled => calls[s] <= 1
    /\ Exists(alert[s]) => alert[s].status = handled[s]

=============================================================================
