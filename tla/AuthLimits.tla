----------------------------- MODULE AuthLimits -----------------------------
(***************************************************************************)
(* The limit on logins, renewals and forgotten passwords, for one action,  *)
(* address and subject.  A check counts in a row of the database, shared by*)
(* all processes, or, when the database fails, in the memory of the process*)
(* that makes it; each of them begins to count again when its window ends. *)
(*                                                                         *)
(* The end of a window is reckoned when a check begins, and compared with  *)
(* the time at which its statement runs.                                   *)
(***************************************************************************)
EXTENDS Integers, Sequences

CONSTANTS
  Processes,
  Checkers,        \* checks in progress at a time
  Database,        \* the counter that is not a process
  Limit, Ttl,      \* limit, and ttlMs in ticks
  MaxTime,         \* bound: time
  MaxChecks,       \* bound: checks
  MaxFaults,       \* bound: statements that fail and restarts
  Absent           \* no check

VARIABLES
  time,
  bucket,          \* of each counter: the row, and the Map of each process
  checking,        \* the check each checker makes
  checks, faults,
  passed,          \* when each counter let checks through, one after the other
  denied,          \* how long before it let one not it had let a limit of them
  hurried,         \* a window of the database was over before Ttl had passed
  astray           \* counters that counted a check they did not answer

vars == <<time, bucket, checking, checks, faults, passed, denied, hurried, astray>>

Counters == Processes \cup {Database}
Instants == 0..MaxTime
Bucket == [count : 0..MaxChecks, resetAt : 0 .. MaxTime + Ttl]
Check == [process : Processes, began : Instants]

TypeOK ==
  /\ time \in Instants
  /\ bucket \in [Counters -> Bucket]
  /\ checking \in [Checkers -> Check \cup {Absent}]
  /\ checks \in 0..MaxChecks /\ faults \in 0..MaxFaults
  /\ passed \in [Counters -> Seq(Instants)]
  /\ denied \in [Counters -> SUBSET (0 .. MaxTime + Ttl)]
  /\ hurried \in BOOLEAN /\ astray \subseteq Counters

Empty == [count |-> 0, resetAt |-> 0]

Init ==
  /\ time = 0
  /\ bucket = [k \in Counters |-> Empty]
  /\ checking = [a \in Checkers |-> Absent]
  /\ checks = 0 /\ faults = 0
  /\ passed = [k \in Counters |-> <<>>]
  /\ denied = [k \in Counters |-> {}]
  /\ hurried = FALSE /\ astray = {}

-----------------------------------------------------------------------------
Fault == faults < MaxFaults /\ faults' = faults + 1

\* A window that has ended, as one that never began, gives way to a new one.
Counted(b, resetAt) ==
  IF b.resetAt <= time THEN [count |-> 1, resetAt |-> resetAt] ELSE [b EXCEPT !.count = @ + 1]

\* Faulty variant: the check that reaches the limit is denied.
WithinLess(b) == b.count < Limit

WithinLimit(b) == b.count <= Limit

\* How long ago k had let a limit through; more than Ttl if it has not.
SinceLimit(k) ==
  LET n == Len(passed[k]) IN IF n < Limit THEN time + Ttl ELSE time - passed[k][n - Limit + 1]

\* The counter k answers.
Answer(k) ==
  IF WithinLimit(bucket'[k]) THEN passed' = [passed EXCEPT ![k] = Append(@, time)] /\ UNCHANGED denied
  ELSE /\ denied' = [denied EXCEPT ![k] = @ \cup {SinceLimit(k)}]
       /\ UNCHANGED passed

Done(a) == checking' = [checking EXCEPT ![a] = Absent]

\* check, checkPostgres: the time is taken ...
Begin(a, p) ==
  /\ checking[a] = Absent
  /\ checks < MaxChecks /\ checks' = checks + 1
  /\ checking' = [checking EXCEPT ![a] = [process |-> p, began |-> time]]
  /\ UNCHANGED <<time, bucket, faults, passed, denied, hurried, astray>>

InDatabase(a) ==
  bucket' = [bucket EXCEPT ![Database] = Counted(@, checking[a].began + Ttl)]

Hurried(a) ==
  hurried \/ (bucket[Database].resetAt <= time /\ checking[a].began < time)

\* ... and one statement counts and answers,
CheckPostgres(a) ==
  /\ checking[a] # Absent
  /\ InDatabase(a)
  /\ hurried' = Hurried(a)
  /\ Answer(Database) /\ Done(a)
  /\ UNCHANGED <<time, checks, faults, astray>>

\* or its answer is lost, or it fails, and the process counts for itself.
CheckMemory(a) ==
  /\ checking[a] # Absent
  /\ Fault
  /\ LET p == checking[a].process
         own == Counted(bucket[p], time + Ttl) IN
       /\ \/ /\ bucket' = [bucket EXCEPT ![p] = own]
             /\ UNCHANGED <<hurried, astray>>
          \/ /\ bucket' = [bucket EXCEPT ![p] = own,
                             ![Database] = Counted(@, checking[a].began + Ttl)]
             /\ hurried' = Hurried(a)
             /\ astray' = astray \cup {Database}
       /\ Answer(p) /\ Done(a)
  /\ UNCHANGED <<time, checks>>

\* cleanupPostgres; how long after the end of the window makes no difference.
CleanUp ==
  /\ bucket[Database].resetAt < time
  /\ bucket' = [bucket EXCEPT ![Database] = Empty]
  /\ UNCHANGED <<time, checking, checks, faults, passed, denied, hurried, astray>>

\* A process starts again, with an empty Map; what it had sent may have counted.
Restart(p) ==
  /\ Fault
  /\ \/ /\ bucket' = [bucket EXCEPT ![p] = Empty]
        /\ astray' = astray \cup {p}
        /\ UNCHANGED hurried
     \/ \E a \in Checkers :
          /\ checking[a] # Absent /\ checking[a].process = p
          /\ bucket' = [bucket EXCEPT ![p] = Empty,
                          ![Database] = Counted(@, checking[a].began + Ttl)]
          /\ astray' = astray \cup {p, Database}
          /\ hurried' = Hurried(a)
  /\ checking' = [a \in Checkers |->
       IF checking[a] # Absent /\ checking[a].process = p THEN Absent ELSE checking[a]]
  /\ UNCHANGED <<time, checks, passed, denied>>

Tick ==
  /\ time < MaxTime /\ time' = time + 1
  /\ UNCHANGED <<bucket, checking, checks, faults, passed, denied, hurried, astray>>

Next ==
  \/ \E a \in Checkers :
       (\E p \in Processes : Begin(a, p)) \/ CheckPostgres(a) \/ CheckMemory(a)
  \/ \E p \in Processes : Restart(p)
  \/ CleanUp \/ Tick

Spec == Init /\ [][Next]_vars

-----------------------------------------------------------------------------
(* Properties *)

\* What a counter does not know of: a process forgets its own when it starts again, a
\* window of the database may end sooner when the check that opened it had to wait, and
\* the count of an answer that was lost denies another.
Forgetful(k) == IF k = Database THEN hurried ELSE k \in astray

\* In any Ttl ticks a counter lets no more through than two windows do: the next comes
\* Ttl after the first.  And it denies a check only when it has let the limit through
\* in the Ttl before.
LimitHoldsUnlessAstray ==
  \A k \in Counters :
    /\ ~Forgetful(k) => \A i \in 1 .. Len(passed[k]) - 2 * Limit :
                          passed[k][i + 2 * Limit] - passed[k][i] >= Ttl
    /\ k \notin astray => \A ago \in denied[k] : ago < Ttl

=============================================================================
