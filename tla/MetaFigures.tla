---------------------------- MODULE MetaFigures ----------------------------
(***************************************************************************)
(* The tables of ads and of their figures, as direct synchronisations with *)
(* Meta fill them: an execution asks for what each account has, one page   *)
(* of it, and upserts the rows one by one.  Others may do so at the same   *)
(* time, and a file of figures may be put back in between.                 *)
(*                                                                         *)
(* A row is <<account, ad, slice>>: an ad itself, or its figures of a      *)
(* platform or without a breakdown.  Campaigns and adsets are as ads are.  *)
(***************************************************************************)
EXTENDS Integers, FiniteSets

CONSTANTS
  Syncs,           \* executions under way at a time
  MaxAccount,      \* accounts selected, numbered in the order they are gone through
  Holds,           \* how many ads each account has
  PageSize, SmallPage, \* rows of a page, and of one of figures when that was too much
  MaxVersion,      \* bound: versions of what Meta says
  MaxExecutions,   \* bound: executions
  MaxFaults        \* bound: requests and saves that fail, processes that die

VARIABLES
  truth,           \* the version of what Meta says
  figure,          \* the version stored in each row, 0 where there is none
  sync,            \* the executions, with what they have in hand
  together,        \* the accounts are of one connection
  executions, faults,
  file,            \* the rows of a file of figures, as they were exported
  overlapped       \* rows that two had in hand, or that were imported

vars == <<truth, figure, sync, together, executions, faults, file, overlapped>>

AccountNumbers == 1..MaxAccount
AdNumbers == UNION {1..Holds[a] : a \in AccountNumbers}
Slices == {"ad", "platform", "total"}
Account(k) == k[1]
Slice(k) == k[3]
Rows == {k \in AccountNumbers \X AdNumbers \X Slices : k[2] <= Holds[Account(k)]}
Before(j, k) ==
  Account(j) < Account(k) \/ (Account(j) = Account(k) /\ j[2] < k[2])
IsFirst(k, S) == k \in S /\ \A j \in S : ~Before(j, k)
RowsOf(a, slice) == {k \in Rows : Account(k) = a /\ Slice(k) = slice}
Versions == 0..MaxVersion
NoRows == [k \in Rows |-> 0]
NoSync == [at |-> "idle", slice |-> "ad", targets |-> {}, ask |-> {}, hand |-> {}, got |-> NoRows,
           short |-> {}, records |-> 0]

TypeOK ==
  /\ truth \in 1..MaxVersion /\ figure \in [Rows -> Versions]
  /\ sync \in [Syncs -> [at : {"idle", "running", "completed", "failed"}, slice : Slices,
                         targets : SUBSET AccountNumbers, ask : SUBSET AccountNumbers, hand : SUBSET Rows,
                         got : [Rows -> Versions], short : SUBSET AccountNumbers, records : 0..Cardinality(Rows)]]
  /\ together \in BOOLEAN /\ executions \in 0..MaxExecutions /\ faults \in 0..MaxFaults
  /\ file \in [Rows -> Versions] /\ overlapped \subseteq Rows
  \* nothing is stored or in hand that Meta has not said
  /\ \A k \in Rows, r \in Syncs :
       figure[k] <= truth /\ sync[r].got[k] <= truth /\ file[k] <= truth

Init ==
  /\ truth = 1 /\ figure = NoRows
  /\ sync = [r \in Syncs |-> NoSync]
  /\ together \in BOOLEAN
  /\ executions = 0 /\ faults = 0
  /\ file = NoRows /\ overlapped = {}

-----------------------------------------------------------------------------
In(r, at) == sync[r].at = at
Fault == faults < MaxFaults /\ faults' = faults + 1
InHand == UNION {sync[r].hand : r \in Syncs}

\* Meta's figures go on.
Change ==
  /\ truth < MaxVersion /\ truth' = truth + 1
  /\ UNCHANGED <<figure, sync, together, executions, faults, file, overlapped>>

\* startExecution, and resolveTargets: the accounts that are selected; none is an
\* error.
Start(r, slice, accounts) ==
  /\ ~In(r, "running")
  /\ executions < MaxExecutions /\ executions' = executions + 1
  /\ sync' = [sync EXCEPT ![r] = [NoSync EXCEPT !.slice = slice, !.targets = accounts,
       !.ask = accounts,
       !.at = IF accounts = {} THEN "failed" ELSE "running"]]
  /\ UNCHANGED <<truth, figure, together, faults, file, overlapped>>

\* A page has so many rows of an account at most; no second one is asked for.
FirstRows(a, slice, n) == {k \in RowsOf(a, slice) : k[2] <= n}

\* What Meta answers for an account: a page, of figures or of the list of ads; a smaller
\* one of figures, after it refused the larger as too much; or nothing, for an account
\* it refuses.
Answers(a, slice) ==
  {FirstRows(a, slice, PageSize), {}} \cup
  IF slice = "ad" THEN {} ELSE {FirstRows(a, slice, SmallPage)}

\* fetchInsightsBatch, fetchAdsBatch: an account is asked for after another, and
\* those of another connection when the rows of the first are stored.
Fetch(r, a) ==
  LET t == sync[r] IN
  /\ In(r, "running") /\ a \in t.ask /\ \A b \in t.ask : a <= b
  /\ together \/ t.hand = {}
  /\ \E rows \in Answers(a, t.slice) :
       /\ sync' = [sync EXCEPT ![r] =
            [t EXCEPT !.ask = t.ask \ {a}, !.hand = t.hand \cup rows,
                      !.got = [k \in Rows |-> IF k \in rows THEN truth ELSE t.got[k]],
                      !.short = IF rows = RowsOf(a, t.slice) THEN t.short ELSE t.short \cup {a}]]
       /\ overlapped' = overlapped \cup (rows \cap InHand)
  /\ UNCHANGED <<truth, figure, together, executions, faults, file>>

\* Faulty variant: the platform is not part of the key of the upsert.
KeyOfAd(k) == <<Account(k), k[2], "total">>

\* The upsert's key: the account, the ad, and the platform or "total".
Key(k) == k

\* saveAds, saveInsights: the rows are upserted one by one.
Save(r, k) ==
  LET t == sync[r] IN
  /\ In(r, "running") /\ IsFirst(k, t.hand)
  /\ together => t.ask = {}
  /\ figure' = [figure EXCEPT ![Key(k)] = t.got[k]]
  /\ sync' = [sync EXCEPT ![r].hand = @ \ {k}, ![r].records = @ + 1]
  /\ UNCHANGED <<truth, together, executions, faults, file, overlapped>>

Finish(r) ==
  /\ In(r, "running") /\ sync[r].ask = {} /\ sync[r].hand = {}
  /\ sync' = [sync EXCEPT ![r].at = "completed"]
  /\ UNCHANGED <<truth, figure, together, executions, faults, file, overlapped>>

\* A request or an upsert fails, and so does the execution, with no records; or
\* its process dies, and it is running for ever.
Fail(r) ==
  /\ In(r, "running") /\ Fault
  /\ sync' = [sync EXCEPT ![r] = [NoSync EXCEPT !.at = "failed", !.slice = sync[r].slice]]
  /\ UNCHANGED <<truth, figure, together, executions, file, overlapped>>

\* exportPerformanceCsv, of an account
Export(a) ==
  /\ file = NoRows
  /\ file' = [k \in Rows |-> IF Account(k) = a /\ Slice(k) # "ad" THEN figure[k] ELSE 0]
  /\ file' # NoRows
  /\ UNCHANGED <<truth, figure, sync, together, executions, faults, overlapped>>

\* importPerformanceCsv upserts its rows one by one, whatever has been stored since.
ImportRow(k) ==
  /\ IsFirst(k, {j \in Rows : file[j] # 0})
  /\ file' = [file EXCEPT ![k] = 0]
  /\ figure' = [figure EXCEPT ![Key(k)] = file[k]]
  /\ overlapped' = overlapped \cup {k}
  /\ UNCHANGED <<truth, sync, together, executions, faults>>

Next ==
  \/ Change
  \/ \E r \in Syncs :
       \/ \E slice \in Slices, accounts \in {{}, AccountNumbers} : Start(r, slice, accounts)
       \/ \E a \in AccountNumbers : Fetch(r, a)
       \/ \E k \in Rows : Save(r, k)
       \/ Finish(r) \/ Fail(r)
  \/ \E a \in AccountNumbers : Export(a)
  \/ \E k \in Rows : ImportRow(k)

Spec == Init /\ [][Next]_vars

-----------------------------------------------------------------------------
(* Properties *)

Fetched(t) == {k \in Rows : t.got[k] # 0}

\* An execution that completed counts the rows it got, which are stored at least
\* as new as it got them unless another had them in hand or they were imported;
\* and it got all rows of its accounts but those that Meta cut short.
ShownNewest(t) ==
  /\ t.records = Cardinality(Fetched(t))
  /\ \A k \in Rows : figure[k] >= t.got[k] \/ k \in overlapped
  /\ \A a \in t.targets \ t.short, k \in Rows :
       k \in RowsOf(a, t.slice) => t.got[k] # 0

FiguresShowNewestUnlessOverlapped ==
  \A r \in Syncs : In(r, "completed") => ShownNewest(sync[r])

=============================================================================
