--------------------------- MODULE FormManagement ---------------------------
(***************************************************************************)
(* The forms, their versions and the score of each version, edited by      *)
(* administrators while the lead-score consumer computes scores with them. *)
(*                                                                         *)
(* A version belongs to a form and a score to a version, and both follow   *)
(* one rule: of the children of an owner at most one is active, which no   *)
(* constraint of the database enforces.  They are rows of one table here:  *)
(* a row whose owner is a form is a version, one whose owner is a row is a *)
(* score.  The points and the tier rules of a score are batches, replaced  *)
(* as a whole; Ranges and Tiers give the rows of a batch.                  *)
(*                                                                         *)
(* A transaction is two steps under READ COMMITTED: its first statement    *)
(* that changes siblings sees the rows committed by then (seen), and its   *)
(* last one commits.                                                       *)
(***************************************************************************)
EXTENDS Integers, FiniteSets

CONSTANTS
  Admins,          \* requests of administrators in progress at a time
  Scorers,         \* transactions of the lead-score consumer
  Forms,           \* ids of forms
  MaxRows,         \* bound: ids of versions and scores
  MaxRequests,     \* bound: requests of administrators and scores
  Values,          \* numeric answers of a lead
  Options, Ranges, Tiers, \* what each batch of a part holds
  NoRow, NoTx, None

Ids == 1..MaxRows
Parts == {"option", "range", "tier"}

VARIABLES
  forms,           \* forms that exist
  usedForms,       \* ids of forms given out
  row,             \* versions and scores: owner and active flag
  rows,            \* ids of rows given out
  linked,          \* versions with a question
  answered,        \* versions with responses
  batches,         \* batches of each part of a score
  tx,              \* the transaction of each administrator
  requests,        \* requests and scores so far
  crowded,         \* owners two transactions wrote to at the same time
  scoring          \* the score each consumer computes

vars == <<forms, usedForms, row, rows, linked, answered, batches, tx, requests,
          crowded, scoring>>

OwnerIds == Forms \cup Ids
Row == [owner : OwnerIds, active : BOOLEAN]
Batches == [option |-> DOMAIN Options, range |-> DOMAIN Ranges, tier |-> DOMAIN Tiers]

CreateTx  == [op : {"create"}, owner : OwnerIds, flag : BOOLEAN, seen : SUBSET Ids]
EditTx    == [op : {"read", "edit"}, id : Ids, owner : OwnerIds, flag : BOOLEAN,
              asked : BOOLEAN, seen : SUBSET Ids]
ReplaceTx == [op : {"replace"}, owner : Ids, part : Parts, new : SUBSET (DOMAIN Options
                \cup DOMAIN Ranges \cup DOMAIN Tiers), seen : SUBSET (DOMAIN Options
                \cup DOMAIN Ranges \cup DOMAIN Tiers)]
CloneTx   == [op : {"clone"}, owner : OwnerIds, source : Ids, fresh : BOOLEAN,
              flag : BOOLEAN, seen : SUBSET Ids]
Scoring   == [at : {"idle", "pick", "option", "range", "tier", "save", "done"},
              version : Ids \cup {0}, score : Ids \cup {0}, value : Values,
              total : Int, tier : Int \cup {None}, steady : BOOLEAN]

TypeOK ==
  /\ forms \subseteq usedForms /\ usedForms \subseteq Forms
  /\ row \in [Ids -> Row \cup {NoRow}]
  /\ rows \in 0..MaxRows
  /\ linked \subseteq Ids /\ answered \subseteq Ids
  /\ \A p \in Parts : batches[p] \in [Ids -> SUBSET Batches[p]]
  /\ \A a \in Admins :
        tx[a] = NoTx \/ tx[a] \in CreateTx \cup EditTx \cup ReplaceTx \cup CloneTx
  /\ requests \in 0..MaxRequests
  /\ crowded \subseteq OwnerIds
  /\ \A w \in Scorers : scoring[w] \in Scoring
  \* no row outlives its owner, and only rows have contents
  /\ \A r \in Ids : row[r] # NoRow =>
        row[r].owner \in forms \cup {o \in Ids : row[o] # NoRow}
  /\ \A r \in Ids : row[r] = NoRow =>
        r \notin linked \cup answered /\ \A p \in Parts : batches[p][r] = {}

-----------------------------------------------------------------------------
(* Helpers *)

Exists(r) == row[r] # NoRow
Versions == {r \in Ids : Exists(r) /\ row[r].owner \in Forms}
Scores == {r \in Ids : Exists(r) /\ row[r].owner \in Ids}
Children(o) == {r \in Ids : Exists(r) /\ row[r].owner = o}
Active(o) == {r \in Children(o) : row[r].active}
OwnerExists(o) == IF o \in Forms THEN o \in forms ELSE Exists(o)

\* UPDATE ... SET active = false over the siblings a statement saw.
Deactivated(seen) ==
  [r \in Ids |-> IF r \in seen /\ Exists(r) THEN [row[r] EXCEPT !.active = FALSE]
                                           ELSE row[r]]

\* A computation whose card keeps its batches goes on undisturbed.
Watched(new) ==
  scoring' = [w \in Scorers |-> [scoring[w] EXCEPT !.steady =
                @ /\ (scoring[w].at \notin {"option", "range", "tier", "save"} \/
                      \A p \in Parts : new[p][scoring[w].score] = batches[p][scoring[w].score])]]

Unwatched == UNCHANGED <<batches, scoring>>

\* Faulty variant: the children of a deleted row stay.
DeleteKeepingChildren(gone) ==
  /\ row' = [r \in Ids |-> IF r \in gone THEN NoRow ELSE row[r]]
  /\ linked' = linked \ gone
  /\ answered' = answered \ gone
  /\ UNCHANGED <<batches, scoring>>

\* ON DELETE CASCADE from the rows gone: their children and all contents.
Delete(gone) ==
  LET all == gone \cup {r \in Ids : Exists(r) /\ row[r].owner \in gone}
      left == [p \in Parts |-> [r \in Ids |-> IF r \in all THEN {} ELSE batches[p][r]]]
  IN /\ row' = [r \in Ids |-> IF r \in all THEN NoRow ELSE row[r]]
     /\ linked' = linked \ all
     /\ answered' = answered \ all
     /\ batches' = left
     /\ Watched(left)

\* Another transaction has its statement on o behind it and its commit ahead.
OpenOn(a, o) ==
  \E b \in Admins \ {a} : tx[b] # NoTx /\ tx[b].op # "read" /\ tx[b].owner = o

Crowd(a, S) == crowded' = crowded \cup {o \in S : OpenOn(a, o)}

Asked(a) == requests < MaxRequests /\ requests' = requests + 1 /\ tx[a] = NoTx

In(a, op) == tx[a] # NoTx /\ tx[a].op = op
Start(a, t) == tx' = [tx EXCEPT ![a] = t]
End(a) == tx' = [tx EXCEPT ![a] = NoTx]

-----------------------------------------------------------------------------
(* Forms *)

\* FormService.create
CreateForm(a, f) ==
  /\ f \notin usedForms
  /\ forms' = forms \cup {f} /\ usedForms' = usedForms \cup {f}
  /\ UNCHANGED <<row, rows, linked, answered, tx, crowded>> /\ Unwatched

\* createFull: a form, a version with questions, a score with points, at once.
\* The points of score s as createFull saves them.
WithPoints(s, o, r) == [batches EXCEPT !["option"][s] = {o}, !["range"][s] = {r}]

CreateFull(a, f, versionFlag, scoreFlag, o, r) ==
  /\ f \notin usedForms
  /\ rows + 2 <= MaxRows
  /\ forms' = forms \cup {f} /\ usedForms' = usedForms \cup {f}
  /\ row' = [row EXCEPT ![rows + 1] = [owner |-> f, active |-> versionFlag],
                        ![rows + 2] = [owner |-> rows + 1, active |-> scoreFlag]]
  /\ rows' = rows + 2
  /\ linked' = linked \cup {rows + 1}
  /\ batches' = WithPoints(rows + 2, o, r)
  /\ UNCHANGED <<answered, tx, crowded, scoring>>

\* FormService.remove
RemoveForm(a, f) ==
  /\ f \in forms
  /\ forms' = forms \ {f}
  /\ Delete(Children(f))
  /\ UNCHANGED <<usedForms, rows, tx, crowded>>

-----------------------------------------------------------------------------
(* Versions and scores *)

\* Faulty variant: an inactive child deactivates the others as well.
CreateBeginAlways(a, o, flag) ==
  /\ Start(a, [op |-> "create", owner |-> o, flag |-> flag, seen |-> Children(o)])
  /\ UNCHANGED <<forms, usedForms, row, rows, linked, answered, crowded>> /\ Unwatched

\* The owner is read and, for an active child, its siblings are deactivated.
CreateBegin(a, o, flag) ==
  /\ Start(a, [op |-> "create", owner |-> o, flag |-> flag,
               seen |-> IF flag THEN Children(o) ELSE {}])
  /\ UNCHANGED <<forms, usedForms, row, rows, linked, answered, crowded>> /\ Unwatched

CreateVersion(a, f, flag) == f \in forms /\ CreateBegin(a, f, flag)

CreateScore(a, v, flag) == v \in Versions /\ CreateBegin(a, v, flag)

\* The row is inserted, unless its owner is gone: then all is rolled back.
CreateCommit(a) ==
  /\ In(a, "create")
  /\ rows < MaxRows
  /\ LET t == tx[a] IN
       IF OwnerExists(t.owner)
       THEN /\ row' = [Deactivated(t.seen) EXCEPT
                         ![rows + 1] = [owner |-> t.owner, active |-> t.flag]]
            /\ rows' = rows + 1
            /\ Crowd(a, IF t.flag THEN {t.owner} ELSE {})
       ELSE UNCHANGED <<row, rows, crowded>>
  /\ End(a)
  /\ UNCHANGED <<forms, usedForms, linked, answered, requests>> /\ Unwatched

\* The row is read before the transaction begins; the active flag it will be
\* saved with is the one asked for, or else the one it had.
EditRead(a, r, asked, flag) ==
  /\ Start(a, [op |-> "read", id |-> r, owner |-> row[r].owner, flag |-> flag,
               asked |-> asked, seen |-> {}])
  /\ UNCHANGED <<forms, usedForms, row, rows, linked, answered, crowded>> /\ Unwatched

\* dto.active is false, or left out (true: see Activate).
UpdateVersion(a, v, off) ==
  v \in Versions /\ EditRead(a, v, off, ~off /\ row[v].active)

UpdateScore(a, s, off) ==
  s \in Scores /\ EditRead(a, s, off, ~off /\ row[s].active)

ActivateVersion(a, v) == v \in Versions /\ EditRead(a, v, TRUE, TRUE)

ActivateScore(a, s) == s \in Scores /\ EditRead(a, s, TRUE, TRUE)

\* Faulty variant: an update never deactivates the others.
SeenNone(t) == {}

\* An active row deactivates its siblings first.
SeenBy(t) == IF t.flag THEN Children(t.owner) ELSE {}

EditBegin(a) ==
  /\ In(a, "read")
  /\ Start(a, [tx[a] EXCEPT !.op = "edit", !.seen = SeenBy(tx[a])])
  /\ UNCHANGED <<forms, usedForms, row, rows, linked, answered, requests, crowded>>
  /\ Unwatched

\* save: the row is updated, or inserted again when it is gone meanwhile; it
\* cannot be when its owner is gone too.
EditCommit(a) ==
  /\ In(a, "edit")
  /\ LET t == tx[a] IN
       IF OwnerExists(t.owner)
       THEN /\ row' = [Deactivated(t.seen) EXCEPT
                         ![t.id] = [owner |-> t.owner, active |-> t.flag]]
            /\ Crowd(a, IF t.flag THEN {t.owner} ELSE {})
       ELSE UNCHANGED <<row, crowded>>
  /\ End(a)
  /\ UNCHANGED <<forms, usedForms, rows, linked, answered, requests>> /\ Unwatched

RemoveRow(a, r) ==
  /\ Delete({r})
  /\ UNCHANGED <<forms, usedForms, rows, tx, crowded>>

RemoveVersion(a, v) == v \in Versions /\ RemoveRow(a, v)

RemoveScore(a, s) == s \in Scores /\ RemoveRow(a, s)

-----------------------------------------------------------------------------
(* Questions of a version, points and tier rules of a score *)

LinkQuestion(a, v) ==
  /\ v \in Versions \ linked
  /\ linked' = linked \cup {v}
  /\ UNCHANGED <<forms, usedForms, row, rows, answered, tx, crowded>> /\ Unwatched

UnlinkQuestion(a, v) ==
  /\ v \in linked
  /\ linked' = linked \ {v}
  /\ UNCHANGED <<forms, usedForms, row, rows, answered, tx, crowded>> /\ Unwatched

\* The score is found, and the delete statement sees its batches.
ReplaceBegin(a, s, part, new) ==
  /\ s \in Scores
  /\ Start(a, [op |-> "replace", owner |-> s, part |-> part, new |-> new,
               seen |-> batches[part][s]])
  /\ UNCHANGED <<forms, usedForms, row, rows, linked, answered, crowded>> /\ Unwatched

ReplaceOptionPoints(a, s, new) == new \in SUBSET DOMAIN Options /\ ReplaceBegin(a, s, "option", new)

ReplaceRangePoints(a, s, new) == new \in SUBSET DOMAIN Ranges /\ ReplaceBegin(a, s, "range", new)

ReplaceTierRules(a, s, new) == new \in SUBSET DOMAIN Tiers /\ ReplaceBegin(a, s, "tier", new)

\* The batch seen is deleted, one committed since then stays beside the new.
Replaced(t) == (batches[t.part][t.owner] \ t.seen) \cup t.new

ReplaceCommit(a) ==
  /\ In(a, "replace")
  /\ LET t == tx[a]
         after == [batches EXCEPT ![t.part][t.owner] = Replaced(t)]
     IN IF Exists(t.owner)
        THEN batches' = after /\ Watched(after) /\ Crowd(a, {t.owner})
        ELSE UNCHANGED <<batches, scoring, crowded>>
  /\ End(a)
  /\ UNCHANGED <<forms, usedForms, row, rows, linked, answered, requests>>

-----------------------------------------------------------------------------
(* Clone *)

\* Whether the target has contents decides if the copy gets a version of its
\* own, with the active flag of the one asked for.
CloneBegin(a, source, target) ==
  /\ source \in Versions /\ target \in Versions
  /\ LET fresh == target \in linked \cup answered \/ Children(target) # {}
         owner == IF fresh THEN row[target].owner ELSE target
         flag  == row[target].active
     IN Start(a, [op |-> "clone", owner |-> owner, source |-> source, fresh |-> fresh,
                  flag |-> flag, seen |-> IF fresh /\ flag THEN Children(owner) ELSE {}])
  /\ UNCHANGED <<forms, usedForms, row, rows, linked, answered, crowded>> /\ Unwatched

\* The scores of the source, in the order their copies get ids.
CloneSources(t) == {s \in Ids : Exists(s) /\ row[s].owner = t.source}
Rank(S, s) == Cardinality({r \in S : r <= s})

\* Everything the source holds now is inserted below the target.
\* Each batch of points and rules, with those of the rows named by Original where it is defined.
WithCopies(Original) ==
  [p \in Parts |-> [r \in Ids |->
     batches[p][IF r \in DOMAIN Original THEN Original[r] ELSE r]]]

CloneCommit(a) ==
  /\ In(a, "clone")
  /\ LET t      == tx[a]
         from   == CloneSources(t)
         first  == rows + (IF t.fresh THEN 1 ELSE 0)
         into   == IF t.fresh THEN rows + 1 ELSE t.owner
         copies == first + 1 .. first + Cardinality(from)
         original == [r \in copies |-> CHOOSE s \in from : first + Rank(from, s) = r]
     IN /\ first + Cardinality(from) <= MaxRows
        /\ IF OwnerExists(t.owner)
           THEN /\ row' = [r \in Ids |->
                     CASE r \in copies -> [owner |-> into, active |-> row[original[r]].active]
                       [] t.fresh /\ r = into -> [owner |-> t.owner, active |-> t.flag]
                       [] OTHER -> Deactivated(t.seen)[r]]
                /\ rows' = first + Cardinality(from)
                /\ linked' = IF t.source \in linked THEN linked \cup {into} ELSE linked
                /\ batches' = WithCopies(original)
                /\ crowded' = crowded
                     \cup {o \in {t.owner} : OpenOn(a, o)}
                     \cup {o \in {into} : t.source \in crowded}
                     \cup {r \in copies : original[r] \in crowded}
           ELSE UNCHANGED <<row, rows, linked, batches, crowded>>
  /\ End(a)
  /\ UNCHANGED <<forms, usedForms, answered, requests, scoring>>

-----------------------------------------------------------------------------
(* The lead-score consumer *)

Idle == [at |-> "idle", version |-> 0, score |-> 0, value |-> CHOOSE v \in Values : TRUE,
         total |-> 0, tier |-> None, steady |-> FALSE]

Step(w, s) ==
  /\ scoring' = [scoring EXCEPT ![w] = s]
  /\ UNCHANGED <<forms, usedForms, row, rows, linked, batches, tx, crowded>>

\* The version must be active and have questions.
ScoreBegin(w, v, value) ==
  /\ scoring[w].at = "idle"
  /\ requests < MaxRequests /\ requests' = requests + 1
  /\ v \in Versions /\ row[v].active /\ v \in linked
  /\ Step(w, [Idle EXCEPT !.at = "pick", !.version = v, !.value = value])
  /\ UNCHANGED answered

\* An active score of the version; none is an error. The order is by
\* created_at, the start of the transaction that inserted it, which does not
\* follow the order of ids: any of several.
ScorePick(w) ==
  /\ scoring[w].at = "pick"
  /\ IF Active(scoring[w].version) = {}
     THEN Step(w, Idle)
     ELSE \E s \in Active(scoring[w].version) :
            Step(w, [scoring[w] EXCEPT !.at = "option", !.score = s, !.steady = TRUE])
  /\ UNCHANGED <<answered, requests>>

\* The points of the option chosen: of several rows the last one read counts.
ScoreOption(w) ==
  /\ scoring[w].at = "option"
  /\ LET found == batches["option"][scoring[w].score]
         points == IF found = {} THEN {0} ELSE {Options[b] : b \in found}
     IN \E n \in points : Step(w, [scoring[w] EXCEPT !.at = "range", !.total = n])
  /\ UNCHANGED <<answered, requests>>

\* Faulty variant: the upper end belongs to the range.
HoldsClosed(r, value) == (r.min = None \/ r.min <= value) /\ (r.max = None \/ value <= r.max)

\* min_value <= value < max_value, where an end may be NULL.
Holds(r, value) == (r.min = None \/ r.min <= value) /\ (r.max = None \/ value < r.max)

\* ORDER BY min DESC puts NULL first.
ComesFirst(r, s) == r.min = None \/ (s.min # None /\ r.min >= s.min)

\* What the query of one range may return.
Matches(S, value) ==
  LET all == {r \in S : Holds(r, value)}
  IN {r \in all : \A s \in all : ComesFirst(r, s)}

RowsOf(table, S) == UNION {table[b] : b \in S}

ScoreRange(w) ==
  /\ scoring[w].at = "range"
  /\ LET found == Matches(RowsOf(Ranges, batches["range"][scoring[w].score]), scoring[w].value)
         points == IF found = {} THEN {0} ELSE {r.gives : r \in found}
     IN \E n \in points : Step(w, [scoring[w] EXCEPT !.at = "tier", !.total = @ + n])
  /\ UNCHANGED <<answered, requests>>

ScoreTier(w) ==
  /\ scoring[w].at = "tier"
  /\ LET found == Matches(RowsOf(Tiers, batches["tier"][scoring[w].score]), scoring[w].total)
         codes == IF found = {} THEN {None} ELSE {r.gives : r \in found}
     IN \E c \in codes : Step(w, [scoring[w] EXCEPT !.at = "save", !.tier = c])
  /\ UNCHANGED <<answered, requests>>

\* The result refers to the score and the response to the version.
ScoreSave(w) ==
  /\ scoring[w].at = "save"
  /\ IF Exists(scoring[w].version) /\ Exists(scoring[w].score)
     THEN /\ answered' = answered \cup {scoring[w].version}
          /\ Step(w, [scoring[w] EXCEPT !.at = "done"])
     ELSE UNCHANGED answered /\ Step(w, Idle)
  /\ UNCHANGED requests

-----------------------------------------------------------------------------
Init ==
  \E o \in DOMAIN Options, r \in DOMAIN Ranges, t \in DOMAIN Tiers :
  LET full == CHOOSE f \in Forms : TRUE
      empty == CHOOSE f \in Forms : f # full
  IN
    /\ forms = {full, empty} /\ usedForms = forms
    \* one form as createFull leaves it, with tier rules; one with an empty version
    /\ row = [i \in Ids |->
          CASE i = 1 -> [owner |-> full, active |-> TRUE]
            [] i = 2 -> [owner |-> 1, active |-> TRUE]
            [] i = 3 -> [owner |-> empty, active |-> TRUE]
            [] OTHER -> NoRow]
    /\ rows = 3
    /\ linked = {1}
    /\ answered = {}
    /\ batches = [p \in Parts |-> [i \in Ids |-> IF i # 2 THEN {}
          ELSE CASE p = "option" -> {o} [] p = "range" -> {r} [] p = "tier" -> {t}]]
    /\ tx = [a \in Admins |-> NoTx]
    /\ requests = 0
    /\ crowded = {}
    /\ scoring = [w \in Scorers |-> Idle]

Request(a) ==
  /\ Asked(a)
  /\ \/ \E f \in Forms : CreateForm(a, f)
     \/ \E f \in Forms, v, s \in BOOLEAN, o \in DOMAIN Options, r \in DOMAIN Ranges :
           CreateFull(a, f, v, s, o, r)
     \/ \E f \in Forms : RemoveForm(a, f)
     \/ \E f \in Forms, flag \in BOOLEAN : CreateVersion(a, f, flag)
     \/ \E v \in Ids, flag \in BOOLEAN : CreateScore(a, v, flag)
     \/ \E v \in Ids, off \in BOOLEAN : UpdateVersion(a, v, off)
     \/ \E s \in Ids, off \in BOOLEAN : UpdateScore(a, s, off)
     \/ \E v \in Ids : ActivateVersion(a, v)
     \/ \E s \in Ids : ActivateScore(a, s)
     \/ \E v \in Ids : RemoveVersion(a, v)
     \/ \E s \in Ids : RemoveScore(a, s)
     \/ \E v \in Ids : LinkQuestion(a, v)
     \/ \E v \in Ids : UnlinkQuestion(a, v)
     \/ \E s \in Ids, n \in SUBSET DOMAIN Options : Cardinality(n) <= 1 /\ ReplaceOptionPoints(a, s, n)
     \/ \E s \in Ids, n \in SUBSET DOMAIN Ranges : Cardinality(n) <= 1 /\ ReplaceRangePoints(a, s, n)
     \/ \E s \in Ids, n \in SUBSET DOMAIN Tiers : Cardinality(n) <= 1 /\ ReplaceTierRules(a, s, n)
     \/ \E v, t \in Ids : CloneBegin(a, v, t)

Transaction(a) ==
  CreateCommit(a) \/ EditBegin(a) \/ EditCommit(a) \/ ReplaceCommit(a) \/ CloneCommit(a)

Score(w) ==
  \/ \E v \in Ids, n \in Values : ScoreBegin(w, v, n)
  \/ ScorePick(w) \/ ScoreOption(w) \/ ScoreRange(w) \/ ScoreTier(w) \/ ScoreSave(w)

Next == (\E a \in Admins : Request(a) \/ Transaction(a)) \/ (\E w \in Scorers : Score(w))

Spec == Init /\ [][Next]_vars

-----------------------------------------------------------------------------
(* Properties *)

\* Of the versions of a form, of the scores of a version and of the batches of
\* a part of a score at most one is active, unless two transactions wrote to
\* the owner at the same time: the code has nothing else to prevent it.
OneUnlessCrowded ==
  /\ \A o \in OwnerIds \ crowded : Cardinality(Active(o)) <= 1
  /\ \A s \in Ids \ crowded, p \in Parts : Cardinality(batches[p][s]) <= 1

\* A form or version that has an active child is left without one only by a
\* removal, by a request to deactivate it, or by an edit that saves the flag it
\* read before another request activated the row.
LostOnRequest ==
  \A o \in OwnerIds :
    OwnerExists(o) /\ Active(o) # {} /\ OwnerExists(o)' /\ Active(o)' = {} =>
      \/ \E r \in Active(o) : ~Exists(r)'
      \/ \E a \in Admins : /\ In(a, "edit") /\ ~tx[a].flag /\ tx'[a] = NoTx
                          /\ tx[a].id \in Active(o)

ActiveLostOnlyOnRequest == [][LostOnRequest]_vars

\* What a score must be by a card that has one batch per part: the points of
\* the option and of the range that holds the answer, and the tier whose span
\* holds the total, ends excluded, where the ranges and tiers of a batch do not
\* overlap.
Span(r) == {n \in Int : (r.min # None => n >= r.min) /\ (r.max # None => n < r.max)}

Below(r, s) == r.max # None /\ s.min # None /\ r.max <= s.min

Disjoint(S) == \A r, s \in S : r = s \/ Below(r, s) \/ Below(s, r)

Given(S, value, none) ==
  IF \E r \in S : value \in Span(r) THEN (CHOOSE r \in S : value \in Span(r)).gives ELSE none

ScoreByOneCard ==
  \A w \in Scorers :
    LET c == scoring[w]
        option == batches["option"][c.score]
        range == batches["range"][c.score]
        tiers == batches["tier"][c.score]
        expected == (IF option = {} THEN 0 ELSE Options[CHOOSE b \in option : TRUE])
                      + Given(RowsOf(Ranges, range), c.value, 0)
    IN /\ c.at = "save" /\ c.steady
       /\ \A p \in Parts : Cardinality(batches[p][c.score]) <= 1
       /\ Disjoint(RowsOf(Ranges, range)) /\ Disjoint(RowsOf(Tiers, tiers))
       => c.total = expected /\ c.tier = Given(RowsOf(Tiers, tiers), expected, None)

=============================================================================
