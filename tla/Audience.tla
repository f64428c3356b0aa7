----------------------------- MODULE Audience -----------------------------
(***************************************************************************)
(* Six parts of the application that are about those it addresses, and     *)
(* none of which changes a row another goes by: the forms with their       *)
(* versions and scores, the questions of a form, the voting campaigns, the *)
(* landing pages, the feed of captures and what is reported of them.  A    *)
(* behaviour is one of a part chosen in the beginning, with the others as  *)
(* they began: interleaving them would say nothing more.                   *)
(***************************************************************************)
EXTENDS Integers, FiniteSets

CONSTANTS
  Absent, Clients,
  Scorers, EditedForms, MaxChildren, Values, Options, Ranges, Tiers,
  Forms, MaxPlace, MaxItems,
  Campaigns, Categories, Candidates, Emails, Phones, Times, MaxVoters,
  Launches, Seasons, MaxPages, MaxNumber,
  MaxCapture, PerMilli, MaxTick, MaxLimit, MaxGiven,
  MaxReported, Keys, QuizForms, BatchSize, MaxResponses, MaxNews,
  MaxRequests,     \* bound: requests about pages
  MoreRequests     \* bound: requests in the parts where that is not enough

VARIABLES
  part,            \* the part that runs
  requests, client, voting,
  \* FormManagement
  forms, usedForms, child, children, linked, answered, batches, tx, contended, scoring,
  \* VersionQuestions
  entry, entries, manager, entered, appended, mingled,
  \* Voting
  campaign, category, candidate, voter, voters, votes, crowded,
  \* Pages
  page, pages, items, season, launches, crowdedPages, bereft, loose,
  \* SyncFeed
  tick, capture, cursor, given, late,
  \* CaptureReports
  reported, response, latest, label, news, reader, report, constant, unheaded, superseded, shaken

formVars == <<forms, usedForms, child, children, linked, answered, batches, tx, contended,
              scoring>>
questionVars == <<entry, entries, manager, entered, appended, mingled>>
votingVars == <<campaign, category, candidate, voter, voters, votes, voting, crowded>>
pageVars == <<page, pages, items, season, launches, client, crowdedPages, bereft, loose>>
feedVars == <<tick, capture, cursor, given, late>>
reportVars == <<reported, response, latest, label, news, reader, report, constant, unheaded,
                superseded, shaken>>
vars == <<part, requests, formVars, questionVars, votingVars, pageVars, feedVars,
          reportVars>>

Forming == INSTANCE FormManagement WITH
  row <- child, rows <- children, crowded <- contended, Admins <- Clients,
  MaxRows <- MaxChildren, Forms <- EditedForms, NoRow <- Absent, NoTx <- Absent, None <- Absent,
  MaxRequests <- MoreRequests
Questioning == INSTANCE VersionQuestions WITH
  row <- entry, made <- entries, client <- manager, asked <- entered, tail <- appended,
  raced <- mingled, MaxRequests <- MoreRequests
Voting == INSTANCE Voting WITH client <- voting, MaxRequests <- MoreRequests
Pages == INSTANCE Pages WITH crowded <- crowdedPages
Feed == INSTANCE SyncFeed
Reports == INSTANCE CaptureReports WITH MaxCapture <- MaxReported, capture <- reported

\* An id of a form is none of a version or score, the first state has three rows.
ASSUME FormConstants ==
  /\ EditedForms \cap Forming!Ids = {} /\ \E f, g \in EditedForms : f # g
  /\ MaxChildren \in Nat /\ MaxChildren >= 3
  /\ Absent \notin Forming!Row
  /\ IsFiniteSet(DOMAIN Options) /\ IsFiniteSet(DOMAIN Ranges) /\ IsFiniteSet(DOMAIN Tiers)

\* Answers and points are numbers, and so are the ends of ranges and tiers, if they have any.
ASSUME CardConstants ==
  /\ Values \subseteq Int /\ Values # {}
  /\ \A b \in DOMAIN Options : Options[b] \in Int
  /\ \A b \in DOMAIN Ranges : \A r \in Ranges[b] :
       r.min \in Int \cup {Absent} /\ r.max \in Int \cup {Absent} /\ r.gives \in Int
  /\ \A b \in DOMAIN Tiers : \A r \in Tiers[b] :
       r.min \in Int \cup {Absent} /\ r.max \in Int \cup {Absent} /\ r.gives \in Int \cup {Absent}

\* A batch has a row, a millisecond a tick, and the keys of questions have an order.
ASSUME ReaderConstants ==
  /\ MaxCapture \in Nat /\ PerMilli \in Nat \ {0} /\ MaxTick \in Nat
  /\ MaxReported \in Nat /\ Keys \subseteq Int /\ BatchSize \in Nat \ {0}

\* There is something to begin with, and an earliest and a latest time.
ASSUME AddressConstants ==
  /\ Campaigns # {} /\ Categories # {} /\ Candidates # {} /\ MaxVoters \in Nat
  /\ Times \subseteq Int /\ \E s, e \in Times : \A t \in Times : s <= t /\ t <= e
  /\ Absent \notin Voting!Campaign /\ Absent \notin Voting!Candidate /\ Absent \notin Voting!Voter
  /\ \A c \in Campaigns, on \in BOOLEAN : Absent # [campaign |-> c, active |-> on]
  /\ Launches # {} /\ Forms # {} /\ MaxPages \in Nat \ {0} /\ MaxNumber \in Nat \ {0, 1}
  /\ Absent \notin Launches /\ Absent \notin Pages!Page
  /\ MaxItems \in Nat /\ MaxItems >= 3 /\ MaxPlace \in Nat \ {0} /\ Absent \notin Questioning!Row

\* Bounds are numbers.
ASSUME AudienceBounds == {MaxGiven, MaxResponses, MaxNews, MaxRequests, MoreRequests} \subseteq Nat

Parts == {"forms", "questions", "voting", "pages", "feed", "reports"}

\* Where a part does not run it is as it began.
TypeOK ==
  /\ part \in Parts
  /\ part = "forms" => Forming!TypeOK
  /\ part = "questions" => Questioning!TypeOK
  /\ part = "voting" => Voting!TypeOK
  /\ part = "pages" => Pages!TypeOK
  /\ part = "feed" => Feed!TypeOK
  /\ part = "reports" => Reports!TypeOK

\* The choices a part begins with are made where it runs.
Init ==
  /\ part \in Parts
  /\ Forming!Init
  /\ part # "forms" => \A p \in Forming!Parts :
       batches[p][2] = {CHOOSE b \in Forming!Batches[p] : TRUE}
  /\ Questioning!Init /\ Voting!Init /\ Pages!Init
  /\ Feed!Init /\ Reports!Init

-----------------------------------------------------------------------------
\* A step A of part p.
Step(p, A) == part = p /\ A /\ UNCHANGED part

Next ==
  \/ /\ Step("forms", Forming!Next)
     /\ UNCHANGED <<questionVars, votingVars, pageVars, feedVars, reportVars>>
  \/ /\ Step("questions", Questioning!Next)
     /\ UNCHANGED <<formVars, votingVars, pageVars, feedVars, reportVars>>
  \/ /\ Step("voting", Voting!Next)
     /\ UNCHANGED <<formVars, questionVars, pageVars, feedVars, reportVars>>
  \/ /\ Step("pages", Pages!Next)
     /\ UNCHANGED <<formVars, questionVars, votingVars, feedVars, reportVars>>
  \/ /\ Step("feed", Feed!Next)
     /\ UNCHANGED <<requests, formVars, questionVars, votingVars, pageVars, reportVars>>
  \/ /\ Step("reports", Reports!Next)
     /\ UNCHANGED <<requests, formVars, questionVars, votingVars, pageVars, feedVars>>

Spec == Init /\ [][Next]_vars

-----------------------------------------------------------------------------
(* Properties, of the parts *)

\* Of what a form, a version or a score owns one is in force, unless two transactions
\* wrote to the owner at the same time.
OneUnlessCrowded == part = "forms" => Forming!OneUnlessCrowded

\* A score follows the one card it was computed by, whatever is edited meanwhile.
ScoreByOneCard == part = "forms" => Forming!ScoreByOneCard

\* A form or version is left without an active child only by a removal, a request
\* to deactivate it, or an edit that saves the flag it read.
ActiveLostOnlyOnRequest == Forming!ActiveLostOnlyOnRequest

\* A vote is stored with the voter who gave it, for a candidate of its campaign;
\* a page's version, season and launch go together, and the numbers given to
\* what is created are free; a version has each question once, where and as it was
\* asked to be; all unless two requests met.
ConsistentUnlessRaced ==
  /\ part = "voting" => Voting!SoundUnlessCrowded
  /\ part = "pages" => Pages!ConsistentUnlessRaced
  /\ part = "questions" => Questioning!QuestionsAsAskedUnlessRaced

\* The feed skips no capture, unless it was committed late; a file, or a list paged
\* through, tells of each capture that was there all along, once, with the answers
\* of its latest response, unless a question clashes with another or something
\* changed in the middle of it.
ReadersMissNothing ==
  /\ part = "feed" => Feed!FeedSkipsNothing
  /\ part = "reports" => Reports!ToldInFull

=============================================================================
