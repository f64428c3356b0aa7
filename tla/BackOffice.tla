----------------------------- MODULE BackOffice -----------------------------
(***************************************************************************)
(* Eleven parts of the application behind what leads see, none of which    *)
(* changes a row another goes by (but for a role that is removed, which is *)
(* a step of two of them): the schedules of synchronisations, the users    *)
(* with their sessions, the permissions of roles, the limits on logins,    *)
(* the connections to advertising providers, the figures fetched from      *)
(* Meta, what dashboards tell, the persons of leads, their contacts in     *)
(* ActiveCampaign, the alerts of the copilot and its conversations.  A     *)
(* behaviour is one of a part chosen in the beginning, with the others as  *)
(* they began: interleaving them would say nothing more.                   *)
(***************************************************************************)
EXTENDS Integers, FiniteSets

CONSTANTS
  Absent, Clients, MaxFaults,
  Schedules, Runners, MaxMinute, MaxDay,
  Users, Roles, SuperAdmin, MaxPassword, MaxTokens, MaxResets,
  Permissions, MaxRoles,
  Database, Limit, Ttl, MaxTime, MaxChecks,
  Owners, Nobody, Accounts, MaxConnections, MaxRows,
  Syncs, MaxAccount, Holds, PageSize, SmallPage, MaxVersion, MaxExecutions,
  Ads, LastDay, Arrivals, Inquiries, Editors, MaxTaken, MaxSales, MaxListed,
  Emails, LeadPhones, Cpfs, MaxLeads,
  Tags, Known, MaxContacts, MaxSubmissions,
  Signals, Scans, MaxScans, MaxChanges,
  Conversations, MaxRounds,
  MaxRequests,     \* bound: requests about schedules
  MoreRequests     \* bound: requests in the parts where that is not enough

VARIABLES
  part,            \* the part that runs
  requests, faults,
  \* SyncSchedules
  schedule, new, day, minute, runner, inTurn, ran, again, held,
  \* UserAccounts
  user, role, passwords, session, issued, reset, resets, actor, userAsked, raced, unrevoked,
  \* RoleGrants
  granting, grants, granter, grantAsked, grantRaced, lost,
  \* AuthLimits
  time, bucket, checking, checks, passed, denied, hurried, astray,
  \* OAuthConnections
  provider, connection, connections, account, rows, connector, asked, chosen, overlapped,
  listed, omitted, twofold,
  \* MetaFigures
  truth, figure, sync, together, executions, file, outdone,
  \* Dashboards
  media, captured, sale, catalogued, config, editor, answer, got, writes, changed, wanted, undone,
  \* IdentityMatch
  persons, identifiers, stored, lead, leads, sharing, carried, nameless,
  \* ContactBook
  contact, sender, submissions, sent, log, displaced, untold,
  \* CopilotAlerts
  alert, scan, scans, changes, calls, handled, doubled,
  \* CopilotChat
  chat, notes, talker, mixed, notesAsked, notesRaced

scheduleVars == <<schedule, new, day, minute, runner, inTurn, ran, again, held>>
userVars == <<user, role, passwords, session, issued, reset, resets, actor, userAsked, raced,
              unrevoked>>
grantVars == <<granting, grants, granter, grantAsked, grantRaced, lost>>
limitVars == <<time, bucket, checking, checks, passed, denied, hurried, astray>>
connectionVars == <<provider, connection, connections, account, rows, connector, asked, chosen,
                    overlapped, listed, omitted, twofold>>
figureVars == <<truth, figure, sync, together, executions, file, outdone>>
dashboardVars == <<media, captured, sale, catalogued, config, editor, answer, got, writes,
                   changed, wanted, undone>>
identityVars == <<persons, identifiers, stored, lead, leads, sharing, carried, nameless>>
contactVars == <<contact, sender, submissions, sent, log, displaced, untold>>
alertVars == <<alert, scan, scans, changes, calls, handled, doubled>>
chatVars == <<chat, notes, talker, mixed, notesAsked, notesRaced>>
vars == <<part, requests, faults, scheduleVars, userVars, grantVars, limitVars,
          connectionVars, figureVars, dashboardVars, identityVars, contactVars, alertVars,
          chatVars>>

Scheduling == INSTANCE SyncSchedules
Accounting == INSTANCE UserAccounts WITH
  client <- actor, asked <- userAsked, MaxRequests <- MoreRequests
Granting == INSTANCE RoleGrants WITH
  role <- granting, roles <- grants, client <- granter, asked <- grantAsked,
  raced <- grantRaced, RoleNames <- Roles, SuperName <- SuperAdmin, MaxRequests <- MoreRequests
Limiting == INSTANCE AuthLimits WITH Processes <- Runners, Checkers <- Clients
Connecting == INSTANCE OAuthConnections WITH
  client <- connector, held <- overlapped, crowded <- twofold, MaxRequests <- MoreRequests
Figures == INSTANCE MetaFigures WITH overlapped <- outdone
Boards == INSTANCE Dashboards WITH
  capture <- captured, listed <- catalogued, sent <- wanted
Identity == INSTANCE IdentityMatch WITH crowded <- sharing, Phones <- LeadPhones
Contacts == INSTANCE ContactBook WITH ContactEmails <- Emails, ContactPhones <- LeadPhones
Alerts == INSTANCE CopilotAlerts
Chat == INSTANCE CopilotChat WITH
  config <- notes, client <- talker, asked <- notesAsked, raced <- notesRaced,
  MaxRequests <- MoreRequests

\* Of a kind of identifier a lead gives one; a login may be tried, the database is
\* no process, each account has its row, and nothing is its own absence.
ASSUME BackOfficeConstants ==
  /\ IsFiniteSet(Emails)
  /\ MaxContacts \in Nat /\ MaxRoles \in Nat /\ Roles # {}
  /\ Limit \in Nat \ {0} /\ Ttl \in Nat \ {0} /\ Database \notin Runners
  /\ MaxPassword \in Nat \ {0} /\ Absent \notin Users /\ Absent \notin Accounting!Row
  /\ MaxConnections \in Nat \ {0} /\ MaxRows \in Nat
  /\ IsFiniteSet(Accounts) /\ Cardinality(Accounts) <= MaxRows
  /\ Absent \notin Connecting!Connection /\ Absent \notin Connecting!Account
  /\ Absent \notin Chat!Config
  /\ Absent \notin Contacts!Contact /\ Absent \notin Signals /\ Absent \notin Alerts!Alert

Parts == {"schedules", "users", "grants", "limits", "connections", "figures",
          "dashboards", "identity", "contacts", "alerts", "chat"}

\* Where a part does not run it is as it began.
TypeOK ==
  /\ part \in Parts
  /\ part = "schedules" => Scheduling!TypeOK
  /\ part = "users" => Accounting!TypeOK
  /\ part = "grants" => Granting!TypeOK
  /\ part = "limits" => Limiting!TypeOK
  /\ part = "connections" => Connecting!TypeOK
  /\ part = "figures" => Figures!TypeOK
  /\ part = "dashboards" => Boards!TypeOK
  /\ part = "identity" => Identity!TypeOK
  /\ part = "contacts" => Contacts!TypeOK
  /\ part = "alerts" => Alerts!TypeOK
  /\ part = "chat" => Chat!TypeOK

\* The choices a part begins with are made where it runs.
Init ==
  /\ part \in Parts
  /\ Accounting!Init /\ Granting!Init /\ Limiting!Init
  /\ Boards!Init /\ Identity!Init /\ Contacts!Init /\ Alerts!Init /\ Chat!Init
  /\ part # "dashboards" => catalogued = 1 /\ answer = CHOOSE a \in Inquiries : TRUE
  /\ IF part = "schedules" THEN inTurn \in BOOLEAN ELSE inTurn = TRUE
  /\ Scheduling!Init
  /\ Connecting!Init
  /\ IF part = "figures" THEN together \in BOOLEAN ELSE together = TRUE
  /\ Figures!Init
  /\ part # "connections" => provider = Connecting!Google /\ connection[1].owner = Nobody

-----------------------------------------------------------------------------
\* A step A of part p.
Step(p, A) == part = p /\ A /\ UNCHANGED part

Next ==
  \/ /\ Step("schedules", Scheduling!Next)
     /\ UNCHANGED <<userVars, grantVars, limitVars, connectionVars, figureVars,
                    dashboardVars, identityVars, contactVars, alertVars, chatVars>>
  \/ /\ Step("users", Accounting!Next)
     /\ UNCHANGED <<scheduleVars, grantVars, limitVars, connectionVars, figureVars,
                    dashboardVars, identityVars, contactVars, alertVars, chatVars>>
  \/ /\ Step("grants", Granting!Next)
     /\ UNCHANGED <<faults, scheduleVars, userVars, limitVars, connectionVars, figureVars,
                    dashboardVars, identityVars, contactVars, alertVars, chatVars>>
  \/ /\ Step("limits", Limiting!Next)
     /\ UNCHANGED <<requests, scheduleVars, userVars, grantVars, connectionVars,
                    figureVars, dashboardVars, identityVars, contactVars, alertVars,
                    chatVars>>
  \/ /\ Step("connections", Connecting!Next)
     /\ UNCHANGED <<scheduleVars, userVars, grantVars, limitVars, figureVars,
                    dashboardVars, identityVars, contactVars, alertVars, chatVars>>
  \/ /\ Step("figures", Figures!Next)
     /\ UNCHANGED <<requests, scheduleVars, userVars, grantVars, limitVars,
                    connectionVars, dashboardVars, identityVars, contactVars, alertVars,
                    chatVars>>
  \/ /\ Step("dashboards", Boards!Next)
     /\ UNCHANGED <<requests, faults, scheduleVars, userVars, grantVars, limitVars,
                    connectionVars, figureVars, identityVars, contactVars, alertVars,
                    chatVars>>
  \/ /\ Step("identity", Identity!Next)
     /\ UNCHANGED <<requests, scheduleVars, userVars, grantVars, limitVars,
                    connectionVars, figureVars, dashboardVars, contactVars, alertVars,
                    chatVars>>
  \/ /\ Step("contacts", Contacts!Next)
     /\ UNCHANGED <<requests, scheduleVars, userVars, grantVars, limitVars,
                    connectionVars, figureVars, dashboardVars, identityVars, alertVars,
                    chatVars>>
  \/ /\ Step("alerts", Alerts!Next)
     /\ UNCHANGED <<requests, scheduleVars, userVars, grantVars, limitVars,
                    connectionVars, figureVars, dashboardVars, identityVars, contactVars,
                    chatVars>>
  \/ /\ Step("chat", Chat!Next)
     /\ UNCHANGED <<scheduleVars, userVars, grantVars, limitVars, connectionVars,
                    figureVars, dashboardVars, identityVars, contactVars, alertVars>>

Spec == Init /\ [][Next]_vars

-----------------------------------------------------------------------------
(* Properties, of the parts *)

\* What goes by a clock is done once, though every process has a timer that waits
\* for nobody: a schedule runs once a day, and a signal is explained once and its
\* alert not opened again, unless two had it in hand or one was cut off; and a window
\* of the limit on logins lets through as many as it may, unless it is forgotten.
OnceUnlessHeld ==
  /\ part = "schedules" => Scheduling!OncePerDayUnlessHeld
  /\ part = "alerts" => Alerts!ExplainedOnceUnlessDoubled
  /\ part = "limits" => Limiting!LimitHoldsUnlessAstray

\* A user's row is as asked, the sessions go back to the password in force and one
\* reset token is live; a role grants what was asked for, and is not removed if the
\* system needs it; a connection and the selection of its accounts are as users
\* asked; all unless two requests had the row in hand, or the provider left accounts
\* out of a list.
AccountsHoldUnlessRaced ==
  /\ part = "users" => Accounting!AccountsHoldUnlessRaced
  /\ part = "grants" => Granting!RolesHoldUnlessRaced
  /\ part = "connections" => Connecting!ConnectionsHoldUnlessHeld

\* Captures and sales with an identifier in common belong to one person, unless
\* two requests had it in hand or it came beside somebody else's; and the contact
\* a submission ended with keeps its e-mail and its tag, unless one with the same
\* phone has taken it over.
OnePersonUnlessShared ==
  /\ part = "identity" => Identity!OnePersonUnlessShared
  /\ part = "contacts" => Contacts!ContactKeptUnlessDisplaced

\* What a synchronisation of the selected accounts got from Meta, which is all but
\* what Meta cut short, is what is stored, unless two had a row in hand; and the
\* targets of a launch are what was sent for them, unless two saved at a time.
FiguresKeptUnlessOverlapped ==
  /\ part = "figures" => Figures!FiguresShowNewestUnlessOverlapped
  /\ part = "dashboards" => Boards!TargetsKeptUnlessUndone

\* The numbers a dashboard gives agree, unless something was stored between two reads;
\* and where rows were only added, no more is told than there is in the end.
AnswersAgreeUnlessChanged ==
  part = "dashboards" => Boards!AnswersAgreeUnlessChanged

\* The copilot answers with the whole conversation in sight, and by the
\* configuration asked for, unless two requests met.
CopilotSeesAllUnlessMixed ==
  part = "chat" => Chat!AnswersSeeAllUnlessMixed /\ Chat!ConfigAsAskedUnlessRaced

=============================================================================
