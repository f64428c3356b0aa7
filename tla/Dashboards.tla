----------------------------- MODULE Dashboards -----------------------------
(***************************************************************************)
(* The dashboards of launches and of marketing: an answer is put together  *)
(* from several reads, some one after another and some at once, of figures *)
(* of ads, captures, responses and sales that go on being stored.  Beside  *)
(* them, the targets of a launch as administrators save them.              *)
(*                                                                         *)
(* All is of one launch, and of one product, which is in the catalogue     *)
(* once or more; the ads are of one account, and the responses to one      *)
(* version of the form.  A row of figures is of one unit of money, and so  *)
(* is a sale.  Of the ratios only what they are made of is kept.           *)
(***************************************************************************)
EXTENDS Integers, SequencesExt

CONSTANTS
  Absent,
  Ads, LastDay,
  Arrivals,        \* captures that may be registered
  Inquiries,       \* the answers asked for: the kind of each, of what, and the bound
                   \* on the rows stored and savings of targets meanwhile
  Editors,
  MaxTaken,        \* bound: captures
  MaxSales,        \* bound: sales
  MaxListed        \* bound: times the product is in the catalogue

VARIABLES
  media,           \* <<ad, day>> of the rows of figures
  capture,         \* the captures, in the order they were registered
  sale,            \* the sales
  listed,          \* how often the product is in the catalogue
  config, editor,  \* the targets, and who is saving them
  answer, got,     \* the answer under way, and what was read for it
  writes,
  changed,         \* what was done between the first read and the last: nothing, more
                   \* was stored ("grown"), or something was changed or removed too
  sent, undone     \* the targets sent last; one was saved over another

tables == <<media, capture, sale, listed>>
settings == <<config, editor, sent, undone>>
vars == <<tables, settings, answer, got, writes, changed>>

Days == 1..LastDay
Taken == 1..Len(capture)
Sold == 1..Len(sale)
People == {c.person : c \in Arrivals} \ {Absent}
Capture == [person : People \cup {Absent}, ad : Ads \cup {Absent}, organic : BOOLEAN, day : Days]
NoConfig == [stored |-> FALSE, target |-> 0, key |-> 0]

\* What is sent: one field, which stands for all of its sort, or none.  Absent is what
\* is not sent, and 0 null.
Fields == {f \in [target : {Absent, 0, 1}, key : {Absent, 0, 1}] : Absent \in {f.target, f.key}}
Idle == [at |-> "idle", loaded |-> NoConfig, fields |-> [target |-> Absent, key |-> Absent]]

\* What may be asked for: days up to the last, the ads of a campaign or an adset, and
\* one ad.
Queries == [from : Days, scope : {Absent} \cup SUBSET Ads, ad : Ads \cup {Absent}]

-----------------------------------------------------------------------------
(* The answers: the reads of each, in phases.  Those of a phase are made at  *)
(* a time, and end in any order.                                             *)

Summary == <<{"scope"}, {"media", "leads", "organic", "sales"}>>
Series == <<{"scope"}, {"mediaDays", "leadDays", "saleDays"}>>
Funnel == <<{"mediaAds", "leadAds", "saleAds"}>>
Awareness == <<{"config"}, {"answerScope"}, {"answerLeads", "responses"}, {"positive"}>>
Notices == <<{"targets"}, {"media", "leads"}>>
Shares == <<{"scope"}, {"shares"}>>
Overview == <<{"media"}, {"registrations"}>>
OverviewDays == <<{"mediaDays"}, {"registrationDays"}>>
Table == <<{"mediaAds"}, {"registrationAds"}>>

\* The health of a launch comes from a summary and its awareness, at a time; what it
\* does not take of the summary is left out.
Health == <<<<{"targets"}, {"scope"}, {"media", "leads"}>>, <<{"targets"}>> \o Awareness>>

\* The explanations come from both of these, whole.
Explanations == <<Summary, Awareness>>

Threads ==
  [summary |-> <<Summary>>, series |-> <<Series>>, funnel |-> <<Funnel>>,
   awareness |-> <<Awareness>>, notices |-> <<Notices>>, shares |-> <<Shares>>,
   overview |-> <<Overview>>, overviewDays |-> <<OverviewDays>>, table |-> <<Table>>,
   health |-> Health, explanations |-> Explanations]
Kinds == DOMAIN Threads
Done(r) == r \in DOMAIN got
Reads == UNION {UNION Range(thread) : thread \in Range(Threads[answer.kind])}

\* What can be read next: all that comes before it has been.
Ready(r) ==
  /\ r \in Reads /\ ~Done(r)
  /\ \A thread \in Range(Threads[answer.kind]) : \A i \in DOMAIN thread :
       r \in thread[i] => \A j \in 1 .. i - 1 : \A before \in thread[j] : Done(before)
Answered == \A r \in Reads : Done(r)

TypeOK ==
  /\ media \subseteq Ads \X Days
  /\ Len(capture) <= MaxTaken /\ Len(sale) <= MaxSales /\ listed \in 1..MaxListed
  /\ \A c \in Taken : /\ capture[c].of \in Capture
                      /\ capture[c].positive \in 0..capture[c].responses
  /\ \A s \in Sold : /\ sale[s].person \in People \cup {Absent} /\ sale[s].day \in Days
                     /\ sale[s].status \in {"approved", "refunded"}
  /\ config \in [stored : BOOLEAN, target : 0..1, key : 0..1]
  /\ editor \in [Editors -> [at : {"idle", "saving"}, loaded : [stored : BOOLEAN, target : 0..1,
                             key : 0..1], fields : Fields]]
  /\ Inquiries \subseteq [kind : Kinds, query : Queries, writes : Nat] /\ answer \in Inquiries
  /\ writes \in 0..answer.writes /\ changed \in {"nothing", "grown", "rewritten"}
  /\ undone \in BOOLEAN

Init ==
  /\ answer \in Inquiries /\ got = <<>>
  /\ media = {} /\ capture = <<>> /\ sale = <<>>
  /\ IF "sales" \in Reads THEN listed \in 1..MaxListed ELSE listed = 1
  /\ config = NoConfig /\ editor = [e \in Editors |-> Idle]
  /\ writes = 0 /\ changed = "nothing"
  /\ sent = NoConfig /\ undone = FALSE

-----------------------------------------------------------------------------
(* What is read *)

\* applyMediaFilters
Figures(q) ==
  {f \in media : /\ f[2] \in q.from..LastDay
                 /\ q.scope = Absent \/ f[1] \in q.scope
                 /\ q.ad = Absent \/ f[1] = q.ad}
AdsOf(figures) == {f[1] : f \in figures}
OfDays(figures) == [d \in Days |-> Cardinality({f \in figures : f[2] = d})]
OfAds(figures) == [a \in AdsOf(figures) |-> Cardinality({f \in figures : f[1] = a})]

\* resolveCampaignScopedAdIds: the ads that leads are counted of, if not of all
Resolved(q) == IF q.scope = Absent THEN Absent ELSE AdsOf(Figures(q))

\* Faulty variant: a list without ads is as none.
WithinAny(c, ids) == ids \in {Absent, {}} \/ capture[c].of.ad \in ids

\* applyCampaignAdIdsFilter
Within(c, ids) == ids = Absent \/ capture[c].of.ad \in ids

\* applyFormResponseFilters, and applyCaptureFilters
Replied(q, ids) == {c \in Taken : capture[c].of.day \in q.from..LastDay /\ Within(c, ids)}
Captured(q, ids) ==
  {c \in Replied(q, ids) : q.ad = Absent \/ capture[c].of.ad = q.ad}

\* COUNT(DISTINCT c.person_id)
Leads(captures) == Cardinality({capture[c].of.person : c \in captures} \ {Absent})
OnDay(captures, d) == {c \in captures : capture[c].of.day = d}
OfAd(captures, a) == {c \in captures : capture[c].of.ad = a}

\* buildDirectSalesQb
Direct(q) ==
  {s \in Sold : sale[s].status = "approved" /\ sale[s].day \in q.from..LastDay}
AllSold(q) == [sales |-> Cardinality(Direct(q)), revenue |-> listed * Cardinality(Direct(q))]
SoldByDay(q) == [d \in Days |-> Cardinality({s \in Direct(q) : sale[s].day = d})]

\* buildAttributedSalesQb: a row for each capture of the buyer, of whatever day
Attributed(q, a) ==
  {row \in Taken \X Direct(q) :
     LET of == capture[row[1]].of IN
       of.person = sale[row[2]].person /\ of.person # Absent /\ of.ad = a}
Bought(rows) == [sales |-> Cardinality({row[2] : row \in rows}), revenue |-> Cardinality(rows)]

\* The captures of the other dashboard, of ads with figures in the days asked for
Registered(q) == Replied(q, AdsOf(Figures(q)))
RegisteredByDay(q) == [d \in Days |-> Cardinality(OnDay(Registered(q), d))]
RegisteredByAd(q) == [a \in Ads |-> Cardinality(OfAd(Registered(q), a))]

Responses(captures) == MapThenSumSet(LAMBDA c : capture[c].responses, captures)
Positive(captures) == MapThenSumSet(LAMBDA c : capture[c].positive, captures)

\* How replies split over the options of a question, or over the tiers of their results.
Split(captures) == <<Positive(captures), Responses(captures) - Positive(captures)>>

Ids(r) == IF Done(r) THEN got[r] ELSE Absent

\* What the read r finds.
Found(r) ==
  LET q == answer.query
      leads == Captured(q, Ids("scope"))
      replies == Replied(q, Ids(IF answer.kind = "shares" THEN "scope" ELSE "answerScope"))
      figures == Figures(q)
  IN CASE r \in {"config", "targets"} -> config
       [] r \in {"scope", "answerScope"} -> Resolved(q)
       [] r = "media" -> Cardinality(figures)
       [] r = "mediaDays" -> OfDays(figures)
       [] r = "mediaAds" -> OfAds(figures)
       [] r = "leads" -> Leads(leads)
       [] r = "answerLeads" -> Leads(Captured(q, Ids("answerScope")))
       [] r = "organic" -> Leads({c \in leads : capture[c].of.organic})
       [] r = "leadDays" -> [d \in Days |-> Leads(OnDay(leads, d))]
       [] r = "leadAds" -> [a \in Ads |-> Leads(OfAd(Captured(q, Absent), a))]
       [] r = "sales" -> AllSold(q)
       [] r = "saleDays" -> SoldByDay(q)
       [] r = "saleAds" -> [a \in Ads |-> Bought(Attributed(q, a))]
       [] r = "responses" -> Responses(replies)
       [] r = "positive" -> IF got["config"].key = 0 THEN Absent ELSE Positive(replies)
       [] r = "shares" -> Split(replies)
       [] r = "registrations" -> Cardinality(Registered(q))
       [] r = "registrationDays" -> RegisteredByDay(q)
       [] r = "registrationAds" -> RegisteredByAd(q)

-----------------------------------------------------------------------------
(* What goes on meanwhile *)

\* What the answer reads nothing of may be stored, to no effect: it is left out.
ReadsOneOf(R) == Reads \cap R # {}

\* What was done so far, after what is done now.
Changed(how) == IF got = <<>> \/ changed = "rewritten" THEN changed ELSE how

\* A row is stored, changed or removed, until the answer is given.
Write(how) ==
  /\ ~Answered
  /\ writes < answer.writes /\ writes' = writes + 1
  /\ changed' = Changed(how)
  /\ UNCHANGED <<settings, answer, got>>

\* An extraction or a synchronisation stores the figures of an ad on a day.
Fetch(a, d) ==
  /\ <<a, d>> \notin media
  /\ Write("grown")
  /\ media' = media \cup {<<a, d>>}
  /\ UNCHANGED <<capture, sale, listed>>

\* deleteExistingConsolidatedRows: an extraction removes the figures of its days before
\* it stores them again one by one.  The figures of launches come of synchronisations,
\* which remove none.
Clear(from, to) ==
  /\ answer.kind \in {"overview", "overviewDays", "table"}
  /\ \E f \in media : f[2] \in from..to
  /\ Write("rewritten")
  /\ media' = {f \in media : f[2] \notin from..to}
  /\ UNCHANGED <<capture, sale, listed>>

\* A lead is registered.
Register(new) ==
  /\ Write("grown")
  /\ Len(capture) < MaxTaken
  /\ capture' = Append(capture, [of |-> new, responses |-> 0, positive |-> 0])
  /\ UNCHANGED <<media, sale, listed>>

\* A registration that comes again is merged into its capture: the ad and the temperature
\* are those that come now, if they do, the person and the day stay.
Merge(c, ad, organic) ==
  /\ ad \notin {Absent, capture[c].of.ad} \/ organic # capture[c].of.organic
  /\ Write("rewritten")
  /\ capture' = [capture EXCEPT ![c].of.ad = IF ad = Absent THEN @ ELSE ad,
                                ![c].of.organic = organic]
  /\ UNCHANGED <<media, sale, listed>>

\* A response is stored, with a positive answer or another.
Respond(c, positive) ==
  /\ ReadsOneOf({"responses", "shares"})
  /\ Write("grown")
  /\ capture' = [capture EXCEPT ![c].responses = @ + 1, ![c].positive = @ + positive]
  /\ UNCHANGED <<media, sale, listed>>

\* removeVersion: the responses to a version of the form go with it.
RemoveVersion ==
  /\ \E c \in Taken : capture[c].responses > 0
  /\ Write("rewritten")
  /\ capture' = [c \in Taken |-> [capture[c] EXCEPT !.responses = 0, !.positive = 0]]
  /\ UNCHANGED <<media, sale, listed>>

\* A sale of the product comes from Hotmart, and may be refunded.
Sell(p, d) ==
  /\ ReadsOneOf({"sales", "saleDays", "saleAds"})
  /\ Write("grown")
  /\ Len(sale) < MaxSales
  /\ sale' = Append(sale, [person |-> p, day |-> d, status |-> "approved"])
  /\ UNCHANGED <<media, capture, listed>>

Refund(s) ==
  /\ sale[s].status = "approved"
  /\ Write("rewritten")
  /\ sale' = [sale EXCEPT ![s].status = "refunded"]
  /\ UNCHANGED <<media, capture, listed>>

-----------------------------------------------------------------------------
(* The targets *)

Minded == ReadsOneOf({"targets", "config"}) /\ ~Answered

\* upsertConfig reads the row ...
Edit(e, fields) ==
  /\ Minded
  /\ editor[e].at = "idle"
  /\ writes < answer.writes /\ writes' = writes + 1
  /\ editor' = [editor EXCEPT ![e] = [at |-> "saving", loaded |-> config, fields |-> fields]]
  /\ UNCHANGED <<tables, config, sent, undone, answer, got, changed>>

\* Faulty variant: null keeps the key too.
LaidAlike(stored, fields) ==
  [stored |-> TRUE,
   target |-> IF fields.target \in {Absent, 0} THEN stored.target ELSE fields.target,
   key |-> IF fields.key \in {Absent, 0} THEN stored.key ELSE fields.key]

\* What is stored is laid under what is sent: a target is kept where null is
\* sent, a key is cleared.
Laid(stored, fields) ==
  [stored |-> TRUE,
   target |-> IF fields.target \in {Absent, 0} THEN stored.target ELSE fields.target,
   key |-> IF fields.key = Absent THEN stored.key ELSE fields.key]

\* ... and saves it whole; a first row fails where another came first.
Save(e) ==
  /\ Minded
  /\ editor[e].at = "saving"
  /\ editor' = [editor EXCEPT ![e] = Idle]
  /\ IF config.stored /\ ~editor[e].loaded.stored
     THEN UNCHANGED <<config, sent, undone>>
     ELSE /\ config' = Laid(editor[e].loaded, editor[e].fields)
          /\ sent' = [stored |-> TRUE,
               target |-> IF editor[e].fields.target \in {Absent, 0} THEN sent.target
                          ELSE editor[e].fields.target,
               key |-> IF editor[e].fields.key = Absent THEN sent.key ELSE editor[e].fields.key]
          /\ undone' = (undone \/ config # editor[e].loaded)
  /\ changed' = Changed("rewritten")
  /\ UNCHANGED <<tables, answer, got, writes>>

-----------------------------------------------------------------------------
(* The answer *)

\* A read of it ends; there is no notice where no target is stored.
Read(r) ==
  /\ Ready(r)
  /\ answer.kind = "notices" /\ r # "targets" => got["targets"].stored
  /\ got' = got @@ (r :> Found(r))
  /\ UNCHANGED <<tables, settings, answer, writes, changed>>

Next ==
  \/ \E a \in Ads, d \in Days : Fetch(a, d)
  \/ \E from, to \in Days : Clear(from, to)
  \/ \E new \in Arrivals : Register(new)
  \/ \E c \in Taken, ad \in Ads \cup {Absent}, organic \in BOOLEAN : Merge(c, ad, organic)
  \/ \E c \in Taken, positive \in 0..1 : Respond(c, positive)
  \/ RemoveVersion
  \/ \E p \in People \cup {Absent}, d \in Days : Sell(p, d)
  \/ \E s \in Sold : Refund(s)
  \/ \E e \in Editors : Save(e) \/ \E fields \in Fields : Edit(e, fields)
  \/ \E r \in Reads : Read(r)

Spec == Init /\ [][Next]_vars

-----------------------------------------------------------------------------
(* Properties *)

Sum(f, S) == MapThenSumSet(LAMBDA x : f[x], S)

\* Of some captures, two have one person and differ in what Of tells of them.
Twice(captures, Of(_)) ==
  \E c, e \in captures : /\ capture[c].of.person = capture[e].of.person
                         /\ capture[c].of.person # Absent /\ c # e /\ Of(c) # Of(e)

\* No more leads, responses and registrations are told than there are in the end.
NoMoreThanThere ==
  LET q == answer.query IN
  /\ Done("leads") => got["leads"] <= Leads(Captured(q, Resolved(q)))
  /\ Done("responses") => got["responses"] <= Responses(Replied(q, Resolved(q)))
  /\ Done("registrations") => got["registrations"] <= Cardinality(Registered(q))

\* Without figures there are no leads to divide them by.
SummaryAgrees ==
  /\ got["organic"] <= got["leads"]
  /\ answer.query.scope # Absent /\ got["media"] = 0 => got["leads"] = 0
  /\ got["sales"].revenue = got["sales"].sales \/ listed > 1

AwarenessAgrees(q, captures) ==
  /\ got["positive"] = Absent \/ got["positive"] <= got["responses"]
  /\ \/ got["responses"] <= got["answerLeads"]
     \/ q.ad # Absent \/ Twice(captures, LAMBDA c : c)
     \/ \E c \in captures : capture[c].of.person = Absent \/ capture[c].responses > 1

\* What days have adds up to what all have.
SeriesAgrees(q, captures) ==
  /\ Sum(got["mediaDays"], Days) = Cardinality(Figures(q))
  /\ Sum(got["saleDays"], Days) = Cardinality(Direct(q))
  /\ Sum(got["leadDays"], Days) >= Leads(captures)
  /\ \/ Sum(got["leadDays"], Days) = Leads(captures)
     \/ Twice(captures, LAMBDA c : capture[c].of.day)

\* What the ads shown have adds up to what was captured from them.
FunnelAgrees(q, ads) ==
  LET captures == {c \in Captured(q, Absent) : capture[c].of.ad \in ads} IN
  /\ Sum(got["leadAds"], ads) = Leads(captures) \/ Twice(captures, LAMBDA c : capture[c].of.ad)
  /\ \A a \in ads : got["saleAds"][a].revenue = got["saleAds"][a].sales
                     \/ Twice(OfAd(Taken, a), LAMBDA c : c)

\* The reads an answer is made of agree, unless something was stored between them: while
\* rows are only added no more is told than there is in the end, though figures are
\* removed, captures merged and responses removed before the first read.
\* Leads of days and of ads are more than those of all only where a person came
\* twice; revenue is more than sales only where the product is in the catalogue
\* twice, or for an ad its buyer came to twice; there are more responses than leads
\* only where a person responded twice or is not known, or one ad is asked for.
AnswersAgreeUnlessChanged ==
  LET q == answer.query
      kind == answer.kind
      captures == Captured(q, Resolved(q))
  IN /\ changed # "rewritten" => NoMoreThanThere
     /\ Answered /\ changed = "nothing" =>
          /\ kind \in {"summary", "explanations"} => SummaryAgrees
          /\ kind \in {"awareness", "health", "explanations"} => AwarenessAgrees(q, captures)
          /\ kind = "series" => SeriesAgrees(q, captures)
          /\ kind = "funnel" => FunnelAgrees(q, DOMAIN got["mediaAds"])
          /\ kind \in {"health", "explanations"} => got["leads"] = got["answerLeads"]
          /\ kind = "health" => got["targets"] = got["config"]
          /\ kind = "shares" =>
               got["shares"][1] + got["shares"][2] = Responses(Replied(q, Resolved(q)))
          /\ kind = "overview" /\ got["media"] = 0 => got["registrations"] = 0
          /\ kind = "table" =>
               Sum(got["registrationAds"], DOMAIN got["mediaAds"]) = Cardinality(Registered(q))

\* The targets and the keys of a launch are what was sent for them last, unless
\* two administrators saved at a time.
TargetsKeptUnlessUndone ==
  undone \/ (config.target = sent.target /\ config.key = sent.key)

=============================================================================
