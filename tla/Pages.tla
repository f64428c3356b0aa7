-------------------------------- MODULE Pages --------------------------------
(***************************************************************************)
(* The landing pages of launches, with their headlines and versions, and   *)
(* the launches and seasons they are tied to.                              *)
(*                                                                         *)
(* Pages, headlines and versions are named p1, h1, v1, ...: the highest    *)
(* number there is plus one, read in one statement and inserted in another *)
(* under unique indexes.  An update reads a page, checks it and saves it:  *)
(* the save loads the row once more and writes the columns that differ.    *)
(***************************************************************************)
EXTENDS Integers, FiniteSets, FiniteSetsExt

CONSTANTS
  Launches, Seasons,
  Forms,           \* a form version is told by the form it is of
  Clients,         \* requests in progress at a time
  MaxPages,        \* bound: pages
  MaxNumber,       \* bound: numbers given to what is created
  MaxRequests,     \* bound: requests
  Absent           \* no such row, no reference

VARIABLES
  page, pages,     \* the table of pages, and how many there have been
  items,           \* headlines and versions of each page
  season,          \* the launch of each season
  launches,        \* those there are
  client,          \* the request each client is in
  requests,
  crowded,         \* pages two updates had in hand at a time
  bereft,          \* pages whose launch was removed
  loose            \* pages given another launch alone, seasons given another launch

tables == <<page, pages, items, season, launches>>
ghosts == <<crowded, bereft, loose>>
vars == <<tables, client, requests, ghosts>>

PageIds == 1..MaxPages
Numbers == 1..MaxNumber
Kinds == {"headline", "version"}
Page == [number : Numbers, launch : Launches \cup {Absent}, season : Seasons \cup {Absent},
         form : Forms, version : Forms, active : BOOLEAN]
\* A headline has its place as its number, a version its version_number.
Item == [abbreviation : Numbers, number : Numbers]

Idle == [op |-> "idle"]
\* A request is alone until somebody changes the rows it goes by.
Creating == [op : {"page"}, want : Page, alone : BOOLEAN, numbered : BOOLEAN]
Updating == [op : {"update"}, page : PageIds, want : Page, loaded : Page \cup {Absent},
             at : {"read", "loaded"}, alone : BOOLEAN]
Adding == [op : {"item"}, kind : Kinds, page : PageIds, abbreviation : 0..MaxNumber,
           number : 0..MaxNumber, given : BOOLEAN, alone : BOOLEAN]
Refused == [op : {"refused"}, alone : BOOLEAN]

TypeOK ==
  /\ pages \in 0..MaxPages
  /\ page \in [PageIds -> Page \cup {Absent}]
  /\ \A p, q \in PageIds : page[p] # Absent /\ page[q] # Absent /\ p # q =>
       /\ page[p].number # page[q].number
       /\ page[p].active /\ page[q].active /\ page[p].launch # Absent => page[p].launch # page[q].launch
  /\ items \in [Kinds -> [PageIds -> SUBSET Item]]
  /\ season \in [Seasons -> Launches \cup {Absent}]
  /\ launches \subseteq Launches
  /\ client \in [Clients -> Creating \cup Updating \cup Adding \cup Refused \cup {Idle}]
  /\ requests \in 0..MaxRequests
  /\ crowded \subseteq PageIds /\ bereft \subseteq PageIds
  /\ loose \subseteq PageIds \cup Seasons

\* An active page; its first headline and its first version were removed.
Init ==
  /\ page = [p \in PageIds |->
       IF p = 1 THEN LET f == CHOOSE f \in Forms : TRUE IN
         [number |-> 1, launch |-> CHOOSE l \in Launches : TRUE, season |-> Absent, form |-> f,
          version |-> f, active |-> TRUE]
       ELSE Absent]
  /\ season = [s \in Seasons |-> CHOOSE l \in Launches : TRUE]
  /\ items = [k \in Kinds |-> [p \in PageIds |->
       IF p = 1 THEN {[abbreviation |-> 2, number |-> 2]} ELSE {}]]
  /\ pages = 1
  /\ launches = Launches
  /\ client = [a \in Clients |-> Idle]
  /\ requests = 0
  /\ crowded = {} /\ bereft = {} /\ loose = {}

-----------------------------------------------------------------------------
Exists(row) == row # Absent

Asked == requests < MaxRequests /\ requests' = requests + 1

Do(a, t) == client' = [client EXCEPT ![a] = t]

\* a is at t, and those whose rows changed are not alone any more.
DoAmong(a, t, Disturbed(_)) ==
  client' = [b \in Clients |->
    IF b = a THEN t
    ELSE IF Disturbed(client[b]) THEN [client[b] EXCEPT !.alone = FALSE] ELSE client[b]]

GoesByPages(t) == t.op \in {"page", "update", "item"}

\* Faulty variant: numbers are counted.
NextAfterCount(S) == Cardinality(S) + 1

\* nextGlobalAbbreviation, nextScopedAbbreviation, nextScopedNumber
NextAfter(S) == Max(S \cup {0}) + 1

Allowed(n) == n <= MaxNumber

\* assertLaunchSeasonConsistency
SeasonOfLaunch(row) ==
  Exists(row.launch) /\ Exists(row.season) /\ Exists(season[row.season]) =>
    season[row.season] = row.launch

\* assertFormVersionConsistency
VersionOfForm(row) == row.version = row.form

\* assertActivePageCanUseLaunch: the pages but p are asked for.
ActivePageCanUseLaunch(row, p) ==
  row.active =>
    /\ Exists(row.launch)
    /\ \A q \in PageIds \ {p} :
         ~(Exists(page[q]) /\ page[q].active /\ page[q].launch = row.launch)

\* Faulty variant: no index on the launches of active pages, only the check before.
AcceptedByNumber(row, p) ==
  /\ Exists(row.launch) => row.launch \in launches
  /\ \A q \in PageIds \ {p} : Exists(page[q]) => page[q].number # row.number

\* What the unique indexes and the foreign keys of the table of pages say.
Accepted(row, p) ==
  /\ Exists(row.launch) => row.launch \in launches
  /\ \A q \in PageIds \ {p} : Exists(page[q]) =>
       /\ page[q].number # row.number
       /\ ~(row.active /\ page[q].active /\ Exists(row.launch) /\ page[q].launch = row.launch)

References(row) == Exists(row.launch) => row.launch \in launches

-----------------------------------------------------------------------------
(* Pages *)

CreatePage(a, want) ==
  /\ client[a] = Idle /\ Asked
  /\ References(want)
  /\ SeasonOfLaunch(want) /\ VersionOfForm(want) /\ ActivePageCanUseLaunch(want, 0)
  /\ Do(a, [op |-> "page", want |-> want, alone |-> TRUE, numbered |-> FALSE])
  /\ UNCHANGED <<tables, ghosts>>

NumberPage(a) ==
  /\ client[a].op = "page" /\ ~client[a].numbered
  /\ LET n == NextAfter({page[p].number : p \in {q \in PageIds : Exists(page[q])}}) IN
       /\ Allowed(n)
       /\ Do(a, [client[a] EXCEPT !.want.number = n, !.numbered = TRUE])
  /\ UNCHANGED <<tables, requests, ghosts>>

\* With createHeadlines and createVersions, that number from 1: the model's
\* pages are created without any, except the first.
InsertPage(a) ==
  /\ client[a].op = "page" /\ client[a].numbered
  /\ LET t == client[a] IN
       IF Accepted(t.want, 0)
       THEN /\ pages < MaxPages /\ pages' = pages + 1
            /\ page' = [page EXCEPT ![pages + 1] = t.want]
            /\ DoAmong(a, Idle, GoesByPages)
       ELSE /\ Do(a, [op |-> "refused", alone |-> t.alone])
            /\ UNCHANGED <<page, pages>>
  /\ UNCHANGED <<items, season, launches, requests, ghosts>>

\* The form version is given: without it the check of the form version finds
\* none loaded and throws.  The launch of a season is known if it is given.
UpdatePage(a, p, want, seasonGiven) ==
  /\ client[a] = Idle /\ Asked
  /\ Exists(page[p])
  /\ want.number = page[p].number
  /\ References(want)
  /\ want.launch # page[p].launch => Exists(want.launch)
  /\ IF seasonGiven THEN Exists(want.season) /\ SeasonOfLaunch(want)
                    ELSE want.season = page[p].season
  /\ VersionOfForm(want) /\ ActivePageCanUseLaunch(want, p)
  /\ Do(a, [op |-> "update", page |-> p, want |-> want, loaded |-> Absent, at |-> "read",
            alone |-> TRUE])
  /\ crowded' = IF \E b \in Clients : client[b].op = "update" /\ client[b].page = p
                THEN crowded \cup {p} ELSE crowded
  /\ loose' = IF ~seasonGiven /\ want.launch # page[p].launch THEN loose \cup {p} ELSE loose
  /\ UNCHANGED <<tables, bereft>>

LoadPage(a) ==
  /\ client[a].op = "update" /\ client[a].at = "read"
  /\ Do(a, [client[a] EXCEPT !.loaded = page[client[a].page], !.at = "loaded"])
  /\ UNCHANGED <<tables, requests, ghosts>>

\* The row as the save leaves it; a page that is not there is inserted again.
Written(row, loaded, want) ==
  IF ~Exists(loaded) THEN want
  ELSE [f \in DOMAIN row |-> IF want[f] # loaded[f] THEN want[f] ELSE row[f]]

SavePage(a) ==
  /\ client[a].op = "update" /\ client[a].at = "loaded"
  /\ LET t == client[a] IN
       IF Exists(t.loaded) /\ ~Exists(page[t.page]) \* an UPDATE of no row
       THEN Do(a, Idle) /\ UNCHANGED page
       ELSE LET row == Written(page[t.page], t.loaded, t.want) IN
         IF (Exists(page[t.page]) => Exists(t.loaded)) /\ Accepted(row, t.page)
         THEN page' = [page EXCEPT ![t.page] = row] /\ DoAmong(a, Idle, GoesByPages)
         ELSE Do(a, [op |-> "refused", alone |-> t.alone]) /\ UNCHANGED page
  /\ UNCHANGED <<pages, items, season, launches, requests, ghosts>>

RemovePage(p) ==
  /\ Asked
  /\ Exists(page[p])
  /\ page' = [page EXCEPT ![p] = Absent]
  /\ items' = [k \in Kinds |-> [items[k] EXCEPT ![p] = {}]]
  /\ DoAmong(Absent, Idle, GoesByPages)
  /\ UNCHANGED <<pages, season, launches, ghosts>>

-----------------------------------------------------------------------------
(* Headlines and versions *)

\* createHeadline, createVersion; a headline may be given its place.
CreateItem(a, k, p, place) ==
  /\ client[a] = Idle /\ Asked
  /\ Exists(page[p])
  /\ k = "version" => place = 0
  /\ Do(a, [op |-> "item", kind |-> k, page |-> p, abbreviation |-> 0, number |-> place,
            given |-> place # 0, alone |-> TRUE])
  /\ UNCHANGED <<tables, ghosts>>

ReadAbbreviation(a) ==
  /\ client[a].op = "item" /\ client[a].abbreviation = 0
  /\ LET t == client[a]
         n == NextAfter({i.abbreviation : i \in items[t.kind][t.page]}) IN
       Allowed(n) /\ Do(a, [t EXCEPT !.abbreviation = n])
  /\ UNCHANGED <<tables, requests, ghosts>>

ReadNumber(a) ==
  /\ client[a].op = "item" /\ client[a].abbreviation # 0 /\ client[a].number = 0
  /\ LET t == client[a]
         n == NextAfter({i.number : i \in items[t.kind][t.page]}) IN
       Allowed(n) /\ Do(a, [t EXCEPT !.number = n])
  /\ UNCHANGED <<tables, requests, ghosts>>

ItemsChange(a, then, k, p, S) ==
  /\ items' = [items EXCEPT ![k][p] = S]
  /\ LET Disturbed(t) == t.op = "item" /\ t.kind = k /\ t.page = p IN DoAmong(a, then, Disturbed)

InsertItem(a) ==
  /\ client[a].op = "item" /\ client[a].abbreviation # 0 /\ client[a].number # 0
  /\ LET t == client[a]
         S == items[t.kind][t.page] IN
       IF /\ Exists(page[t.page])
          /\ \A i \in S : i.abbreviation # t.abbreviation /\ i.number # t.number
       THEN ItemsChange(a, Idle, t.kind, t.page,
              S \cup {[abbreviation |-> t.abbreviation, number |-> t.number]})
       ELSE Do(a, [op |-> "refused", alone |-> t.alone /\ ~t.given]) /\ UNCHANGED items
  /\ UNCHANGED <<page, pages, season, launches, requests, ghosts>>

\* updateHeadline: another place, unless it is taken.
UpdateHeadline(p, i, place) ==
  /\ Asked
  /\ i \in items["headline"][p]
  /\ place \notin {j.number : j \in items["headline"][p]}
  /\ ItemsChange(Absent, Idle, "headline", p,
       (items["headline"][p] \ {i}) \cup {[i EXCEPT !.number = place]})
  /\ UNCHANGED <<page, pages, season, launches, ghosts>>

\* removeHeadline, removeVersion
RemoveItem(k, p, i) ==
  /\ Asked
  /\ i \in items[k][p]
  /\ ItemsChange(Absent, Idle, k, p, items[k][p] \ {i})
  /\ UNCHANGED <<page, pages, season, launches, ghosts>>

-----------------------------------------------------------------------------
(* Launches and seasons *)

\* season.service update, of the launch
MoveSeason(s, l) ==
  /\ Asked
  /\ l \in launches
  /\ season' = [season EXCEPT ![s] = l]
  /\ loose' = loose \cup {s}
  /\ UNCHANGED <<page, pages, items, launches, client, crowded, bereft>>

\* launch.service remove: pages and seasons are left without.
RemoveLaunch(l) ==
  /\ Asked
  /\ l \in launches
  /\ launches' = launches \ {l}
  /\ page' = [p \in PageIds |->
       IF Exists(page[p]) /\ page[p].launch = l THEN [page[p] EXCEPT !.launch = Absent] ELSE page[p]]
  /\ season' = [s \in Seasons |-> IF season[s] = l THEN Absent ELSE season[s]]
  /\ bereft' = bereft \cup {p \in PageIds : Exists(page[p]) /\ page[p].launch = l}
  /\ DoAmong(Absent, Idle, GoesByPages)
  /\ UNCHANGED <<pages, items, crowded, loose>>

\* The refusal is answered.
Answer(a) ==
  /\ client[a].op = "refused"
  /\ Do(a, Idle)
  /\ UNCHANGED <<tables, requests, ghosts>>

-----------------------------------------------------------------------------
Next ==
  \/ \E a \in Clients :
       \/ \E want \in Page : want.number = 1 /\ CreatePage(a, want)
       \/ NumberPage(a) \/ InsertPage(a)
       \/ \E p \in PageIds, want \in Page, given \in BOOLEAN : UpdatePage(a, p, want, given)
       \/ LoadPage(a) \/ SavePage(a)
       \/ \E k \in Kinds, p \in PageIds, place \in 0..MaxNumber : CreateItem(a, k, p, place)
       \/ ReadAbbreviation(a) \/ ReadNumber(a) \/ InsertItem(a)
       \/ Answer(a)
  \/ \E p \in PageIds :
       \/ RemovePage(p)
       \/ \E k \in Kinds, i \in Item : RemoveItem(k, p, i)
       \/ \E i \in Item, place \in Numbers : UpdateHeadline(p, i, place)
  \/ \E s \in Seasons, l \in Launches : MoveSeason(s, l)
  \/ \E l \in Launches : RemoveLaunch(l)

-----------------------------------------------------------------------------
(* Properties *)

\* A page's form version is of its form unless two updates had it in hand at a
\* time, and an active page has a launch unless, besides, the launch was removed;
\* its season is of its launch unless, besides, one of them was given alone; and
\* a creation or an update that an index refuses had company: the numbers given
\* are free.
ConsistentUnlessRaced ==
  /\ \A p \in PageIds : Exists(page[p]) =>
       /\ p \notin crowded => VersionOfForm(page[p])
       /\ {p, page[p].season} \cap (crowded \cup loose) = {} => SeasonOfLaunch(page[p])
       /\ page[p].active /\ p \notin crowded \cup bereft => Exists(page[p].launch)
  /\ \A a \in Clients : client[a].op = "refused" => ~client[a].alone

=============================================================================
