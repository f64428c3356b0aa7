------------------------------- MODULE Voting -------------------------------
(***************************************************************************)
(* Voting campaigns, their categories and candidates, kept by              *)
(* administrators, and the votes of the public, each by a voter known by an*)
(* e-mail and a phone.                                                     *)
(*                                                                         *)
(* Every request reads the rows it needs, checks them and saves one row, in*)
(* statements of their own.  A save of a row that was read before loads it *)
(* once more and writes the columns that differ, so that two requests with *)
(* one row in hand can each write a part of it.                            *)
(***************************************************************************)
EXTENDS Integers, FiniteSets

CONSTANTS
  Campaigns, Categories, Candidates,  \* ids, a campaign named by its slug
  Emails, Phones,  \* normalised, as voters give them
  Clients,         \* requests in progress at a time
  Times,           \* what starts_at, ends_at and the clock may be
  MaxVoters,       \* bound: voters
  MaxRequests,     \* bound: requests
  Absent           \* no such row

VARIABLES
  campaign, category, candidate, voter, \* tables
  voters,          \* voters so far
  votes,           \* the set of votes
  client,          \* the request each client is in
  requests,
  crowded          \* rows two requests had in hand at a time

vars == <<campaign, category, candidate, voter, voters, votes, client, requests, crowded>>

Ids == 1..MaxVoters
Campaign == [starts : Times, ends : Times, open : BOOLEAN]
Candidate == [campaign : Campaigns, category : Categories, active : BOOLEAN]
Voter == [email : Emails, phone : Phones]
Vote == [campaign : Campaigns, candidate : Candidates, voter : Ids]

\* A request with a row in hand: what it wants it to be, and what it loaded
\* again when it saves.
EditCampaign == [op : {"campaign"}, key : Campaigns, want : Campaign, loaded : Campaign \cup {Absent}]
CastVote == [op : {"find", "voter", "vote"}, key : Ids \cup {0}, campaign : Campaigns,
             candidate : Candidates, want : Voter, loaded : Voter \cup {Absent}]
Idle == [op |-> "idle", key |-> 0]

TypeOK ==
  /\ campaign \in [Campaigns -> Campaign \cup {Absent}]
  /\ category \in [Categories -> [campaign : Campaigns, active : BOOLEAN] \cup {Absent}]
  /\ candidate \in [Candidates -> Candidate \cup {Absent}]
  /\ voters \in 0..MaxVoters
  /\ voter \in [Ids -> Voter \cup {Absent}]
  /\ votes \subseteq Vote
  /\ client \in [Clients -> EditCampaign \cup CastVote \cup {Idle}]
  /\ requests \in 0..MaxRequests
  /\ crowded \subseteq Campaigns \cup Ids
  \* what the unique indexes promise
  /\ \A i, j \in 1..voters :
       i # j => voter[i].email # voter[j].email /\ voter[i].phone # voter[j].phone

Start == CHOOSE t \in Times : \A u \in Times : t <= u
End == CHOOSE t \in Times : \A u \in Times : u <= t

\* A campaign with a category and a candidate is there, others are to come.
Init ==
  /\ LET c == CHOOSE c \in Campaigns : TRUE
         k == CHOOSE k \in Categories : TRUE
         n == CHOOSE n \in Candidates : TRUE IN
       /\ campaign = [d \in Campaigns |->
            IF d = c THEN [starts |-> Start, ends |-> End, open |-> TRUE] ELSE Absent]
       /\ category = [l \in Categories |->
            IF l = k THEN [campaign |-> c, active |-> TRUE] ELSE Absent]
       /\ candidate = [m \in Candidates |->
            IF m = n THEN [campaign |-> c, category |-> k, active |-> TRUE] ELSE Absent]
  /\ voter = [i \in Ids |-> Absent] /\ voters = 0
  /\ votes = {}
  /\ client = [a \in Clients |-> Idle]
  /\ requests = 0
  /\ crowded = {}

-----------------------------------------------------------------------------
Asked(a) == client[a] = Idle /\ requests < MaxRequests /\ requests' = requests + 1

Exists(row) == row # Absent

\* a takes a row in hand.
Crowd(a, key) ==
  crowded' = IF \E b \in Clients \ {a} : client[b].key = key /\ client[b].op # "find"
             THEN crowded \cup {key} ELSE crowded

Do(a, t) == client' = [client EXCEPT ![a] = t]

\* The row as the save leaves it: the columns that differ from what it loaded.
Written(row, loaded, want) ==
  [f \in DOMAIN row |-> IF want[f] # loaded[f] THEN want[f] ELSE row[f]]

-----------------------------------------------------------------------------
(* Administration *)

InOrder(c) == c.starts <= c.ends

CreateCampaign(a, c, row) ==
  /\ Asked(a)
  /\ ~Exists(campaign[c])
  /\ InOrder(row)
  /\ campaign' = [campaign EXCEPT ![c] = row]
  /\ UNCHANGED <<category, candidate, voter, voters, votes, client, crowded>>

\* A change of some columns: the row read, with those.
UpdateCampaign(a, c, want) ==
  /\ Asked(a)
  /\ Exists(campaign[c])
  /\ \E f \in DOMAIN want : \A g \in DOMAIN want \ {f} : want[g] = campaign[c][g]
  /\ InOrder(want)
  /\ Do(a, [op |-> "campaign", key |-> c, want |-> want, loaded |-> Absent])
  /\ Crowd(a, c)
  /\ UNCHANGED <<campaign, category, candidate, voter, voters, votes>>

LoadCampaign(a) ==
  /\ client[a] \in EditCampaign /\ client[a].loaded = Absent
  /\ Do(a, [client[a] EXCEPT !.loaded = campaign[client[a].key]])
  /\ UNCHANGED <<campaign, category, candidate, voter, voters, votes, requests, crowded>>

SaveCampaign(a) ==
  /\ client[a] \in EditCampaign /\ Exists(client[a].loaded)
  /\ LET t == client[a] IN
       campaign' = [campaign EXCEPT ![t.key] = Written(@, t.loaded, t.want)]
  /\ Do(a, Idle)
  /\ UNCHANGED <<category, candidate, voter, voters, votes, requests, crowded>>

\* createCategory and updateCategory
PutCategory(a, k, c, active) ==
  /\ Asked(a)
  /\ Exists(campaign[c])
  /\ Exists(category[k]) => category[k].campaign = c
  /\ category' = [category EXCEPT ![k] = [campaign |-> c, active |-> active]]
  /\ UNCHANGED <<campaign, candidate, voter, voters, votes, client, crowded>>

\* createCandidate and updateCandidate: the category must be of the campaign
\* chosen, which for a candidate that exists is its own.
PutCandidate(a, n, c, k, active) ==
  /\ Asked(a)
  /\ Exists(campaign[c]) /\ Exists(category[k])
  /\ category[k].campaign = c
  /\ Exists(candidate[n]) => candidate[n].campaign = c
  /\ candidate' = [candidate EXCEPT ![n] = [campaign |-> c, category |-> k, active |-> active]]
  /\ UNCHANGED <<campaign, category, voter, voters, votes, client, crowded>>

-----------------------------------------------------------------------------
(* Votes *)

\* registerVote: campaign and candidate are checked.
RegisterVote(a, c, n, now, want) ==
  /\ Asked(a)
  /\ Exists(campaign[c]) /\ campaign[c].open
  /\ campaign[c].starts <= now /\ now <= campaign[c].ends
  /\ Exists(candidate[n])
  /\ candidate[n].campaign = c
  /\ candidate[n].active /\ category[candidate[n].category].active
  /\ Do(a, [op |-> "find", key |-> 0, campaign |-> c, candidate |-> n, want |-> want,
            loaded |-> Absent])
  /\ UNCHANGED <<campaign, category, candidate, voter, voters, votes, crowded>>

With(want) ==
  {i \in 1..voters : voter[i].email = want.email \/ voter[i].phone = want.phone}

\* Nobody else has the e-mail or the phone: the unique indexes.
Free(i, row) ==
  \A j \in (1..voters) \ {i} : voter[j].email # row.email /\ voter[j].phone # row.phone

\* findOrCreateVoter: the voter with the e-mail or the phone; two of them end
\* the request.
FindVoter(a) ==
  /\ client[a] \in CastVote /\ client[a].op = "find"
  /\ LET t == client[a]
         found == With(t.want) IN
     \/ /\ Cardinality(found) > 1
        /\ Do(a, Idle) /\ UNCHANGED crowded
     \/ /\ found = {}
        /\ Do(a, [t EXCEPT !.op = "voter"]) /\ UNCHANGED crowded
     \/ /\ Cardinality(found) = 1
        /\ \E i \in found : Do(a, [t EXCEPT !.op = "voter", !.key = i]) /\ Crowd(a, i)
  /\ UNCHANGED <<campaign, category, candidate, voter, voters, votes, requests>>

CreateVoter(a) ==
  /\ client[a] \in CastVote /\ client[a].op = "voter" /\ client[a].key = 0
  /\ LET t == client[a] IN
       IF Free(0, t.want)
       THEN /\ voters < MaxVoters /\ voters' = voters + 1
            /\ voter' = [voter EXCEPT ![voters + 1] = t.want]
            /\ Do(a, [t EXCEPT !.op = "vote", !.key = voters + 1])
       ELSE Do(a, Idle) /\ UNCHANGED <<voter, voters>>
  /\ UNCHANGED <<campaign, category, candidate, votes, requests, crowded>>

LoadVoter(a) ==
  /\ client[a] \in CastVote /\ client[a].op = "voter" /\ client[a].key # 0
  /\ client[a].loaded = Absent
  /\ Do(a, [client[a] EXCEPT !.loaded = voter[client[a].key]])
  /\ UNCHANGED <<campaign, category, candidate, voter, voters, votes, requests, crowded>>

\* Faulty variant: a voter found by the e-mail keeps the phone.
NewFaceByEmail(i, want) ==
  IF voter[i].email = want.email THEN voter[i] ELSE want

\* What a voter is to be: what the vote says.
NewFace(i, want) == want

SaveVoter(a) ==
  /\ client[a] \in CastVote /\ client[a].op = "voter" /\ Exists(client[a].loaded)
  /\ LET t == client[a]
         row == Written(voter[t.key], t.loaded, NewFace(t.key, t.want)) IN
       IF Free(t.key, row)
       THEN /\ voter' = [voter EXCEPT ![t.key] = row]
            /\ Do(a, [t EXCEPT !.op = "vote", !.loaded = Absent])
       ELSE Do(a, Idle) /\ UNCHANGED voter
  /\ UNCHANGED <<campaign, category, candidate, voters, votes, requests, crowded>>

SaveVote(a) ==
  /\ client[a] \in CastVote /\ client[a].op = "vote"
  /\ LET t == client[a] IN
       votes' = votes \cup {[campaign |-> t.campaign, candidate |-> t.candidate, voter |-> t.key]}
  /\ Do(a, Idle)
  /\ UNCHANGED <<campaign, category, candidate, voter, voters, requests, crowded>>

-----------------------------------------------------------------------------
Next ==
  \E a \in Clients :
    \/ \E c \in Campaigns, row \in Campaign : CreateCampaign(a, c, row) \/ UpdateCampaign(a, c, row)
    \/ LoadCampaign(a) \/ SaveCampaign(a)
    \/ \E k \in Categories, c \in Campaigns, on \in BOOLEAN : PutCategory(a, k, c, on)
    \/ \E n \in Candidates, c \in Campaigns, k \in Categories, on \in BOOLEAN :
          PutCandidate(a, n, c, k, on)
    \/ \E c \in Campaigns, n \in Candidates, now \in Times, want \in Voter :
          RegisterVote(a, c, n, now, want)
    \/ FindVoter(a) \/ CreateVoter(a) \/ LoadVoter(a) \/ SaveVoter(a) \/ SaveVote(a)

-----------------------------------------------------------------------------
(* Properties *)

\* A vote is stored with a voter who has the e-mail and the phone given with
\* it, and a campaign does not start after its end, unless two requests had the voter
\* or the campaign in hand at a time; the votes of a campaign are the votes of
\* its candidates, whose categories are of the campaign.
SoundUnlessCrowded ==
  /\ \A a \in Clients : client[a].op = "vote" /\ client[a].key \notin crowded =>
        voter[client[a].key] = client[a].want
  /\ \A c \in Campaigns \ crowded : Exists(campaign[c]) => InOrder(campaign[c])
  /\ \A v \in votes : candidate[v.candidate].campaign = v.campaign
  /\ \A n \in Candidates : Exists(candidate[n]) =>
        category[candidate[n].category].campaign = candidate[n].campaign

=============================================================================
