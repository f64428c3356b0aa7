-------------------------- MODULE OAuthConnections --------------------------
(***************************************************************************)
(* Connections to Google Ads or to Meta Ads, made by the consent of a user,*)
(* and the advertising accounts a connection gives access to, of which     *)
(* users select those to extract.                                          *)
(*                                                                         *)
(* A request reads a connection, calls the provider and saves what it read:*)
(* every column, over what others saved in between.  A refresh of the      *)
(* accounts does the same with their rows, one after the other.            *)
(*                                                                         *)
(* One user of the provider is behind all connections; whoever consents is *)
(* a user of the application, or nobody that is logged in.                 *)
(***************************************************************************)
EXTENDS Integers, FiniteSets

CONSTANTS
  Owners, Nobody,  \* users of the application
  Accounts,        \* accounts at the provider
  Clients,         \* requests, and workers that use a connection
  MaxConnections,  \* bound: connections
  MaxRows,         \* bound: rows of accounts
  MaxRequests,     \* bound: requests
  MaxFaults,       \* bound: requests cut off
  Absent           \* no such row, no account

VARIABLES
  provider,        \* the provider of this behaviour
  connection, connections, \* the table, and how many there have been
  account, rows,   \* rows of accounts of each connection, and how many there have been
  client,          \* the request each client is in
  requests, faults,
  asked,           \* each connection as the requests done say
  chosen,          \* accounts selected, as the requests done say
  held,            \* connections two requests had in hand at a time
  listed,          \* the same of the accounts of a connection
  omitted,         \* accounts the provider left out of a list
  crowded          \* two consents made a connection at a time

tables == <<connection, connections, account, rows>>
ghosts == <<asked, chosen, held, listed, omitted, crowded>>
vars == <<provider, tables, client, requests, faults, ghosts>>

Google == "google_ads"
Meta == "meta_ads"
Ids == 1..MaxConnections

Connection == [owner : Owners \cup {Nobody}, active : BOOLEAN, access : BOOLEAN,
               refresh : BOOLEAN, account : Accounts \cup {Absent}]
Account == [id : 1..MaxRows, selected : BOOLEAN, restricted : BOOLEAN]

Idle == [op |-> "idle", at |-> "idle", c |-> 0, row |-> Absent, fields |-> {},
         x |-> Absent, copies |-> [y \in Accounts |-> Absent], todo |-> {}, gone |-> {},
         barred |-> {}]

TypeOK ==
  /\ provider \in {Google, Meta}
  /\ connections \in 0..MaxConnections /\ rows \in 0..MaxRows
  /\ connection \in [Ids -> Connection \cup {Absent}]
  /\ account \in [Ids -> [Accounts -> Account \cup {Absent}]]
  /\ client \in [Clients ->
       [op : {"idle", "consent", "use", "select", "disconnect", "refresh", "choose"},
        at : {"idle", "find", "renew", "save", "read", "rows", "row"},
        c : 0..MaxConnections, row : Connection \cup {Absent},
        fields : SUBSET {"active", "account"}, x : Accounts \cup {Absent},
        copies : [Accounts -> Account \cup {Absent}], todo : SUBSET Accounts,
        gone : SUBSET Accounts, barred : SUBSET Accounts]]
  /\ requests \in 0..MaxRequests /\ faults \in 0..MaxFaults
  /\ asked \in [Ids -> [active : BOOLEAN, account : Accounts \cup {Absent}]]
  /\ chosen \in [Ids -> SUBSET Accounts]
  /\ held \subseteq Ids /\ listed \subseteq Ids
  /\ omitted \in [Ids -> SUBSET Accounts] /\ crowded \in BOOLEAN
  \* Meta gives no refresh tokens
  /\ provider = Meta => \A c \in Ids : connection[c] # Absent => ~connection[c].refresh

\* There is a connection, and its accounts were listed.
Init ==
  /\ provider \in {Google, Meta}
  /\ \E owner \in Owners \cup {Nobody} :
       connection = [c \in Ids |-> IF c = 1
         THEN [owner |-> owner, active |-> TRUE, access |-> TRUE, refresh |-> provider = Google,
               account |-> Absent]
         ELSE Absent]
  /\ connections = 1
  /\ LET Numbered(id) == \A x, y \in Accounts : x # y => id[x] # id[y]
         id == CHOOSE n \in [Accounts -> 1..Cardinality(Accounts)] : Numbered(n) IN
       account = [c \in Ids |-> [x \in Accounts |->
         IF c = 1 THEN [id |-> id[x], selected |-> FALSE, restricted |-> FALSE] ELSE Absent]]
  /\ rows = Cardinality(Accounts)
  /\ client = [a \in Clients |-> Idle]
  /\ requests = 0 /\ faults = 0
  /\ asked = [c \in Ids |-> [active |-> c = 1, account |-> Absent]]
  /\ chosen = [c \in Ids |-> {}]
  /\ held = {} /\ listed = {}
  /\ omitted = [c \in Ids |-> {}] /\ crowded = FALSE

-----------------------------------------------------------------------------
Exists(row) == row # Absent
Asked == requests < MaxRequests /\ requests' = requests + 1
Do(a, t) == client' = [client EXCEPT ![a] = t]

\* Clients that hold a copy of connection c, and of rows of its accounts.
HasConnection(b, c) == client[b].c = c /\ client[b].at \in {"save", "renew"}
HasRows(b, c) == client[b].c = c /\ client[b].at \in {"rows", "row"}

Hold(a, c) ==
  held' = IF \E b \in Clients \ {a} : HasConnection(b, c) THEN held \cup {c} ELSE held
HoldRows(a, c) ==
  listed' = IF \E b \in Clients \ {a} : HasRows(b, c) THEN listed \cup {c} ELSE listed

-----------------------------------------------------------------------------
(* Consent *)

\* handleCallback, after the provider exchanged the code, which it does once.
HandleCallback(a, owner) ==
  /\ client[a] = Idle /\ Asked
  /\ Do(a, [Idle EXCEPT !.op = "consent", !.at = "find",
       !.row = [owner |-> owner, active |-> TRUE, access |-> TRUE,
                refresh |-> provider = Google, account |-> Absent]])
  /\ UNCHANGED <<provider, tables, faults, ghosts>>

\* Faulty variant: a connection that was disconnected is not taken again.
FoundActive(owner) ==
  {c \in Ids : /\ Exists(connection[c]) /\ connection[c].active
               /\ owner \in {Nobody, connection[c].owner}}

\* Without a user, the search is for the connection of any.
Found(owner) ==
  {c \in Ids : Exists(connection[c]) /\ owner \in {Nobody, connection[c].owner}}

FindConnection(a) ==
  /\ client[a].at = "find"
  /\ LET t == client[a]
         S == Found(t.row.owner) IN
       IF S = {}
       THEN /\ Do(a, [t EXCEPT !.at = "save", !.fields = {"active", "account"}])
            /\ crowded' = (crowded \/ \E b \in Clients : client[b].at = "save" /\ client[b].c = 0)
            /\ UNCHANGED held
       ELSE /\ \E c \in S :
                 /\ Do(a, [t EXCEPT !.at = "save", !.c = c, !.fields = {"active"},
                      !.row = [connection[c] EXCEPT !.active = TRUE, !.access = TRUE,
                                                    !.refresh = t.row.refresh]])
                 /\ Hold(a, c)
            /\ UNCHANGED crowded
  /\ UNCHANGED <<provider, tables, requests, faults, asked, chosen, listed, omitted>>

-----------------------------------------------------------------------------
(* Requests that go by a token: extraction, selectAccount, a refresh of the *)
(* accounts                                                                 *)

After(op) == IF op = "select" THEN "save" ELSE "read"

\* getUsableAccessToken: the token saved is good, or Google renews it.
TakeToken(a, op, c, x) ==
  /\ client[a] = Idle /\ Asked
  /\ op = "select" <=> Exists(x)
  /\ Exists(connection[c])
  /\ LET row == connection[c]
         t == [Idle EXCEPT !.op = op, !.c = c, !.row = row, !.x = x] IN
       \/ /\ row.access /\ op # "use"
          /\ Do(a, IF op = "select"
                   THEN [t EXCEPT !.at = "save", !.row.account = x, !.fields = {"account"}]
                   ELSE [t EXCEPT !.at = "read"])
          /\ IF op = "select" THEN Hold(a, c) ELSE UNCHANGED held
       \/ /\ row.refresh
          /\ Do(a, [t EXCEPT !.at = "renew", !.row.access = TRUE])
          /\ Hold(a, c)
  /\ UNCHANGED <<provider, tables, faults, asked, chosen, listed, omitted, crowded>>

\* The renewed token is saved with all of the copy.
Renew(a) ==
  /\ client[a].at = "renew"
  /\ LET t == client[a] IN
       /\ connection' = [connection EXCEPT ![t.c] = t.row]
       /\ Do(a, CASE t.op = "use" -> Idle
                  [] t.op = "select" -> [t EXCEPT !.at = "save", !.row.account = t.x,
                                                  !.fields = {"account"}]
                  [] t.op = "refresh" -> [t EXCEPT !.at = "read"])
  /\ UNCHANGED <<provider, connections, account, rows, requests, faults, ghosts>>

\* Faulty variant: the tokens stay.
ClearedOfAccount(row) == [row EXCEPT !.active = FALSE, !.account = Absent]

Cleared(row) ==
  [row EXCEPT !.active = FALSE, !.access = FALSE, !.refresh = FALSE, !.account = Absent]

Disconnect(a, c) ==
  /\ client[a] = Idle /\ Asked
  /\ Exists(connection[c])
  /\ Do(a, [Idle EXCEPT !.op = "disconnect", !.at = "save", !.c = c,
       !.row = Cleared(connection[c]), !.fields = {"active", "account"}])
  /\ Hold(a, c)
  /\ UNCHANGED <<provider, tables, faults, asked, chosen, listed, omitted, crowded>>

\* A save, or an insert.
SaveConnection(a) ==
  /\ client[a].at = "save"
  /\ LET t == client[a]
         c == IF t.c = 0 THEN connections + 1 ELSE t.c IN
       /\ c \in Ids
       /\ connections' = IF t.c = 0 THEN c ELSE connections
       /\ connection' = [connection EXCEPT ![c] = t.row]
       /\ asked' = [asked EXCEPT ![c] =
            [f \in DOMAIN @ |-> IF f \in t.fields THEN t.row[f] ELSE @[f]]]
  /\ Do(a, Idle)
  /\ UNCHANGED <<provider, account, rows, requests, faults, chosen, held, listed, omitted, crowded>>

-----------------------------------------------------------------------------
(* The accounts of a connection *)

\* With all its rows done, the request is.
Left(t) == IF t.todo = {} /\ t.gone = {} THEN Idle ELSE t

\* refreshAccountsForConnection: the provider has listed its accounts.  Meta's
\* list lacks those it failed to list; Google says which are barred.
ReadAccounts(a, L, B) ==
  /\ client[a].at = "read"
  /\ B \subseteq L
  /\ IF provider = Google THEN L = Accounts ELSE B = {}
  /\ LET t == client[a] IN
       /\ Do(a, Left([t EXCEPT !.at = "rows", !.copies = account[t.c], !.todo = L, !.barred = B,
            !.gone = {x \in Accounts \ L : Exists(account[t.c][x])}]))
       /\ omitted' = [omitted EXCEPT ![t.c] = @ \cup (Accounts \ L)]
       /\ HoldRows(a, t.c)
  /\ UNCHANGED <<provider, tables, requests, faults, asked, chosen, held, crowded>>

\* A row that is gone is inserted again; another in its place is in the way.
Fits(c, x, row) == Exists(account[c][x]) => account[c][x].id = row.id

Put(c, x, row) == account' = [account EXCEPT ![c][x] = row]

SaveAccount(a, x) ==
  /\ client[a].at = "rows" /\ x \in client[a].todo
  /\ LET t == client[a]
         old == t.copies[x]
         row == IF Exists(old) THEN [old EXCEPT !.restricted = x \in t.barred]
                ELSE [id |-> rows + 1, selected |-> FALSE, restricted |-> x \in t.barred] IN
       IF Fits(t.c, x, row)
       THEN /\ row.id <= MaxRows
            /\ rows' = IF Exists(old) THEN rows ELSE rows + 1
            /\ Put(t.c, x, row)
            /\ Do(a, Left([t EXCEPT !.todo = @ \ {x}]))
       ELSE Do(a, Idle) /\ UNCHANGED <<rows, account>>
  /\ UNCHANGED <<provider, connection, connections, requests, faults, ghosts>>

\* Those not on the list are removed.
RemoveAccount(a, x) ==
  /\ client[a].at = "rows" /\ client[a].todo = {} /\ x \in client[a].gone
  /\ LET t == client[a] IN
       /\ IF Fits(t.c, x, t.copies[x]) THEN Put(t.c, x, Absent) ELSE UNCHANGED account
       /\ Do(a, Left([t EXCEPT !.gone = @ \ {x}]))
  /\ UNCHANGED <<provider, connection, connections, rows, requests, faults, ghosts>>

\* setAccountSelection
SetSelection(a, c, x, selected) ==
  /\ client[a] = Idle /\ Asked
  /\ Exists(account[c][x])
  /\ ~(selected /\ account[c][x].restricted)
  /\ Do(a, [Idle EXCEPT !.op = "choose", !.at = "row", !.c = c, !.x = x,
       !.copies = [Idle.copies EXCEPT ![x] = [account[c][x] EXCEPT !.selected = selected]]])
  /\ HoldRows(a, c)
  /\ UNCHANGED <<provider, tables, faults, asked, chosen, held, omitted, crowded>>

SaveSelection(a) ==
  /\ client[a].at = "row"
  /\ LET t == client[a]
         row == t.copies[t.x] IN
       IF Fits(t.c, t.x, row)
       THEN /\ Put(t.c, t.x, row)
            /\ chosen' = [chosen EXCEPT ![t.c] = IF row.selected THEN @ \cup {t.x} ELSE @ \ {t.x}]
       ELSE UNCHANGED <<account, chosen>>
  /\ Do(a, Idle)
  /\ UNCHANGED <<provider, connection, connections, rows, requests, faults, asked, held, listed,
                 omitted, crowded>>

-----------------------------------------------------------------------------
\* The provider or a statement fails, or the process dies.
CutOff(a) ==
  /\ client[a] # Idle
  /\ faults < MaxFaults /\ faults' = faults + 1
  /\ Do(a, Idle)
  /\ UNCHANGED <<provider, tables, requests, ghosts>>

Next ==
  \E a \in Clients :
    \/ \E o \in Owners \cup {Nobody} : HandleCallback(a, o)
    \/ FindConnection(a) \/ Renew(a) \/ SaveConnection(a) \/ CutOff(a)
    \/ \E c \in Ids :
         \/ Disconnect(a, c)
         \/ \E op \in {"use", "select", "refresh"}, x \in Accounts \cup {Absent} :
              TakeToken(a, op, c, x)
         \/ \E x \in Accounts, b \in BOOLEAN : SetSelection(a, c, x, b)
    \/ \E L, B \in SUBSET Accounts : ReadAccounts(a, L, B)
    \/ \E x \in Accounts : SaveAccount(a, x) \/ RemoveAccount(a, x)
    \/ SaveSelection(a)

-----------------------------------------------------------------------------
(* Properties *)

\* Unless two requests had a connection in hand at a time, it is active and has
\* the account that was asked for, and one that is not active has no token and no
\* account.  A user has one connection, unless two consents overlapped.  Unless
\* two requests had its accounts in hand, those selected are those users
\* selected, but for accounts the provider left out of a list: with Google, none.
ConnectionsHoldUnlessHeld ==
  /\ \A c \in Ids \ held : Exists(connection[c]) =>
       LET row == connection[c] IN
         /\ row.active = asked[c].active /\ row.account = asked[c].account
         /\ ~row.active => ~row.access /\ ~row.refresh /\ row.account = Absent
  /\ crowded \/ \A c, d \in Ids : c # d /\ Exists(connection[c]) /\ Exists(connection[d]) =>
       connection[c].owner # connection[d].owner
  /\ \A c \in Ids \ listed, x \in Accounts :
       LET selected == Exists(account[c][x]) /\ account[c][x].selected IN
         /\ selected => x \in chosen[c]
         /\ x \in chosen[c] => selected \/ (provider = Meta /\ x \in omitted[c])

=============================================================================
