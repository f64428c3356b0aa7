---------------------------- MODULE UserAccounts ----------------------------
(***************************************************************************)
(* The users with their roles, their sessions, which are refresh tokens,   *)
(* and the tokens to reset a password.                                     *)
(*                                                                         *)
(* A request reads a user, works (a hash of a password takes a good part of*)
(* a second) and saves it: every column, and the roles if they were read,  *)
(* over what others saved in between.  Even a login does, for the time of  *)
(* the last login.  Tokens are spent, revoked and issued by statements of  *)
(* their own.                                                              *)
(***************************************************************************)
EXTENDS Integers, FiniteSets, Sequences

CONSTANTS
  Users,           \* e-mail addresses
  Roles, SuperAdmin,
  Clients,         \* requests in progress at a time
  MaxPassword,     \* bound: passwords
  MaxTokens,       \* bound: refresh tokens
  MaxResets,       \* bound: reset tokens
  MaxRequests,     \* bound: requests
  MaxFaults,       \* bound: requests cut off
  Absent           \* no such row

VARIABLES
  user,            \* the table of users
  role,            \* the roles there are
  passwords,       \* passwords so far
  session, issued, \* refresh tokens that are live, and how many were issued
  reset, resets,   \* reset tokens of each user that are live, and how many were made
  client,          \* the request each client is in
  requests, faults,
  asked,           \* each user as the requests done say
  raced,           \* users two requests had in hand at a time
  unrevoked        \* users whose password changed and whose sessions stayed

tables == <<user, role, passwords, session, issued, reset, resets>>
ghosts == <<asked, raced, unrevoked>>
vars == <<tables, client, requests, faults, ghosts>>

Row == [password : 1..MaxPassword, active : BOOLEAN, deleted : BOOLEAN,
        roles : SUBSET (Roles \cup {SuperAdmin})]
TokenIds == 1..MaxTokens
\* A refresh token goes back to a login with that password.
Token == [user : Users, password : 1..MaxPassword]
Fields == DOMAIN CHOOSE r \in Row : TRUE

Idle == [op |-> "idle", at |-> "idle", user |-> Absent, row |-> Absent, fields |-> {},
         token |-> 0]
\* What comes after the row is read, and after each step.
Steps == [login |-> <<"save", "issue">>, refresh |-> <<"spend", "issue">>,
          forgot |-> <<"clear", "make">>, reset |-> <<"save", "use", "revoke">>,
          change |-> <<"save", "revoke">>, edit |-> <<"save">>,
          create |-> <<"save">>, bootstrap |-> <<"save">>]
At == {"save", "issue", "spend", "clear", "make", "use", "revoke"}

TypeOK ==
  /\ user \in [Users -> Row \cup {Absent}]
  /\ role \subseteq Roles \cup {SuperAdmin}
  /\ passwords \in 1..MaxPassword
  /\ issued \in 0..MaxTokens /\ resets \in 0..MaxResets
  /\ session \in [TokenIds -> Token \cup {Absent}]
  /\ reset \in [Users -> SUBSET (1..MaxResets)]
  /\ client \in [Clients -> {Idle} \cup
       [op : DOMAIN Steps, at : At, user : Users, row : Row, fields : SUBSET Fields,
        token : Nat]]
  /\ requests \in 0..MaxRequests /\ faults \in 0..MaxFaults
  /\ asked \in [Users -> Row \cup {Absent}]
  /\ raced \subseteq Users /\ unrevoked \subseteq Users
  \* the foreign keys
  /\ \A u \in Users : user[u] # Absent => user[u].roles \subseteq role
  /\ \A u \in Users : user[u] = Absent => reset[u] = {}
  /\ \A t \in TokenIds : session[t] # Absent => user[session[t].user] # Absent

\* One user, who is logged in.
Init ==
  \E u \in Users :
    /\ u = CHOOSE v \in Users : TRUE
    /\ user = [v \in Users |->
         IF v = u THEN [password |-> 1, active |-> TRUE, deleted |-> FALSE, roles |-> Roles]
         ELSE Absent]
    /\ session = [t \in TokenIds |-> IF t = 1 THEN [user |-> u, password |-> 1] ELSE Absent]
    /\ asked = user
    /\ role = Roles \cup {SuperAdmin}
    /\ passwords = 1 /\ issued = 1 /\ resets = 0
    /\ reset = [v \in Users |-> {}]
    /\ client = [a \in Clients |-> Idle]
    /\ requests = 0 /\ faults = 0
    /\ raced = {} /\ unrevoked = {}

-----------------------------------------------------------------------------
Asked == requests < MaxRequests /\ requests' = requests + 1
Exists(row) == row # Absent
Present(u) == Exists(user[u]) /\ ~user[u].deleted
Held == {client[a].user : a \in Clients} \ {Absent}

\* The request is at its first step, with what it will save and which fields
\* of it were asked for.
Take(a, op, u, row, fields, token) ==
  /\ client[a] = Idle /\ Asked
  /\ client' = [client EXCEPT ![a] =
       [op |-> op, at |-> Steps[op][1], user |-> u, row |-> row, fields |-> fields,
        token |-> token]]
  /\ raced' = raced \cup ({u} \cap Held)

\* The step after that.
GoOn(a) ==
  client' = [client EXCEPT ![a] =
    LET s == Steps[@.op]
        later == {i \in 2..Len(s) : s[i - 1] = @.at} IN
      IF later = {} THEN Idle ELSE [@ EXCEPT !.at = s[CHOOSE i \in later : TRUE]]]

NewPassword == passwords < MaxPassword /\ passwords' = passwords + 1

-----------------------------------------------------------------------------
(* Requests that take a user in hand *)

\* login, with the password of the row
Login(a, u) ==
  /\ Present(u) /\ user[u].active
  /\ Take(a, "login", u, user[u], {}, 0)
  /\ UNCHANGED <<tables, faults, asked, unrevoked>>

\* refresh: what it issues goes back to the same login.
Refresh(a, t) ==
  /\ Exists(session[t])
  /\ LET u == session[t].user IN
       /\ Present(u) /\ user[u].active
       /\ Take(a, "refresh", u, [user[u] EXCEPT !.password = session[t].password], {}, t)
  /\ UNCHANGED <<tables, faults, asked, unrevoked>>

\* forgotPassword, and forcePasswordReset for a user who need not be active
ForgotPassword(a, u, forced) ==
  /\ Present(u) /\ (user[u].active \/ forced)
  /\ Take(a, "forgot", u, user[u], {}, 0)
  /\ UNCHANGED <<tables, faults, asked, unrevoked>>

\* resetPassword
ResetPassword(a, u, r) ==
  /\ r \in reset[u] /\ Present(u)
  /\ NewPassword
  /\ Take(a, "reset", u, [user[u] EXCEPT !.password = passwords'], {"password"}, r)
  /\ UNCHANGED <<user, role, session, issued, reset, resets, faults, asked, unrevoked>>

\* changePassword, by a user who is let in
ChangePassword(a, u) ==
  /\ Present(u) /\ user[u].active
  /\ NewPassword
  /\ Take(a, "change", u, [user[u] EXCEPT !.password = passwords'], {"password"}, 0)
  /\ UNCHANGED <<user, role, session, issued, reset, resets, faults, asked, unrevoked>>

\* users.service update and setActive; the e-mail, which update may change, is left out
SetActive(a, u, active) ==
  /\ Present(u)
  /\ Take(a, "edit", u, [user[u] EXCEPT !.active = active], {"active"}, 0)
  /\ UNCHANGED <<tables, faults, asked, unrevoked>>

\* users.service setRoles
SetRoles(a, u, R) ==
  /\ Present(u) /\ R \subseteq role
  /\ Take(a, "edit", u, [user[u] EXCEPT !.roles = R], {"roles"}, 0)
  /\ UNCHANGED <<tables, faults, asked, unrevoked>>

Fresh(R) == [password |-> passwords', active |-> TRUE, deleted |-> FALSE, roles |-> R]

\* users.service create: the address is free, of removed users too.
Create(a, u, R) ==
  /\ ~Exists(user[u]) /\ R \subseteq role
  /\ NewPassword
  /\ Take(a, "create", u, Fresh(R), Fields, 0)
  /\ UNCHANGED <<user, role, session, issued, reset, resets, faults, asked, unrevoked>>

\* bootstrap, within a transaction that waits for another on the permissions:
\* no other user is a super admin.
Bootstrap(a, u) ==
  /\ \A b \in Clients : client[b].op # "bootstrap"
  /\ \A v \in Users \ {u} : Present(v) => SuperAdmin \notin user[v].roles
  /\ ~Exists(user[u]) \/ Present(u) \* a removed one's address is taken
  /\ NewPassword
  /\ LET R == IF Exists(user[u]) THEN user[u].roles ELSE {} IN
       Take(a, "bootstrap", u, Fresh(R \cup {SuperAdmin}),
            IF Exists(user[u]) THEN {"password", "active", "roles"} ELSE Fields, 0)
  /\ UNCHANGED <<user, role, session, issued, reset, resets, faults, asked, unrevoked>>

-----------------------------------------------------------------------------
(* Their steps *)

In(a, step) == client[a].at = step

\* resetPassword and changePassword read no roles: the save leaves them.
Saved(t) ==
  IF t.op \in {"reset", "change"} THEN [t.row EXCEPT !.roles = user[t.user].roles] ELSE t.row

\* Faulty variant: a role removed meanwhile is given all the same.
AcceptedStale(t) == t.fields = Fields => ~Exists(user[t.user])

\* An insert needs the address free, and the roles must be there still.
Accepted(t) ==
  /\ t.fields = Fields => ~Exists(user[t.user])
  /\ Saved(t).roles \subseteq role

Save(a) ==
  /\ In(a, "save")
  /\ LET t == client[a] IN
       IF Accepted(t)
       THEN /\ user' = [user EXCEPT ![t.user] = Saved(t)]
            /\ asked' = [asked EXCEPT ![t.user] =
                 IF Exists(@) THEN [f \in Fields |-> IF f \in t.fields THEN t.row[f] ELSE @[f]]
                 ELSE t.row]
            /\ unrevoked' = IF t.op = "bootstrap" THEN unrevoked \cup {t.user} ELSE unrevoked
            /\ GoOn(a)
       ELSE /\ client' = [client EXCEPT ![a] = Idle]
            /\ UNCHANGED <<user, asked, unrevoked>>
  /\ UNCHANGED <<role, passwords, session, issued, reset, resets, requests, faults, raced>>

\* refresh revokes the token it goes by.
Spend(a) ==
  /\ In(a, "spend")
  /\ session' = [session EXCEPT ![client[a].token] = Absent]
  /\ GoOn(a)
  /\ UNCHANGED <<user, role, passwords, issued, reset, resets, requests, faults, ghosts>>

\* issueTokens
Issue(a) ==
  /\ In(a, "issue")
  /\ issued < MaxTokens /\ issued' = issued + 1
  /\ session' = [session EXCEPT ![issued + 1] =
       [user |-> client[a].user, password |-> client[a].row.password]]
  /\ GoOn(a)
  /\ UNCHANGED <<user, role, passwords, reset, resets, requests, faults, ghosts>>

\* createPasswordResetToken, first the others are used up ...
Clear(a) ==
  /\ In(a, "clear")
  /\ reset' = [reset EXCEPT ![client[a].user] = {}]
  /\ GoOn(a)
  /\ UNCHANGED <<user, role, passwords, session, issued, resets, requests, faults, ghosts>>

\* ... and then there is a new one.
Make(a) ==
  /\ In(a, "make")
  /\ resets < MaxResets /\ resets' = resets + 1
  /\ reset' = [reset EXCEPT ![client[a].user] = @ \cup {resets + 1}]
  /\ GoOn(a)
  /\ UNCHANGED <<user, role, passwords, session, issued, requests, faults, ghosts>>

Use(a) ==
  /\ In(a, "use")
  /\ reset' = [reset EXCEPT ![client[a].user] = @ \ {client[a].token}]
  /\ GoOn(a)
  /\ UNCHANGED <<user, role, passwords, session, issued, resets, requests, faults, ghosts>>

\* Faulty variant: one session is left.
RevokedButOne(u) ==
  [t \in TokenIds |->
     IF Exists(session[t]) /\ session[t].user = u
          /\ \E s \in TokenIds : s > t /\ Exists(session[s]) /\ session[s].user = u
     THEN Absent ELSE session[t]]

\* revokeUserRefreshTokens
Revoked(u) ==
  [t \in TokenIds |-> IF Exists(session[t]) /\ session[t].user = u THEN Absent ELSE session[t]]

Revoke(a) ==
  /\ In(a, "revoke")
  /\ session' = Revoked(client[a].user)
  /\ GoOn(a)
  /\ UNCHANGED <<user, role, passwords, issued, reset, resets, requests, faults, ghosts>>

\* A statement fails or the process dies.
CutOff(a) ==
  /\ client[a] # Idle
  /\ faults < MaxFaults /\ faults' = faults + 1
  /\ client' = [client EXCEPT ![a] = Idle]
  /\ unrevoked' = IF client[a].at \in {"use", "revoke"} THEN unrevoked \cup {client[a].user}
                  ELSE unrevoked
  /\ UNCHANGED <<tables, requests, asked, raced>>

-----------------------------------------------------------------------------
(* Requests of one statement *)

\* logout: the token is read and saved as revoked.
Logout(t) ==
  /\ Asked
  /\ Exists(session[t])
  /\ session' = [session EXCEPT ![t] = Absent]
  /\ UNCHANGED <<user, role, passwords, issued, reset, resets, client, faults, ghosts>>

\* logoutByAccessToken
LogoutByAccessToken(u) ==
  /\ Asked
  /\ Exists(user[u])
  /\ session' = Revoked(u)
  /\ UNCHANGED <<user, role, passwords, issued, reset, resets, client, faults, ghosts>>

\* users.service remove
Remove(u) ==
  /\ Asked
  /\ Present(u)
  /\ user' = [user EXCEPT ![u].deleted = TRUE]
  /\ asked' = [asked EXCEPT ![u].deleted = TRUE]
  /\ raced' = raced \cup ({u} \cap Held)
  /\ UNCHANGED <<role, passwords, session, issued, reset, resets, client, faults, unrevoked>>

\* roles.service remove: the users have it no more.
RemoveRole(r) ==
  /\ Asked
  /\ r \in role \ {SuperAdmin} /\ role' = role \ {r}
  /\ LET Without(table) ==
           [u \in Users |-> IF Exists(table[u]) THEN [table[u] EXCEPT !.roles = @ \ {r}] ELSE Absent]
     IN user' = Without(user) /\ asked' = Without(asked)
  /\ raced' = raced \cup Held
  /\ UNCHANGED <<passwords, session, issued, reset, resets, client, faults, unrevoked>>

-----------------------------------------------------------------------------
Next ==
  \/ \E a \in Clients :
       \/ \E u \in Users :
            \/ Login(a, u) \/ ChangePassword(a, u) \/ Bootstrap(a, u)
            \/ \E b \in BOOLEAN : ForgotPassword(a, u, b) \/ SetActive(a, u, b)
            \/ \E r \in 1..MaxResets : ResetPassword(a, u, r)
            \/ \E R \in SUBSET (Roles \cup {SuperAdmin}) : SetRoles(a, u, R) \/ Create(a, u, R)
       \/ \E t \in TokenIds : Refresh(a, t)
       \/ Save(a) \/ Spend(a) \/ Issue(a) \/ Clear(a) \/ Make(a) \/ Use(a) \/ Revoke(a)
       \/ CutOff(a)
  \/ \E t \in TokenIds : Logout(t)
  \/ \E u \in Users : LogoutByAccessToken(u) \/ Remove(u)
  \/ \E r \in Roles : RemoveRole(r)

-----------------------------------------------------------------------------
(* Properties *)

Revoking(u) == \E a \in Clients : client[a].user = u /\ client[a].at \in {"use", "revoke"}

\* Unless two requests had a user in hand at a time: the row says what was asked
\* for; its sessions go back to the password it has, once the request that
\* changed it is done and unless that was cut off or a bootstrap, which revokes
\* nothing; and it has one token to reset the password at most.
AccountsHoldUnlessRaced ==
  \A u \in Users \ raced :
    /\ user[u] = asked[u]
    /\ u \in unrevoked \/ Revoking(u) \/
         \A t \in TokenIds : Exists(session[t]) /\ session[t].user = u =>
           session[t].password = user[u].password
    /\ Cardinality(reset[u]) <= 1

=============================================================================
