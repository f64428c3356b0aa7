------------------------------ MODULE RoleGrants ------------------------------
(***************************************************************************)
(* The roles and the permissions they grant.                               *)
(*                                                                         *)
(* A request reads a role with its permissions, checks it and saves it: the*)
(* save loads the role once more, writes the columns that differ and adds  *)
(* and removes the permissions that do.  So a request that is about the    *)
(* name of a role writes its permissions as well.                          *)
(***************************************************************************)
EXTENDS Integers, FiniteSets

CONSTANTS
  RoleNames, SuperName,  \* names, and that of the role that may do everything
  Permissions,
  Clients,         \* requests in progress at a time
  MaxRoles,        \* bound: roles
  MaxRequests,     \* bound: requests
  Absent           \* no such row

VARIABLES
  role, roles,     \* the table of roles, and how many there have been
  client,          \* the request each client is in
  requests,
  asked,           \* each role as the requests done say
  raced,           \* roles two requests had in hand at a time
  lost             \* system roles that were removed

vars == <<role, roles, client, requests, asked, raced, lost>>

RoleIds == 1..MaxRoles
Row == [name : RoleNames \cup {SuperName}, system : BOOLEAN, grants : SUBSET Permissions]
Fields == {"name", "system", "grants"}

\* A bootstrap that finds no role takes none in hand.
Idle == [op |-> "idle", at |-> "idle", id |-> 0, want |-> Absent, loaded |-> Absent]
Request == [op : {"create", "update", "grant", "remove", "bootstrap"}, at : {"read", "loaded"},
            id : {0} \cup RoleIds, want : Row \cup {Absent}, loaded : Row \cup {Absent}]

Exists(row) == row # Absent

TypeOK ==
  /\ roles \in 0..MaxRoles
  /\ role \in [RoleIds -> Row \cup {Absent}]
  \* the unique index
  /\ \A r, s \in RoleIds : Exists(role[r]) /\ Exists(role[s]) /\ role[r].name = role[s].name => r = s
  /\ client \in [Clients -> Request \cup {Idle}]
  /\ requests \in 0..MaxRequests
  /\ asked \in [RoleIds -> Row \cup {Absent}]
  /\ raced \subseteq RoleIds /\ lost \subseteq RoleIds

\* The role that may do everything, which was left without permissions, and one that
\* has them all.
Init ==
  /\ role = [r \in RoleIds |->
       CASE r = 1 -> [name |-> SuperName, system |-> TRUE, grants |-> {}]
         [] r = 2 -> [name |-> CHOOSE n \in RoleNames : TRUE, system |-> FALSE,
                     grants |-> Permissions]
         [] OTHER -> Absent]
  /\ roles = 2
  /\ asked = role
  /\ client = [a \in Clients |-> Idle]
  /\ requests = 0
  /\ raced = {} /\ lost = {}

-----------------------------------------------------------------------------
Asked == requests < MaxRequests /\ requests' = requests + 1
Named(n) == {r \in RoleIds : Exists(role[r]) /\ role[r].name = n}
Held == {client[a].id : a \in Clients} \ {0}

Take(a, op, r, want) ==
  /\ client[a] = Idle /\ Asked
  /\ client' = [client EXCEPT ![a] =
       [op |-> op, at |-> "read", id |-> r, want |-> want, loaded |-> Absent]]
  /\ raced' = raced \cup ({r} \cap Held)
  /\ UNCHANGED <<role, roles, asked, lost>>

Done(a) == client' = [client EXCEPT ![a] = Idle]

-----------------------------------------------------------------------------
(* Requests *)

\* create: the name is free; what is asked for are permissions there are.
Create(a, n, G) ==
  /\ Named(n) = {}
  /\ Take(a, "create", 0, [name |-> n, system |-> FALSE, grants |-> G])

\* update, of a role of the system too; without a name it is one that changes nothing.
Update(a, r, n) ==
  /\ Exists(role[r])
  /\ Named(n) \subseteq {r}
  /\ Take(a, "update", r, [role[r] EXCEPT !.name = n])

SetPermissions(a, r, G) ==
  /\ Exists(role[r])
  /\ Take(a, "grant", r, [role[r] EXCEPT !.grants = G])

\* Faulty variant: a role of the system goes too.
RemovableAny(row) == TRUE

Removable(row) == ~row.system

Remove(a, r) ==
  /\ Exists(role[r])
  /\ Removable(role[r])
  /\ Take(a, "remove", r, Absent)

\* bootstrap: the role that may do everything is read, if there is one.
Bootstrap(a) ==
  IF Named(SuperName) = {} THEN Take(a, "bootstrap", 0, Absent)
  ELSE \E r \in Named(SuperName) : Take(a, "bootstrap", r, role[r])

-----------------------------------------------------------------------------
(* Their steps *)

\* A save loads the row.
Load(a) ==
  /\ client[a].op \in {"update", "grant"} /\ client[a].at = "read"
  /\ client' = [client EXCEPT ![a].loaded = role[client[a].id], ![a].at = "loaded"]
  /\ UNCHANGED <<role, roles, requests, asked, raced, lost>>

\* Faulty variant: permissions are only added.
WrittenMore(row, loaded, want) ==
  IF ~Exists(loaded) THEN want
  ELSE [name |-> IF want.name # loaded.name THEN want.name ELSE row.name,
        system |-> row.system,
        grants |-> row.grants \cup (want.grants \ loaded.grants)]

\* The row as the save leaves it; one that was not loaded is inserted again.
Written(row, loaded, want) ==
  IF ~Exists(loaded) THEN want
  ELSE [name |-> IF want.name # loaded.name THEN want.name ELSE row.name,
        system |-> row.system,
        grants |-> (row.grants \ (loaded.grants \ want.grants)) \cup (want.grants \ loaded.grants)]

\* The unique index on names, and the keys of a role and of its permissions.
Accepted(t) ==
  LET row == role[t.id] IN
    /\ Exists(row) => Exists(t.loaded) /\ row.grants \cap (t.want.grants \ t.loaded.grants) = {}
    /\ ~Exists(row) /\ Exists(t.loaded) => t.want.grants \ t.loaded.grants = {}
    /\ ~Exists(t.loaded) \/ t.want.name # t.loaded.name => Named(t.want.name) \subseteq {t.id}

\* What the requests done say of a row, after one that asked for some fields of want.
AskedFor(row, want, fields) ==
  IF ~Exists(row) THEN Absent ELSE [f \in Fields |-> IF f \in fields THEN want[f] ELSE row[f]]

\* update and setPermissions; the statements for a row that is gone do nothing.
Save(a) ==
  /\ client[a].at = "loaded"
  /\ LET t == client[a] IN
       IF Accepted(t) /\ (Exists(role[t.id]) \/ ~Exists(t.loaded))
       THEN /\ role' = [role EXCEPT ![t.id] = Written(@, t.loaded, t.want)]
            /\ asked' = [asked EXCEPT ![t.id] =
                 AskedFor(@, t.want, IF t.op = "update" THEN {"name"} ELSE {"grants"})]
       ELSE UNCHANGED <<role, asked>>
  /\ Done(a)
  /\ UNCHANGED <<roles, requests, raced, lost>>

Inserted(a, want) ==
  /\ roles < MaxRoles /\ roles' = roles + 1
  /\ role' = [role EXCEPT ![roles + 1] = want]
  /\ asked' = [asked EXCEPT ![roles + 1] = want]

\* create; another may have taken the name.
Insert(a) ==
  /\ client[a].op = "create"
  /\ IF Named(client[a].want.name) = {} THEN Inserted(a, client[a].want)
     ELSE UNCHANGED <<role, roles, asked>>
  /\ Done(a)
  /\ UNCHANGED <<requests, raced, lost>>

\* remove: with its permissions, and from its users.
Delete(a) ==
  /\ client[a].op = "remove"
  /\ LET r == client[a].id IN
       /\ role' = [role EXCEPT ![r] = Absent]
       /\ asked' = [asked EXCEPT ![r] = Absent]
       /\ lost' = IF Exists(role[r]) /\ role[r].system THEN lost \cup {r} ELSE lost
  /\ Done(a)
  /\ UNCHANGED <<roles, requests, raced>>

AllGranted == [name |-> SuperName, system |-> TRUE, grants |-> Permissions]

\* bootstrap: the role is created, or made one of the system if it was not, and it is
\* granted every permission; one that is gone was saved anew if it was not.
Commit(a) ==
  /\ client[a].op = "bootstrap"
  /\ LET r == client[a].id
         found == client[a].want IN
       CASE r = 0 /\ Named(SuperName) = {} -> Inserted(a, AllGranted)
         [] r # 0 /\ Exists(role[r]) ->
              /\ role' = [role EXCEPT ![r].system = TRUE, ![r].grants = Permissions]
              /\ asked' = [asked EXCEPT ![r] = AskedFor(@, AllGranted, {"system", "grants"})]
              /\ UNCHANGED roles
         [] r # 0 /\ ~Exists(role[r]) /\ ~found.system /\ Named(SuperName) = {} ->
              role' = [role EXCEPT ![r] = AllGranted] /\ UNCHANGED <<roles, asked>>
         [] OTHER -> UNCHANGED <<role, roles, asked>>
  /\ Done(a)
  /\ UNCHANGED <<requests, raced, lost>>

Next ==
  \E a \in Clients :
    \/ \E n \in RoleNames \cup {SuperName} :
         \/ \E G \in SUBSET Permissions : Create(a, n, G)
         \/ \E r \in RoleIds : Update(a, r, n)
    \/ \E r \in RoleIds, G \in SUBSET Permissions : SetPermissions(a, r, G)
    \/ \E r \in RoleIds : Remove(a, r)
    \/ Bootstrap(a)
    \/ Load(a) \/ Save(a) \/ Insert(a) \/ Delete(a) \/ Commit(a)

Spec == Init /\ [][Next]_vars

-----------------------------------------------------------------------------
(* Properties *)

\* Unless two requests had a role in hand at a time: its name and the permissions it
\* grants are those last asked for, though each request writes both; one removed does
\* not come back; and no role of the system is removed.
RolesHoldUnlessRaced ==
  \A r \in RoleIds \ raced : role[r] = asked[r] /\ r \notin lost

=============================================================================
