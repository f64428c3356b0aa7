---------------------- MODULE BackOfficeAccounts_proofs ----------------------
(***************************************************************************)
(* Proofs about users with their sessions, roles, and connections with the *)
(* accounts they list, for any number of requests, restarts and rows.      *)
(***************************************************************************)
EXTENDS BackOffice, Sequences, FiniteSetTheorems, TLAPS


-----------------------------------------------------------------------------
(* Roles: the inductive invariant *)

RoleIds == 1..MaxRoles

GranterRecord ==
  [op : {"idle", "create", "update", "grant", "remove", "bootstrap"},
   at : {"idle", "read", "loaded"}, id : Nat, want : Granting!Row \cup {Absent},
   loaded : Granting!Row \cup {Absent}]

GrantsTyped ==
  /\ grants \in Nat
  /\ granting \in [RoleIds -> Granting!Row \cup {Absent}]
  /\ granter \in [Clients -> GranterRecord]
  /\ DOMAIN grantAsked = RoleIds
  /\ lost \subseteq 1..grants
  /\ \A r \in RoleIds : granting[r] # Absent => r <= grants

\* A request is about one of the n roles there have been, or a new one.
GranterWell(t, n) ==
  /\ t.id <= n
  /\ t.id # 0 => t.id \in RoleIds
  /\ t.op \in {"update", "grant", "remove"} => t.id # 0
  /\ t.op \in {"update", "grant"} => t.want \in Granting!Row
  /\ t.at = "loaded" => t.op \in {"update", "grant"}

\* One request has a role in hand, by a table T of requests, and what it will save
\* is the row but for what was asked for.
OneGranter(r, T) == \A a, b \in Clients : T[a].id = r /\ T[b].id = r => a = b
Knows(t, row) ==
  /\ row # Absent
  /\ t.op = "update" => t.want.grants = row.grants /\ t.want.system = row.system
  /\ t.op = "grant" => t.want.name = row.name /\ t.want.system = row.system
  /\ t.at = "loaded" => t.loaded = row
  /\ t.op = "remove" => ~row.system

\* Role r by the tables of roles T and of requests C, what was asked A and lost L.
RoleWell(r, T, C, A, L) ==
  /\ T[r] = A[r] /\ r \notin L /\ OneGranter(r, C)
  /\ \A a \in Clients : C[a].id = r => Knows(C[a], T[r])

GrantsInv ==
  /\ GrantsTyped
  /\ \A a \in Clients : GranterWell(granter[a], grants)
  /\ \A r \in RoleIds \ grantRaced : RoleWell(r, granting, granter, grantAsked, lost)

-----------------------------------------------------------------------------
(* Roles: the steps *)

\* A step of a request keeps the invariant if what it says of the roles is true, and
\* nobody else has in hand the ones it is about to change or to take.
LEMMA GranterGoesOn ==
  ASSUME GrantsInv, NEW a \in Clients, NEW t \in GranterRecord, GranterWell(t, grants'),
         granter' = [granter EXCEPT ![a] = t], grantRaced \subseteq grantRaced',
         grants' \in Nat, grants <= grants',
         granting' \in [RoleIds -> Granting!Row \cup {Absent}], DOMAIN grantAsked' = RoleIds,
         lost' \subseteq 1..grants', \A r \in RoleIds : granting'[r] # Absent => r <= grants',
         \A r \in RoleIds \ grantRaced' :
           /\ granting'[r] = grantAsked'[r] /\ r \notin lost'
           /\ t.id = r => Knows(t, granting'[r])
           /\ (granting'[r] = granting[r] /\ t.id # r) \/ \A b \in Clients \ {a} : granter[b].id # r
  PROVE  GrantsInv'
<1>1. granter \in [Clients -> GranterRecord] /\ grants \in Nat
  BY DEF GrantsInv, GrantsTyped
<1>2. GrantsTyped' /\ granter'[a] = t /\ \A b \in Clients \ {a} : granter'[b] = granter[b]
  BY <1>1 DEF GrantsInv, GrantsTyped
<1>3. \A b \in Clients : GranterWell(granter'[b], grants')
  BY <1>1, <1>2 DEF GrantsInv, GranterWell, GranterRecord
<1>4. ASSUME NEW r \in RoleIds \ grantRaced'
      PROVE  RoleWell(r, granting', granter', grantAsked', lost')
  <2>1. RoleWell(r, granting, granter, grantAsked, lost)
    BY DEF GrantsInv
  <2>2. CASE \A b \in Clients \ {a} : granter[b].id # r
    BY <1>2, <2>2 DEF RoleWell, OneGranter
  <2>3. CASE granting'[r] = granting[r] /\ t.id # r
    BY <1>2, <2>1, <2>3 DEF RoleWell, OneGranter
  <2> QED BY <2>2, <2>3
<1>5. \A r \in RoleIds \ grantRaced' : RoleWell(r, granting', granter', grantAsked', lost')
  BY <1>4
<1> QED BY <1>2, <1>3, <1>5 DEF GrantsInv, GranterWell, RoleWell, OneGranter, Knows

LEMMA IdleGranter ==
  Granting!Idle \in GranterRecord /\ Granting!Idle.id = 0
    /\ \A n \in Nat : GranterWell(Granting!Idle, n)
BY DEF Granting!Idle, GranterRecord, GranterWell

\* A request takes a role in hand with what it knows of it.
LEMMA TakeKeeps ==
  ASSUME GrantsInv, NEW a \in Clients, NEW op \in {"create", "update", "grant", "remove", "bootstrap"},
         NEW r \in Nat, NEW want \in Granting!Row \cup {Absent},
         Granting!Take(a, op, r, want),
         r # 0 => r \in RoleIds /\ granting[r] # Absent,
         op \in {"update", "grant", "remove"} => r # 0,
         op \in {"update", "grant"} => want \in Granting!Row,
         r \in RoleIds /\ op = "update" => want.grants = granting[r].grants /\ want.system = granting[r].system,
         r \in RoleIds /\ op = "grant" => want.name = granting[r].name /\ want.system = granting[r].system,
         r \in RoleIds /\ op = "remove" => ~granting[r].system
  PROVE  GrantsInv'
<1> DEFINE t == [op |-> op, at |-> "read", id |-> r, want |-> want, loaded |-> Absent]
<1>1. /\ granter[a] = Granting!Idle /\ granter' = [granter EXCEPT ![a] = t]
      /\ grantRaced' = grantRaced \cup ({r} \cap Granting!Held)
      /\ UNCHANGED <<granting, grants, grantAsked, lost>>
  BY DEF Granting!Take
<1>2. /\ GrantsTyped /\ granter \in [Clients -> GranterRecord] /\ grants \in Nat
      /\ \A q \in RoleIds : granting[q] # Absent => q <= grants
  BY DEF GrantsInv, GrantsTyped
<1>3. t \in GranterRecord /\ GranterWell(t, grants) /\ t.id = r /\ t.want = want /\ t.op = op
      /\ t.at = "read"
  BY <1>2 DEF GranterRecord, GranterWell
<1> HIDE DEF t
<1>4. r \in RoleIds => Knows(t, granting[r])
  <2>1. r # 0 \/ r \notin RoleIds
    BY DEF RoleIds
  <2> QED BY <1>3, <2>1 DEF Knows
<1>5. ASSUME NEW q \in RoleIds \ grantRaced'
      PROVE  granting[q] = grantAsked[q] /\ q \notin lost
  BY <1>1 DEF GrantsInv, RoleWell
<1>6. ASSUME NEW q \in RoleIds \ grantRaced', t.id = q
      PROVE  \A b \in Clients \ {a} : granter[b].id # q
  <2>1. q \notin Granting!Held /\ q # 0
    BY <1>1, <1>3, <1>6 DEF RoleIds
  <2> QED BY <2>1 DEF Granting!Held
<1>7. /\ granting' \in [RoleIds -> Granting!Row \cup {Absent}] /\ DOMAIN grantAsked' = RoleIds
      /\ grants' \in Nat /\ grants <= grants' /\ GranterWell(t, grants') /\ lost' \subseteq 1..grants'
      /\ grantRaced \subseteq grantRaced'
      /\ \A q \in RoleIds : granting'[q] # Absent => q <= grants'
  BY <1>1, <1>2, <1>3 DEF GrantsTyped
<1>8. \A q \in RoleIds \ grantRaced' :
        /\ granting'[q] = grantAsked'[q] /\ q \notin lost'
        /\ t.id = q => Knows(t, granting'[q])
        /\ (granting'[q] = granting[q] /\ t.id # q) \/ \A b \in Clients \ {a} : granter[b].id # q
  BY <1>1, <1>3, <1>4, <1>5, <1>6
<1> QED BY <1>1, <1>3, <1>7, <1>8, GranterGoesOn

LEMMA ReadsKeep ==
  ASSUME GrantsInv, NEW a \in Clients,
         \/ \E n \in Roles \cup {SuperAdmin} :
              \/ \E G \in SUBSET Permissions : Granting!Create(a, n, G)
              \/ \E r \in RoleIds : Granting!Update(a, r, n)
         \/ \E r \in RoleIds, G \in SUBSET Permissions : Granting!SetPermissions(a, r, G)
         \/ \E r \in RoleIds : Granting!Remove(a, r)
         \/ Granting!Bootstrap(a)
  PROVE  GrantsInv'
<1>1. granting \in [RoleIds -> Granting!Row \cup {Absent}] /\ RoleIds \subseteq Nat
  BY DEF GrantsInv, GrantsTyped, RoleIds
<1>2. ASSUME NEW n \in Roles \cup {SuperAdmin}, NEW G \in SUBSET Permissions,
             Granting!Create(a, n, G)
      PROVE  GrantsInv'
  <2> DEFINE want == [name |-> n, system |-> FALSE, grants |-> G]
  <2>1. Granting!Take(a, "create", 0, want) /\ want \in Granting!Row
    BY <1>2 DEF Granting!Create, Granting!Row
  <2> HIDE DEF want
  <2>2. 0 \in Nat /\ 0 \notin RoleIds
    BY DEF RoleIds
  <2> QED BY <2>1, <2>2, TakeKeeps
<1>3. ASSUME NEW n \in Roles \cup {SuperAdmin}, NEW r \in RoleIds, Granting!Update(a, r, n)
      PROVE  GrantsInv'
  <2> DEFINE want == [granting[r] EXCEPT !.name = n]
  <2>1. Granting!Take(a, "update", r, want) /\ granting[r] \in Granting!Row /\ granting[r] # Absent
    BY <1>1, <1>3 DEF Granting!Update, Granting!Exists
  <2>2. want \in Granting!Row /\ want.grants = granting[r].grants
        /\ want.system = granting[r].system
    BY <2>1 DEF Granting!Row
  <2> HIDE DEF want
  <2>3. r \in Nat /\ r # 0
    BY DEF RoleIds
  <2> QED BY <2>1, <2>2, <2>3, TakeKeeps
<1>4. ASSUME NEW r \in RoleIds, NEW G \in SUBSET Permissions, Granting!SetPermissions(a, r, G)
      PROVE  GrantsInv'
  <2> DEFINE want == [granting[r] EXCEPT !.grants = G]
  <2>1. Granting!Take(a, "grant", r, want) /\ granting[r] \in Granting!Row /\ granting[r] # Absent
    BY <1>1, <1>4 DEF Granting!SetPermissions, Granting!Exists
  <2>2. want \in Granting!Row /\ want.name = granting[r].name
        /\ want.system = granting[r].system
    BY <2>1 DEF Granting!Row
  <2> HIDE DEF want
  <2>3. r \in Nat /\ r # 0
    BY DEF RoleIds
  <2> QED BY <2>1, <2>2, <2>3, TakeKeeps
<1>5. ASSUME NEW r \in RoleIds, Granting!Remove(a, r)
      PROVE  GrantsInv'
  <2>1. Granting!Take(a, "remove", r, Absent) /\ granting[r] # Absent /\ ~granting[r].system
    BY <1>5 DEF Granting!Remove, Granting!Exists, Granting!Removable
  <2>2. r \in Nat /\ r # 0
    BY DEF RoleIds
  <2> QED BY <2>1, <2>2, TakeKeeps
<1>6. ASSUME Granting!Bootstrap(a)
      PROVE  GrantsInv'
  <2>1. CASE Granting!Take(a, "bootstrap", 0, Absent)
    <3>1. 0 \in Nat /\ 0 \notin RoleIds
      BY DEF RoleIds
    <3> QED BY <2>1, <3>1, TakeKeeps
  <2>2. ASSUME NEW r \in Granting!Named(SuperAdmin), Granting!Take(a, "bootstrap", r, granting[r])
        PROVE  GrantsInv'
    <3>1. r \in RoleIds /\ r \in Nat /\ granting[r] \in Granting!Row \cup {Absent}
          /\ granting[r] # Absent
      BY <1>1, <2>2 DEF Granting!Named, Granting!RoleIds, RoleIds, Granting!Exists
    <3> QED BY <2>2, <3>1, TakeKeeps
  <2> QED BY <1>6, <2>1, <2>2 DEF Granting!Bootstrap
<1> QED BY <1>2, <1>3, <1>4, <1>5, <1>6

\* A request that is done changed the role it had in hand, or made one.
LEMMA DoneKeeps ==
  ASSUME GrantsInv, NEW a \in Clients, Granting!Done(a), UNCHANGED grantRaced,
         grants' \in Nat, grants <= grants',
         granting' \in [RoleIds -> Granting!Row \cup {Absent}], DOMAIN grantAsked' = RoleIds,
         lost' \subseteq 1..grants', \A r \in RoleIds : granting'[r] # Absent => r <= grants',
         \A r \in RoleIds \ grantRaced :
           /\ granting'[r] = grantAsked'[r] /\ r \notin lost'
           /\ granting'[r] = granting[r] \/ r = granter[a].id \/ r > grants
  PROVE  GrantsInv'
<1>1. granter' = [granter EXCEPT ![a] = Granting!Idle] /\ grantRaced \subseteq grantRaced'
  BY DEF Granting!Done
<1>2. Granting!Idle \in GranterRecord /\ GranterWell(Granting!Idle, grants')
  BY IdleGranter
<1>3. ASSUME NEW r \in RoleIds \ grantRaced'
      PROVE  /\ granting'[r] = grantAsked'[r] /\ r \notin lost'
             /\ Granting!Idle.id # r
             /\ granting'[r] = granting[r] \/ \A b \in Clients \ {a} : granter[b].id # r
  <2>1. r \in RoleIds \ grantRaced /\ r # 0 /\ r \in Nat
    BY DEF RoleIds
  <2>2. CASE r = granter[a].id
    BY <2>1, <2>2, IdleGranter DEF GrantsInv, RoleWell, OneGranter
  <2>3. CASE r > grants
    <3>1. \A b \in Clients : granter[b].id <= grants /\ granter[b].id \in Nat /\ grants \in Nat
      BY DEF GrantsInv, GrantsTyped, GranterWell, GranterRecord
    <3> QED BY <2>1, <2>3, <3>1, IdleGranter
  <2> QED BY <2>1, <2>2, <2>3, IdleGranter
<1>4. \A r \in RoleIds \ grantRaced' :
        /\ granting'[r] = grantAsked'[r] /\ r \notin lost'
        /\ Granting!Idle.id = r => Knows(Granting!Idle, granting'[r])
        /\ \/ granting'[r] = granting[r] /\ Granting!Idle.id # r
           \/ \A b \in Clients \ {a} : granter[b].id # r
  BY <1>3
<1> QED BY <1>1, <1>2, <1>4, GranterGoesOn

\* What a request knows of the row it has in hand.
LEMMA GranterKnows ==
  ASSUME GrantsInv, NEW a \in Clients
  PROVE  /\ granter[a] \in GranterRecord /\ GranterWell(granter[a], grants)
         /\ granter[a].id \in RoleIds \ grantRaced =>
              Knows(granter[a], granting[granter[a].id])
BY DEF GrantsInv, GrantsTyped, RoleWell

\* The save loads the row.
LEMMA LoadKeeps ==
  ASSUME GrantsInv, NEW a \in Clients, Granting!Load(a)
  PROVE  GrantsInv'
<1> DEFINE r == granter[a].id
           t == [granter[a] EXCEPT !.loaded = granting[r], !.at = "loaded"]
<1>1. /\ granter[a].op \in {"update", "grant"} /\ granter' = [granter EXCEPT ![a] = t]
      /\ UNCHANGED <<granting, grants, grantAsked, grantRaced, lost>>
  BY DEF Granting!Load
<1>2. /\ granter[a] \in GranterRecord /\ GranterWell(granter[a], grants) /\ r \in RoleIds
      /\ r \notin grantRaced => Knows(granter[a], granting[r])
      /\ granting[r] \in Granting!Row \cup {Absent}
  BY <1>1, GranterKnows DEF GranterWell, GrantsInv, GrantsTyped
<1>3. /\ t \in GranterRecord /\ t.id = r /\ t.op = granter[a].op /\ t.want = granter[a].want
      /\ t.loaded = granting[r] /\ t.at = "loaded"
  BY <1>2 DEF GranterRecord
<1> HIDE DEF t
<1>4. GranterWell(t, grants)
  BY <1>1, <1>2, <1>3 DEF GranterWell
<1>5. r \notin grantRaced => Knows(t, granting[r])
  BY <1>2, <1>3 DEF Knows
<1>6. /\ granting' \in [RoleIds -> Granting!Row \cup {Absent}] /\ DOMAIN grantAsked' = RoleIds
      /\ grants' \in Nat /\ grants <= grants' /\ GranterWell(t, grants') /\ lost' \subseteq 1..grants'
      /\ grantRaced \subseteq grantRaced'
      /\ \A q \in RoleIds : granting'[q] # Absent => q <= grants'
  BY <1>1, <1>4 DEF GrantsInv, GrantsTyped
<1>7. \A q \in RoleIds \ grantRaced' :
        /\ granting'[q] = grantAsked'[q] /\ q \notin lost'
        /\ t.id = q => Knows(t, granting'[q])
        /\ (granting'[q] = granting[q] /\ t.id # q) \/ \A b \in Clients \ {a} : granter[b].id # q
  BY <1>1, <1>3, <1>5 DEF GrantsInv, RoleWell, OneGranter
<1> QED BY <1>1, <1>3, <1>6, <1>7, GranterGoesOn

\* A row that some fields of another are written into.
LEMMA AskedForFields ==
  ASSUME NEW row \in Granting!Row, NEW want \in Granting!Row, NEW F \in SUBSET Granting!Fields,
         row # Absent
  PROVE  Granting!AskedFor(row, want, F) =
           [name |-> IF "name" \in F THEN want.name ELSE row.name,
            system |-> IF "system" \in F THEN want.system ELSE row.system,
            grants |-> IF "grants" \in F THEN want.grants ELSE row.grants]
<1>1. Granting!AskedFor(row, want, F) =
        [f \in {"name", "system", "grants"} |-> IF f \in F THEN want[f] ELSE row[f]]
  BY DEF Granting!AskedFor, Granting!Exists, Granting!Fields
<1> QED BY <1>1

\* What a request knows it writes: the row it wants, which is the one asked for.
LEMMA WritesAsked ==
  ASSUME NEW t \in GranterRecord, NEW row \in Granting!Row, t.want \in Granting!Row,
         t.op \in {"update", "grant"}, t.at = "loaded", Knows(t, row)
  PROVE  /\ Granting!Written(row, t.loaded, t.want) = t.want
         /\ Granting!AskedFor(row, t.want, IF t.op = "update" THEN {"name"} ELSE {"grants"}) = t.want
<1>1. row # Absent /\ t.loaded = row /\ t.want.system = row.system
  BY DEF Knows
<1>2. Granting!Written(row, t.loaded, t.want) =
        [name |-> t.want.name, system |-> row.system,
         grants |-> (row.grants \ (row.grants \ t.want.grants)) \cup (t.want.grants \ row.grants)]
  BY <1>1 DEF Granting!Written, Granting!Exists, Granting!Row
<1>3. (row.grants \ (row.grants \ t.want.grants)) \cup (t.want.grants \ row.grants) = t.want.grants
  OBVIOUS
<1>4. t.want = [name |-> t.want.name, system |-> t.want.system, grants |-> t.want.grants]
  BY DEF Granting!Row
<1>5. CASE t.op = "update"
  <2>1. t.want.grants = row.grants
    BY <1>5 DEF Knows
  <2>2. Granting!AskedFor(row, t.want, {"name"}) =
          [name |-> t.want.name, system |-> row.system, grants |-> row.grants]
    BY <1>1, AskedForFields DEF Granting!Fields
  <2> QED BY <1>1, <1>2, <1>3, <1>4, <1>5, <2>1, <2>2
<1>6. CASE t.op = "grant"
  <2>1. t.want.name = row.name
    BY <1>6 DEF Knows
  <2>2. Granting!AskedFor(row, t.want, {"grants"}) =
          [name |-> row.name, system |-> row.system, grants |-> t.want.grants]
    BY <1>1, AskedForFields DEF Granting!Fields
  <2> QED BY <1>1, <1>2, <1>3, <1>4, <1>6, <2>1, <2>2
<1> QED BY <1>5, <1>6

LEMMA WrittenRow ==
  ASSUME NEW row \in Granting!Row \cup {Absent}, NEW loaded \in Granting!Row \cup {Absent},
         NEW want \in Granting!Row, row # Absent \/ loaded = Absent
  PROVE  Granting!Written(row, loaded, want) \in Granting!Row
BY DEF Granting!Written, Granting!Exists, Granting!Row

LEMMA SaveKeepsRoles ==
  ASSUME GrantsInv, NEW a \in Clients, Granting!Save(a)
  PROVE  GrantsInv'
<1> DEFINE t == granter[a]
           r == t.id
           row == Granting!Written(granting[r], t.loaded, t.want)
           row2 == Granting!AskedFor(grantAsked[r], t.want,
                     IF t.op = "update" THEN {"name"} ELSE {"grants"})
<1>1. /\ t.at = "loaded" /\ Granting!Done(a) /\ UNCHANGED <<grants, grantRaced, lost>>
      /\ \/ /\ granting[r] # Absent \/ t.loaded = Absent
            /\ granting' = [granting EXCEPT ![r] = row]
            /\ grantAsked' = [grantAsked EXCEPT ![r] = row2]
         \/ UNCHANGED <<granting, grantAsked>>
  BY DEF Granting!Save, Granting!Exists
<1>2. /\ t \in GranterRecord /\ t.op \in {"update", "grant"} /\ r \in RoleIds
      /\ t.want \in Granting!Row /\ r <= grants
      /\ r \notin grantRaced => Knows(t, granting[r])
  BY <1>1, GranterKnows DEF GranterWell
<1>3. /\ granting \in [RoleIds -> Granting!Row \cup {Absent}] /\ DOMAIN grantAsked = RoleIds
      /\ grants \in Nat /\ lost \subseteq 1..grants
      /\ \A q \in RoleIds : granting[q] # Absent => q <= grants
      /\ \A q \in RoleIds \ grantRaced : granting[q] = grantAsked[q] /\ q \notin lost
  BY DEF GrantsInv, GrantsTyped, RoleWell
<1>4. t.loaded \in Granting!Row \cup {Absent}
  BY <1>2 DEF GranterRecord
<1>5. ASSUME r \notin grantRaced
      PROVE  row = t.want /\ row2 = t.want
  <2>1. Knows(t, granting[r]) /\ granting[r] \in Granting!Row
    BY <1>2, <1>3, <1>5 DEF Knows
  <2> QED BY <1>1, <1>2, <1>3, <1>5, <2>1, WritesAsked
<1>6. granting[r] # Absent \/ t.loaded = Absent => row \in Granting!Row
  BY <1>2, <1>3, <1>4, WrittenRow
<1> HIDE DEF row, row2, t
<1>7. CASE /\ granting' = [granting EXCEPT ![r] = row]
           /\ grantAsked' = [grantAsked EXCEPT ![r] = row2]
           /\ granting[r] # Absent \/ t.loaded = Absent
  <2>1. granting' \in [RoleIds -> Granting!Row \cup {Absent}] /\ DOMAIN grantAsked' = RoleIds
    BY <1>3, <1>6, <1>7
  <2>2. /\ granting'[r] = row /\ grantAsked'[r] = row2
        /\ \A q \in RoleIds \ {r} : granting'[q] = granting[q] /\ grantAsked'[q] = grantAsked[q]
    BY <1>2, <1>3, <1>7
  <2>3. \A q \in RoleIds \ grantRaced :
          /\ granting'[q] = grantAsked'[q] /\ q \notin lost'
          /\ granting'[q] = granting[q] \/ q = granter[a].id \/ q > grants
    BY <1>1, <1>3, <1>5, <2>2 DEF t
  <2>4. \A q \in RoleIds : granting'[q] # Absent => q <= grants'
    BY <1>1, <1>2, <1>3, <2>2
  <2>5. grants' \in Nat /\ grants <= grants' /\ lost' \subseteq 1..grants'
    BY <1>1, <1>3
  <2> QED BY <1>1, <2>1, <2>3, <2>4, <2>5, DoneKeeps
<1>8. CASE UNCHANGED <<granting, grantAsked>>
  <2>1. grants' \in Nat /\ grants <= grants'
    BY <1>1, <1>3
  <2> QED BY <1>1, <1>3, <1>8, <2>1, DoneKeeps
<1> QED BY <1>1, <1>7, <1>8

\* A role is made.
LEMMA InsertedKeeps ==
  ASSUME GrantsInv, NEW a \in Clients, NEW want \in Granting!Row \cup {Absent},
         Granting!Inserted(a, want), Granting!Done(a), UNCHANGED <<grantRaced, lost>>
  PROVE  GrantsInv'
<1> DEFINE n == grants + 1
<1>1. /\ grants < MaxRoles /\ grants' = n
      /\ granting' = [granting EXCEPT ![n] = want]
      /\ grantAsked' = [grantAsked EXCEPT ![n] = want]
  BY DEF Granting!Inserted
<1>2. /\ granting \in [RoleIds -> Granting!Row \cup {Absent}] /\ DOMAIN grantAsked = RoleIds
      /\ grants \in Nat /\ lost \subseteq 1..grants
      /\ \A q \in RoleIds : granting[q] # Absent => q <= grants
      /\ \A q \in RoleIds \ grantRaced : granting[q] = grantAsked[q] /\ q \notin lost
  BY DEF GrantsInv, GrantsTyped, RoleWell
<1>3. n \in RoleIds /\ n > grants /\ n \in Nat /\ grants <= n /\ 1..grants \subseteq 1..n
  BY <1>1, <1>2, BackOfficeConstants DEF RoleIds
<1> HIDE DEF n
<1>4. /\ granting'[n] = want /\ grantAsked'[n] = want
      /\ \A q \in RoleIds \ {n} : granting'[q] = granting[q] /\ grantAsked'[q] = grantAsked[q]
      /\ granting' \in [RoleIds -> Granting!Row \cup {Absent}] /\ DOMAIN grantAsked' = RoleIds
  BY <1>1, <1>2, <1>3
<1>5. \A q \in RoleIds : granting'[q] # Absent => q <= grants'
  BY <1>1, <1>2, <1>3, <1>4 DEF RoleIds
<1>6. \A q \in RoleIds \ grantRaced :
        /\ granting'[q] = grantAsked'[q] /\ q \notin lost'
        /\ granting'[q] = granting[q] \/ q = granter[a].id \/ q > grants
  BY <1>2, <1>3, <1>4
<1>7. grants' \in Nat /\ grants <= grants' /\ lost' \subseteq 1..grants'
  BY <1>1, <1>2, <1>3
<1> QED BY <1>4, <1>5, <1>6, <1>7, DoneKeeps

LEMMA SameKeepsRoles ==
  ASSUME GrantsInv, NEW a \in Clients, Granting!Done(a),
         UNCHANGED <<granting, grants, grantAsked, grantRaced, lost>>
  PROVE  GrantsInv'
<1>1. /\ granting \in [RoleIds -> Granting!Row \cup {Absent}] /\ DOMAIN grantAsked = RoleIds
      /\ grants \in Nat /\ lost \subseteq 1..grants /\ grants <= grants
      /\ \A q \in RoleIds : granting[q] # Absent => q <= grants
      /\ \A q \in RoleIds \ grantRaced : granting[q] = grantAsked[q] /\ q \notin lost
  BY DEF GrantsInv, GrantsTyped, RoleWell
<1> QED BY <1>1, DoneKeeps

LEMMA InsertKeeps ==
  ASSUME GrantsInv, NEW a \in Clients, Granting!Insert(a)
  PROVE  GrantsInv'
<1>1. granter[a].want \in Granting!Row \cup {Absent}
  BY GranterKnows DEF GranterRecord
<1> QED BY <1>1, InsertedKeeps, SameKeepsRoles DEF Granting!Insert

\* A role is removed, which is none of the system if nobody else had it in hand.
LEMMA DeleteKeeps ==
  ASSUME GrantsInv, NEW a \in Clients, Granting!Delete(a)
  PROVE  GrantsInv'
<1> DEFINE r == granter[a].id
<1>1. /\ granter[a].op = "remove" /\ Granting!Done(a)
      /\ granting' = [granting EXCEPT ![r] = Absent]
      /\ grantAsked' = [grantAsked EXCEPT ![r] = Absent]
      /\ lost' = IF granting[r] # Absent /\ granting[r].system THEN lost \cup {r} ELSE lost
      /\ UNCHANGED <<grants, grantRaced>>
  BY DEF Granting!Delete, Granting!Exists
<1>2. /\ granting \in [RoleIds -> Granting!Row \cup {Absent}] /\ DOMAIN grantAsked = RoleIds
      /\ grants \in Nat /\ lost \subseteq 1..grants /\ grants <= grants
      /\ \A q \in RoleIds : granting[q] # Absent => q <= grants
      /\ \A q \in RoleIds \ grantRaced : granting[q] = grantAsked[q] /\ q \notin lost
  BY DEF GrantsInv, GrantsTyped, RoleWell
<1>3. /\ r \in RoleIds /\ r \in 1..grants
      /\ r \notin grantRaced => granting[r] # Absent /\ ~granting[r].system
  <2>1. granter[a] \in GranterRecord /\ GranterWell(granter[a], grants)
        /\ (r \in RoleIds \ grantRaced => Knows(granter[a], granting[r]))
    BY GranterKnows
  <2>2. r \in RoleIds /\ r <= grants
    BY <1>1, <2>1 DEF GranterWell
  <2> QED BY <1>1, <1>2, <2>1, <2>2 DEF Knows, RoleIds
<1> HIDE DEF r
<1>4. /\ granting'[r] = Absent /\ grantAsked'[r] = Absent
      /\ \A q \in RoleIds \ {r} : granting'[q] = granting[q] /\ grantAsked'[q] = grantAsked[q]
      /\ granting' \in [RoleIds -> Granting!Row \cup {Absent}] /\ DOMAIN grantAsked' = RoleIds
  BY <1>1, <1>2, <1>3
<1>5. lost' \subseteq 1..grants /\ \A q \in RoleIds \ {r} : q \in lost' <=> q \in lost
  BY <1>1, <1>2, <1>3
<1>6. r \notin grantRaced => r \notin lost'
  BY <1>1, <1>2, <1>3
<1>7. \A q \in RoleIds \ grantRaced :
        /\ granting'[q] = grantAsked'[q] /\ q \notin lost'
        /\ granting'[q] = granting[q] \/ q = granter[a].id \/ q > grants
  BY <1>2, <1>4, <1>5, <1>6 DEF r
<1>8. \A q \in RoleIds : granting'[q] # Absent => q <= grants'
  BY <1>1, <1>2, <1>4
<1> QED BY <1>1, <1>2, <1>4, <1>5, <1>7, <1>8, DoneKeeps

\* Of a row that is there, bootstrap makes one that grants everything.
LEMMA RowIs ==
  ASSUME NEW row \in Granting!Row
  PROVE  row = [name |-> row.name, system |-> row.system, grants |-> row.grants]
BY DEF Granting!Row

LEMMA RowSet ==
  ASSUME NEW row \in Granting!Row, NEW b \in BOOLEAN, NEW G \in SUBSET Permissions
  PROVE  LET u == [row EXCEPT !.system = b, !.grants = G] IN
           u \in Granting!Row /\ u = [name |-> row.name, system |-> b, grants |-> G]
<1> DEFINE u == [row EXCEPT !.system = b, !.grants = G]
<1>1. u \in Granting!Row /\ u.name = row.name /\ u.system = b /\ u.grants = G
  BY DEF Granting!Row
<1>2. u = [name |-> u.name, system |-> u.system, grants |-> u.grants]
  BY <1>1, RowIs
<1> HIDE DEF u
<1>3. u = [name |-> row.name, system |-> b, grants |-> G]
  BY <1>1, <1>2
<1> QED BY <1>1, <1>3 DEF u

LEMMA BootstrapsAsked ==
  ASSUME NEW row \in Granting!Row, row # Absent
  PROVE  LET u == [row EXCEPT !.system = TRUE, !.grants = Permissions] IN
           /\ u \in Granting!Row
           /\ Granting!AskedFor(row, Granting!AllGranted, {"system", "grants"}) = u
<1> DEFINE all == Granting!AllGranted
<1>1. all \in Granting!Row /\ {"system", "grants"} \in SUBSET Granting!Fields
  BY DEF Granting!AllGranted, Granting!Row, Granting!Fields
<1>2. all.system = TRUE /\ all.grants = Permissions
  BY DEF Granting!AllGranted
<1> HIDE DEF all
<1>3. Granting!AskedFor(row, all, {"system", "grants"})
        = [name |-> row.name, system |-> all.system, grants |-> all.grants]
  BY <1>1, AskedForFields
<1>4. Granting!AskedFor(row, all, {"system", "grants"})
        = [name |-> row.name, system |-> TRUE, grants |-> Permissions]
  BY <1>2, <1>3, Zenon
<1>5. LET u == [row EXCEPT !.system = TRUE, !.grants = Permissions] IN
        u \in Granting!Row /\ u = [name |-> row.name, system |-> TRUE, grants |-> Permissions]
  BY RowSet, Zenon
<1> QED BY <1>4, <1>5 DEF all

LEMMA CommitKeeps ==
  ASSUME GrantsInv, NEW a \in Clients, Granting!Commit(a)
  PROVE  GrantsInv'
<1> DEFINE r == granter[a].id
           found == granter[a].want
           row == [granting[r] EXCEPT !.system = TRUE, !.grants = Permissions]
           row2 == Granting!AskedFor(grantAsked[r], Granting!AllGranted, {"system", "grants"})
<1>1. /\ Granting!Done(a) /\ UNCHANGED <<grantRaced, lost>>
      /\ CASE r = 0 /\ Granting!Named(SuperAdmin) = {} -> Granting!Inserted(a, Granting!AllGranted)
           [] r # 0 /\ granting[r] # Absent ->
                /\ granting' = [granting EXCEPT ![r].system = TRUE, ![r].grants = Permissions]
                /\ grantAsked' = [grantAsked EXCEPT ![r] = row2]
                /\ UNCHANGED grants
           [] r # 0 /\ ~(granting[r] # Absent) /\ ~found.system /\ Granting!Named(SuperAdmin) = {} ->
                granting' = [granting EXCEPT ![r] = Granting!AllGranted]
                  /\ UNCHANGED <<grants, grantAsked>>
           [] OTHER -> UNCHANGED <<granting, grants, grantAsked>>
  BY DEF Granting!Commit, Granting!Exists
<1>2. /\ granting \in [RoleIds -> Granting!Row \cup {Absent}] /\ DOMAIN grantAsked = RoleIds
      /\ grants \in Nat /\ lost \subseteq 1..grants /\ grants <= grants
      /\ \A q \in RoleIds : granting[q] # Absent => q <= grants
      /\ \A q \in RoleIds \ grantRaced : granting[q] = grantAsked[q] /\ q \notin lost
  BY DEF GrantsInv, GrantsTyped, RoleWell
<1>3. /\ r \in Nat /\ r <= grants /\ (r # 0 => r \in RoleIds)
      /\ r \in RoleIds \ grantRaced => granting[r] # Absent
  BY GranterKnows DEF Knows, GranterRecord, GranterWell
<1>4. Granting!AllGranted \in Granting!Row
  BY DEF Granting!AllGranted, Granting!Row
<1>5. CASE UNCHANGED <<granting, grants, grantAsked>>
  BY <1>1, <1>5, SameKeepsRoles
<1>6. CASE Granting!Inserted(a, Granting!AllGranted)
  BY <1>1, <1>4, <1>6, InsertedKeeps
<1>7. ASSUME granting[r] # Absent, r \in RoleIds, UNCHANGED grants,
             granting' = [granting EXCEPT ![r].system = TRUE, ![r].grants = Permissions],
             grantAsked' = [grantAsked EXCEPT ![r] = row2]
      PROVE  GrantsInv'
  <2>1. granting[r] \in Granting!Row
    BY <1>2, <1>7
  <2>2. /\ row \in Granting!Row
        /\ r \notin grantRaced => row2 = row
    BY <1>2, <1>7, <2>1, BootstrapsAsked, Zenon
  <2>3. granting' = [granting EXCEPT ![r] = row]
    BY <1>2, <1>7
  <2> HIDE DEF row, row2
  <2>4. /\ granting'[r] = row /\ grantAsked'[r] = row2
        /\ \A q \in RoleIds \ {r} : granting'[q] = granting[q] /\ grantAsked'[q] = grantAsked[q]
        /\ granting' \in [RoleIds -> Granting!Row \cup {Absent}] /\ DOMAIN grantAsked' = RoleIds
    <3>1. grantAsked' = [grantAsked EXCEPT ![r] = row2] /\ r \in RoleIds
      BY <1>7 DEF row2
    <3> QED BY <1>2, <2>2, <2>3, <3>1
  <2>5. \A q \in RoleIds \ grantRaced :
          /\ granting'[q] = grantAsked'[q] /\ q \notin lost'
          /\ granting'[q] = granting[q] \/ q = granter[a].id \/ q > grants
    BY <1>1, <1>2, <2>2, <2>4
  <2>6. (\A q \in RoleIds : granting'[q] # Absent => q <= grants') /\ lost' \subseteq 1..grants'
        /\ grants' \in Nat /\ grants <= grants'
    BY <1>1, <1>2, <1>3, <1>7, <2>4
  <2> QED BY <1>1, <2>4, <2>5, <2>6, DoneKeeps
<1>8. ASSUME granting[r] = Absent, r \in RoleIds,
             granting' = [granting EXCEPT ![r] = Granting!AllGranted],
             UNCHANGED <<grants, grantAsked>>
      PROVE  GrantsInv'
  <2>1. r \in grantRaced
    BY <1>3, <1>8
  <2>2. /\ granting' \in [RoleIds -> Granting!Row \cup {Absent}]
        /\ \A q \in RoleIds \ {r} : granting'[q] = granting[q]
    BY <1>2, <1>4, <1>8
  <2>3. \A q \in RoleIds \ grantRaced :
          /\ granting'[q] = grantAsked'[q] /\ q \notin lost'
          /\ granting'[q] = granting[q] \/ q = granter[a].id \/ q > grants
    BY <1>1, <1>2, <1>8, <2>1, <2>2
  <2>4. (\A q \in RoleIds : granting'[q] # Absent => q <= grants') /\ lost' \subseteq 1..grants'
        /\ grants' \in Nat /\ grants <= grants' /\ DOMAIN grantAsked' = RoleIds
    BY <1>1, <1>2, <1>3, <1>8, <2>2
  <2> QED BY <1>1, <2>2, <2>3, <2>4, DoneKeeps
<1> QED BY <1>1, <1>3, <1>5, <1>6, <1>7, <1>8

LEMMA GrantsBegin == Granting!Init => GrantsInv
<1> SUFFICES ASSUME Granting!Init PROVE GrantsInv
  OBVIOUS
<1>1. /\ granting = [r \in RoleIds |->
           CASE r = 1 -> [name |-> SuperAdmin, system |-> TRUE, grants |-> {}]
             [] r = 2 -> [name |-> CHOOSE n \in Roles : TRUE, system |-> FALSE,
                         grants |-> Permissions]
             [] OTHER -> Absent]
      /\ grants = 2 /\ grantAsked = granting /\ lost = {}
      /\ granter = [a \in Clients |-> Granting!Idle]
  BY DEF Granting!Init, Granting!RoleIds, RoleIds
<1>2. (CHOOSE n \in Roles : TRUE) \in Roles
  BY BackOfficeConstants
<1>3. /\ [name |-> SuperAdmin, system |-> TRUE, grants |-> {}] \in Granting!Row
      /\ [name |-> CHOOSE n \in Roles : TRUE, system |-> FALSE, grants |-> Permissions]
           \in Granting!Row
  BY <1>2 DEF Granting!Row
<1>4. /\ granting \in [RoleIds -> Granting!Row \cup {Absent}]
      /\ \A r \in RoleIds : granting[r] # Absent => r <= 2
  <2>1. ASSUME NEW r \in RoleIds
        PROVE  granting[r] \in Granting!Row \cup {Absent} /\ (granting[r] # Absent => r <= 2)
    <3>1. CASE r = 1
      BY <1>1, <1>3, <3>1
    <3>2. CASE r = 2
      BY <1>1, <1>3, <3>2
    <3>3. CASE r # 1 /\ r # 2
      BY <1>1, <3>3
    <3> QED BY <3>1, <3>2, <3>3
  <2>2. granting = [r \in RoleIds |-> granting[r]]
    BY <1>1
  <2> QED BY <2>1, <2>2
<1>5. \A r \in RoleIds : r # 0
  BY DEF RoleIds
<1>6. GrantsTyped
  BY <1>1, <1>4, IdleGranter DEF GrantsTyped
<1>7. \A r \in RoleIds : RoleWell(r, granting, granter, grantAsked, lost)
  BY <1>1, <1>5, IdleGranter DEF RoleWell, OneGranter
<1> QED BY <1>1, <1>6, <1>7, IdleGranter DEF GrantsInv

LEMMA GrantsKept == GrantsInv /\ [Next]_vars => GrantsInv'
<1> SUFFICES ASSUME GrantsInv, [Next]_vars
             PROVE  GrantsInv'
  OBVIOUS
<1>1. CASE Granting!Next
  <2>1. PICK a \in Clients :
          \/ \/ \E n \in Roles \cup {SuperAdmin} :
                  \/ \E G \in SUBSET Permissions : Granting!Create(a, n, G)
                  \/ \E r \in RoleIds : Granting!Update(a, r, n)
             \/ \E r \in RoleIds, G \in SUBSET Permissions : Granting!SetPermissions(a, r, G)
             \/ \E r \in RoleIds : Granting!Remove(a, r)
             \/ Granting!Bootstrap(a)
          \/ Granting!Load(a) \/ Granting!Save(a) \/ Granting!Insert(a) \/ Granting!Delete(a)
          \/ Granting!Commit(a)
    BY <1>1, Zenon DEF Granting!Next, Granting!RoleIds, RoleIds
  <2> QED BY <2>1, ReadsKeep, LoadKeeps, SaveKeepsRoles, InsertKeeps, DeleteKeeps, CommitKeeps
<1>2. CASE UNCHANGED grantVars
  BY <1>2 DEF grantVars, GrantsInv, GrantsTyped, GranterWell, RoleWell, OneGranter, Knows
<1> QED BY <1>1, <1>2 DEF Next, Step, vars

LEMMA GrantsHold == GrantsInv => Granting!RolesHoldUnlessRaced
BY DEF GrantsInv, RoleWell, Granting!RolesHoldUnlessRaced, Granting!RoleIds, RoleIds

-----------------------------------------------------------------------------
(* Users: the inductive invariant *)

AccountFields == {"password", "active", "deleted", "roles"}
RowThere == {"password", "active", "roles"} \* what bootstrap writes of a row that is there

UsersTyped ==
  /\ user \in [Users -> Accounting!Row \cup {Absent}] /\ passwords \in 1..MaxPassword
  /\ session \in [Accounting!TokenIds -> Accounting!Token \cup {Absent}]
  /\ \A s \in Accounting!TokenIds : session[s] # Absent => user[session[s].user] # Absent
  /\ DOMAIN reset = Users /\ DOMAIN userAsked = Users

\* A request that has a user in hand is at a step of its kind, and unless it makes
\* the user the row is there.
ActorRecord ==
  [op : {"login", "refresh", "forgot", "reset", "change", "edit", "create", "bootstrap"},
   at : Accounting!At, user : Users, row : Accounting!Row, fields : SUBSET AccountFields,
   token : Nat]
ActorWell(t, U) ==
  \/ t = Accounting!Idle
  \/ /\ t \in ActorRecord
     /\ \/ t.op = "login" /\ t.at \in {"save", "issue"} /\ t.fields = {}
        \/ t.op = "refresh" /\ t.at \in {"spend", "issue"} /\ t.fields = {}
        \/ t.op = "forgot" /\ t.at \in {"clear", "make"} /\ t.fields = {}
        \/ t.op = "reset" /\ t.at \in {"save", "use", "revoke"} /\ t.fields = {"password"}
        \/ t.op = "change" /\ t.at \in {"save", "revoke"} /\ t.fields = {"password"}
        \/ t.op = "edit" /\ t.at = "save" /\ t.fields \in {{"active"}, {"roles"}}
        \/ t.op = "create" /\ t.at = "save" /\ t.fields = AccountFields
        \/ t.op = "bootstrap" /\ t.at = "save" /\ t.fields \in {RowThere, AccountFields}
     /\ t.fields # AccountFields => U[t.user] # Absent

\* One request, by a table C of requests, has a user in hand; and it is at the steps
\* that end a change of the password.
OneActor(u, C) == \A a, b \in Clients : C[a].user = u /\ C[b].user = u => a = b
Revokes(t) == t.at \in {"use", "revoke"}
Ending(u, C) == \E a \in Clients : C[a].user = u /\ Revokes(C[a])

\* The sessions in a table S go back to the password in a table U of users.
Current(u, U, S) ==
  \A s \in Accounting!TokenIds : S[s] # Absent /\ S[s].user = u => S[s].password = U[u].password

\* What a request that has the user in hand knows of the row, of the reset tokens R and
\* of the password, unless it is one of the users N whose sessions were left.
KnowsUser(t, row, R, N) ==
  /\ t.at = "save" => IF t.fields = AccountFields THEN row = Absent
                      ELSE \A f \in AccountFields \ t.fields : t.row[f] = row[f]
  /\ t.at = "make" => R = {}
  /\ t.op \in {"login", "refresh"} => t.user \in N \/ t.row.password = row.password

AtMostOne(R) == \A x, y \in R : x = y

\* User u by the tables of users U, what was asked A, the sessions S, the reset tokens
\* R, the requests C, and the users N.
Account(u, U, A, S, R, C, N) ==
  /\ U[u] = A[u] /\ OneActor(u, C) /\ AtMostOne(R[u])
  /\ u \in N \/ Ending(u, C) \/ Current(u, U, S)
  /\ \A a \in Clients : C[a].user = u => KnowsUser(C[a], U[u], R[u], N)

UsersInv ==
  /\ UsersTyped
  /\ \A a \in Clients : ActorWell(actor[a], user)
  /\ \A u \in Users \ raced : Account(u, user, userAsked, session, reset, actor, unrevoked)
  /\ DOMAIN actor = Clients

-----------------------------------------------------------------------------
(* Users: the order of the steps of a request *)

LEMMA FieldsOfAccount == Accounting!Fields = AccountFields
<1>1. [password |-> 1, active |-> TRUE, deleted |-> FALSE, roles |-> {}] \in Accounting!Row
  BY BackOfficeConstants DEF Accounting!Row
<1>2. (CHOOSE r \in Accounting!Row : TRUE) \in Accounting!Row
  BY <1>1
<1>3. \A r \in Accounting!Row : DOMAIN r = {"password", "active", "deleted", "roles"}
  BY DEF Accounting!Row
<1> QED BY <1>2, <1>3 DEF Accounting!Fields, AccountFields

\* The places of the steps that come after one, and the request at the first of them.
Later(s, at) == {i \in 2..Len(s) : s[i - 1] = at}
AfterStep(t) ==
  LET s == Accounting!Steps[t.op] IN
    IF Later(s, t.at) = {} THEN Accounting!Idle
    ELSE [t EXCEPT !.at = s[CHOOSE i \in Later(s, t.at) : TRUE]]

LEMMA OfOneStep ==
  ASSUME NEW x
  PROVE  Later(<<x>>, x) = {}
BY DEF Later

LEMMA OfTwoSteps ==
  ASSUME NEW x, NEW y, x # y
  PROVE  Later(<<x, y>>, x) = {2} /\ Later(<<x, y>>, y) = {}
<1>1. Len(<<x, y>>) = 2 /\ <<x, y>>[1] = x /\ 2..2 = {2}
  OBVIOUS
<1> QED BY <1>1 DEF Later

LEMMA OfThreeSteps ==
  ASSUME NEW x, NEW y, NEW z, x # y, y # z, x # z
  PROVE  /\ Later(<<x, y, z>>, x) = {2} /\ Later(<<x, y, z>>, y) = {3}
         /\ Later(<<x, y, z>>, z) = {}
<1>1. Len(<<x, y, z>>) = 3 /\ <<x, y, z>>[1] = x /\ <<x, y, z>>[2] = y /\ 2..3 = {2, 3}
  OBVIOUS
<1> QED BY <1>1 DEF Later

LEMMA FirstLater ==
  ASSUME NEW i
  PROVE  (CHOOSE j \in {i} : TRUE) = i
OBVIOUS

LEMMA StepsOf ==
  LET S == Accounting!Steps IN
    /\ S["login"] = <<"save", "issue">> /\ S["refresh"] = <<"spend", "issue">>
    /\ S["forgot"] = <<"clear", "make">> /\ S["reset"] = <<"save", "use", "revoke">>
    /\ S["change"] = <<"save", "revoke">> /\ S["edit"] = <<"save">>
    /\ S["create"] = <<"save">> /\ S["bootstrap"] = <<"save">>
BY DEF Accounting!Steps

\* Where a request goes from each step.
LEMMA StepAfter ==
  ASSUME NEW U, NEW t, ActorWell(t, U), t # Accounting!Idle
  PROVE  /\ t.at = "save" =>
              CASE t.op = "login" -> AfterStep(t) = [t EXCEPT !.at = "issue"]
                [] t.op = "reset" -> AfterStep(t) = [t EXCEPT !.at = "use"]
                [] t.op = "change" -> AfterStep(t) = [t EXCEPT !.at = "revoke"]
                [] OTHER -> AfterStep(t) = Accounting!Idle
         /\ t.at = "spend" => AfterStep(t) = [t EXCEPT !.at = "issue"]
         /\ t.at = "clear" => AfterStep(t) = [t EXCEPT !.at = "make"]
         /\ t.at = "use" => AfterStep(t) = [t EXCEPT !.at = "revoke"]
         /\ t.at \in {"issue", "make", "revoke"} => AfterStep(t) = Accounting!Idle
<1>1. CASE t.op \in {"edit", "create", "bootstrap"}
  <2>1. t.at = "save" /\ Accounting!Steps[t.op] = <<"save">>
    BY <1>1, StepsOf DEF ActorWell
  <2>2. AfterStep(t) = Accounting!Idle
    BY <2>1, OfOneStep DEF AfterStep
  <2> QED BY <1>1, <2>1, <2>2
<1>2. CASE t.op = "reset"
  <2> DEFINE s == <<"save", "use", "revoke">>
  <2>1. t.at \in {"save", "use", "revoke"} /\ Accounting!Steps[t.op] = s
    BY <1>2, StepsOf DEF ActorWell
  <2>2. Later(s, "save") = {2} /\ Later(s, "use") = {3} /\ Later(s, "revoke") = {}
    BY OfThreeSteps
  <2>3. s[2] = "use" /\ s[3] = "revoke"
    OBVIOUS
  <2> HIDE DEF s
  <2>4. /\ t.at = "save" => AfterStep(t) = [t EXCEPT !.at = "use"]
        /\ t.at = "use" => AfterStep(t) = [t EXCEPT !.at = "revoke"]
        /\ t.at = "revoke" => AfterStep(t) = Accounting!Idle
    BY <2>1, <2>2, <2>3, FirstLater DEF AfterStep
  <2> QED BY <1>2, <2>1, <2>4
<1>3. ASSUME NEW x, NEW y, x # y, t.at \in {x, y}, Accounting!Steps[t.op] = <<x, y>>
      PROVE  /\ t.at = x => AfterStep(t) = [t EXCEPT !.at = y]
             /\ t.at = y => AfterStep(t) = Accounting!Idle
  <2> DEFINE s == <<x, y>>
  <2>1. Later(s, x) = {2} /\ Later(s, y) = {}
    BY <1>3, OfTwoSteps
  <2>2. s[2] = y
    OBVIOUS
  <2>3. Accounting!Steps[t.op] = s
    BY <1>3
  <2> HIDE DEF s
  <2> QED BY <2>1, <2>2, <2>3, FirstLater DEF AfterStep
<1>4. CASE t.op = "login"
  <2>1. t.at \in {"save", "issue"} /\ Accounting!Steps[t.op] = <<"save", "issue">>
    BY <1>4, StepsOf DEF ActorWell
  <2> QED BY <1>3, <1>4, <2>1
<1>5. CASE t.op = "refresh"
  <2>1. t.at \in {"spend", "issue"} /\ Accounting!Steps[t.op] = <<"spend", "issue">>
    BY <1>5, StepsOf DEF ActorWell
  <2> QED BY <1>3, <1>5, <2>1
<1>6. CASE t.op = "forgot"
  <2>1. t.at \in {"clear", "make"} /\ Accounting!Steps[t.op] = <<"clear", "make">>
    BY <1>6, StepsOf DEF ActorWell
  <2> QED BY <1>3, <1>6, <2>1
<1>7. CASE t.op = "change"
  <2>1. t.at \in {"save", "revoke"} /\ Accounting!Steps[t.op] = <<"save", "revoke">>
    BY <1>7, StepsOf DEF ActorWell
  <2> QED BY <1>3, <1>7, <2>1
<1> QED BY <1>1, <1>2, <1>4, <1>5, <1>6, <1>7 DEF ActorWell, ActorRecord

-----------------------------------------------------------------------------
(* Users: the steps *)

LEMMA IdleActor ==
  /\ Accounting!Idle.user = Absent /\ Accounting!Idle.at = "idle" /\ ~Revokes(Accounting!Idle)
  /\ Absent \notin Users /\ Accounting!Idle \notin ActorRecord
  /\ Accounting!Idle.op = "idle"
<1>1. Absent \notin Users
  BY BackOfficeConstants
<1>2. Accounting!Idle.user = Absent /\ Accounting!Idle.at = "idle" /\ Accounting!Idle.op = "idle"
  BY DEF Accounting!Idle
<1> QED BY <1>1, <1>2 DEF ActorRecord, Revokes

\* A request that goes on.
LEMMA AtStep ==
  ASSUME NEW t \in ActorRecord, NEW x \in Accounting!At
  PROVE  LET u == [t EXCEPT !.at = x] IN
           /\ u \in ActorRecord /\ u.at = x /\ u.op = t.op /\ u.user = t.user /\ u.row = t.row
           /\ u.fields = t.fields /\ u.token = t.token
BY DEF ActorRecord

LEMMA AfterStepWell ==
  ASSUME NEW U, NEW t, ActorWell(t, U), t # Accounting!Idle
  PROVE  LET u == AfterStep(t) IN
           /\ ActorWell(u, U)
           /\ u = Accounting!Idle \/
                (u.user = t.user /\ u.row = t.row /\ u.op = t.op /\ u.at # "save")
           /\ t.at = "save" /\ t.op \in {"reset", "change"} => Revokes(u)
           /\ t.at = "save" /\ t.op \in {"edit", "create", "bootstrap"} => u = Accounting!Idle
           /\ t.at = "save" /\ t.op = "login" => u.at = "issue"
           /\ t.at = "spend" => u.at = "issue"
           /\ t.at = "clear" => u.at = "make"
           /\ t.at = "use" => u.at = "revoke"
           /\ t.at \in {"issue", "make", "revoke"} => u = Accounting!Idle
<1> DEFINE u == AfterStep(t)
<1>1. ActorWell(Accounting!Idle, U)
  BY DEF ActorWell
<1>2. t \in ActorRecord
  BY DEF ActorWell
<1>3. CASE u = Accounting!Idle
  <2>1. ~(t.at = "spend") /\ ~(t.at = "clear") /\ ~(t.at = "use")
          /\ ~(t.at = "save" /\ t.op \in {"login", "reset", "change"})
    BY <1>2, <1>3, StepAfter, AtStep, IdleActor DEF Accounting!At
  <2> QED BY <1>1, <1>3, <2>1
<1>4. ASSUME NEW x \in {"issue", "make", "use", "revoke"}, u = [t EXCEPT !.at = x],
             \/ t.at = "save" /\ t.op = "login" /\ x = "issue"
             \/ t.at = "save" /\ t.op = "reset" /\ x = "use"
             \/ t.at = "save" /\ t.op = "change" /\ x = "revoke"
             \/ t.at = "spend" /\ x = "issue"
             \/ t.at = "clear" /\ x = "make"
             \/ t.at = "use" /\ x = "revoke"
      PROVE  /\ ActorWell(u, U)
             /\ u.user = t.user /\ u.row = t.row /\ u.op = t.op /\ u.at = x
  <2>1. x \in Accounting!At
    BY DEF Accounting!At
  <2>2. /\ u \in ActorRecord /\ u.at = x /\ u.op = t.op /\ u.user = t.user /\ u.row = t.row
        /\ u.fields = t.fields
    BY <1>2, <1>4, <2>1, AtStep
  <2> HIDE DEF u
  <2> QED BY <1>4, <2>2 DEF ActorWell
<1> HIDE DEF u
<1>5. \/ u = Accounting!Idle
      \/ \E x \in {"issue", "make", "use", "revoke"} :
           /\ u = [t EXCEPT !.at = x]
           /\ \/ t.at = "save" /\ t.op = "login" /\ x = "issue"
              \/ t.at = "save" /\ t.op = "reset" /\ x = "use"
              \/ t.at = "save" /\ t.op = "change" /\ x = "revoke"
              \/ t.at = "spend" /\ x = "issue"
              \/ t.at = "clear" /\ x = "make"
              \/ t.at = "use" /\ x = "revoke"
  BY <1>2, StepAfter DEF u, Accounting!At, ActorRecord
<1>6. CASE u # Accounting!Idle
  <2>1. PICK x \in {"issue", "make", "use", "revoke"} :
           /\ u = [t EXCEPT !.at = x]
           /\ \/ t.at = "save" /\ t.op = "login" /\ x = "issue"
              \/ t.at = "save" /\ t.op = "reset" /\ x = "use"
              \/ t.at = "save" /\ t.op = "change" /\ x = "revoke"
              \/ t.at = "spend" /\ x = "issue"
              \/ t.at = "clear" /\ x = "make"
              \/ t.at = "use" /\ x = "revoke"
    BY <1>5, <1>6
  <2>2. /\ ActorWell(u, U)
        /\ u.user = t.user /\ u.row = t.row /\ u.op = t.op /\ u.at = x
    BY <1>4, <2>1
  <2> QED BY <2>1, <2>2 DEF u, Revokes
<1> QED BY <1>3, <1>6 DEF u

LEMMA GoesToNext ==
  ASSUME NEW a \in Clients, Accounting!GoOn(a), DOMAIN actor = Clients
  PROVE  actor' = [actor EXCEPT ![a] = AfterStep(actor[a])]
BY DEF Accounting!GoOn, AfterStep, Later

\* A step of a request keeps the invariant if what it says of the users it has in
\* hand, which nobody else has, is true.
LEMMA ActorGoesOn ==
  ASSUME UsersInv, NEW a \in Clients, NEW t, ActorWell(t, user'),
         actor' = [actor EXCEPT ![a] = t], raced \subseteq raced', UsersTyped',
         \A u \in Users : user[u] # Absent => user'[u] # Absent,
         \A u \in Users \ raced' :
           \/ /\ u \notin {actor[a].user, t.user}
              /\ user'[u] = user[u] /\ userAsked'[u] = userAsked[u] /\ reset'[u] = reset[u]
              /\ u \in unrevoked => u \in unrevoked'
              /\ Current(u, user, session) => Current(u, user', session')
           \/ /\ user'[u] = userAsked'[u] /\ AtMostOne(reset'[u])
              /\ u \in unrevoked' \/ (t.user = u /\ Revokes(t)) \/ Current(u, user', session')
              /\ t.user = u => KnowsUser(t, user'[u], reset'[u], unrevoked')
              /\ \A b \in Clients \ {a} : actor[b].user # u
  PROVE  UsersInv'
<1>1. /\ actor'[a] = t /\ DOMAIN actor' = Clients
      /\ \A b \in Clients \ {a} : actor'[b] = actor[b]
  BY DEF UsersInv
<1>2. \A b \in Clients : ActorWell(actor'[b], user')
  BY <1>1 DEF UsersInv, ActorWell, ActorRecord
<1>3. ASSUME NEW u \in Users \ raced'
      PROVE  Account(u, user', userAsked', session', reset', actor', unrevoked')
  <2>1. Account(u, user, userAsked, session, reset, actor, unrevoked)
    BY DEF UsersInv
  <2>2. CASE /\ u \notin {actor[a].user, t.user}
             /\ user'[u] = user[u] /\ userAsked'[u] = userAsked[u] /\ reset'[u] = reset[u]
             /\ u \in unrevoked => u \in unrevoked'
             /\ Current(u, user, session) => Current(u, user', session')
    <3>1. \A b \in Clients : (actor[b].user = u \/ actor'[b].user = u) => actor'[b] = actor[b]
      BY <1>1, <2>2
    <3>2. OneActor(u, actor')
      BY <2>1, <3>1 DEF Account, OneActor
    <3>3. Ending(u, actor) => Ending(u, actor')
      BY <3>1 DEF Ending
    <3>4. \A b \in Clients : actor'[b].user = u =>
            KnowsUser(actor'[b], user'[u], reset'[u], unrevoked')
      BY <2>1, <2>2, <3>1 DEF Account, KnowsUser
    <3> QED BY <2>1, <2>2, <3>2, <3>3, <3>4 DEF Account
  <2>3. CASE /\ user'[u] = userAsked'[u] /\ AtMostOne(reset'[u])
             /\ u \in unrevoked' \/ (t.user = u /\ Revokes(t)) \/ Current(u, user', session')
             /\ t.user = u => KnowsUser(t, user'[u], reset'[u], unrevoked')
             /\ \A b \in Clients \ {a} : actor[b].user # u
    <3>1. \A b \in Clients : actor'[b].user = u => b = a
      BY <1>1, <2>3
    <3>2. OneActor(u, actor')
      BY <3>1 DEF OneActor
    <3>3. t.user = u /\ Revokes(t) => Ending(u, actor')
      BY <1>1 DEF Ending
    <3> QED BY <1>1, <2>3, <3>1, <3>2, <3>3 DEF Account
  <2> QED BY <2>2, <2>3
<1>4. \A u \in Users \ raced' : Account(u, user', userAsked', session', reset', actor', unrevoked')
  BY <1>3
<1> QED BY <1>1, <1>2, <1>4 DEF UsersInv, ActorWell, Account, OneActor, Ending, Current, AtMostOne,
           KnowsUser

\* A request takes a user in hand with what it knows of it.
LEMMA TakesUser ==
  ASSUME UsersInv, NEW a \in Clients, NEW u \in Users, NEW op, NEW row, NEW fields, NEW token,
         Accounting!Take(a, op, u, row, fields, token),
         LET t == [op |-> op, at |-> Accounting!Steps[op][1], user |-> u, row |-> row,
                   fields |-> fields, token |-> token] IN
           /\ ActorWell(t, user)
           /\ u \notin raced /\ ~Ending(u, actor) => KnowsUser(t, user[u], reset[u], unrevoked),
         passwords' \in 1..MaxPassword, UNCHANGED <<user, session, reset, userAsked, unrevoked>>
  PROVE  UsersInv'
<1> DEFINE t == [op |-> op, at |-> Accounting!Steps[op][1], user |-> u, row |-> row,
                 fields |-> fields, token |-> token]
<1>1. /\ actor[a] = Accounting!Idle /\ actor' = [actor EXCEPT ![a] = t]
      /\ raced' = raced \cup ({u} \cap Accounting!Held)
  BY DEF Accounting!Take
<1>2. ActorWell(t, user) /\ t.user = u
  OBVIOUS
<1>3. u \notin raced /\ ~Ending(u, actor) => KnowsUser(t, user[u], reset[u], unrevoked)
  OBVIOUS
<1> HIDE DEF t
<1>4. UsersTyped'
  BY DEF UsersInv, UsersTyped
<1>5. ActorWell(t, user') /\ raced \subseteq raced'
      /\ \A q \in Users : user[q] # Absent => user'[q] # Absent
  BY <1>1, <1>2 DEF ActorWell
<1>6. ASSUME NEW q \in Users \ raced', q # u
      PROVE  /\ q \notin {actor[a].user, t.user}
             /\ user'[q] = user[q] /\ userAsked'[q] = userAsked[q] /\ reset'[q] = reset[q]
             /\ q \in unrevoked => q \in unrevoked'
             /\ Current(q, user, session) => Current(q, user', session')
  BY <1>1, <1>2, <1>6, IdleActor DEF Current
<1>7. ASSUME u \notin raced'
      PROVE  /\ user'[u] = userAsked'[u] /\ AtMostOne(reset'[u])
             /\ u \in unrevoked' \/ (t.user = u /\ Revokes(t)) \/ Current(u, user', session')
             /\ t.user = u => KnowsUser(t, user'[u], reset'[u], unrevoked')
             /\ \A b \in Clients \ {a} : actor[b].user # u
  <2>1. u \notin Accounting!Held /\ u # Absent /\ u \notin raced
    BY <1>1, <1>7, IdleActor
  <2>2. \A b \in Clients : actor[b].user # u
    BY <2>1 DEF Accounting!Held
  <2>3. ~Ending(u, actor) /\ Account(u, user, userAsked, session, reset, actor, unrevoked)
    BY <2>1, <2>2 DEF Ending, UsersInv
  <2>4. KnowsUser(t, user'[u], reset'[u], unrevoked')
    BY <1>3, <2>1, <2>3
  <2>5. Current(u, user, session) => Current(u, user', session')
    BY DEF Current
  <2> QED BY <2>2, <2>3, <2>4, <2>5 DEF Account
<1>8. \A q \in Users \ raced' :
        \/ /\ q \notin {actor[a].user, t.user}
           /\ user'[q] = user[q] /\ userAsked'[q] = userAsked[q] /\ reset'[q] = reset[q]
           /\ q \in unrevoked => q \in unrevoked'
           /\ Current(q, user, session) => Current(q, user', session')
        \/ /\ user'[q] = userAsked'[q] /\ AtMostOne(reset'[q])
           /\ q \in unrevoked' \/ (t.user = q /\ Revokes(t)) \/ Current(q, user', session')
           /\ t.user = q => KnowsUser(t, user'[q], reset'[q], unrevoked')
           /\ \A b \in Clients \ {a} : actor[b].user # q
  <2> SUFFICES ASSUME NEW q \in Users \ raced'
               PROVE  \/ /\ q \notin {actor[a].user, t.user}
                         /\ user'[q] = user[q] /\ userAsked'[q] = userAsked[q]
                         /\ reset'[q] = reset[q]
                         /\ q \in unrevoked => q \in unrevoked'
                         /\ Current(q, user, session) => Current(q, user', session')
                      \/ /\ user'[q] = userAsked'[q] /\ AtMostOne(reset'[q])
                         /\ q \in unrevoked' \/ (t.user = q /\ Revokes(t))
                              \/ Current(q, user', session')
                         /\ t.user = q => KnowsUser(t, user'[q], reset'[q], unrevoked')
                         /\ \A b \in Clients \ {a} : actor[b].user # q
    OBVIOUS
  <2>1. CASE q = u
    BY <1>7, <2>1
  <2>2. CASE q # u
    BY <1>6, <2>2
  <2> QED BY <2>1, <2>2
<1> QED BY <1>1, <1>4, <1>5, <1>8, ActorGoesOn

\* The row of a user who is there.
LEMMA RowThereIs ==
  ASSUME UsersInv, NEW u \in Users, user[u] # Absent
  PROVE  user[u] \in Accounting!Row
BY DEF UsersInv, UsersTyped

\* A request that saves the row as it read it, but for fields that are asked for.
LEMMA TakesRow ==
  ASSUME UsersInv, NEW a \in Clients, NEW u \in Users,
         NEW op \in {"login", "reset", "change", "edit", "bootstrap", "forgot"},
         NEW row \in Accounting!Row, NEW fields \in SUBSET AccountFields, NEW token \in Nat,
         Accounting!Take(a, op, u, row, fields, token), user[u] # Absent,
         \/ op \in {"login", "forgot"} /\ fields = {}
         \/ op \in {"reset", "change"} /\ fields = {"password"}
         \/ op = "edit" /\ fields \in {{"active"}, {"roles"}}
         \/ op = "bootstrap" /\ fields = RowThere,
         \A f \in AccountFields \ fields : row[f] = user[u][f],
         passwords' \in 1..MaxPassword, UNCHANGED <<user, session, reset, userAsked, unrevoked>>
  PROVE  UsersInv'
<1> DEFINE t == [op |-> op, at |-> Accounting!Steps[op][1], user |-> u, row |-> row,
                 fields |-> fields, token |-> token]
<1>1. Accounting!Steps[op][1] = IF op = "forgot" THEN "clear" ELSE "save"
  BY StepsOf
<1>2. /\ t.op = op /\ t.at = Accounting!Steps[op][1] /\ t.user = u /\ t.row = row
      /\ t.fields = fields
  OBVIOUS
<1>3. t \in ActorRecord
  BY <1>1 DEF ActorRecord, Accounting!At
<1> HIDE DEF t
<1>4. ActorWell(t, user)
  BY <1>1, <1>2, <1>3 DEF ActorWell
<1>5. fields # AccountFields
  BY DEF AccountFields, RowThere
<1>6. op = "login" => row.password = user[u].password
  BY DEF AccountFields
<1>7. KnowsUser(t, user[u], reset[u], unrevoked)
  BY <1>1, <1>2, <1>5, <1>6 DEF KnowsUser
<1> QED BY <1>4, <1>7, TakesUser DEF t

\* A request that makes a user.
LEMMA TakesNone ==
  ASSUME UsersInv, NEW a \in Clients, NEW u \in Users, NEW op \in {"create", "bootstrap"},
         NEW row \in Accounting!Row, Accounting!Take(a, op, u, row, Accounting!Fields, 0),
         user[u] = Absent,
         passwords' \in 1..MaxPassword, UNCHANGED <<user, session, reset, userAsked, unrevoked>>
  PROVE  UsersInv'
<1> DEFINE t == [op |-> op, at |-> Accounting!Steps[op][1], user |-> u, row |-> row,
                 fields |-> AccountFields, token |-> 0]
<1>1. Accounting!Steps[op][1] = "save" /\ Accounting!Take(a, op, u, row, AccountFields, 0)
  BY StepsOf, FieldsOfAccount
<1>2. t \in ActorRecord /\ t.op = op /\ t.at = "save" /\ t.user = u /\ t.fields = AccountFields
  BY <1>1 DEF ActorRecord, Accounting!At
<1> HIDE DEF t
<1>3. ActorWell(t, user) /\ KnowsUser(t, user[u], reset[u], unrevoked)
  BY <1>2 DEF ActorWell, KnowsUser
<1> QED BY <1>1, <1>3, TakesUser DEF t

LEMMA PasswordFresh ==
  ASSUME UsersInv
  PROVE  /\ passwords \in 1..MaxPassword
         /\ Accounting!NewPassword => passwords' \in 1..MaxPassword
BY BackOfficeConstants DEF UsersInv, UsersTyped, Accounting!NewPassword

\* Rows that are read and changed in one field.
LEMMA FieldSet ==
  ASSUME NEW row \in Accounting!Row
  PROVE  /\ \A p \in 1..MaxPassword :
              /\ [row EXCEPT !.password = p] \in Accounting!Row
              /\ \A f \in AccountFields \ {"password"} : [row EXCEPT !.password = p][f] = row[f]
         /\ \A b \in BOOLEAN :
              /\ [row EXCEPT !.active = b] \in Accounting!Row
              /\ \A f \in AccountFields \ {"active"} : [row EXCEPT !.active = b][f] = row[f]
         /\ \A R \in SUBSET (Roles \cup {SuperAdmin}) :
              /\ [row EXCEPT !.roles = R] \in Accounting!Row
              /\ \A f \in AccountFields \ {"roles"} : [row EXCEPT !.roles = R][f] = row[f]
BY DEF Accounting!Row, AccountFields

LEMMA FreshRow ==
  ASSUME NEW R \in SUBSET (Roles \cup {SuperAdmin}), passwords' \in 1..MaxPassword
  PROVE  Accounting!Fresh(R) \in Accounting!Row /\ Accounting!Fresh(R).deleted = FALSE
BY DEF Accounting!Fresh, Accounting!Row

LEMMA LoginKeeps ==
  ASSUME UsersInv, NEW a \in Clients, NEW u \in Users, Accounting!Login(a, u)
  PROVE  UsersInv'
<1>1. /\ user[u] # Absent /\ Accounting!Take(a, "login", u, user[u], {}, 0)
      /\ UNCHANGED <<user, passwords, session, reset, userAsked, unrevoked>>
  BY DEF Accounting!Login, Accounting!Present, Accounting!Exists, Accounting!tables
<1>2. user[u] \in Accounting!Row /\ passwords' \in 1..MaxPassword
  BY <1>1, RowThereIs, PasswordFresh
<1> QED BY <1>1, <1>2, TakesRow

\* What it issues goes back to the password in force, as the token did.
LEMMA RefreshKeeps ==
  ASSUME UsersInv, NEW a \in Clients, NEW s \in Accounting!TokenIds, Accounting!Refresh(a, s)
  PROVE  UsersInv'
<1> DEFINE u == session[s].user
           row == [user[u] EXCEPT !.password = session[s].password]
           t == [op |-> "refresh", at |-> Accounting!Steps["refresh"][1], user |-> u,
                 row |-> row, fields |-> {}, token |-> s]
<1>1. /\ session[s] # Absent /\ user[u] # Absent
      /\ Accounting!Take(a, "refresh", u, row, {}, s)
      /\ UNCHANGED <<user, passwords, session, reset, userAsked, unrevoked>>
  BY DEF Accounting!Refresh, Accounting!Present, Accounting!Exists, Accounting!tables
<1>2. session[s] \in Accounting!Token
  BY <1>1 DEF UsersInv, UsersTyped
<1>3. u \in Users /\ session[s].password \in 1..MaxPassword
  BY <1>2 DEF Accounting!Token
<1>4. user[u] \in Accounting!Row /\ passwords' \in 1..MaxPassword
  BY <1>1, <1>3, RowThereIs, PasswordFresh
<1>5. row \in Accounting!Row /\ row.password = session[s].password
  BY <1>3, <1>4 DEF Accounting!Row
<1>6. Accounting!Steps["refresh"][1] = "spend" /\ s \in Nat
  BY StepsOf DEF Accounting!TokenIds
<1> HIDE DEF row, u
<1>7. /\ t \in ActorRecord /\ t.op = "refresh" /\ t.at = "spend" /\ t.user = u /\ t.row = row
      /\ t.fields = {}
  BY <1>3, <1>5, <1>6 DEF ActorRecord, Accounting!At
<1> HIDE DEF t
<1>8. ActorWell(t, user)
  BY <1>1, <1>7 DEF ActorWell
<1>9. ASSUME u \notin raced, ~Ending(u, actor)
      PROVE  KnowsUser(t, user[u], reset[u], unrevoked)
  <2>1. u \in unrevoked \/ Current(u, user, session)
    BY <1>3, <1>9 DEF UsersInv, Account
  <2>2. u \in unrevoked \/ row.password = user[u].password
    BY <1>1, <1>5, <2>1 DEF Current, u
  <2> QED BY <1>7, <2>2 DEF KnowsUser
<1>10. /\ ActorWell(t, user)
       /\ u \notin raced /\ ~Ending(u, actor) => KnowsUser(t, user[u], reset[u], unrevoked)
  BY <1>8, <1>9
<1> QED BY <1>1, <1>3, <1>4, <1>10, TakesUser DEF t

LEMMA ForgotPasswordKeeps ==
  ASSUME UsersInv, NEW a \in Clients, NEW u \in Users, NEW forced \in BOOLEAN,
         Accounting!ForgotPassword(a, u, forced)
  PROVE  UsersInv'
<1>1. /\ user[u] # Absent /\ Accounting!Take(a, "forgot", u, user[u], {}, 0)
      /\ UNCHANGED <<user, passwords, session, reset, userAsked, unrevoked>>
  BY DEF Accounting!ForgotPassword, Accounting!Present, Accounting!Exists, Accounting!tables
<1>2. user[u] \in Accounting!Row /\ passwords' \in 1..MaxPassword
  BY <1>1, RowThereIs, PasswordFresh
<1> QED BY <1>1, <1>2, TakesRow

LEMMA ResetPasswordKeeps ==
  ASSUME UsersInv, NEW a \in Clients, NEW u \in Users, NEW r \in 1..MaxResets,
         Accounting!ResetPassword(a, u, r)
  PROVE  UsersInv'
<1> DEFINE row == [user[u] EXCEPT !.password = passwords']
<1>1. /\ user[u] # Absent /\ Accounting!Take(a, "reset", u, row, {"password"}, r)
      /\ UNCHANGED <<user, session, reset, userAsked, unrevoked>> /\ Accounting!NewPassword
  BY DEF Accounting!ResetPassword, Accounting!Present, Accounting!Exists
<1>2. user[u] \in Accounting!Row /\ passwords' \in 1..MaxPassword
  BY <1>1, RowThereIs, PasswordFresh
<1>3. row \in Accounting!Row /\ \A f \in AccountFields \ {"password"} : row[f] = user[u][f]
  BY <1>2, FieldSet
<1> HIDE DEF row
<1>4. {"password"} \in SUBSET AccountFields /\ r \in Nat
  BY DEF AccountFields
<1> QED BY <1>1, <1>2, <1>3, <1>4, TakesRow

LEMMA ChangePasswordKeeps ==
  ASSUME UsersInv, NEW a \in Clients, NEW u \in Users, Accounting!ChangePassword(a, u)
  PROVE  UsersInv'
<1> DEFINE row == [user[u] EXCEPT !.password = passwords']
<1>1. /\ user[u] # Absent /\ Accounting!Take(a, "change", u, row, {"password"}, 0)
      /\ UNCHANGED <<user, session, reset, userAsked, unrevoked>> /\ Accounting!NewPassword
  BY DEF Accounting!ChangePassword, Accounting!Present, Accounting!Exists
<1>2. user[u] \in Accounting!Row /\ passwords' \in 1..MaxPassword
  BY <1>1, RowThereIs, PasswordFresh
<1>3. row \in Accounting!Row /\ \A f \in AccountFields \ {"password"} : row[f] = user[u][f]
  BY <1>2, FieldSet
<1> HIDE DEF row
<1>4. {"password"} \in SUBSET AccountFields
  BY DEF AccountFields
<1> QED BY <1>1, <1>2, <1>3, <1>4, TakesRow

LEMMA EditKeeps ==
  ASSUME UsersInv, NEW a \in Clients, NEW u \in Users,
         \/ \E b \in BOOLEAN : Accounting!SetActive(a, u, b)
         \/ \E R \in SUBSET (Roles \cup {SuperAdmin}) : Accounting!SetRoles(a, u, R)
  PROVE  UsersInv'
<1>1. CASE \E b \in BOOLEAN : Accounting!SetActive(a, u, b)
  <2>1. PICK b \in BOOLEAN : Accounting!SetActive(a, u, b)
    BY <1>1
  <2> DEFINE row == [user[u] EXCEPT !.active = b]
  <2>2. /\ user[u] # Absent /\ Accounting!Take(a, "edit", u, row, {"active"}, 0)
        /\ UNCHANGED <<user, passwords, session, reset, userAsked, unrevoked>>
    BY <2>1 DEF Accounting!SetActive, Accounting!Present, Accounting!Exists, Accounting!tables
  <2>3. user[u] \in Accounting!Row /\ passwords' \in 1..MaxPassword
    BY <2>2, RowThereIs, PasswordFresh
  <2>4. row \in Accounting!Row /\ \A f \in AccountFields \ {"active"} : row[f] = user[u][f]
    BY <2>3, FieldSet
  <2> HIDE DEF row
  <2>5. {"active"} \in SUBSET AccountFields
    BY DEF AccountFields
  <2> QED BY <2>2, <2>3, <2>4, <2>5, TakesRow
<1>2. CASE \E R \in SUBSET (Roles \cup {SuperAdmin}) : Accounting!SetRoles(a, u, R)
  <2>1. PICK R \in SUBSET (Roles \cup {SuperAdmin}) : Accounting!SetRoles(a, u, R)
    BY <1>2
  <2> DEFINE row == [user[u] EXCEPT !.roles = R]
  <2>2. /\ user[u] # Absent /\ Accounting!Take(a, "edit", u, row, {"roles"}, 0)
        /\ UNCHANGED <<user, passwords, session, reset, userAsked, unrevoked>>
    BY <2>1 DEF Accounting!SetRoles, Accounting!Present, Accounting!Exists, Accounting!tables
  <2>3. user[u] \in Accounting!Row /\ passwords' \in 1..MaxPassword
    BY <2>2, RowThereIs, PasswordFresh
  <2>4. row \in Accounting!Row /\ \A f \in AccountFields \ {"roles"} : row[f] = user[u][f]
    BY <2>3, FieldSet
  <2> HIDE DEF row
  <2>5. {"roles"} \in SUBSET AccountFields
    BY DEF AccountFields
  <2> QED BY <2>2, <2>3, <2>4, <2>5, TakesRow
<1> QED BY <1>1, <1>2

LEMMA CreateUserKeeps ==
  ASSUME UsersInv, NEW a \in Clients, NEW u \in Users, NEW R \in SUBSET (Roles \cup {SuperAdmin}),
         Accounting!Create(a, u, R)
  PROVE  UsersInv'
<1> DEFINE row == Accounting!Fresh(R)
<1>1. /\ user[u] = Absent /\ Accounting!NewPassword
      /\ Accounting!Take(a, "create", u, row, Accounting!Fields, 0)
      /\ UNCHANGED <<user, session, reset, userAsked, unrevoked>>
  BY DEF Accounting!Create, Accounting!Exists
<1>2. row \in Accounting!Row /\ passwords' \in 1..MaxPassword
  BY <1>1, PasswordFresh, FreshRow
<1> HIDE DEF row
<1> QED BY <1>1, <1>2, TakesNone

\* The first super admin is made, or made of a user who is there.
LEMMA BootstrapKeeps ==
  ASSUME UsersInv, NEW a \in Clients, NEW u \in Users, Accounting!Bootstrap(a, u)
  PROVE  UsersInv'
<1> DEFINE R == IF user[u] # Absent THEN user[u].roles ELSE {}
           row == Accounting!Fresh(R \cup {SuperAdmin})
<1>1. /\ Accounting!NewPassword
      /\ Accounting!Take(a, "bootstrap", u, row,
           IF user[u] # Absent THEN RowThere ELSE Accounting!Fields, 0)
      /\ UNCHANGED <<user, session, reset, userAsked, unrevoked>>
      /\ user[u] = Absent \/ (user[u] # Absent /\ ~user[u].deleted)
  BY DEF Accounting!Bootstrap, Accounting!Exists, Accounting!Present, RowThere
<1>2. R \cup {SuperAdmin} \in SUBSET (Roles \cup {SuperAdmin})
  BY RowThereIs DEF Accounting!Row
<1>3. row \in Accounting!Row /\ passwords' \in 1..MaxPassword /\ row.deleted = FALSE
  BY <1>1, <1>2, PasswordFresh, FreshRow
<1> HIDE DEF row
<1>4. CASE user[u] = Absent
  BY <1>1, <1>3, <1>4, TakesNone
<1>5. CASE user[u] # Absent
  <2>1. user[u] \in Accounting!Row /\ user[u].deleted = FALSE
    BY <1>1, <1>5, RowThereIs DEF Accounting!Row
  <2>2. \A f \in AccountFields \ RowThere : row[f] = user[u][f]
    BY <1>3, <2>1 DEF AccountFields, RowThere
  <2>3. RowThere \in SUBSET AccountFields
    BY DEF RowThere, AccountFields
  <2> QED BY <1>1, <1>3, <1>5, <2>2, <2>3, TakesRow
<1> QED BY <1>4, <1>5

\* What holds of a request at a step and of the user it has in hand.
LEMMA AtStepOf ==
  ASSUME UsersInv, NEW a \in Clients, actor[a] # Accounting!Idle
  PROVE  /\ actor[a] \in ActorRecord /\ ActorWell(actor[a], user) /\ actor[a].user \in Users
         /\ actor[a].user \notin raced =>
              /\ user[actor[a].user] = userAsked[actor[a].user] /\ AtMostOne(reset[actor[a].user])
              /\ KnowsUser(actor[a], user[actor[a].user], reset[actor[a].user], unrevoked)
              /\ \A b \in Clients \ {a} : actor[b].user # actor[a].user
              /\ \/ actor[a].user \in unrevoked \/ Revokes(actor[a])
                 \/ Current(actor[a].user, user, session)
<1>1. ActorWell(actor[a], user)
  BY DEF UsersInv
<1>2. actor[a] \in ActorRecord
  BY <1>1 DEF ActorWell
<1>3. actor[a].user \in Users
  BY <1>2 DEF ActorRecord
<1> DEFINE u == actor[a].user
<1>4. ASSUME u \notin raced
      PROVE  /\ user[u] = userAsked[u] /\ AtMostOne(reset[u])
             /\ KnowsUser(actor[a], user[u], reset[u], unrevoked)
             /\ \A b \in Clients \ {a} : actor[b].user # u
             /\ u \in unrevoked \/ Revokes(actor[a]) \/ Current(u, user, session)
  <2>1. Account(u, user, userAsked, session, reset, actor, unrevoked)
    BY <1>3, <1>4 DEF UsersInv
  <2>2. \A b \in Clients \ {a} : actor[b].user # u
    BY <2>1 DEF Account, OneActor
  <2>3. Ending(u, actor) => Revokes(actor[a])
    BY <2>2 DEF Ending
  <2> HIDE DEF u
  <2>4. KnowsUser(actor[a], user[u], reset[u], unrevoked)
    BY <2>1 DEF Account, u
  <2> QED BY <2>1, <2>2, <2>3, <2>4 DEF Account
<1> QED BY <1>1, <1>2, <1>3, <1>4

\* A step after which the rows are as they were.
LEMMA RowsStay ==
  ASSUME UsersInv, NEW a \in Clients, actor[a] # Accounting!Idle, Accounting!GoOn(a),
         UNCHANGED <<user, userAsked, unrevoked, raced, passwords>>,
         session' \in [Accounting!TokenIds -> Accounting!Token \cup {Absent}],
         \A s \in Accounting!TokenIds : session'[s] # Absent => user[session'[s].user] # Absent,
         DOMAIN reset' = Users,
         \A q \in Users \ {actor[a].user} :
           reset'[q] = reset[q] /\ (Current(q, user, session) => Current(q, user, session')),
         LET t == AfterStep(actor[a])
             u == actor[a].user IN
           u \notin raced =>
             /\ AtMostOne(reset'[u])
             /\ u \in unrevoked \/ (t.user = u /\ Revokes(t)) \/ Current(u, user, session')
             /\ t.user = u => KnowsUser(t, user[u], reset'[u], unrevoked)
  PROVE  UsersInv'
<1> DEFINE t == AfterStep(actor[a])
           u == actor[a].user
<1>1. actor' = [actor EXCEPT ![a] = t]
  BY GoesToNext DEF UsersInv
<1>2. ActorWell(t, user) /\ t.user \in {u, Absent}
  BY AtStepOf, AfterStepWell, IdleActor
<1>3. u \notin raced =>
        /\ AtMostOne(reset'[u])
        /\ u \in unrevoked \/ (t.user = u /\ Revokes(t)) \/ Current(u, user, session')
        /\ t.user = u => KnowsUser(t, user[u], reset'[u], unrevoked)
        /\ user[u] = userAsked[u]
        /\ \A b \in Clients \ {a} : actor[b].user # u
  BY AtStepOf
<1> HIDE DEF t, u
<1>4. UsersTyped'
  BY DEF UsersInv, UsersTyped
<1>5. ActorWell(t, user') /\ raced \subseteq raced'
      /\ \A q \in Users : user[q] # Absent => user'[q] # Absent
  BY <1>2 DEF ActorWell
<1>6. \A q \in Users : Current(q, user', session') <=> Current(q, user, session')
  BY DEF Current
<1>7. ASSUME NEW q \in Users \ raced', q # u
      PROVE  /\ q \notin {actor[a].user, t.user}
             /\ user'[q] = user[q] /\ userAsked'[q] = userAsked[q] /\ reset'[q] = reset[q]
             /\ q \in unrevoked => q \in unrevoked'
             /\ Current(q, user, session) => Current(q, user', session')
  BY <1>2, <1>6, <1>7, IdleActor DEF u
<1>8. ASSUME NEW q \in Users \ raced', q = u
      PROVE  /\ user'[q] = userAsked'[q] /\ AtMostOne(reset'[q])
             /\ q \in unrevoked' \/ (t.user = q /\ Revokes(t)) \/ Current(q, user', session')
             /\ t.user = q => KnowsUser(t, user'[q], reset'[q], unrevoked')
             /\ \A b \in Clients \ {a} : actor[b].user # q
  BY <1>3, <1>6, <1>8
<1>9. \A q \in Users \ raced' :
        \/ /\ q \notin {actor[a].user, t.user}
           /\ user'[q] = user[q] /\ userAsked'[q] = userAsked[q] /\ reset'[q] = reset[q]
           /\ q \in unrevoked => q \in unrevoked'
           /\ Current(q, user, session) => Current(q, user', session')
        \/ /\ user'[q] = userAsked'[q] /\ AtMostOne(reset'[q])
           /\ q \in unrevoked' \/ (t.user = q /\ Revokes(t)) \/ Current(q, user', session')
           /\ t.user = q => KnowsUser(t, user'[q], reset'[q], unrevoked')
           /\ \A b \in Clients \ {a} : actor[b].user # q
  BY <1>7, <1>8
<1> QED BY <1>1, <1>4, <1>5, <1>9, ActorGoesOn

LEMMA SessionsTyped ==
  ASSUME UsersInv
  PROVE  /\ session \in [Accounting!TokenIds -> Accounting!Token \cup {Absent}]
         /\ \A s \in Accounting!TokenIds : session[s] # Absent => user[session[s].user] # Absent
         /\ DOMAIN reset = Users
         /\ user \in [Users -> Accounting!Row \cup {Absent}] /\ DOMAIN userAsked = Users
         /\ passwords \in 1..MaxPassword
BY DEF UsersInv, UsersTyped

\* Fewer sessions.
LEMMA FewerSessions ==
  ASSUME UsersInv, session' \in [Accounting!TokenIds -> Accounting!Token \cup {Absent}],
         \A s \in Accounting!TokenIds : session'[s] \in {session[s], Absent}
  PROVE  /\ \A s \in Accounting!TokenIds : session'[s] # Absent => user[session'[s].user] # Absent
         /\ \A u \in Users : Current(u, user, session) => Current(u, user, session')
<1>1. \A s \in Accounting!TokenIds : session'[s] # Absent => user[session'[s].user] # Absent
  BY SessionsTyped
<1>2. \A u \in Users : Current(u, user, session) => Current(u, user, session')
  BY DEF Current
<1> QED BY <1>1, <1>2

\* A token is spent.
LEMMA SpendKeeps ==
  ASSUME UsersInv, NEW a \in Clients, Accounting!Spend(a)
  PROVE  UsersInv'
<1> DEFINE t == actor[a]
           n == AfterStep(t)
           u == t.user
<1>1. /\ t.at = "spend" /\ session' = [session EXCEPT ![t.token] = Absent] /\ Accounting!GoOn(a)
      /\ UNCHANGED <<user, userAsked, unrevoked, raced, passwords, reset>>
  BY DEF Accounting!Spend, Accounting!In, Accounting!ghosts
<1>2. t # Accounting!Idle
  BY <1>1, IdleActor
<1>3. session' \in [Accounting!TokenIds -> Accounting!Token \cup {Absent}]
      /\ \A s \in Accounting!TokenIds : session'[s] \in {session[s], Absent}
  BY <1>1, SessionsTyped
<1>4. /\ \A s \in Accounting!TokenIds : session'[s] # Absent => user[session'[s].user] # Absent
      /\ \A q \in Users : Current(q, user, session) => Current(q, user, session')
      /\ reset' = reset /\ DOMAIN reset = Users
  BY <1>1, <1>3, FewerSessions, SessionsTyped
<1>5. n.at = "issue" /\ n.row = t.row /\ n.op = t.op /\ n.user = u /\ u \in Users
  BY <1>1, <1>2, AtStepOf, AfterStepWell, IdleActor
<1>6. ASSUME u \notin raced
      PROVE  /\ AtMostOne(reset'[u])
             /\ u \in unrevoked \/ Current(u, user, session')
             /\ KnowsUser(n, user[u], reset'[u], unrevoked)
  <2>1. /\ AtMostOne(reset[u]) /\ KnowsUser(t, user[u], reset[u], unrevoked)
        /\ u \in unrevoked \/ Revokes(t) \/ Current(u, user, session)
    BY <1>2, <1>6, AtStepOf
  <2>2. KnowsUser(n, user[u], reset[u], unrevoked)
    BY <1>5, <2>1 DEF KnowsUser
  <2>3. ~Revokes(t)
    BY <1>1 DEF Revokes
  <2> QED BY <1>4, <1>5, <2>1, <2>2, <2>3
<1> QED BY <1>1, <1>2, <1>3, <1>4, <1>6, RowsStay

\* A token is issued, which goes back to the password in force.
LEMMA IssueKeeps ==
  ASSUME UsersInv, NEW a \in Clients, Accounting!Issue(a)
  PROVE  UsersInv'
<1> DEFINE t == actor[a]
           n == AfterStep(t)
           u == t.user
           token == [user |-> u, password |-> t.row.password]
<1>1. /\ t.at = "issue" /\ session' = [session EXCEPT ![issued + 1] = token] /\ Accounting!GoOn(a)
      /\ UNCHANGED <<user, userAsked, unrevoked, raced, passwords, reset>>
  BY DEF Accounting!Issue, Accounting!In, Accounting!ghosts
<1>2. t # Accounting!Idle
  BY <1>1, IdleActor
<1>3. /\ t \in ActorRecord /\ u \in Users /\ user[u] # Absent /\ t.op \in {"login", "refresh"}
      /\ t.row.password \in 1..MaxPassword
  <2>1. t \in ActorRecord /\ ActorWell(t, user) /\ u \in Users
    BY <1>2, AtStepOf
  <2>2. t.op \in {"login", "refresh"} /\ t.fields = {}
    BY <1>1, <2>1, IdleActor DEF ActorWell
  <2>3. user[u] # Absent
    BY <1>2, <2>1, <2>2 DEF ActorWell, AccountFields
  <2>4. t.row \in Accounting!Row
    BY <2>1 DEF ActorRecord
  <2> QED BY <2>1, <2>2, <2>3, <2>4 DEF Accounting!Row
<1>4. token \in Accounting!Token /\ token.user = u /\ token.password = t.row.password
  BY <1>3 DEF Accounting!Token
<1> HIDE DEF token
<1>5. /\ session' \in [Accounting!TokenIds -> Accounting!Token \cup {Absent}]
      /\ \A s \in Accounting!TokenIds : session'[s] \in {session[s], token}
  BY <1>1, <1>4, SessionsTyped
<1>6. \A s \in Accounting!TokenIds : session'[s] # Absent => user[session'[s].user] # Absent
  BY <1>3, <1>4, <1>5, SessionsTyped
<1>7. \A q \in Users \ {u} : Current(q, user, session) => Current(q, user, session')
  BY <1>4, <1>5 DEF Current
<1>8. n = Accounting!Idle
  BY <1>1, <1>2, AtStepOf, AfterStepWell
<1>9. ASSUME u \notin raced
      PROVE  AtMostOne(reset'[u]) /\ (u \in unrevoked \/ Current(u, user, session'))
  <2>1. /\ AtMostOne(reset[u]) /\ KnowsUser(t, user[u], reset[u], unrevoked)
        /\ u \in unrevoked \/ Revokes(t) \/ Current(u, user, session)
    BY <1>2, <1>9, AtStepOf
  <2>2. u \in unrevoked \/ t.row.password = user[u].password
    BY <1>3, <2>1 DEF KnowsUser
  <2>3. CASE u \notin unrevoked
    <3>1. Current(u, user, session) /\ token.password = user[u].password
      BY <1>1, <1>4, <2>1, <2>2, <2>3 DEF Revokes
    <3>2. Current(u, user, session')
      BY <1>5, <3>1 DEF Current
    <3> QED BY <1>1, <2>1, <3>2
  <2> QED BY <1>1, <2>1, <2>3
<1>10. n.user # u
  BY <1>3, <1>8, IdleActor
<1>11. reset' = reset /\ DOMAIN reset = Users
  BY <1>1, SessionsTyped
<1> QED BY <1>1, <1>2, <1>5, <1>6, <1>7, <1>9, <1>10, <1>11, RowsStay

\* What a request says of the reset tokens of the user it has in hand.
LEMMA ResetsKeep ==
  ASSUME UsersInv, NEW a \in Clients, actor[a] # Accounting!Idle, Accounting!GoOn(a),
         UNCHANGED <<user, userAsked, unrevoked, raced, passwords, session>>,
         NEW R, reset' = [reset EXCEPT ![actor[a].user] = R],
         actor[a].user \notin raced => AtMostOne(R),
         AfterStep(actor[a]).at = "make" => R = {},
         AfterStep(actor[a]).at \in {"make", "revoke"} \/ AfterStep(actor[a]) = Accounting!Idle,
         AfterStep(actor[a]) = Accounting!Idle => ~Revokes(actor[a])
  PROVE  UsersInv'
<1> DEFINE t == actor[a]
           n == AfterStep(t)
           u == t.user
<1>1. /\ session' \in [Accounting!TokenIds -> Accounting!Token \cup {Absent}]
      /\ \A s \in Accounting!TokenIds : session'[s] # Absent => user[session'[s].user] # Absent
      /\ \A q \in Users : Current(q, user, session) => Current(q, user, session')
  BY SessionsTyped DEF Current
<1>2. u \in Users
  BY AtStepOf
<1>3. DOMAIN reset' = Users /\ reset'[u] = R /\ \A q \in Users \ {u} : reset'[q] = reset[q]
  BY <1>2, SessionsTyped
<1>4. /\ n.at = "make" => R = {}
      /\ n.at \in {"make", "revoke"} \/ n = Accounting!Idle
      /\ n = Accounting!Idle => ~Revokes(t)
      /\ u \notin raced => AtMostOne(R)
  OBVIOUS
<1>5. n = Accounting!Idle \/ (n.user = u /\ n.row = t.row /\ n.op = t.op)
  BY AtStepOf, AfterStepWell
<1>6. ASSUME u \notin raced
      PROVE  /\ AtMostOne(reset'[u])
             /\ u \in unrevoked \/ (n.user = u /\ Revokes(n)) \/ Current(u, user, session')
             /\ n.user = u => KnowsUser(n, user[u], reset'[u], unrevoked)
  <2>1. /\ KnowsUser(t, user[u], reset[u], unrevoked)
        /\ u \in unrevoked \/ Revokes(t) \/ Current(u, user, session)
        /\ ActorWell(t, user)
    BY <1>6, AtStepOf
  <2>2. n.user = u => KnowsUser(n, user[u], R, unrevoked)
    BY <1>2, <1>4, <1>5, <2>1, IdleActor DEF KnowsUser
  <2>3. n.at = "make" => ~Revokes(t)
    <3>1. CASE t.at \in {"use", "revoke"}
      BY <2>1, <3>1, AtStepOf, AfterStepWell, IdleActor
    <3> QED BY <3>1 DEF Revokes
  <2>4. u \in unrevoked \/ (n.user = u /\ Revokes(n)) \/ Current(u, user, session')
    BY <1>1, <1>2, <1>4, <1>5, <2>1, <2>3, IdleActor DEF Revokes
  <2> QED BY <1>3, <1>4, <1>6, <2>2, <2>4
<1> HIDE DEF t, n, u
<1>7. /\ \A q \in Users \ {actor[a].user} :
            reset'[q] = reset[q] /\ (Current(q, user, session) => Current(q, user, session'))
      /\ LET m == AfterStep(actor[a])
             v == actor[a].user IN
           v \notin raced =>
             /\ AtMostOne(reset'[v])
             /\ v \in unrevoked \/ (m.user = v /\ Revokes(m)) \/ Current(v, user, session')
             /\ m.user = v => KnowsUser(m, user[v], reset'[v], unrevoked)
  BY <1>1, <1>3, <1>6 DEF t, n, u
<1> QED BY <1>1, <1>3, <1>7, RowsStay

LEMMA ClearKeeps ==
  ASSUME UsersInv, NEW a \in Clients, Accounting!Clear(a)
  PROVE  UsersInv'
<1>1. /\ actor[a].at = "clear" /\ Accounting!GoOn(a)
      /\ reset' = [reset EXCEPT ![actor[a].user] = {}]
      /\ UNCHANGED <<user, userAsked, unrevoked, raced, passwords, session>>
  BY DEF Accounting!Clear, Accounting!In, Accounting!ghosts
<1>2. actor[a] # Accounting!Idle
  BY <1>1, IdleActor
<1>3. AfterStep(actor[a]).at = "make"
  BY <1>1, <1>2, AtStepOf, AfterStepWell
<1>4. AtMostOne({})
  BY DEF AtMostOne
<1> QED BY <1>1, <1>2, <1>3, <1>4, IdleActor, ResetsKeep

LEMMA MakeKeeps ==
  ASSUME UsersInv, NEW a \in Clients, Accounting!Make(a)
  PROVE  UsersInv'
<1> DEFINE u == actor[a].user
           R == reset[u] \cup {resets + 1}
<1>1. /\ actor[a].at = "make" /\ Accounting!GoOn(a)
      /\ reset' = [reset EXCEPT ![u] = R]
      /\ UNCHANGED <<user, userAsked, unrevoked, raced, passwords, session>>
  BY DEF Accounting!Make, Accounting!In, Accounting!ghosts
<1>2. actor[a] # Accounting!Idle
  BY <1>1, IdleActor
<1>3. AfterStep(actor[a]) = Accounting!Idle /\ ~Revokes(actor[a])
  BY <1>1, <1>2, AtStepOf, AfterStepWell DEF Revokes
<1>4. u \notin raced => AtMostOne(R)
  <2>1. u \notin raced => reset[u] = {}
    BY <1>1, <1>2, AtStepOf DEF KnowsUser
  <2> QED BY <2>1 DEF AtMostOne
<1> HIDE DEF R
<1> QED BY <1>1, <1>2, <1>3, <1>4, IdleActor, ResetsKeep

LEMMA UseKeeps ==
  ASSUME UsersInv, NEW a \in Clients, Accounting!Use(a)
  PROVE  UsersInv'
<1> DEFINE u == actor[a].user
           R == reset[u] \ {actor[a].token}
<1>1. /\ actor[a].at = "use" /\ Accounting!GoOn(a)
      /\ reset' = [reset EXCEPT ![u] = R]
      /\ UNCHANGED <<user, userAsked, unrevoked, raced, passwords, session>>
  BY DEF Accounting!Use, Accounting!In, Accounting!ghosts
<1>2. actor[a] # Accounting!Idle
  BY <1>1, IdleActor
<1>3. AfterStep(actor[a]).at = "revoke"
  BY <1>1, <1>2, AtStepOf, AfterStepWell
<1>4. u \notin raced => AtMostOne(R)
  BY <1>2, AtStepOf DEF AtMostOne
<1> HIDE DEF R
<1> QED BY <1>1, <1>2, <1>3, <1>4, IdleActor, ResetsKeep

\* The sessions of a user are revoked.
LEMMA RevokedSessions ==
  ASSUME UsersInv, NEW u \in Users, session' = Accounting!Revoked(u)
  PROVE  /\ session' \in [Accounting!TokenIds -> Accounting!Token \cup {Absent}]
         /\ \A s \in Accounting!TokenIds : session'[s] \in {session[s], Absent}
         /\ Current(u, user, session')
<1>1. session' = [s \in Accounting!TokenIds |->
                    IF session[s] # Absent /\ session[s].user = u THEN Absent ELSE session[s]]
  BY DEF Accounting!Revoked, Accounting!Exists
<1>2. Current(u, user, session')
  BY <1>1 DEF Current
<1> QED BY <1>1, <1>2, SessionsTyped

LEMMA RevokeKeeps ==
  ASSUME UsersInv, NEW a \in Clients, Accounting!Revoke(a)
  PROVE  UsersInv'
<1> DEFINE t == actor[a]
           n == AfterStep(t)
           u == t.user
<1>1. /\ t.at = "revoke" /\ session' = Accounting!Revoked(u) /\ Accounting!GoOn(a)
      /\ UNCHANGED <<user, userAsked, unrevoked, raced, passwords, reset>>
  BY DEF Accounting!Revoke, Accounting!In, Accounting!ghosts
<1>2. t # Accounting!Idle
  BY <1>1, IdleActor
<1>3. u \in Users /\ n = Accounting!Idle
  BY <1>1, <1>2, AtStepOf, AfterStepWell
<1>4. /\ session' \in [Accounting!TokenIds -> Accounting!Token \cup {Absent}]
      /\ \A s \in Accounting!TokenIds : session'[s] \in {session[s], Absent}
      /\ Current(u, user, session')
  BY <1>1, <1>3, RevokedSessions
<1>5. /\ \A s \in Accounting!TokenIds : session'[s] # Absent => user[session'[s].user] # Absent
      /\ \A q \in Users : Current(q, user, session) => Current(q, user, session')
      /\ reset' = reset /\ DOMAIN reset = Users
  BY <1>1, <1>4, FewerSessions, SessionsTyped
<1>6. n.user # u /\ (u \notin raced => AtMostOne(reset'[u]))
  BY <1>1, <1>2, <1>3, AtStepOf, IdleActor
<1> QED BY <1>1, <1>2, <1>4, <1>5, <1>6, RowsStay

\* A request is done, or cut off; sessions stay if it was ending a change of the
\* password.
LEMMA EndsUser ==
  ASSUME UsersInv, NEW a \in Clients, actor[a] # Accounting!Idle,
         actor' = [actor EXCEPT ![a] = Accounting!Idle],
         UNCHANGED <<user, userAsked, raced, passwords, session, reset>>,
         unrevoked' = IF Revokes(actor[a]) THEN unrevoked \cup {actor[a].user} ELSE unrevoked
  PROVE  UsersInv'
<1> DEFINE t == Accounting!Idle
           u == actor[a].user
<1>1. ActorWell(t, user') /\ raced \subseteq raced' /\ t.user \notin Users
  BY IdleActor DEF ActorWell
<1>2. u \notin raced =>
        /\ user[u] = userAsked[u] /\ AtMostOne(reset[u])
        /\ \A b \in Clients \ {a} : actor[b].user # u
        /\ u \in unrevoked \/ Revokes(actor[a]) \/ Current(u, user, session)
  BY AtStepOf
<1>3. UsersTyped'
  BY DEF UsersInv, UsersTyped
<1>4. \A q \in Users : Current(q, user', session') <=> Current(q, user, session)
  BY DEF Current
<1>5. /\ \A q \in Users : q \in unrevoked => q \in unrevoked'
      /\ Revokes(actor[a]) => u \in unrevoked'
  OBVIOUS
<1> HIDE DEF t, u
<1>6. \A q \in Users \ raced' :
        \/ /\ q \notin {actor[a].user, t.user}
           /\ user'[q] = user[q] /\ userAsked'[q] = userAsked[q] /\ reset'[q] = reset[q]
           /\ q \in unrevoked => q \in unrevoked'
           /\ Current(q, user, session) => Current(q, user', session')
        \/ /\ user'[q] = userAsked'[q] /\ AtMostOne(reset'[q])
           /\ q \in unrevoked' \/ (t.user = q /\ Revokes(t)) \/ Current(q, user', session')
           /\ t.user = q => KnowsUser(t, user'[q], reset'[q], unrevoked')
           /\ \A b \in Clients \ {a} : actor[b].user # q
  <2>1. ASSUME NEW q \in Users \ raced', q # u
        PROVE  /\ q \notin {actor[a].user, t.user}
               /\ user'[q] = user[q] /\ userAsked'[q] = userAsked[q] /\ reset'[q] = reset[q]
               /\ q \in unrevoked => q \in unrevoked'
               /\ Current(q, user, session) => Current(q, user', session')
    BY <1>1, <1>4, <1>5, <2>1 DEF u
  <2>2. ASSUME NEW q \in Users \ raced', q = u
        PROVE  /\ user'[q] = userAsked'[q] /\ AtMostOne(reset'[q])
               /\ q \in unrevoked' \/ Current(q, user', session')
               /\ t.user # q
               /\ \A b \in Clients \ {a} : actor[b].user # q
    BY <1>1, <1>2, <1>4, <1>5, <2>2
  <2> QED BY <2>1, <2>2
<1>7. \A q \in Users : user[q] # Absent => user'[q] # Absent
  OBVIOUS
<1> QED BY <1>1, <1>3, <1>6, <1>7, ActorGoesOn DEF t

LEMMA CutOffUser ==
  ASSUME UsersInv, NEW a \in Clients, Accounting!CutOff(a)
  PROVE  UsersInv'
<1>1. /\ actor[a] # Accounting!Idle /\ actor' = [actor EXCEPT ![a] = Accounting!Idle]
      /\ UNCHANGED <<user, userAsked, raced, passwords, session, reset>>
      /\ unrevoked' = IF Revokes(actor[a]) THEN unrevoked \cup {actor[a].user} ELSE unrevoked
  BY DEF Accounting!CutOff, Accounting!tables, Revokes
<1> QED BY <1>1, EndsUser

\* What is saved is the row the request has, if nobody else had the user in hand.
LEMMA RowOfFields ==
  ASSUME NEW row \in Accounting!Row
  PROVE  row = [f \in AccountFields |-> row[f]]
BY DEF Accounting!Row, AccountFields

LEMMA SavedRow ==
  ASSUME UsersInv, NEW a \in Clients, actor[a] # Accounting!Idle
  PROVE  LET t == actor[a] IN
           /\ Accounting!Saved(t) \in Accounting!Row
           /\ t.at = "save" /\ t.user \notin raced => Accounting!Saved(t) = t.row
<1> DEFINE t == actor[a]
           u == t.user
           row == [t.row EXCEPT !.roles = user[u].roles]
<1>1. t \in ActorRecord /\ ActorWell(t, user) /\ u \in Users
      /\ (u \notin raced => KnowsUser(t, user[u], reset[u], unrevoked))
  BY AtStepOf
<1>2. t.row \in Accounting!Row
  BY <1>1 DEF ActorRecord
<1>3. Accounting!Saved(t) = IF t.op \in {"reset", "change"} THEN row ELSE t.row
  BY DEF Accounting!Saved
<1>4. ASSUME t.op \in {"reset", "change"}
      PROVE  /\ row \in Accounting!Row
             /\ t.at = "save" /\ u \notin raced => row = t.row
  <2>1. user[u] # Absent /\ t.fields = {"password"}
    BY <1>1, <1>4, IdleActor DEF ActorWell, AccountFields
  <2>2. user[u] \in Accounting!Row
    BY <1>1, <2>1, RowThereIs
  <2>3. user[u].roles \in SUBSET (Roles \cup {SuperAdmin})
    BY <2>2 DEF Accounting!Row
  <2>4. row \in Accounting!Row
    BY <1>2, <2>3 DEF Accounting!Row
  <2>5. ASSUME t.at = "save", u \notin raced
        PROVE  row = t.row
    <3>1. t.row.roles = user[u].roles
      BY <1>1, <2>1, <2>5 DEF KnowsUser, AccountFields
    <3> QED BY <1>2, <3>1 DEF Accounting!Row
  <2> QED BY <2>4, <2>5
<1> QED BY <1>2, <1>3, <1>4

\* The row as asked, which that is.
LEMMA AskedRow ==
  ASSUME UsersInv, NEW a \in Clients, actor[a] # Accounting!Idle, actor[a].at = "save",
         actor[a].user \notin raced, actor[a].fields # AccountFields
  PROVE  [f \in Accounting!Fields |->
            IF f \in actor[a].fields THEN actor[a].row[f] ELSE userAsked[actor[a].user][f]]
           = actor[a].row
<1> DEFINE t == actor[a]
           u == t.user
<1>1. /\ t.row \in Accounting!Row /\ user[u] = userAsked[u]
      /\ \A f \in AccountFields \ t.fields : t.row[f] = user[u][f]
  BY AtStepOf DEF ActorRecord, KnowsUser
<1> HIDE DEF t, u
<1>2. [f \in AccountFields |-> IF f \in t.fields THEN t.row[f] ELSE userAsked[u][f]]
        = [f \in AccountFields |-> t.row[f]]
  BY <1>1
<1> QED BY <1>1, <1>2, RowOfFields, FieldsOfAccount DEF t, u

\* The row is saved; the sessions go back to its password, or will be revoked.
LEMMA SaveUser ==
  ASSUME UsersInv, NEW a \in Clients, actor[a] # Accounting!Idle, actor[a].at = "save",
         Accounting!Accepted(actor[a]), Accounting!GoOn(a),
         user' = [user EXCEPT ![actor[a].user] = Accounting!Saved(actor[a])],
         userAsked' = [userAsked EXCEPT ![actor[a].user] =
           IF @ # Absent
           THEN [f \in Accounting!Fields |-> IF f \in actor[a].fields THEN actor[a].row[f] ELSE @[f]]
           ELSE actor[a].row],
         unrevoked' = IF actor[a].op = "bootstrap" THEN unrevoked \cup {actor[a].user}
                      ELSE unrevoked,
         UNCHANGED <<passwords, session, reset, raced>>
  PROVE  UsersInv'
<1> DEFINE t == actor[a]
           u == t.user
           n == AfterStep(t)
           row == Accounting!Saved(t)
           row2 == IF userAsked[u] # Absent
                   THEN [f \in Accounting!Fields |->
                           IF f \in t.fields THEN t.row[f] ELSE userAsked[u][f]]
                   ELSE t.row
<1>1. /\ user' = [user EXCEPT ![u] = row] /\ userAsked' = [userAsked EXCEPT ![u] = row2]
      /\ t.at = "save" /\ (t.fields = AccountFields => user[u] = Absent)
      /\ unrevoked' = IF t.op = "bootstrap" THEN unrevoked \cup {u} ELSE unrevoked
  BY FieldsOfAccount DEF Accounting!Accepted, Accounting!Exists
<1>2. /\ t \in ActorRecord /\ ActorWell(t, user) /\ u \in Users /\ t.row \in Accounting!Row
      /\ u \notin raced =>
           /\ user[u] = userAsked[u] /\ AtMostOne(reset[u])
           /\ KnowsUser(t, user[u], reset[u], unrevoked)
           /\ \A b \in Clients \ {a} : actor[b].user # u
           /\ u \in unrevoked \/ Revokes(t) \/ Current(u, user, session)
  BY AtStepOf DEF ActorRecord
<1>3. /\ row \in Accounting!Row /\ row # Absent
      /\ u \notin raced => row = t.row
  BY <1>1, SavedRow, BackOfficeConstants
<1>4. u \notin raced => row2 = t.row
  <2>1. CASE t.fields = AccountFields
    BY <1>1, <1>2, <2>1
  <2>2. CASE t.fields # AccountFields
    BY <1>1, <2>2, AskedRow
  <2> QED BY <2>1, <2>2
<1>5. /\ actor' = [actor EXCEPT ![a] = n] /\ ActorWell(n, user)
      /\ n = Accounting!Idle \/ (n.user = u /\ n.row = t.row /\ n.op = t.op /\ n.at # "save")
      /\ t.op \in {"reset", "change"} => Revokes(n)
      /\ t.op \in {"edit", "create", "bootstrap"} => n = Accounting!Idle
      /\ t.op = "login" => n.at = "issue"
  BY <1>1, <1>2, GoesToNext, AfterStepWell DEF UsersInv
<1>6. t.op \in {"login", "reset", "change", "edit", "create", "bootstrap"}
  BY <1>1, <1>2, IdleActor DEF ActorWell
<1>7. ASSUME u \notin raced, t.op \in {"login", "edit", "create"}
      PROVE  u \in unrevoked \/ \A s \in Accounting!TokenIds :
                session[s] # Absent /\ session[s].user = u => session[s].password = t.row.password
  <2>1. CASE t.fields = AccountFields
    BY <1>1, <2>1, SessionsTyped
  <2>2. CASE t.fields # AccountFields
    <3>1. u \in unrevoked \/ Current(u, user, session)
      BY <1>1, <1>2, <1>7 DEF Revokes
    <3>2. "password" \in AccountFields \ t.fields
      BY <1>2, <1>7, <2>2, IdleActor DEF ActorWell, AccountFields
    <3>3. t.row.password = user[u].password
      BY <1>1, <1>2, <1>7, <2>2, <3>2 DEF KnowsUser
    <3> QED BY <3>1, <3>3 DEF Current
  <2> QED BY <2>1, <2>2
<1>8. t.op = "login" /\ u \notin raced => n.row.password = t.row.password
  BY <1>5, IdleActor
<1> HIDE DEF t, u, n, row, row2
<1>9. /\ user'[u] = row /\ userAsked'[u] = row2
      /\ \A q \in Users \ {u} : user'[q] = user[q] /\ userAsked'[q] = userAsked[q]
      /\ user' \in [Users -> Accounting!Row \cup {Absent}] /\ DOMAIN userAsked' = Users
  <2>1. DOMAIN userAsked = Users /\ user \in [Users -> Accounting!Row \cup {Absent}]
    BY SessionsTyped
  <2>2. user'[u] = row /\ \A q \in Users \ {u} : user'[q] = user[q]
    BY <1>1, <1>2, <2>1
  <2>3. user' \in [Users -> Accounting!Row \cup {Absent}]
    BY <1>1, <1>2, <1>3, <2>1
  <2>4. /\ userAsked'[u] = row2 /\ \A q \in Users \ {u} : userAsked'[q] = userAsked[q]
        /\ DOMAIN userAsked' = Users
    BY <1>1, <1>2, <2>1
  <2> QED BY <2>2, <2>3, <2>4
<1>10. \A q \in Users : user[q] # Absent => user'[q] # Absent
  BY <1>3, <1>9
<1>11. UsersTyped'
  <2>1. \A s \in Accounting!TokenIds : session[s] # Absent => session[s].user \in Users
    BY SessionsTyped DEF Accounting!Token
  <2>2. \A s \in Accounting!TokenIds : session'[s] # Absent => user'[session'[s].user] # Absent
    BY <1>10, <2>1, SessionsTyped
  <2> QED BY <1>9, <2>2, SessionsTyped DEF UsersTyped
<1>12. ActorWell(n, user')
  BY <1>5, <1>10 DEF ActorWell, ActorRecord
<1>13. \A q \in Users \ {u} : Current(q, user, session) => Current(q, user', session')
  BY <1>9 DEF Current
<1>14. ASSUME u \notin raced
       PROVE  u \in unrevoked' \/ (n.user = u /\ Revokes(n)) \/ Current(u, user', session')
  <2>1. CASE t.op \in {"reset", "change"}
    BY <1>5, <2>1, IdleActor
  <2>2. CASE t.op = "bootstrap"
    BY <1>1, <2>2
  <2>3. CASE t.op \in {"login", "edit", "create"}
    <3>1. user'[u].password = t.row.password
      BY <1>3, <1>9, <1>14
    <3>2. u \in unrevoked => u \in unrevoked'
      BY <1>1
    <3> QED BY <1>7, <1>14, <2>3, <3>1, <3>2 DEF Current
  <2> QED BY <1>6, <2>1, <2>2, <2>3
<1>15. ASSUME u \notin raced, n.user = u
       PROVE  KnowsUser(n, user'[u], reset'[u], unrevoked')
  <2>1. n.op = t.op /\ n.at # "save" /\ n.row = t.row
    BY <1>2, <1>5, <1>15, IdleActor
  <2>2. user'[u].password = t.row.password
    BY <1>3, <1>9, <1>15
  <2>3. n.at # "make"
    BY <1>5, <1>6, <1>15, <1>2, IdleActor DEF Revokes
  <2> QED BY <2>1, <2>2, <2>3 DEF KnowsUser
<1>16. \A q \in Users \ raced' :
        \/ /\ q \notin {actor[a].user, n.user}
           /\ user'[q] = user[q] /\ userAsked'[q] = userAsked[q] /\ reset'[q] = reset[q]
           /\ q \in unrevoked => q \in unrevoked'
           /\ Current(q, user, session) => Current(q, user', session')
        \/ /\ user'[q] = userAsked'[q] /\ AtMostOne(reset'[q])
           /\ q \in unrevoked' \/ (n.user = q /\ Revokes(n)) \/ Current(q, user', session')
           /\ n.user = q => KnowsUser(n, user'[q], reset'[q], unrevoked')
           /\ \A b \in Clients \ {a} : actor[b].user # q
  <2>1. ASSUME NEW q \in Users \ raced', q # u
        PROVE  /\ q \notin {actor[a].user, n.user}
               /\ user'[q] = user[q] /\ userAsked'[q] = userAsked[q] /\ reset'[q] = reset[q]
               /\ q \in unrevoked => q \in unrevoked'
               /\ Current(q, user, session) => Current(q, user', session')
    <3>1. q # n.user
      BY <1>5, <2>1, IdleActor
    <3>2. q # actor[a].user
      BY <2>1 DEF u, t
    <3>3. q \in unrevoked => q \in unrevoked'
      BY <1>1
    <3> QED BY <1>9, <1>13, <2>1, <3>1, <3>2, <3>3
  <2>2. ASSUME NEW q \in Users \ raced', q = u
        PROVE  /\ user'[q] = userAsked'[q] /\ AtMostOne(reset'[q])
               /\ q \in unrevoked' \/ (n.user = q /\ Revokes(n)) \/ Current(q, user', session')
               /\ n.user = q => KnowsUser(n, user'[q], reset'[q], unrevoked')
               /\ \A b \in Clients \ {a} : actor[b].user # q
    BY <1>2, <1>3, <1>4, <1>9, <1>14, <1>15, <2>2
  <2> QED BY <2>1, <2>2
<1>17. raced \subseteq raced'
  OBVIOUS
<1> QED BY <1>5, <1>10, <1>11, <1>12, <1>16, <1>17, ActorGoesOn

LEMMA SaveKeepsUsers ==
  ASSUME UsersInv, NEW a \in Clients, Accounting!Save(a)
  PROVE  UsersInv'
<1>1. /\ actor[a].at = "save" /\ actor[a] # Accounting!Idle
      /\ UNCHANGED <<passwords, session, reset, raced>>
  BY IdleActor DEF Accounting!Save, Accounting!In
<1>2. CASE Accounting!Accepted(actor[a])
  BY <1>1, <1>2, SaveUser DEF Accounting!Save, Accounting!Exists
<1>3. CASE ~Accounting!Accepted(actor[a])
  <2>1. /\ actor' = [actor EXCEPT ![a] = Accounting!Idle]
        /\ UNCHANGED <<user, userAsked, unrevoked>>
    BY <1>3 DEF Accounting!Save
  <2>2. ~Revokes(actor[a])
    BY <1>1 DEF Revokes
  <2> QED BY <1>1, <2>1, <2>2, EndsUser
<1> QED BY <1>2, <1>3

\* A statement of its own, which no request makes, keeps the invariant if a user it
\* changes is in nobody's hand.
LEMMA NoActorMoves ==
  ASSUME UsersInv, actor' = actor, raced \subseteq raced', UsersTyped', unrevoked' = unrevoked,
         \A u \in Users : user[u] # Absent => user'[u] # Absent,
         \A u \in Users \ raced' :
           \/ /\ user'[u] = user[u] /\ userAsked'[u] = userAsked[u] /\ reset'[u] = reset[u]
              /\ Current(u, user, session) => Current(u, user', session')
           \/ /\ user'[u] = userAsked'[u] /\ AtMostOne(reset'[u])
              /\ u \in unrevoked \/ Current(u, user', session')
              /\ \A b \in Clients : actor[b].user # u
  PROVE  UsersInv'
<1>1. \A b \in Clients : ActorWell(actor'[b], user')
  BY DEF UsersInv, ActorWell, ActorRecord
<1>2. ASSUME NEW u \in Users \ raced'
      PROVE  Account(u, user', userAsked', session', reset', actor', unrevoked')
  <2>1. Account(u, user, userAsked, session, reset, actor, unrevoked)
    BY DEF UsersInv
  <2>2. CASE /\ user'[u] = user[u] /\ userAsked'[u] = userAsked[u] /\ reset'[u] = reset[u]
             /\ Current(u, user, session) => Current(u, user', session')
    BY <2>1, <2>2 DEF Account, OneActor, Ending, KnowsUser
  <2>3. CASE /\ user'[u] = userAsked'[u] /\ AtMostOne(reset'[u])
             /\ u \in unrevoked \/ Current(u, user', session')
             /\ \A b \in Clients : actor[b].user # u
    BY <2>3 DEF Account, OneActor
  <2> QED BY <2>2, <2>3
<1>3. \A u \in Users \ raced' : Account(u, user', userAsked', session', reset', actor', unrevoked')
  BY <1>2
<1> QED BY <1>1, <1>3 DEF UsersInv, ActorWell, Account, OneActor, Ending, Current, AtMostOne,
           KnowsUser

\* ... as when sessions end.
LEMMA SessionsEnd ==
  ASSUME UsersInv, UNCHANGED <<actor, user, userAsked, unrevoked, raced, passwords, reset>>,
         session' \in [Accounting!TokenIds -> Accounting!Token \cup {Absent}],
         \A s \in Accounting!TokenIds : session'[s] \in {session[s], Absent}
  PROVE  UsersInv'
<1>1. /\ \A s \in Accounting!TokenIds : session'[s] # Absent => user[session'[s].user] # Absent
      /\ \A u \in Users : Current(u, user, session) => Current(u, user, session')
  BY FewerSessions
<1>2. UsersTyped'
  BY <1>1, SessionsTyped DEF UsersTyped
<1>3. \A u \in Users : Current(u, user', session') <=> Current(u, user, session')
  BY DEF Current
<1>4. \A u \in Users \ raced' :
        /\ user'[u] = user[u] /\ userAsked'[u] = userAsked[u] /\ reset'[u] = reset[u]
        /\ Current(u, user, session) => Current(u, user', session')
  BY <1>1, <1>3
<1> QED BY <1>2, <1>4, NoActorMoves

LEMMA LogoutKeeps ==
  ASSUME UsersInv, NEW s \in Accounting!TokenIds, Accounting!Logout(s)
  PROVE  UsersInv'
<1>1. /\ session' = [session EXCEPT ![s] = Absent]
      /\ UNCHANGED <<actor, user, userAsked, unrevoked, raced, passwords, reset>>
  BY DEF Accounting!Logout, Accounting!ghosts
<1>2. /\ session' \in [Accounting!TokenIds -> Accounting!Token \cup {Absent}]
      /\ \A q \in Accounting!TokenIds : session'[q] \in {session[q], Absent}
  BY <1>1, SessionsTyped
<1> QED BY <1>1, <1>2, SessionsEnd

LEMMA LogoutByAccessTokenKeeps ==
  ASSUME UsersInv, NEW u \in Users, Accounting!LogoutByAccessToken(u)
  PROVE  UsersInv'
<1>1. /\ session' = Accounting!Revoked(u)
      /\ UNCHANGED <<actor, user, userAsked, unrevoked, raced, passwords, reset>>
  BY DEF Accounting!LogoutByAccessToken, Accounting!ghosts
<1> QED BY <1>1, RevokedSessions, SessionsEnd

\* ... and as when rows change but for their passwords.
LEMMA RowsChange ==
  ASSUME UsersInv, UNCHANGED <<actor, unrevoked, passwords, session, reset>>,
         raced \subseteq raced', user' \in [Users -> Accounting!Row \cup {Absent}],
         DOMAIN userAsked' = Users,
         \A u \in Users : user[u] # Absent =>
           user'[u] # Absent /\ user'[u].password = user[u].password,
         \A u \in Users \ raced' :
           \/ user'[u] = user[u] /\ userAsked'[u] = userAsked[u]
           \/ user'[u] = userAsked'[u] /\ \A b \in Clients : actor[b].user # u
  PROVE  UsersInv'
<1>1. \A s \in Accounting!TokenIds : session[s] # Absent =>
        session[s].user \in Users /\ user[session[s].user] # Absent
  BY SessionsTyped DEF Accounting!Token
<1>2. UsersTyped'
  BY <1>1, SessionsTyped DEF UsersTyped
<1>3. \A u \in Users : Current(u, user, session) => Current(u, user', session')
  BY <1>1 DEF Current
<1>4. ASSUME NEW u \in Users \ raced'
      PROVE  \/ /\ user'[u] = user[u] /\ userAsked'[u] = userAsked[u] /\ reset'[u] = reset[u]
                /\ Current(u, user, session) => Current(u, user', session')
             \/ /\ user'[u] = userAsked'[u] /\ AtMostOne(reset'[u])
                /\ u \in unrevoked \/ Current(u, user', session')
                /\ \A b \in Clients : actor[b].user # u
  <2>1. Account(u, user, userAsked, session, reset, actor, unrevoked)
    BY DEF UsersInv
  <2>2. CASE \A b \in Clients : actor[b].user # u
    <3>1. AtMostOne(reset'[u]) /\ (u \in unrevoked \/ Current(u, user, session))
      BY <2>1, <2>2 DEF Account, Ending
    <3> QED BY <1>3, <2>2, <3>1
  <2> QED BY <1>3, <2>2
<1>5. \A u \in Users \ raced' :
        \/ /\ user'[u] = user[u] /\ userAsked'[u] = userAsked[u] /\ reset'[u] = reset[u]
           /\ Current(u, user, session) => Current(u, user', session')
        \/ /\ user'[u] = userAsked'[u] /\ AtMostOne(reset'[u])
           /\ u \in unrevoked \/ Current(u, user', session')
           /\ \A b \in Clients : actor[b].user # u
  BY <1>4
<1> QED BY <1>2, <1>5, NoActorMoves

LEMMA RemoveKeeps ==
  ASSUME UsersInv, NEW u \in Users, Accounting!Remove(u)
  PROVE  UsersInv'
<1>1. /\ user[u] # Absent
      /\ user' = [user EXCEPT ![u].deleted = TRUE]
      /\ userAsked' = [userAsked EXCEPT ![u].deleted = TRUE]
      /\ raced' = raced \cup ({u} \cap Accounting!Held)
      /\ UNCHANGED <<actor, unrevoked, passwords, session, reset>>
  BY DEF Accounting!Remove, Accounting!Present, Accounting!Exists
<1>2. user \in [Users -> Accounting!Row \cup {Absent}] /\ DOMAIN userAsked = Users
  BY SessionsTyped
<1> DEFINE row == [user[u] EXCEPT !.deleted = TRUE]
<1>3. user[u] \in Accounting!Row
  BY <1>1, RowThereIs
<1>4. row \in Accounting!Row /\ row.password = user[u].password
  BY <1>3 DEF Accounting!Row
<1>5. row # Absent
  BY <1>4, BackOfficeConstants
<1>6. user' = [user EXCEPT ![u] = row] /\ userAsked' = [userAsked EXCEPT ![u] =
                                                          [userAsked[u] EXCEPT !.deleted = TRUE]]
  BY <1>1
<1> HIDE DEF row
<1>7. /\ user' \in [Users -> Accounting!Row \cup {Absent}] /\ DOMAIN userAsked' = Users
      /\ user'[u] = row /\ userAsked'[u] = [userAsked[u] EXCEPT !.deleted = TRUE]
      /\ \A q \in Users \ {u} : user'[q] = user[q] /\ userAsked'[q] = userAsked[q]
  BY <1>2, <1>4, <1>6
<1>8. ASSUME u \notin raced'
      PROVE  user'[u] = userAsked'[u] /\ \A b \in Clients : actor[b].user # u
  <2>1. Account(u, user, userAsked, session, reset, actor, unrevoked)
    BY <1>1, <1>8 DEF UsersInv
  <2>2. user[u] = userAsked[u]
    BY <2>1 DEF Account
  <2>3. u \notin Accounting!Held /\ u # Absent
    BY <1>1, <1>8, IdleActor
  <2>4. \A b \in Clients : actor[b].user # u
    BY <2>3 DEF Accounting!Held
  <2> QED BY <1>7, <2>2, <2>4 DEF row
<1>9. /\ raced \subseteq raced'
      /\ \A q \in Users : user[q] # Absent =>
           user'[q] # Absent /\ user'[q].password = user[q].password
  BY <1>1, <1>4, <1>5, <1>7
<1>10. \A q \in Users \ raced' :
         \/ user'[q] = user[q] /\ userAsked'[q] = userAsked[q]
         \/ user'[q] = userAsked'[q] /\ \A b \in Clients : actor[b].user # q
  BY <1>7, <1>8
<1> QED BY <1>1, <1>7, <1>9, <1>10, RowsChange

LEMMA RemoveRoleKeeps ==
  ASSUME UsersInv, NEW r \in Roles, Accounting!RemoveRole(r)
  PROVE  UsersInv'
<1> DEFINE Without(T) == [q \in Users |->
             IF T[q] # Absent THEN [T[q] EXCEPT !.roles = @ \ {r}] ELSE Absent]
<1>1. /\ user' = Without(user) /\ userAsked' = Without(userAsked)
      /\ raced' = raced \cup Accounting!Held
      /\ UNCHANGED <<actor, unrevoked, passwords, session, reset>>
  BY DEF Accounting!RemoveRole, Accounting!Exists
<1>2. ASSUME NEW row \in Accounting!Row
      PROVE  [row EXCEPT !.roles = @ \ {r}] \in Accounting!Row
             /\ [row EXCEPT !.roles = @ \ {r}].password = row.password
  BY DEF Accounting!Row
<1>3. \A q \in Users : user[q] # Absent => user[q] \in Accounting!Row
  BY RowThereIs
<1>4. \A q \in Users : user[q] # Absent =>
        user'[q] \in Accounting!Row /\ user'[q].password = user[q].password
  BY <1>1, <1>2, <1>3
<1>5. /\ user' \in [Users -> Accounting!Row \cup {Absent}] /\ DOMAIN userAsked' = Users
  BY <1>1, <1>4
<1>6. \A q \in Users : user[q] # Absent =>
        user'[q] # Absent /\ user'[q].password = user[q].password
  BY <1>4, BackOfficeConstants
<1>7. ASSUME NEW q \in Users \ raced'
      PROVE  user'[q] = userAsked'[q] /\ \A b \in Clients : actor[b].user # q
  <2>1. Account(q, user, userAsked, session, reset, actor, unrevoked)
    BY <1>1 DEF UsersInv
  <2>2. user[q] = userAsked[q]
    BY <2>1 DEF Account
  <2>3. q \notin Accounting!Held /\ q # Absent
    BY <1>1, IdleActor
  <2>4. \A b \in Clients : actor[b].user # q
    BY <2>3 DEF Accounting!Held
  <2> QED BY <1>1, <2>2, <2>4
<1>8. raced \subseteq raced'
  BY <1>1
<1>9. \A q \in Users \ raced' :
        \/ user'[q] = user[q] /\ userAsked'[q] = userAsked[q]
        \/ user'[q] = userAsked'[q] /\ \A b \in Clients : actor[b].user # q
  BY <1>7
<1> HIDE DEF Without
<1> QED BY <1>1, <1>5, <1>6, <1>8, <1>9, RowsChange

-----------------------------------------------------------------------------
(* Users: the invariant *)

LEMMA UsersBegin == Accounting!Init => UsersInv
<1> SUFFICES ASSUME Accounting!Init PROVE UsersInv
  OBVIOUS
<1> DEFINE row == [password |-> 1, active |-> TRUE, deleted |-> FALSE, roles |-> Roles]
<1>1. PICK u \in Users :
        /\ user = [v \in Users |-> IF v = u THEN row ELSE Absent]
        /\ session = [s \in Accounting!TokenIds |->
                        IF s = 1 THEN [user |-> u, password |-> 1] ELSE Absent]
        /\ userAsked = user /\ passwords = 1 /\ reset = [v \in Users |-> {}]
        /\ actor = [a \in Clients |-> Accounting!Idle]
        /\ raced = {} /\ unrevoked = {}
  BY DEF Accounting!Init
<1>2. 1 \in 1..MaxPassword
  BY BackOfficeConstants
<1>3. row \in Accounting!Row /\ row.password = 1
  BY <1>2 DEF Accounting!Row
<1>4. row # Absent
  BY <1>3, BackOfficeConstants
<1> HIDE DEF row
<1>5. user \in [Users -> Accounting!Row \cup {Absent}]
  BY <1>1, <1>3
<1>6. [user |-> u, password |-> 1] \in Accounting!Token
  BY <1>2 DEF Accounting!Token
<1>7. /\ session \in [Accounting!TokenIds -> Accounting!Token \cup {Absent}]
      /\ \A s \in Accounting!TokenIds : session[s] # Absent =>
           session[s].user = u /\ session[s].password = 1
  BY <1>1, <1>6
<1>8. user[u] = row
  BY <1>1
<1>9. UsersTyped
  BY <1>1, <1>2, <1>4, <1>5, <1>7, <1>8 DEF UsersTyped
<1>10. ASSUME NEW v \in Users
       PROVE  Account(v, user, userAsked, session, reset, actor, unrevoked)
  <2>1. \A a \in Clients : actor[a].user # v
    BY <1>1, IdleActor
  <2>2. Current(v, user, session)
    BY <1>3, <1>7, <1>8 DEF Current
  <2>3. AtMostOne(reset[v])
    BY <1>1 DEF AtMostOne
  <2> QED BY <1>1, <2>1, <2>2, <2>3 DEF Account, OneActor
<1>11. /\ DOMAIN actor = Clients
       /\ \A a \in Clients : ActorWell(actor[a], user)
  BY <1>1 DEF ActorWell
<1> QED BY <1>9, <1>10, <1>11 DEF UsersInv

LEMMA UsersKept == UsersInv /\ [Next]_vars => UsersInv'
<1> SUFFICES ASSUME UsersInv, [Next]_vars
             PROVE  UsersInv'
  OBVIOUS
<1>1. CASE Accounting!Next
  <2>1. \/ \E a \in Clients, u \in Users :
             \/ Accounting!Login(a, u) \/ Accounting!ChangePassword(a, u)
             \/ Accounting!Bootstrap(a, u)
             \/ \E b \in BOOLEAN : Accounting!ForgotPassword(a, u, b)
                                     \/ Accounting!SetActive(a, u, b)
             \/ \E r \in 1..MaxResets : Accounting!ResetPassword(a, u, r)
             \/ \E R \in SUBSET (Roles \cup {SuperAdmin}) :
                  Accounting!SetRoles(a, u, R) \/ Accounting!Create(a, u, R)
        \/ \E a \in Clients :
             \/ \E s \in Accounting!TokenIds : Accounting!Refresh(a, s)
             \/ Accounting!Save(a) \/ Accounting!Spend(a) \/ Accounting!Issue(a)
             \/ Accounting!Clear(a) \/ Accounting!Make(a) \/ Accounting!Use(a)
             \/ Accounting!Revoke(a) \/ Accounting!CutOff(a)
        \/ \E s \in Accounting!TokenIds : Accounting!Logout(s)
        \/ \E u \in Users : Accounting!LogoutByAccessToken(u) \/ Accounting!Remove(u)
        \/ \E r \in Roles : Accounting!RemoveRole(r)
    BY <1>1, Zenon DEF Accounting!Next
  <2>2. CASE \E a \in Clients, u \in Users :
               \/ Accounting!Login(a, u) \/ Accounting!ChangePassword(a, u)
               \/ Accounting!Bootstrap(a, u)
               \/ \E b \in BOOLEAN : Accounting!ForgotPassword(a, u, b)
                                       \/ Accounting!SetActive(a, u, b)
               \/ \E r \in 1..MaxResets : Accounting!ResetPassword(a, u, r)
               \/ \E R \in SUBSET (Roles \cup {SuperAdmin}) :
                    Accounting!SetRoles(a, u, R) \/ Accounting!Create(a, u, R)
    BY <2>2, LoginKeeps, ChangePasswordKeeps, BootstrapKeeps, ForgotPasswordKeeps, EditKeeps,
       ResetPasswordKeeps, CreateUserKeeps
  <2>3. CASE \E a \in Clients :
               \/ \E s \in Accounting!TokenIds : Accounting!Refresh(a, s)
               \/ Accounting!Save(a) \/ Accounting!Spend(a) \/ Accounting!Issue(a)
               \/ Accounting!Clear(a) \/ Accounting!Make(a) \/ Accounting!Use(a)
               \/ Accounting!Revoke(a) \/ Accounting!CutOff(a)
    BY <2>3, RefreshKeeps, SaveKeepsUsers, SpendKeeps, IssueKeeps, ClearKeeps, MakeKeeps,
       UseKeeps, RevokeKeeps, CutOffUser
  <2>4. CASE \/ \E s \in Accounting!TokenIds : Accounting!Logout(s)
             \/ \E u \in Users : Accounting!LogoutByAccessToken(u) \/ Accounting!Remove(u)
             \/ \E r \in Roles : Accounting!RemoveRole(r)
    BY <2>4, LogoutKeeps, LogoutByAccessTokenKeeps, RemoveKeeps, RemoveRoleKeeps
  <2> QED BY <2>1, <2>2, <2>3, <2>4
<1>2. CASE UNCHANGED userVars
  BY <1>2 DEF userVars, UsersInv, UsersTyped, ActorWell, Account, OneActor, Ending, Current,
              AtMostOne, KnowsUser
<1> QED BY <1>1, <1>2 DEF Next, Step, vars

LEMMA FewAreOne ==
  ASSUME NEW R, AtMostOne(R)
  PROVE  Cardinality(R) <= 1
<1>1. CASE R = {}
  <2>1. Cardinality({}) = 0
    BY FS_EmptySet
  <2> QED BY <1>1, <2>1
<1>2. CASE R # {}
  <2>1. PICK x \in R : TRUE
    BY <1>2
  <2>2. R = {x}
    BY <2>1 DEF AtMostOne
  <2>3. Cardinality({x}) = 1
    BY FS_Singleton
  <2> QED BY <2>2, <2>3
<1> QED BY <1>1, <1>2

LEMMA AccountingCardinality ==
  ASSUME NEW R
  PROVE  Accounting!Cardinality(R) = Cardinality(R)
BY DEF Accounting!Cardinality, Cardinality

LEMMA UsersHold == UsersInv => Accounting!AccountsHoldUnlessRaced
<1> SUFFICES ASSUME UsersInv, NEW u \in Users \ raced
             PROVE  /\ user[u] = userAsked[u]
                    /\ u \in unrevoked \/ Accounting!Revoking(u) \/
                         \A s \in Accounting!TokenIds :
                           Accounting!Exists(session[s]) /\ session[s].user = u =>
                             session[s].password = user[u].password
                    /\ Accounting!Cardinality(reset[u]) <= 1
  BY DEF Accounting!AccountsHoldUnlessRaced
<1>1. Account(u, user, userAsked, session, reset, actor, unrevoked)
  BY DEF UsersInv
<1>2. Accounting!Cardinality(reset[u]) <= 1
  BY <1>1, FewAreOne, AccountingCardinality DEF Account
<1>3. u \in unrevoked \/ Accounting!Revoking(u) \/
         \A s \in Accounting!TokenIds :
           Accounting!Exists(session[s]) /\ session[s].user = u =>
             session[s].password = user[u].password
  BY <1>1 DEF Account, Ending, Revokes, Current, Accounting!Revoking, Accounting!Exists
<1> QED BY <1>1, <1>2, <1>3 DEF Account

-----------------------------------------------------------------------------
(* Connections: the inductive invariant *)

ConnectorRecord ==
  [op : {"idle", "consent", "use", "select", "disconnect", "refresh", "choose"},
   at : {"idle", "find", "renew", "save", "read", "rows", "row"},
   c : 0..MaxConnections, row : Connecting!Connection \cup {Absent},
   fields : SUBSET {"active", "account"}, x : Accounts \cup {Absent},
   copies : [Accounts -> Connecting!Account \cup {Absent}], todo : SUBSET Accounts,
   gone : SUBSET Accounts, barred : SUBSET Accounts]

ConnectionsTyped ==
  /\ provider \in {Connecting!Google, Connecting!Meta}
  /\ connections \in 0..MaxConnections /\ rows \in 0..MaxRows
  /\ connection \in [Connecting!Ids -> Connecting!Connection \cup {Absent}]
  /\ account \in [Connecting!Ids -> [Accounts -> Connecting!Account \cup {Absent}]]
  /\ connector \in [Clients -> ConnectorRecord]
  /\ asked \in [Connecting!Ids -> [active : BOOLEAN, account : Accounts \cup {Absent}]]
  /\ chosen \in [Connecting!Ids -> SUBSET Accounts]
  /\ omitted \in [Connecting!Ids -> SUBSET Accounts]

\* A request with a copy of connection c, one that will make a connection, and one with
\* copies of the rows of accounts of c.
HasCopy(t, c) == t.c = c /\ t.at \in {"save", "renew"}
Makes(t) == t.c = 0 /\ t.at = "save"
Lists(t, c) == t.c = c /\ t.at \in {"rows", "row"}

\* A request by the table C of connections: what it has in hand is of a connection there
\* is, of the same owner, or is new and active.
ConnectorWell(t, C) ==
  /\ t.at \in {"find", "save", "renew"} => t.row \in Connecting!Connection
  /\ t.at = "find" => t.c = 0 /\ t.row.active /\ t.row.account = Absent
  /\ Makes(t) => t.row.active /\ t.fields = {"active", "account"}
  /\ t.at = "renew" =>
       t.c # 0 /\ t.row.refresh /\ t.fields = {} /\ t.op \in {"use", "select", "refresh"}
  /\ t.at \in {"save", "renew"} /\ t.c # 0 => C[t.c] # Absent /\ t.row.owner = C[t.c].owner
  /\ t.at \in {"read", "rows", "row"} => t.c # 0
  /\ t.at = "row" => t.x \in Accounts /\ t.copies[t.x] # Absent

\* Connections are numbered in the order they were made.
Numbers == \A c \in Connecting!Ids : connection[c] # Absent => c <= connections

\* A connection that is not active has no token and no account; a copy has the same
\* but for the fields it is to change.
Sound(row) == ~row.active => ~row.access /\ ~row.refresh /\ row.account = Absent
CopyOf(t, row) ==
  /\ Sound(t.row)
  /\ "active" \notin t.fields => t.row.active = row.active
  /\ "account" \notin t.fields => t.row.account = row.account

\* Connection c by the tables of connections C, of what was asked A, of requests K.
OneCopy(c, K) == \A a, b \in Clients : HasCopy(K[a], c) /\ HasCopy(K[b], c) => a = b
Kept(c, C, A, K) ==
  /\ OneCopy(c, K)
  /\ C[c] # Absent =>
       /\ C[c].active = A[c].active /\ C[c].account = A[c].account
       /\ Sound(C[c])
  /\ \A a \in Clients : HasCopy(K[a], c) => CopyOf(K[a], C[c])

\* Owners have one connection, and one more is on its way at most.
OneEach(C, K) ==
  /\ \A c, d \in Connecting!Ids : c # d /\ C[c] # Absent /\ C[d] # Absent => C[c].owner # C[d].owner
  /\ \A a, b \in Clients : Makes(K[a]) /\ Makes(K[b]) => a = b
  /\ \A a \in Clients, c \in Connecting!Ids :
       Makes(K[a]) /\ C[c] # Absent => C[c].owner # K[a].row.owner

\* The accounts T of connection c, those chosen H and those omitted O, by the table K of
\* requests, with provider P.
IsSelected(row) == row # Absent /\ row.selected
Chosen(T, H, O, P) ==
  \A x \in Accounts :
    /\ IsSelected(T[x]) => x \in H
    /\ x \in H => IsSelected(T[x]) \/ (P = Connecting!Meta /\ x \in O)
RowsOf(t, T, O, P) ==
  t.at = "rows" =>
    /\ t.todo \cap t.gone = {} /\ t.gone \subseteq O
    /\ t.gone # {} => P = Connecting!Meta
    /\ \A y \in t.todo \cup t.gone : t.copies[y] = T[y]
Selection(c, T, H, O, K, P) ==
  /\ \A a, b \in Clients : Lists(K[a], c) /\ Lists(K[b], c) => a = b
  /\ Chosen(T, H, O, P)
  /\ \A a \in Clients : Lists(K[a], c) => RowsOf(K[a], T, O, P)

ConnectionsInv ==
  /\ ConnectionsTyped /\ Numbers
  /\ \A a \in Clients : ConnectorWell(connector[a], connection)
  /\ \A c \in Connecting!Ids \ overlapped : Kept(c, connection, asked, connector)
  /\ twofold \in BOOLEAN /\ (twofold \/ OneEach(connection, connector))
  /\ \A c \in Connecting!Ids \ listed :
       Selection(c, account[c], chosen[c], omitted[c], connector, provider)

-----------------------------------------------------------------------------
(* Connections: a request goes on *)

LEMMA KeptMoves ==
  ASSUME NEW c, NEW C, NEW A, NEW K, DOMAIN K = Clients, Kept(c, C, A, K),
         NEW D, D[c] = C[c], NEW B, B[c] = A[c],
         NEW a \in Clients, NEW t, NEW J, J = [K EXCEPT ![a] = t],
         HasCopy(t, c) => /\ CopyOf(t, C[c])
                          /\ \A b \in Clients \ {a} : ~HasCopy(K[b], c)
  PROVE  Kept(c, D, B, J)
<1>1. J[a] = t /\ \A b \in Clients \ {a} : J[b] = K[b]
  OBVIOUS
<1>2. OneCopy(c, J)
  BY <1>1 DEF Kept, OneCopy
<1>3. \A b \in Clients : HasCopy(J[b], c) => CopyOf(J[b], D[c])
  BY <1>1 DEF Kept
<1> QED BY <1>2, <1>3 DEF Kept

\* Connections there are after were before, of the same owner.
SameOwners(C, D) ==
  \A c \in Connecting!Ids : D[c] # Absent => C[c] # Absent /\ D[c].owner = C[c].owner

\* A new owner, and a table of requests none of which but a makes a connection.
NewOwner(C, o) == \A c \in Connecting!Ids : C[c] # Absent => C[c].owner # o
MakesAlone(K, a) == \A b \in Clients \ {a} : ~Makes(K[b])

LEMMA OneEachMoves ==
  ASSUME NEW C, NEW K, DOMAIN K = Clients, OneEach(C, K),
         NEW D, SameOwners(C, D),
         NEW a \in Clients, NEW t, NEW J, J = [K EXCEPT ![a] = t],
         Makes(t) => NewOwner(C, t.row.owner) /\ MakesAlone(K, a)
  PROVE  OneEach(D, J)
<1>1. J[a] = t /\ \A b \in Clients \ {a} : J[b] = K[b]
  OBVIOUS
<1>2. \A c, d \in Connecting!Ids : c # d /\ D[c] # Absent /\ D[d] # Absent => D[c].owner # D[d].owner
  BY DEF OneEach, SameOwners
<1>3. \A b, d \in Clients : Makes(J[b]) /\ Makes(J[d]) => b = d
  BY <1>1 DEF OneEach, MakesAlone
<1>4. \A b \in Clients, c \in Connecting!Ids :
        Makes(J[b]) /\ D[c] # Absent => D[c].owner # J[b].row.owner
  <2>1. ASSUME NEW b \in Clients, NEW c \in Connecting!Ids, Makes(J[b]), D[c] # Absent
        PROVE  D[c].owner # J[b].row.owner
    <3>1. CASE b = a
      BY <1>1, <2>1, <3>1 DEF SameOwners, NewOwner
    <3>2. CASE b # a
      <4>1. J[b] = K[b]
        BY <1>1, <3>2
      <4> QED BY <2>1, <4>1 DEF OneEach, SameOwners
    <3> QED BY <3>1, <3>2
  <2> QED BY <2>1
<1> QED BY <1>2, <1>3, <1>4 DEF OneEach

LEMMA SelectionMoves ==
  ASSUME NEW c, NEW T, NEW H, NEW O, NEW P, NEW K, DOMAIN K = Clients, Selection(c, T, H, O, K, P),
         NEW M, O \subseteq M,
         NEW a \in Clients, NEW t, NEW J, J = [K EXCEPT ![a] = t],
         Lists(t, c) => /\ RowsOf(t, T, M, P)
                        /\ \A b \in Clients \ {a} : ~Lists(K[b], c)
  PROVE  Selection(c, T, H, M, J, P)
<1>1. J[a] = t /\ \A b \in Clients \ {a} : J[b] = K[b]
  OBVIOUS
<1>2. \A b, d \in Clients : Lists(J[b], c) /\ Lists(J[d], c) => b = d
  BY <1>1 DEF Selection
<1>3. Chosen(T, H, M, P)
  BY DEF Selection, Chosen
<1>4. ASSUME NEW b \in Clients, Lists(J[b], c)
      PROVE  RowsOf(J[b], T, M, P)
  <2>1. CASE b = a
    BY <1>1, <1>4, <2>1
  <2>2. CASE b # a
    <3>1. RowsOf(J[b], T, O, P)
      BY <1>1, <1>4, <2>2 DEF Selection
    <3> QED BY <3>1 DEF RowsOf
  <2> QED BY <2>1, <2>2
<1> QED BY <1>2, <1>3, <1>4 DEF Selection

LEMMA ConnectionsFacts ==
  ASSUME ConnectionsInv
  PROVE  /\ provider \in {Connecting!Google, Connecting!Meta}
         /\ connections \in 0..MaxConnections /\ rows \in 0..MaxRows
         /\ connection \in [Connecting!Ids -> Connecting!Connection \cup {Absent}]
         /\ account \in [Connecting!Ids -> [Accounts -> Connecting!Account \cup {Absent}]]
         /\ connector \in [Clients -> ConnectorRecord] /\ DOMAIN connector = Clients
         /\ asked \in [Connecting!Ids -> [active : BOOLEAN, account : Accounts \cup {Absent}]]
         /\ chosen \in [Connecting!Ids -> SUBSET Accounts]
         /\ omitted \in [Connecting!Ids -> SUBSET Accounts]
BY SMTT(30) DEF ConnectionsInv, ConnectionsTyped

\* A request goes on and the tables stay.
LEMMA ConnectorMoves ==
  ASSUME ConnectionsInv, NEW a \in Clients, NEW t \in ConnectorRecord,
         ConnectorWell(t, connection), connector' = [connector EXCEPT ![a] = t],
         UNCHANGED <<provider, connections, connection, account, rows, asked, chosen>>,
         omitted' \in [Connecting!Ids -> SUBSET Accounts],
         \A c \in Connecting!Ids : omitted[c] \subseteq omitted'[c],
         overlapped \subseteq overlapped', listed \subseteq listed',
         twofold' \in BOOLEAN, twofold => twofold',
         \A c \in Connecting!Ids \ overlapped' :
           HasCopy(t, c) => /\ CopyOf(t, connection[c])
                            /\ \A b \in Clients \ {a} : ~HasCopy(connector[b], c),
         ~twofold' /\ Makes(t) => NewOwner(connection, t.row.owner) /\ MakesAlone(connector, a),
         \A c \in Connecting!Ids \ listed' :
           Lists(t, c) => /\ RowsOf(t, account[c], omitted'[c], provider)
                          /\ \A b \in Clients \ {a} : ~Lists(connector[b], c)
  PROVE  ConnectionsInv'
<1>1. DOMAIN connector = Clients
  BY ConnectionsFacts
<1>2. ConnectionsTyped' /\ Numbers'
  BY ConnectionsFacts DEF ConnectionsInv, ConnectionsTyped, Numbers
<1>3. \A b \in Clients : ConnectorWell(connector'[b], connection)
  BY <1>1 DEF ConnectionsInv
<1>4. ASSUME NEW c \in Connecting!Ids \ overlapped'
      PROVE  Kept(c, connection', asked', connector')
  <2>1. Kept(c, connection, asked, connector)
    BY DEF ConnectionsInv
  <2> QED BY <1>1, <2>1, KeptMoves
<1>5. ASSUME ~twofold'
      PROVE  OneEach(connection', connector')
  <2>1. OneEach(connection, connector)
    BY <1>5 DEF ConnectionsInv
  <2>3. Makes(t) => NewOwner(connection, t.row.owner) /\ MakesAlone(connector, a)
    BY <1>5
  <2>2. SameOwners(connection, connection)
    BY DEF SameOwners
  <2>4. OneEach(connection, connector')
    BY <2>2, <1>1, <2>1, <2>3, OneEachMoves
  <2> QED BY <2>4
<1>6. ASSUME NEW c \in Connecting!Ids \ listed'
      PROVE  Selection(c, account'[c], chosen'[c], omitted'[c], connector', provider')
  <2>1. Selection(c, account[c], chosen[c], omitted[c], connector, provider)
    BY DEF ConnectionsInv
  <2>2. omitted[c] \subseteq omitted'[c]
    OBVIOUS
  <2>3. Selection(c, account[c], chosen[c], omitted'[c], connector', provider)
    BY <1>1, <2>1, <2>2, SelectionMoves
  <2> QED BY <2>3
<1>7. /\ \A c \in Connecting!Ids \ overlapped' : Kept(c, connection', asked', connector')
      /\ \A c \in Connecting!Ids \ listed' :
           Selection(c, account'[c], chosen'[c], omitted'[c], connector', provider')
      /\ \A b \in Clients : ConnectorWell(connector'[b], connection')
  BY <1>3, <1>4, <1>6
<1> QED BY <1>2, <1>5, <1>7 DEF ConnectionsInv, Kept, OneCopy, CopyOf, Sound, OneEach, Selection,
           Chosen, RowsOf, ConnectorWell, Makes, HasCopy, Lists, IsSelected

-----------------------------------------------------------------------------
(* Connections: the requests *)

LEMMA IdleConnector ==
  /\ Connecting!Idle \in ConnectorRecord
  /\ Connecting!Idle.op = "idle" /\ Connecting!Idle.at = "idle" /\ Connecting!Idle.c = 0
  /\ Connecting!Idle.row = Absent /\ Connecting!Idle.fields = {} /\ Connecting!Idle.x = Absent
  /\ Connecting!Idle.copies = [y \in Accounts |-> Absent]
  /\ ~Makes(Connecting!Idle)
  /\ \A c : ~HasCopy(Connecting!Idle, c) /\ ~Lists(Connecting!Idle, c)
  /\ \A C : ConnectorWell(Connecting!Idle, C)
<1>1. 0 \in 0..MaxConnections
  BY BackOfficeConstants
<1>2. Connecting!Idle \in ConnectorRecord
  BY <1>1 DEF Connecting!Idle, ConnectorRecord
<1>3. /\ Connecting!Idle.op = "idle" /\ Connecting!Idle.at = "idle" /\ Connecting!Idle.c = 0
      /\ Connecting!Idle.row = Absent /\ Connecting!Idle.fields = {} /\ Connecting!Idle.x = Absent
      /\ Connecting!Idle.copies = [y \in Accounts |-> Absent]
  BY DEF Connecting!Idle
<1> QED BY <1>2, <1>3 DEF Makes, HasCopy, Lists, ConnectorWell

LEMMA HoldAlone ==
  ASSUME NEW a \in Clients, NEW c, Connecting!Hold(a, c)
  PROVE  /\ overlapped \subseteq overlapped'
         /\ c \notin overlapped' => \A b \in Clients \ {a} : ~HasCopy(connector[b], c)
BY DEF Connecting!Hold, Connecting!HasConnection, HasCopy

LEMMA HoldRowsAlone ==
  ASSUME NEW a \in Clients, NEW c, Connecting!HoldRows(a, c)
  PROVE  /\ listed \subseteq listed'
         /\ c \notin listed' => \A b \in Clients \ {a} : ~Lists(connector[b], c)
BY DEF Connecting!HoldRows, Connecting!HasRows, Lists

\* A request takes a copy of a connection.
LEMMA TakesCopy ==
  ASSUME ConnectionsInv, NEW a \in Clients, NEW c \in Connecting!Ids, NEW t \in ConnectorRecord,
         t.c = c, t.at \in {"save", "renew"}, ConnectorWell(t, connection),
         c \notin overlapped => CopyOf(t, connection[c]),
         connector' = [connector EXCEPT ![a] = t], Connecting!Hold(a, c),
         UNCHANGED <<provider, connections, connection, account, rows, asked, chosen, omitted,
                     listed, twofold>>
  PROVE  ConnectionsInv'
<1>1. c # 0
  BY DEF Connecting!Ids
<1>2. ~Makes(t) /\ \A q : ~Lists(t, q) /\ (HasCopy(t, q) => q = c)
  BY <1>1 DEF Makes, Lists, HasCopy
<1>3. /\ overlapped \subseteq overlapped'
      /\ c \notin overlapped' => \A b \in Clients \ {a} : ~HasCopy(connector[b], c)
  BY HoldAlone
<1>4. \A q \in Connecting!Ids \ overlapped' :
        HasCopy(t, q) => /\ CopyOf(t, connection[q])
                         /\ \A b \in Clients \ {a} : ~HasCopy(connector[b], q)
  BY <1>2, <1>3
<1>5. /\ omitted' \in [Connecting!Ids -> SUBSET Accounts]
      /\ \A q \in Connecting!Ids : omitted[q] \subseteq omitted'[q]
      /\ twofold' \in BOOLEAN /\ (twofold => twofold') /\ listed \subseteq listed'
  BY ConnectionsFacts DEF ConnectionsInv
<1> QED BY <1>2, <1>3, <1>4, <1>5, ConnectorMoves

\* A request that holds nothing.
LEMMA TakesNothing ==
  ASSUME ConnectionsInv, NEW a \in Clients, NEW t \in ConnectorRecord,
         t.at \in {"idle", "find", "read"}, ConnectorWell(t, connection),
         connector' = [connector EXCEPT ![a] = t],
         UNCHANGED <<provider, connections, connection, account, rows, asked, chosen, omitted,
                     overlapped, listed, twofold>>
  PROVE  ConnectionsInv'
<1>1. ~Makes(t) /\ \A q : ~Lists(t, q) /\ ~HasCopy(t, q)
  BY DEF Makes, Lists, HasCopy
<1>2. /\ omitted' \in [Connecting!Ids -> SUBSET Accounts]
      /\ \A q \in Connecting!Ids : omitted[q] \subseteq omitted'[q]
      /\ twofold' \in BOOLEAN /\ (twofold => twofold') /\ listed \subseteq listed'
      /\ overlapped \subseteq overlapped'
  BY ConnectionsFacts DEF ConnectionsInv
<1> QED BY <1>1, <1>2, ConnectorMoves

LEMMA HandleCallbackKeeps ==
  ASSUME ConnectionsInv, NEW a \in Clients, NEW o \in Owners \cup {Nobody},
         Connecting!HandleCallback(a, o)
  PROVE  ConnectionsInv'
<1> DEFINE row == [owner |-> o, active |-> TRUE, access |-> TRUE,
                   refresh |-> provider = Connecting!Google, account |-> Absent]
           t == [Connecting!Idle EXCEPT !.op = "consent", !.at = "find", !.row = row]
<1>1. /\ connector' = [connector EXCEPT ![a] = t]
      /\ UNCHANGED <<provider, connections, connection, account, rows, asked, chosen, omitted,
                     overlapped, listed, twofold>>
  BY DEF Connecting!HandleCallback, Connecting!Do, Connecting!tables, Connecting!ghosts
<1>2. (provider = Connecting!Google) \in BOOLEAN
  OBVIOUS
<1>3. row \in Connecting!Connection /\ row.active /\ row.account = Absent
  BY <1>2 DEF Connecting!Connection
<1> HIDE DEF row
<1>4. t \in ConnectorRecord /\ t.at = "find" /\ t.c = 0 /\ t.row = row
  BY <1>3, IdleConnector DEF ConnectorRecord
<1> HIDE DEF t
<1>5. ConnectorWell(t, connection)
  BY <1>3, <1>4 DEF ConnectorWell, Makes
<1> QED BY <1>1, <1>4, <1>5, TakesNothing

LEMMA ConnectorOf ==
  ASSUME ConnectionsInv, NEW a \in Clients
  PROVE  connector[a] \in ConnectorRecord /\ ConnectorWell(connector[a], connection)
BY ConnectionsFacts DEF ConnectionsInv

LEMMA ConnectionThere ==
  ASSUME ConnectionsInv, NEW c \in Connecting!Ids, connection[c] # Absent
  PROVE  /\ connection[c] \in Connecting!Connection
         /\ c \notin overlapped => Sound(connection[c])
BY ConnectionsFacts DEF ConnectionsInv, Kept

LEMMA FindConnectionKeeps ==
  ASSUME ConnectionsInv, NEW a \in Clients, Connecting!FindConnection(a)
  PROVE  ConnectionsInv'
<1> DEFINE t == connector[a]
<1>1. /\ t.at = "find"
      /\ UNCHANGED <<provider, connections, connection, account, rows, asked, chosen, omitted,
                     listed>>
  BY Zenon DEF Connecting!FindConnection, Connecting!tables
<1>2. /\ t \in ConnectorRecord /\ t.c = 0 /\ t.row \in Connecting!Connection
      /\ t.row.active /\ t.row.account = Absent
  BY <1>1, ConnectorOf DEF ConnectorWell
<1>3. CASE Connecting!Found(t.row.owner) = {}
  <2> DEFINE n == [t EXCEPT !.at = "save", !.fields = {"active", "account"}]
  <2>1. /\ connector' = [connector EXCEPT ![a] = n]
        /\ twofold' = (twofold \/ \E b \in Clients : connector[b].at = "save" /\ connector[b].c = 0)
        /\ overlapped' = overlapped
    BY <1>3 DEF Connecting!FindConnection, Connecting!Do
  <2>2. /\ n \in ConnectorRecord /\ n.at = "save" /\ n.c = 0 /\ n.row = t.row
        /\ n.fields = {"active", "account"}
    BY <1>2 DEF ConnectorRecord
  <2>3. NewOwner(connection, t.row.owner)
    BY <1>3 DEF Connecting!Found, Connecting!Exists, NewOwner
  <2> HIDE DEF n, t
  <2>4. ConnectorWell(n, connection)
    BY <1>2, <2>2 DEF ConnectorWell, Makes
  <2>5. \A q : ~Lists(n, q) /\ (HasCopy(n, q) => q = 0)
    BY <2>2 DEF Lists, HasCopy
  <2>6. /\ twofold' \in BOOLEAN /\ (twofold => twofold')
        /\ ~twofold' => MakesAlone(connector, a)
    BY <2>1 DEF ConnectionsInv, MakesAlone, Makes
  <2>7. /\ omitted' \in [Connecting!Ids -> SUBSET Accounts]
        /\ \A q \in Connecting!Ids : omitted[q] \subseteq omitted'[q]
        /\ listed \subseteq listed' /\ overlapped \subseteq overlapped'
        /\ 0 \notin Connecting!Ids
    BY <1>1, <2>1, ConnectionsFacts DEF Connecting!Ids
  <2> QED BY <1>1, <2>1, <2>2, <2>3, <2>4, <2>5, <2>6, <2>7, ConnectorMoves
<1>4. CASE Connecting!Found(t.row.owner) # {}
  <2>1. PICK c \in Connecting!Found(t.row.owner) :
          /\ connector' = [connector EXCEPT ![a] =
               [t EXCEPT !.at = "save", !.c = c, !.fields = {"active"},
                         !.row = [connection[c] EXCEPT !.active = TRUE, !.access = TRUE,
                                                       !.refresh = t.row.refresh]]]
          /\ Connecting!Hold(a, c) /\ twofold' = twofold
    BY <1>4, Zenon DEF Connecting!FindConnection, Connecting!Do
  <2>2. c \in Connecting!Ids /\ connection[c] # Absent
    BY DEF Connecting!Found, Connecting!Exists
  <2> DEFINE row == [connection[c] EXCEPT !.active = TRUE, !.access = TRUE,
                                          !.refresh = t.row.refresh]
             n == [t EXCEPT !.at = "save", !.c = c, !.fields = {"active"}, !.row = row]
  <2>3. connection[c] \in Connecting!Connection
    BY <2>2, ConnectionThere
  <2>4. t.row.refresh \in BOOLEAN
    BY <1>2 DEF Connecting!Connection
  <2>5. /\ row \in Connecting!Connection /\ row.active /\ row.account = connection[c].account
        /\ row.owner = connection[c].owner
    BY <2>3, <2>4 DEF Connecting!Connection
  <2>6. connector' = [connector EXCEPT ![a] = n]
    BY <2>1
  <2> HIDE DEF row
  <2>7. /\ n \in ConnectorRecord /\ n.at = "save" /\ n.c = c /\ n.row = row
        /\ n.fields = {"active"}
    <3>1. c \in 0..MaxConnections
      BY <2>2 DEF Connecting!Ids
    <3> QED BY <1>2, <2>5, <3>1 DEF ConnectorRecord
  <2> HIDE DEF n, t
  <2>8. c # 0
    BY <2>2 DEF Connecting!Ids
  <2>9. ConnectorWell(n, connection)
    BY <2>2, <2>5, <2>7, <2>8 DEF ConnectorWell, Makes
  <2>10. CopyOf(n, connection[c])
    BY <2>5, <2>7 DEF CopyOf, Sound
  <2> QED BY <1>1, <2>1, <2>2, <2>6, <2>7, <2>9, <2>10, TakesCopy
<1> QED BY <1>3, <1>4

LEMMA IdsAreNumbers ==
  /\ 0 \notin Connecting!Ids
  /\ \A c \in Connecting!Ids : c \in 0..MaxConnections /\ c # 0
BY DEF Connecting!Ids

\* A copy that chooses an account, of a connection that has a token.
LEMMA ChoosesAccount ==
  ASSUME NEW row \in Connecting!Connection, NEW x \in Accounts \cup {Absent}
  PROVE  LET r == [row EXCEPT !.account = x] IN
           /\ r \in Connecting!Connection /\ r.owner = row.owner /\ r.active = row.active
           /\ Sound(row) /\ (row.access \/ row.refresh) => Sound(r)
<1> DEFINE r == [row EXCEPT !.account = x]
<1>1. /\ r \in Connecting!Connection /\ r.owner = row.owner /\ r.active = row.active
  BY DEF Connecting!Connection
<1> HIDE DEF r
<1>2. Sound(row) /\ (row.access \/ row.refresh) => Sound(r)
  BY <1>1 DEF Sound
<1> QED BY <1>1, <1>2 DEF r

LEMMA RenewsToken ==
  ASSUME NEW row \in Connecting!Connection, row.refresh
  PROVE  LET r == [row EXCEPT !.access = TRUE] IN
           /\ r \in Connecting!Connection /\ r.owner = row.owner /\ r.refresh
           /\ r.active = row.active /\ r.account = row.account
           /\ Sound(row) => Sound(r)
<1> DEFINE r == [row EXCEPT !.access = TRUE]
<1>1. /\ r \in Connecting!Connection /\ r.owner = row.owner /\ r.refresh = row.refresh
      /\ r.active = row.active /\ r.account = row.account
  BY DEF Connecting!Connection
<1>2. row.refresh = TRUE
  BY DEF Connecting!Connection
<1> HIDE DEF r
<1>3. Sound(row) => Sound(r)
  BY <1>1, <1>2 DEF Sound
<1> QED BY <1>1, <1>3 DEF r

LEMMA TakeTokenKeeps ==
  ASSUME ConnectionsInv, NEW a \in Clients, NEW op \in {"use", "select", "refresh"},
         NEW c \in Connecting!Ids, NEW x \in Accounts \cup {Absent},
         Connecting!TakeToken(a, op, c, x)
  PROVE  ConnectionsInv'
<1> DEFINE row == connection[c]
           t == [Connecting!Idle EXCEPT !.op = op, !.c = c, !.row = row, !.x = x]
           chosenRow == [row EXCEPT !.account = x]
           renewedRow == [row EXCEPT !.access = TRUE]
           n1 == [t EXCEPT !.at = "save", !.row = chosenRow, !.fields = {"account"}]
           n2 == [t EXCEPT !.at = "read"]
           n3 == [t EXCEPT !.at = "renew", !.row = renewedRow]
<1>1. /\ row # Absent
      /\ UNCHANGED <<provider, connections, connection, account, rows, asked, chosen, omitted,
                     listed, twofold>>
      /\ \/ /\ row.access /\ op = "select" /\ Connecting!Hold(a, c)
            /\ connector' = [connector EXCEPT ![a] = n1]
         \/ /\ op = "refresh" /\ overlapped' = overlapped
            /\ connector' = [connector EXCEPT ![a] = n2]
         \/ /\ row.refresh /\ Connecting!Hold(a, c)
            /\ connector' = [connector EXCEPT ![a] = n3]
  BY IdleConnector DEF Connecting!TakeToken, Connecting!Do, Connecting!tables, Connecting!Exists,
     Connecting!Idle
<1>2. row \in Connecting!Connection /\ (c \notin overlapped => Sound(row))
  BY <1>1, ConnectionThere
<1>3. t \in ConnectorRecord /\ t.c = c /\ t.row = row /\ t.fields = {} /\ t.op = op
  BY <1>2, IdsAreNumbers, IdleConnector DEF ConnectorRecord
<1> HIDE DEF t
<1>4. c # 0
  BY IdsAreNumbers
<1>5. CASE /\ row.access /\ op = "select" /\ Connecting!Hold(a, c)
           /\ connector' = [connector EXCEPT ![a] = n1]
  <2>1. /\ chosenRow \in Connecting!Connection /\ chosenRow.owner = row.owner
        /\ chosenRow.active = row.active
        /\ c \notin overlapped => Sound(chosenRow)
    BY <1>2, <1>5, ChoosesAccount
  <2> HIDE DEF chosenRow, row
  <2>2. /\ n1 \in ConnectorRecord /\ n1.at = "save" /\ n1.c = c /\ n1.row = chosenRow
        /\ n1.fields = {"account"}
    BY <1>3, <2>1 DEF ConnectorRecord
  <2> HIDE DEF n1
  <2>3. ConnectorWell(n1, connection)
    BY <1>1, <1>4, <2>1, <2>2 DEF ConnectorWell, Makes, row
  <2>4. c \notin overlapped => CopyOf(n1, row)
    BY <2>1, <2>2 DEF CopyOf
  <2> QED BY <1>1, <1>5, <2>2, <2>3, <2>4, TakesCopy DEF row
<1>6. CASE /\ op = "refresh" /\ overlapped' = overlapped
           /\ connector' = [connector EXCEPT ![a] = n2]
  <2>1. n2 \in ConnectorRecord /\ n2.at = "read" /\ n2.c = c
    BY <1>3 DEF ConnectorRecord
  <2> HIDE DEF n2
  <2>2. ConnectorWell(n2, connection)
    BY <1>4, <2>1 DEF ConnectorWell, Makes
  <2> QED BY <1>1, <1>6, <2>1, <2>2, TakesNothing
<1>7. CASE /\ row.refresh /\ Connecting!Hold(a, c)
           /\ connector' = [connector EXCEPT ![a] = n3]
  <2>1. /\ renewedRow \in Connecting!Connection /\ renewedRow.owner = row.owner
        /\ renewedRow.refresh /\ renewedRow.active = row.active
        /\ renewedRow.account = row.account
        /\ c \notin overlapped => Sound(renewedRow)
    BY <1>2, <1>7, RenewsToken
  <2> HIDE DEF renewedRow, row
  <2>2. /\ n3 \in ConnectorRecord /\ n3.at = "renew" /\ n3.c = c /\ n3.row = renewedRow
        /\ n3.fields = {} /\ n3.op = op
    BY <1>3, <2>1 DEF ConnectorRecord
  <2> HIDE DEF n3
  <2>3. ConnectorWell(n3, connection)
    BY <1>1, <1>4, <2>1, <2>2 DEF ConnectorWell, Makes, row
  <2>4. c \notin overlapped => CopyOf(n3, row)
    BY <2>1, <2>2 DEF CopyOf
  <2> QED BY <1>1, <1>7, <2>2, <2>3, <2>4, TakesCopy DEF row
<1> QED BY <1>1, <1>5, <1>6, <1>7

LEMMA DisconnectKeeps ==
  ASSUME ConnectionsInv, NEW a \in Clients, NEW c \in Connecting!Ids, Connecting!Disconnect(a, c)
  PROVE  ConnectionsInv'
<1> DEFINE row == connection[c]
           cleared == [row EXCEPT !.active = FALSE, !.access = FALSE, !.refresh = FALSE,
                                  !.account = Absent]
           n == [Connecting!Idle EXCEPT !.op = "disconnect", !.at = "save", !.c = c,
                                        !.row = cleared, !.fields = {"active", "account"}]
<1>1. /\ row # Absent /\ connector' = [connector EXCEPT ![a] = n] /\ Connecting!Hold(a, c)
      /\ UNCHANGED <<provider, connections, connection, account, rows, asked, chosen, omitted,
                     listed, twofold>>
  BY DEF Connecting!Disconnect, Connecting!Do, Connecting!tables, Connecting!Exists,
     Connecting!Cleared
<1>2. row \in Connecting!Connection
  BY <1>1, ConnectionThere
<1>3. /\ cleared \in Connecting!Connection /\ cleared.owner = row.owner
      /\ cleared.access = FALSE /\ cleared.refresh = FALSE /\ cleared.account = Absent
  BY <1>2 DEF Connecting!Connection
<1> HIDE DEF cleared, row
<1>4. /\ n \in ConnectorRecord /\ n.at = "save" /\ n.c = c /\ n.row = cleared
      /\ n.fields = {"active", "account"}
  BY <1>3, IdsAreNumbers, IdleConnector DEF ConnectorRecord
<1> HIDE DEF n
<1>5. c # 0
  BY IdsAreNumbers
<1>6. ConnectorWell(n, connection)
  BY <1>1, <1>3, <1>4, <1>5 DEF ConnectorWell, Makes, row
<1>7. CopyOf(n, row)
  BY <1>3, <1>4 DEF CopyOf, Sound
<1> QED BY <1>1, <1>4, <1>6, <1>7, TakesCopy DEF row

LEMMA CutOffConnector ==
  ASSUME ConnectionsInv, NEW a \in Clients, Connecting!CutOff(a)
  PROVE  ConnectionsInv'
<1>1. /\ connector' = [connector EXCEPT ![a] = Connecting!Idle]
      /\ UNCHANGED <<provider, connections, connection, account, rows, asked, chosen, omitted,
                     overlapped, listed, twofold>>
  BY DEF Connecting!CutOff, Connecting!Do, Connecting!tables, Connecting!ghosts
<1> QED BY <1>1, IdleConnector, TakesNothing

\* A request takes copies of the rows of accounts, or needs none.
LEMMA TakesRows ==
  ASSUME ConnectionsInv, NEW a \in Clients, NEW c \in Connecting!Ids, NEW t \in ConnectorRecord,
         t = Connecting!Idle \/ (t.c = c /\ t.at \in {"rows", "row"}),
         ConnectorWell(t, connection), RowsOf(t, account[c], omitted'[c], provider),
         connector' = [connector EXCEPT ![a] = t], Connecting!HoldRows(a, c),
         omitted' \in [Connecting!Ids -> SUBSET Accounts],
         \A q \in Connecting!Ids : omitted[q] \subseteq omitted'[q],
         UNCHANGED <<provider, connections, connection, account, rows, asked, chosen, overlapped,
                     twofold>>
  PROVE  ConnectionsInv'
<1>1. ~Makes(t) /\ \A q : ~HasCopy(t, q) /\ (Lists(t, q) => q = c)
  BY IdleConnector DEF Makes, Lists, HasCopy
<1>2. /\ listed \subseteq listed'
      /\ c \notin listed' => \A b \in Clients \ {a} : ~Lists(connector[b], c)
  BY HoldRowsAlone
<1>3. \A q \in Connecting!Ids \ listed' :
        Lists(t, q) => /\ RowsOf(t, account[q], omitted'[q], provider)
                       /\ \A b \in Clients \ {a} : ~Lists(connector[b], q)
  BY <1>1, <1>2
<1>4. /\ twofold' \in BOOLEAN /\ (twofold => twofold') /\ overlapped \subseteq overlapped'
  BY DEF ConnectionsInv
<1> QED BY <1>1, <1>2, <1>3, <1>4, ConnectorMoves

LEMMA ReadAccountsKeeps ==
  ASSUME ConnectionsInv, NEW a \in Clients, NEW L \in SUBSET Accounts, NEW B \in SUBSET Accounts,
         Connecting!ReadAccounts(a, L, B)
  PROVE  ConnectionsInv'
<1> DEFINE t == connector[a]
           c == t.c
           gone == {x \in Accounts \ L : account[c][x] # Absent}
           n == [t EXCEPT !.at = "rows", !.copies = account[c], !.todo = L, !.barred = B,
                          !.gone = gone]
           m == IF n.todo = {} /\ n.gone = {} THEN Connecting!Idle ELSE n
<1>1. /\ t.at = "read" /\ connector' = [connector EXCEPT ![a] = m] /\ Connecting!HoldRows(a, c)
      /\ omitted' = [omitted EXCEPT ![c] = @ \cup (Accounts \ L)]
      /\ provider = Connecting!Google => L = Accounts
      /\ UNCHANGED <<provider, connections, connection, account, rows, asked, chosen, overlapped,
                     twofold>>
  BY DEF Connecting!ReadAccounts, Connecting!Do, Connecting!tables, Connecting!Exists,
     Connecting!Left
<1>2. t \in ConnectorRecord /\ c # 0
  BY <1>1, ConnectorOf DEF ConnectorWell
<1>3. c \in Connecting!Ids
  BY <1>2 DEF ConnectorRecord, Connecting!Ids
<1>4. account[c] \in [Accounts -> Connecting!Account \cup {Absent}]
  BY <1>3, ConnectionsFacts
<1>5. gone \in SUBSET Accounts /\ gone \subseteq Accounts \ L
  OBVIOUS
<1> HIDE DEF gone
<1>6. /\ n \in ConnectorRecord /\ n.at = "rows" /\ n.c = c /\ n.copies = account[c]
      /\ n.todo = L /\ n.gone = gone
  BY <1>2, <1>4, <1>5 DEF ConnectorRecord
<1>7. m = Connecting!Idle \/ m = n
  OBVIOUS
<1> HIDE DEF n, m
<1>8. /\ omitted' \in [Connecting!Ids -> SUBSET Accounts]
      /\ \A q \in Connecting!Ids : omitted[q] \subseteq omitted'[q]
      /\ Accounts \ L \subseteq omitted'[c]
  <2>1. omitted \in [Connecting!Ids -> SUBSET Accounts]
    BY ConnectionsFacts
  <2> HIDE DEF c
  <2> QED BY <1>1, <1>3, <2>1
<1>9. gone # {} => provider = Connecting!Meta
  BY <1>1, <1>5, ConnectionsFacts
<1>10. RowsOf(m, account[c], omitted'[c], provider)
  BY <1>5, <1>6, <1>7, <1>8, <1>9, IdleConnector DEF RowsOf
<1>11. ConnectorWell(m, connection) /\ m \in ConnectorRecord
  BY <1>2, <1>6, <1>7, IdleConnector DEF ConnectorWell, Makes
<1>12. m = Connecting!Idle \/ (m.c = c /\ m.at \in {"rows", "row"})
  BY <1>6, <1>7
<1> HIDE DEF c
<1> QED BY <1>1, <1>3, <1>8, <1>10, <1>11, <1>12, TakesRows

LEMMA SetSelectionKeeps ==
  ASSUME ConnectionsInv, NEW a \in Clients, NEW c \in Connecting!Ids, NEW x \in Accounts,
         NEW b \in BOOLEAN, Connecting!SetSelection(a, c, x, b)
  PROVE  ConnectionsInv'
<1> DEFINE row == [account[c][x] EXCEPT !.selected = b]
           copies == [Connecting!Idle.copies EXCEPT ![x] = row]
           n == [Connecting!Idle EXCEPT !.op = "choose", !.at = "row", !.c = c, !.x = x,
                                        !.copies = copies]
<1>1. /\ account[c][x] # Absent
      /\ connector' = [connector EXCEPT ![a] = n] /\ Connecting!HoldRows(a, c)
      /\ UNCHANGED <<provider, connections, connection, account, rows, asked, chosen, overlapped,
                     omitted, twofold>>
  BY DEF Connecting!SetSelection, Connecting!Do, Connecting!tables, Connecting!Exists
<1>2. account[c][x] \in Connecting!Account
  BY <1>1, ConnectionsFacts
<1>3. row \in Connecting!Account
  BY <1>2 DEF Connecting!Account
<1>4. row # Absent
  BY <1>3, BackOfficeConstants
<1> HIDE DEF row
<1>5. copies \in [Accounts -> Connecting!Account \cup {Absent}] /\ copies[x] = row
  BY <1>3, IdleConnector
<1> HIDE DEF copies
<1>6. /\ n \in ConnectorRecord /\ n.at = "row" /\ n.c = c /\ n.x = x /\ n.copies = copies
  BY <1>5, IdsAreNumbers, IdleConnector DEF ConnectorRecord
<1> HIDE DEF n
<1>7. ConnectorWell(n, connection)
  BY <1>4, <1>5, <1>6, IdsAreNumbers DEF ConnectorWell, Makes
<1>8. /\ omitted' \in [Connecting!Ids -> SUBSET Accounts]
      /\ \A q \in Connecting!Ids : omitted[q] \subseteq omitted'[q]
  BY <1>1, ConnectionsFacts
<1>9. RowsOf(n, account[c], omitted'[c], provider)
  BY <1>6 DEF RowsOf
<1> QED BY <1>1, <1>6, <1>7, <1>8, <1>9, TakesRows

-----------------------------------------------------------------------------
(* Connections: a connection is saved *)

\* Connections there were are there still, of the same owner.
OwnersStay(C, D) ==
  \A c \in Connecting!Ids : C[c] # Absent => D[c] # Absent /\ D[c].owner = C[c].owner

LEMMA WellByOwners ==
  ASSUME NEW t \in ConnectorRecord, NEW C, NEW D, ConnectorWell(t, C), OwnersStay(C, D)
  PROVE  ConnectorWell(t, D)
<1>1. t.c # 0 => t.c \in Connecting!Ids
  BY SMTT(30) DEF ConnectorRecord, Connecting!Ids
<1> QED BY <1>1 DEF ConnectorWell, OwnersStay

\* What is saved is of the same owner, and is what was asked for unless the connection
\* was in two hands.
LEMMA ConnectionWritten ==
  ASSUME ConnectionsInv, NEW a \in Clients, NEW c \in Connecting!Ids, HasCopy(connector[a], c),
         NEW row \in Connecting!Connection, row.owner = connection[c].owner,
         NEW g \in [active : BOOLEAN, account : Accounts \cup {Absent}],
         NEW n \in ConnectorRecord, ~Makes(n), ConnectorWell(n, connection),
         \A q \in Connecting!Ids : ~Lists(n, q) /\ (HasCopy(n, q) => q = c),
         connector' = [connector EXCEPT ![a] = n],
         connection' = [connection EXCEPT ![c] = row], asked' = [asked EXCEPT ![c] = g],
         c \notin overlapped =>
           /\ row.active = g.active /\ row.account = g.account /\ Sound(row)
           /\ HasCopy(n, c) => CopyOf(n, row),
         UNCHANGED <<provider, connections, account, rows, chosen, omitted, overlapped, listed,
                     twofold>>
  PROVE  ConnectionsInv'
<1>1. DOMAIN connector = Clients
  BY ConnectionsFacts
<1>2. c # 0 /\ connection[c] # Absent
  BY ConnectorOf, IdsAreNumbers DEF ConnectorWell, HasCopy
<1>3. row # Absent
  BY BackOfficeConstants
<1>4. /\ connection'[c] = row /\ asked'[c] = g
      /\ \A q \in Connecting!Ids \ {c} : connection'[q] = connection[q] /\ asked'[q] = asked[q]
      /\ connection' \in [Connecting!Ids -> Connecting!Connection \cup {Absent}]
      /\ asked' \in [Connecting!Ids -> [active : BOOLEAN, account : Accounts \cup {Absent}]]
      /\ connector' \in [Clients -> ConnectorRecord]
  <2>1. /\ connection \in [Connecting!Ids -> Connecting!Connection \cup {Absent}]
        /\ asked \in [Connecting!Ids -> [active : BOOLEAN, account : Accounts \cup {Absent}]]
        /\ connector \in [Clients -> ConnectorRecord]
    BY ConnectionsFacts
  <2>2. connection'[c] = row /\ \A q \in Connecting!Ids \ {c} : connection'[q] = connection[q]
    BY <2>1
  <2>3. asked'[c] = g /\ \A q \in Connecting!Ids \ {c} : asked'[q] = asked[q]
    BY <2>1
  <2>4. connection' \in [Connecting!Ids -> Connecting!Connection \cup {Absent}]
    BY <2>1
  <2>5. asked' \in [Connecting!Ids -> [active : BOOLEAN, account : Accounts \cup {Absent}]]
    BY <2>1
  <2>6. connector' \in [Clients -> ConnectorRecord]
    BY <2>1
  <2> QED BY <2>2, <2>3, <2>4, <2>5, <2>6
<1>5. ConnectionsTyped' /\ Numbers'
  <2>1. ConnectionsTyped'
    BY <1>4, ConnectionsFacts DEF ConnectionsTyped
  <2>2. Numbers'
    BY <1>2, <1>4 DEF ConnectionsInv, Numbers
  <2> QED BY <2>1, <2>2
<1>6. OwnersStay(connection, connection')
  BY <1>3, <1>4 DEF OwnersStay
<1>7. SameOwners(connection, connection')
  BY <1>2, <1>4 DEF SameOwners
<1>8. \A b \in Clients : ConnectorWell(connector'[b], connection')
  <2>1. \A b \in Clients : ConnectorWell(connector'[b], connection)
    BY <1>1, ConnectorOf
  <2>2. \A b \in Clients : connector'[b] \in ConnectorRecord
    BY <1>4
  <2> QED BY <1>6, <2>1, <2>2, WellByOwners
<1>9. ASSUME NEW q \in Connecting!Ids \ overlapped'
      PROVE  Kept(q, connection', asked', connector')
  <2>1. Kept(q, connection, asked, connector)
    BY DEF ConnectionsInv
  <2>2. CASE q = c
    <3>1. \A b \in Clients \ {a} : ~HasCopy(connector[b], c)
      BY <2>1, <2>2 DEF Kept, OneCopy
    <3>2. connector'[a] = n /\ \A b \in Clients \ {a} : connector'[b] = connector[b]
      BY <1>1
    <3>3. \A b \in Clients : HasCopy(connector'[b], c) => b = a
      BY <3>1, <3>2
    <3>4. row.active = g.active /\ row.account = g.account /\ Sound(row)
          /\ (HasCopy(n, c) => CopyOf(n, row))
      BY <2>2
    <3> QED BY <1>4, <2>2, <3>2, <3>3, <3>4 DEF Kept, OneCopy
  <2>3. CASE q # c
    <3>1. ~HasCopy(n, q) /\ connection'[q] = connection[q] /\ asked'[q] = asked[q]
      BY <1>4, <2>3
    <3> QED BY <1>1, <2>1, <3>1, KeptMoves
  <2> QED BY <2>2, <2>3
<1>10. ASSUME ~twofold'
       PROVE  OneEach(connection', connector')
  <2>1. OneEach(connection, connector)
    BY <1>10 DEF ConnectionsInv
  <2> QED BY <1>1, <1>7, <2>1, OneEachMoves
<1>11. ASSUME NEW q \in Connecting!Ids \ listed'
       PROVE  Selection(q, account'[q], chosen'[q], omitted'[q], connector', provider')
  <2>1. Selection(q, account[q], chosen[q], omitted[q], connector, provider) /\ ~Lists(n, q)
    BY DEF ConnectionsInv
  <2>2. Selection(q, account[q], chosen[q], omitted[q], connector', provider)
    BY <1>1, <2>1, SelectionMoves
  <2> QED BY <2>2
<1>12. /\ \A q \in Connecting!Ids \ overlapped' : Kept(q, connection', asked', connector')
       /\ \A q \in Connecting!Ids \ listed' :
            Selection(q, account'[q], chosen'[q], omitted'[q], connector', provider')
       /\ twofold' \in BOOLEAN
  BY <1>9, <1>11 DEF ConnectionsInv
<1> QED BY <1>5, <1>8, <1>10, <1>12 DEF ConnectionsInv, Kept, OneCopy, CopyOf, Sound, OneEach,
           Selection, Chosen, RowsOf, ConnectorWell, Makes, HasCopy, Lists, IsSelected

\* The fields asked for, of the row saved.
LEMMA AskedFields ==
  ASSUME NEW row \in Connecting!Connection, NEW F,
         NEW old \in [active : BOOLEAN, account : Accounts \cup {Absent}]
  PROVE  LET g == [f \in DOMAIN old |-> IF f \in F THEN row[f] ELSE old[f]] IN
           /\ g \in [active : BOOLEAN, account : Accounts \cup {Absent}]
           /\ g.active = IF "active" \in F THEN row.active ELSE old.active
           /\ g.account = IF "account" \in F THEN row.account ELSE old.account
<1> DEFINE g == [f \in DOMAIN old |-> IF f \in F THEN row[f] ELSE old[f]]
<1>1. DOMAIN old = {"active", "account"}
  OBVIOUS
<1>2. DOMAIN g = {"active", "account"}
  BY <1>1
<1>3. g.active = IF "active" \in F THEN row.active ELSE old.active
  BY <1>1
<1>4. g.account = IF "account" \in F THEN row.account ELSE old.account
  BY <1>1
<1>5. g = [f \in {"active", "account"} |-> g[f]]
  BY <1>1
<1>6. g.active \in BOOLEAN
  BY <1>3 DEF Connecting!Connection
<1>7. g.account \in Accounts \cup {Absent}
  BY <1>4 DEF Connecting!Connection
<1> HIDE DEF g
<1>8. g = [active |-> g.active, account |-> g.account]
  BY <1>5
<1>9. g \in [active : BOOLEAN, account : Accounts \cup {Absent}]
  BY <1>6, <1>7, <1>8
<1> QED BY <1>3, <1>4, <1>9 DEF g

\* What a request knows of the connection it has a copy of.
LEMMA CopyIs ==
  ASSUME ConnectionsInv, NEW a \in Clients, NEW c \in Connecting!Ids, HasCopy(connector[a], c)
  PROVE  /\ connector[a].row \in Connecting!Connection
         /\ connection[c] # Absent /\ connector[a].row.owner = connection[c].owner
         /\ c \notin overlapped =>
              /\ Sound(connector[a].row)
              /\ "active" \notin connector[a].fields => connector[a].row.active = asked[c].active
              /\ "account" \notin connector[a].fields => connector[a].row.account = asked[c].account
<1> DEFINE t == connector[a]
<1>1. /\ t.row \in Connecting!Connection
      /\ connection[c] # Absent /\ t.row.owner = connection[c].owner
  BY ConnectorOf, IdsAreNumbers DEF ConnectorWell, HasCopy
<1>2. ASSUME c \notin overlapped
      PROVE  /\ Sound(t.row)
             /\ "active" \notin t.fields => t.row.active = asked[c].active
             /\ "account" \notin t.fields => t.row.account = asked[c].account
  <2>1. CopyOf(t, connection[c])
    BY <1>2 DEF ConnectionsInv, Kept
  <2>2. connection[c].active = asked[c].active /\ connection[c].account = asked[c].account
    BY <1>1, <1>2 DEF ConnectionsInv, Kept
  <2> HIDE DEF t
  <2> QED BY <2>1, <2>2 DEF CopyOf
<1> QED BY <1>1, <1>2

LEMMA RenewKeeps ==
  ASSUME ConnectionsInv, NEW a \in Clients, Connecting!Renew(a)
  PROVE  ConnectionsInv'
<1> DEFINE t == connector[a]
           c == t.c
           chosenRow == [t.row EXCEPT !.account = t.x]
           n1 == [t EXCEPT !.at = "save", !.row = chosenRow, !.fields = {"account"}]
           n2 == [t EXCEPT !.at = "read"]
<1>1. t.at = "renew"
  BY DEF Connecting!Renew
<1>2. /\ t \in ConnectorRecord /\ c # 0 /\ t.row.refresh /\ t.fields = {}
      /\ t.op \in {"use", "select", "refresh"} /\ t.row \in Connecting!Connection
  BY <1>1, ConnectorOf DEF ConnectorWell
<1>3. /\ connection' = [connection EXCEPT ![c] = t.row]
      /\ \/ t.op = "use" /\ connector' = [connector EXCEPT ![a] = Connecting!Idle]
         \/ t.op = "select" /\ connector' = [connector EXCEPT ![a] = n1]
         \/ t.op = "refresh" /\ connector' = [connector EXCEPT ![a] = n2]
      /\ UNCHANGED <<provider, connections, account, rows, asked, chosen, omitted, overlapped,
                     listed, twofold>>
  BY <1>2 DEF Connecting!Renew, Connecting!Do, Connecting!ghosts
<1>4. c \in Connecting!Ids /\ HasCopy(t, c) /\ t.x \in Accounts \cup {Absent}
  BY <1>1, <1>2 DEF ConnectorRecord, Connecting!Ids, HasCopy
<1>5. /\ connection[c] # Absent /\ t.row.owner = connection[c].owner
      /\ c \notin overlapped =>
           /\ Sound(t.row) /\ t.row.active = asked[c].active /\ t.row.account = asked[c].account
  BY <1>2, <1>4, CopyIs
<1>6. /\ asked[c] \in [active : BOOLEAN, account : Accounts \cup {Absent}]
      /\ asked' = [asked EXCEPT ![c] = asked[c]]
  BY <1>3, <1>4, ConnectionsFacts
<1> DEFINE row == t.row
<1>7. ASSUME NEW n \in ConnectorRecord, connector' = [connector EXCEPT ![a] = n], ~Makes(n),
             ConnectorWell(n, connection), n.at \in {"idle", "read", "save"},
             n.c = c \/ n = Connecting!Idle,
             c \notin overlapped /\ n.at = "save" => CopyOf(n, row)
      PROVE  ConnectionsInv'
  <2>1. \A q \in Connecting!Ids : ~Lists(n, q) /\ (HasCopy(n, q) => q = c)
    BY <1>7, IdleConnector DEF Lists, HasCopy
  <2>2. HasCopy(n, c) => n.at = "save"
    BY <1>7 DEF HasCopy
  <2>3. /\ row \in Connecting!Connection /\ row.owner = connection[c].owner
        /\ HasCopy(connector[a], c)
    BY <1>2, <1>4, <1>5
  <2>4. c \notin overlapped =>
          /\ row.active = asked[c].active /\ row.account = asked[c].account /\ Sound(row)
          /\ HasCopy(n, c) => CopyOf(n, row)
    BY <1>5, <1>7, <2>2
  <2>5. /\ connection' = [connection EXCEPT ![c] = row]
        /\ UNCHANGED <<provider, connections, account, rows, chosen, omitted, overlapped, listed,
                       twofold>>
    BY <1>3
  <2> DEFINE g == asked[c]
  <2>6. /\ g \in [active : BOOLEAN, account : Accounts \cup {Absent}]
        /\ asked' = [asked EXCEPT ![c] = g]
    BY <1>6
  <2>7. c \notin overlapped =>
          /\ row.active = g.active /\ row.account = g.account /\ Sound(row)
          /\ HasCopy(n, c) => CopyOf(n, row)
    BY <2>4
  <2> HIDE DEF c, row, g
  <2> QED BY <1>4, <1>7, <2>1, <2>3, <2>5, <2>6, <2>7, ConnectionWritten
<1>8. CASE t.op = "use" /\ connector' = [connector EXCEPT ![a] = Connecting!Idle]
  BY <1>7, <1>8, IdleConnector
<1>9. CASE t.op = "select" /\ connector' = [connector EXCEPT ![a] = n1]
  <2>1. /\ chosenRow \in Connecting!Connection /\ chosenRow.owner = row.owner
        /\ chosenRow.active = row.active
        /\ c \notin overlapped => Sound(chosenRow)
    BY <1>2, <1>4, <1>5, ChoosesAccount
  <2> HIDE DEF chosenRow
  <2>2. /\ n1 \in ConnectorRecord /\ n1.at = "save" /\ n1.c = c /\ n1.row = chosenRow
        /\ n1.fields = {"account"}
    BY <1>2, <2>1 DEF ConnectorRecord
  <2>3. connector' = [connector EXCEPT ![a] = n1]
    BY <1>9
  <2> HIDE DEF n1, c, t
  <2>4. ConnectorWell(n1, connection) /\ ~Makes(n1)
    BY <1>2, <1>5, <2>1, <2>2 DEF ConnectorWell, Makes
  <2>5. c \notin overlapped => CopyOf(n1, row)
    BY <2>1, <2>2 DEF CopyOf
  <2> HIDE DEF row
  <2> QED BY <1>7, <2>2, <2>3, <2>4, <2>5
<1>10. CASE t.op = "refresh" /\ connector' = [connector EXCEPT ![a] = n2]
  <2>1. n2 \in ConnectorRecord /\ n2.at = "read" /\ n2.c = c
    BY <1>2 DEF ConnectorRecord
  <2>2. connector' = [connector EXCEPT ![a] = n2]
    BY <1>10
  <2> HIDE DEF n2, c, t
  <2>3. ConnectorWell(n2, connection) /\ ~Makes(n2)
    BY <1>2, <2>1, SMTT(30) DEF ConnectorWell, Makes
  <2> QED BY <1>7, <2>1, <2>2, <2>3
<1> QED BY <1>3, <1>8, <1>9, <1>10

\* A connection that is new, of an owner who had none.
LEMMA ConnectionMade ==
  ASSUME ConnectionsInv, NEW a \in Clients, Makes(connector[a]),
         connections + 1 \in Connecting!Ids, connections' = connections + 1,
         connection' = [connection EXCEPT ![connections + 1] = connector[a].row],
         NEW g \in [active : BOOLEAN, account : Accounts \cup {Absent}],
         asked' = [asked EXCEPT ![connections + 1] = g],
         g.active = connector[a].row.active, g.account = connector[a].row.account,
         connector' = [connector EXCEPT ![a] = Connecting!Idle],
         UNCHANGED <<provider, account, rows, chosen, omitted, overlapped, listed, twofold>>
  PROVE  ConnectionsInv'
<1> DEFINE row == connector[a].row
           c == connections + 1
<1>1. /\ row \in Connecting!Connection /\ row.active /\ row # Absent
      /\ connector[a] \in ConnectorRecord
  BY ConnectorOf, BackOfficeConstants DEF ConnectorWell, Makes
<1>2. /\ DOMAIN connector = Clients /\ connections \in Nat /\ c \in 0..MaxConnections
      /\ ~(c <= connections)
  BY ConnectionsFacts, IdsAreNumbers
<1>3. connection[c] = Absent
  BY <1>2 DEF ConnectionsInv, Numbers
<1> HIDE DEF row, c
<1>4. /\ connection'[c] = row /\ asked'[c] = g
      /\ \A q \in Connecting!Ids \ {c} : connection'[q] = connection[q] /\ asked'[q] = asked[q]
      /\ connection' \in [Connecting!Ids -> Connecting!Connection \cup {Absent}]
      /\ asked' \in [Connecting!Ids -> [active : BOOLEAN, account : Accounts \cup {Absent}]]
      /\ connector' \in [Clients -> ConnectorRecord]
  <2>1. /\ connection \in [Connecting!Ids -> Connecting!Connection \cup {Absent}]
        /\ asked \in [Connecting!Ids -> [active : BOOLEAN, account : Accounts \cup {Absent}]]
        /\ connector \in [Clients -> ConnectorRecord]
        /\ connection' = [connection EXCEPT ![c] = row] /\ asked' = [asked EXCEPT ![c] = g]
        /\ c \in Connecting!Ids
    BY ConnectionsFacts DEF row, c
  <2>2. connection'[c] = row /\ \A q \in Connecting!Ids \ {c} : connection'[q] = connection[q]
    BY <2>1
  <2>3. asked'[c] = g /\ \A q \in Connecting!Ids \ {c} : asked'[q] = asked[q]
    BY <2>1
  <2>4. connection' \in [Connecting!Ids -> Connecting!Connection \cup {Absent}]
    BY <1>1, <2>1
  <2>5. asked' \in [Connecting!Ids -> [active : BOOLEAN, account : Accounts \cup {Absent}]]
    BY <2>1
  <2>6. connector' \in [Clients -> ConnectorRecord]
    BY <2>1, IdleConnector
  <2> QED BY <2>2, <2>3, <2>4, <2>5, <2>6
<1>5. ConnectionsTyped'
  BY <1>2, <1>4, ConnectionsFacts DEF ConnectionsTyped, c
<1>6. Numbers'
  <2>1. connections' = c /\ c = connections + 1
    BY DEF c
  <2>2. ASSUME NEW q \in Connecting!Ids, connection'[q] # Absent
        PROVE  q <= connections'
    <3>1. CASE q = c
      BY <1>2, <2>1, <3>1
    <3>2. CASE q # c
      <4>1. q <= connections /\ q \in Nat
        BY <1>4, <2>2, <3>2, IdsAreNumbers DEF ConnectionsInv, Numbers
      <4> QED BY <1>2, <2>1, <4>1
    <3> QED BY <3>1, <3>2
  <2> QED BY <2>2 DEF Numbers
<1>7. OwnersStay(connection, connection')
  BY <1>3, <1>4 DEF OwnersStay
<1>8. connector'[a] = Connecting!Idle /\ \A b \in Clients \ {a} : connector'[b] = connector[b]
  BY <1>2
<1>9. \A b \in Clients : ConnectorWell(connector'[b], connection')
  <2>1. \A b \in Clients : ConnectorWell(connector'[b], connection)
    BY <1>8, ConnectorOf, IdleConnector
  <2>2. \A b \in Clients : connector'[b] \in ConnectorRecord
    BY <1>4
  <2> QED BY <1>7, <2>1, <2>2, WellByOwners
<1>10. ASSUME NEW q \in Connecting!Ids \ overlapped'
       PROVE  Kept(q, connection', asked', connector')
  <2>1. Kept(q, connection, asked, connector)
    BY DEF ConnectionsInv
  <2>2. CASE q = c
    <3>1. \A b \in Clients : ~HasCopy(connector[b], c)
      BY <1>3, <2>2, CopyIs
    <3>2. \A b \in Clients : ~HasCopy(connector'[b], c)
      BY <1>8, <3>1, IdleConnector
    <3>3. Sound(row)
      BY <1>1 DEF Sound
    <3>4. g.active = row.active /\ g.account = row.account
      BY DEF row
    <3> QED BY <1>4, <2>2, <3>2, <3>3, <3>4 DEF Kept, OneCopy
  <2>3. CASE q # c
    <3>1. connection'[q] = connection[q] /\ asked'[q] = asked[q] /\ ~HasCopy(Connecting!Idle, q)
      BY <1>4, <2>3, IdleConnector
    <3> QED BY <1>2, <2>1, <3>1, KeptMoves
  <2> QED BY <2>2, <2>3
<1>11. ASSUME ~twofold'
       PROVE  OneEach(connection', connector')
  <2>1. OneEach(connection, connector)
    BY <1>11 DEF ConnectionsInv
  <2>2. \A b \in Clients : ~Makes(connector'[b])
    BY <1>8, <2>1, IdleConnector DEF OneEach
  <2>3. \A q \in Connecting!Ids : connection[q] # Absent => connection[q].owner # row.owner
    BY <2>1 DEF OneEach, row
  <2>4. ASSUME NEW p \in Connecting!Ids, NEW q \in Connecting!Ids, p # q,
               connection'[p] # Absent, connection'[q] # Absent
        PROVE  connection'[p].owner # connection'[q].owner
    <3>1. CASE p = c
      BY <1>4, <2>3, <2>4, <3>1
    <3>2. CASE q = c
      BY <1>4, <2>3, <2>4, <3>2
    <3>3. CASE p # c /\ q # c
      BY <1>4, <2>1, <2>4, <3>3 DEF OneEach
    <3> QED BY <3>1, <3>2, <3>3
  <2> QED BY <2>2, <2>4 DEF OneEach
<1>12. ASSUME NEW q \in Connecting!Ids \ listed'
       PROVE  Selection(q, account'[q], chosen'[q], omitted'[q], connector', provider')
  <2>1. /\ Selection(q, account[q], chosen[q], omitted[q], connector, provider)
        /\ ~Lists(Connecting!Idle, q)
    BY IdleConnector DEF ConnectionsInv
  <2>2. Selection(q, account[q], chosen[q], omitted[q], connector', provider)
    BY <1>2, <2>1, SelectionMoves
  <2> QED BY <2>2
<1>13. /\ \A q \in Connecting!Ids \ overlapped' : Kept(q, connection', asked', connector')
       /\ \A q \in Connecting!Ids \ listed' :
            Selection(q, account'[q], chosen'[q], omitted'[q], connector', provider')
       /\ twofold' \in BOOLEAN
  BY <1>10, <1>12 DEF ConnectionsInv
<1> QED BY <1>5, <1>6, <1>9, <1>11, <1>13 DEF ConnectionsInv, Kept, OneCopy, CopyOf, Sound, OneEach,
           Selection, Chosen, RowsOf, ConnectorWell, Makes, HasCopy, Lists, IsSelected

LEMMA SaveConnectionKeeps ==
  ASSUME ConnectionsInv, NEW a \in Clients, Connecting!SaveConnection(a)
  PROVE  ConnectionsInv'
<1> DEFINE t == connector[a]
           c == IF t.c = 0 THEN connections + 1 ELSE t.c
           g == [f \in DOMAIN asked[c] |-> IF f \in t.fields THEN t.row[f] ELSE asked[c][f]]
<1>1. /\ t.at = "save" /\ c \in Connecting!Ids
      /\ connections' = IF t.c = 0 THEN c ELSE connections
      /\ connection' = [connection EXCEPT ![c] = t.row]
      /\ asked' = [asked EXCEPT ![c] = g]
      /\ connector' = [connector EXCEPT ![a] = Connecting!Idle]
      /\ UNCHANGED <<provider, account, rows, chosen, omitted, overlapped, listed, twofold>>
  BY DEF Connecting!SaveConnection, Connecting!Do
<1>2. t \in ConnectorRecord /\ t.row \in Connecting!Connection
  BY <1>1, ConnectorOf DEF ConnectorWell
<1>3. asked[c] \in [active : BOOLEAN, account : Accounts \cup {Absent}]
  BY <1>1, ConnectionsFacts
<1>4. /\ g \in [active : BOOLEAN, account : Accounts \cup {Absent}]
      /\ g.active = IF "active" \in t.fields THEN t.row.active ELSE asked[c].active
      /\ g.account = IF "account" \in t.fields THEN t.row.account ELSE asked[c].account
  BY <1>2, <1>3, AskedFields
<1> HIDE DEF g
<1>5. CASE t.c = 0
  <2>1. Makes(t) /\ c = connections + 1
    BY <1>1, <1>5 DEF Makes
  <2>2. t.fields = {"active", "account"}
    BY <2>1, ConnectorOf DEF ConnectorWell
  <2>3. g.active = t.row.active /\ g.account = t.row.account
    BY <1>4, <2>2
  <2> QED BY <1>1, <1>4, <1>5, <2>1, <2>3, ConnectionMade
<1>6. CASE t.c # 0
  <2>1. HasCopy(t, c) /\ c = t.c
    BY <1>1, <1>6 DEF HasCopy
  <2>2. /\ t.row.owner = connection[c].owner
        /\ c \notin overlapped =>
             t.row.active = g.active /\ t.row.account = g.account /\ Sound(t.row)
    BY <1>1, <1>4, <2>1, CopyIs
  <2>3. connections' = connections
    BY <1>1, <1>6
  <2> DEFINE row == t.row
  <2>4. row \in Connecting!Connection /\ row.owner = connection[c].owner
        /\ (c \notin overlapped =>
              row.active = g.active /\ row.account = g.account /\ Sound(row))
        /\ connection' = [connection EXCEPT ![c] = row]
    BY <1>1, <1>2, <2>2, SMTT(30)
  <2> HIDE DEF c, row
  <2> QED BY <1>1, <1>4, <2>1, <2>3, <2>4, IdleConnector, ConnectionWritten
<1> QED BY <1>5, <1>6

-----------------------------------------------------------------------------
(* Connections: a row of an account is saved *)

\* Of accounts H were chosen, with row for account x, and M were before; the others
\* are the same.
ChosenAfter(x, row, M, H, O, P) ==
  /\ \A y \in Accounts \ {x} : y \in H <=> y \in M
  /\ IsSelected(row) => x \in H
  /\ x \in H => IsSelected(row) \/ (P = Connecting!Meta /\ x \in O)

LEMMA AccountWritten ==
  ASSUME ConnectionsInv, NEW a \in Clients, NEW c \in Connecting!Ids, NEW x \in Accounts,
         Lists(connector[a], c), NEW row \in Connecting!Account \cup {Absent},
         NEW H \in SUBSET Accounts, NEW n \in ConnectorRecord, ~Makes(n),
         ConnectorWell(n, connection),
         \A q \in Connecting!Ids : ~HasCopy(n, q) /\ (Lists(n, q) => q = c),
         connector' = [connector EXCEPT ![a] = n],
         NEW T, T = [account[c] EXCEPT ![x] = row], account' = [account EXCEPT ![c] = T],
         chosen' = [chosen EXCEPT ![c] = H], rows' \in 0..MaxRows,
         c \notin listed => ChosenAfter(x, row, chosen[c], H, omitted[c], provider),
         c \notin listed /\ Lists(n, c) =>
           RowsOf(n, T, omitted[c], provider),
         UNCHANGED <<provider, connections, connection, asked, omitted, overlapped, listed,
                     twofold>>
  PROVE  ConnectionsInv'
<1>1. DOMAIN connector = Clients /\ account[c] \in [Accounts -> Connecting!Account \cup {Absent}]
  BY ConnectionsFacts
<1>2. /\ T \in [Accounts -> Connecting!Account \cup {Absent}] /\ T[x] = row
      /\ \A y \in Accounts \ {x} : T[y] = account[c][y]
  BY <1>1
<1>4. /\ account'[c] = T /\ chosen'[c] = H
      /\ \A q \in Connecting!Ids \ {c} : account'[q] = account[q] /\ chosen'[q] = chosen[q]
      /\ account' \in [Connecting!Ids -> [Accounts -> Connecting!Account \cup {Absent}]]
      /\ chosen' \in [Connecting!Ids -> SUBSET Accounts]
      /\ connector' \in [Clients -> ConnectorRecord]
  <2>1. /\ account \in [Connecting!Ids -> [Accounts -> Connecting!Account \cup {Absent}]]
        /\ chosen \in [Connecting!Ids -> SUBSET Accounts]
        /\ connector \in [Clients -> ConnectorRecord]
    BY ConnectionsFacts
  <2>2. account'[c] = T /\ \A q \in Connecting!Ids \ {c} : account'[q] = account[q]
    BY <2>1
  <2>3. chosen'[c] = H /\ \A q \in Connecting!Ids \ {c} : chosen'[q] = chosen[q]
    BY <2>1
  <2>4. account' \in [Connecting!Ids -> [Accounts -> Connecting!Account \cup {Absent}]]
    BY <1>2, <2>1
  <2>5. chosen' \in [Connecting!Ids -> SUBSET Accounts]
    BY <2>1
  <2>6. connector' \in [Clients -> ConnectorRecord]
    BY <2>1
  <2> QED BY <2>2, <2>3, <2>4, <2>5, <2>6
<1>5. ConnectionsTyped' /\ Numbers'
  <2>1. ConnectionsTyped'
    BY <1>4, ConnectionsFacts DEF ConnectionsTyped
  <2>2. Numbers'
    BY DEF ConnectionsInv, Numbers
  <2> QED BY <2>1, <2>2
<1>6. connector'[a] = n /\ \A b \in Clients \ {a} : connector'[b] = connector[b]
  BY <1>1
<1>7. \A b \in Clients : ConnectorWell(connector'[b], connection)
  BY <1>6, ConnectorOf
<1>8. ASSUME NEW q \in Connecting!Ids \ overlapped'
      PROVE  Kept(q, connection', asked', connector')
  <2>1. Kept(q, connection, asked, connector) /\ ~HasCopy(n, q)
    BY DEF ConnectionsInv
  <2>2. Kept(q, connection, asked, connector')
    BY <1>1, <2>1, KeptMoves
  <2> QED BY <2>2
<1>9. ASSUME ~twofold'
      PROVE  OneEach(connection', connector')
  <2>1. OneEach(connection, connector) /\ SameOwners(connection, connection)
    BY <1>9 DEF ConnectionsInv, SameOwners
  <2>2. OneEach(connection, connector')
    BY <1>1, <2>1, OneEachMoves
  <2> QED BY <2>2
<1>10. ASSUME NEW q \in Connecting!Ids \ listed'
       PROVE  Selection(q, account'[q], chosen'[q], omitted'[q], connector', provider')
  <2>1. Selection(q, account[q], chosen[q], omitted[q], connector, provider)
    BY DEF ConnectionsInv
  <2>2. CASE q = c
    <3>1. \A b \in Clients \ {a} : ~Lists(connector[b], c)
      BY <2>1, <2>2 DEF Selection
    <3>2. \A b \in Clients : Lists(connector'[b], c) => b = a
      BY <1>6, <3>1
    <3>3. Chosen(T, H, omitted[c], provider)
      <4>1. Chosen(account[c], chosen[c], omitted[c], provider)
        BY <2>1, <2>2 DEF Selection
      <4>2. ASSUME NEW y \in Accounts
            PROVE  /\ IsSelected(T[y]) => y \in H
                   /\ y \in H => IsSelected(T[y]) \/
                                   (provider = Connecting!Meta /\ y \in omitted[c])
        <5>1. CASE y = x
          BY <1>2, <2>2, <5>1 DEF ChosenAfter
        <5>2. CASE y # x
          <6>1. T[y] = account[c][y] /\ (y \in H <=> y \in chosen[c])
            BY <1>2, <2>2, <5>2 DEF ChosenAfter
          <6> QED BY <4>1, <6>1 DEF Chosen
        <5> QED BY <5>1, <5>2
      <4> QED BY <4>2 DEF Chosen
    <3>4. Lists(n, c) => RowsOf(n, T, omitted[c], provider)
      BY <2>2
    <3>5. Selection(c, T, H, omitted[c], connector', provider)
      BY <1>6, <3>2, <3>3, <3>4 DEF Selection
    <3> QED BY <1>4, <2>2, <3>5
  <2>3. CASE q # c
    <3>1. ~Lists(n, q) /\ account'[q] = account[q] /\ chosen'[q] = chosen[q]
      BY <1>4, <2>3
    <3>2. Selection(q, account[q], chosen[q], omitted[q], connector', provider)
      BY <1>1, <2>1, <3>1, SelectionMoves
    <3> QED BY <3>1, <3>2
  <2> QED BY <2>2, <2>3
<1>11. /\ \A q \in Connecting!Ids \ overlapped' : Kept(q, connection', asked', connector')
       /\ \A q \in Connecting!Ids \ listed' :
            Selection(q, account'[q], chosen'[q], omitted'[q], connector', provider')
       /\ \A b \in Clients : ConnectorWell(connector'[b], connection')
       /\ twofold' \in BOOLEAN
  BY <1>7, <1>8, <1>10 DEF ConnectionsInv
<1> QED BY <1>5, <1>9, <1>11 DEF ConnectionsInv, Kept, OneCopy, CopyOf, Sound, OneEach,
           Selection, Chosen, RowsOf, ConnectorWell, Makes, HasCopy, Lists, IsSelected

\* What a request with copies of rows knows of them.
LEMMA RowsKnown ==
  ASSUME ConnectionsInv, NEW a \in Clients, connector[a].at \in {"rows", "row"}
  PROVE  /\ connector[a] \in ConnectorRecord /\ connector[a].c \in Connecting!Ids
         /\ Lists(connector[a], connector[a].c)
         /\ connector[a].c \notin listed =>
              /\ RowsOf(connector[a], account[connector[a].c], omitted[connector[a].c], provider)
              /\ Chosen(account[connector[a].c], chosen[connector[a].c], omitted[connector[a].c],
                        provider)
<1> DEFINE t == connector[a]
           c == t.c
<1>1. t \in ConnectorRecord /\ c # 0
  BY ConnectorOf DEF ConnectorWell
<1>2. c \in Connecting!Ids /\ Lists(t, c)
  BY <1>1 DEF ConnectorRecord, Connecting!Ids, Lists
<1>3. ASSUME c \notin listed
      PROVE  /\ RowsOf(t, account[c], omitted[c], provider)
             /\ Chosen(account[c], chosen[c], omitted[c], provider)
  <2>1. Selection(c, account[c], chosen[c], omitted[c], connector, provider)
    BY <1>2, <1>3 DEF ConnectionsInv
  <2> QED BY <1>2, <2>1 DEF Selection
<1> QED BY <1>1, <1>2, <1>3

\* The rows that are left, and a request that goes on with them or is done.
LEMMA FewerRows ==
  ASSUME NEW t \in ConnectorRecord, t.at = "rows", NEW c, t.c = c, c # 0, NEW x,
         NEW n, n \in {[t EXCEPT !.todo = t.todo \ {x}], [t EXCEPT !.gone = t.gone \ {x}]},
         NEW m, m = IF n.todo = {} /\ n.gone = {} THEN Connecting!Idle ELSE n
  PROVE  /\ m \in ConnectorRecord /\ ~Makes(m) /\ \A C : ConnectorWell(m, C)
         /\ \A q : ~HasCopy(m, q) /\ (Lists(m, q) => q = c)
         /\ m = Connecting!Idle \/
              /\ m.at = "rows" /\ m.copies = t.copies
              /\ \/ m.todo = t.todo \ {x} /\ m.gone = t.gone
                 \/ m.todo = t.todo /\ m.gone = t.gone \ {x}
<1>1. /\ n \in ConnectorRecord /\ n.at = "rows" /\ n.c = c /\ n.copies = t.copies
      /\ \/ n = [t EXCEPT !.todo = t.todo \ {x}] /\ n.todo = t.todo \ {x} /\ n.gone = t.gone
         \/ n = [t EXCEPT !.gone = t.gone \ {x}] /\ n.todo = t.todo /\ n.gone = t.gone \ {x}
  <2>1. CASE n = [t EXCEPT !.todo = t.todo \ {x}]
    BY <2>1 DEF ConnectorRecord
  <2>2. CASE n = [t EXCEPT !.gone = t.gone \ {x}]
    BY <2>2 DEF ConnectorRecord
  <2> QED BY <2>1, <2>2
<1>2. m = Connecting!Idle \/ m = n
  OBVIOUS
<1>3. ~Makes(n) /\ \A C : ConnectorWell(n, C)
  BY <1>1 DEF ConnectorWell, Makes
<1>4. \A q : ~HasCopy(n, q) /\ (Lists(n, q) => q = c)
  BY <1>1 DEF HasCopy, Lists
<1> QED BY <1>1, <1>2, <1>3, <1>4, IdleConnector

\* Request m is t done with the row of account x; tables S and T differ in that row.
DoneWith(t, m, x) ==
  m = Connecting!Idle \/
    /\ m.at = "rows" /\ m.copies = t.copies
    /\ \/ m.todo = t.todo \ {x} /\ m.gone = t.gone /\ x \in t.todo
       \/ m.todo = t.todo /\ m.gone = t.gone \ {x} /\ x \in t.gone
SameBut(x, T, S) == \A y \in Accounts : y # x => S[y] = T[y]

LEMMA RowsLeftOf ==
  ASSUME NEW t \in ConnectorRecord, t.at = "rows", NEW T, NEW O, NEW P, RowsOf(t, T, O, P),
         NEW x, NEW m, DoneWith(t, m, x), NEW S, SameBut(x, T, S)
  PROVE  RowsOf(m, S, O, P)
<1>1. CASE m = Connecting!Idle
  BY <1>1, IdleConnector DEF RowsOf
<1>2. CASE m # Connecting!Idle
  <2>1. /\ m.at = "rows" /\ m.copies = t.copies
        /\ m.todo \cup m.gone \subseteq t.todo \cup t.gone /\ m.gone \subseteq t.gone
        /\ m.todo \cap m.gone = {} /\ x \notin m.todo \cup m.gone
    BY <1>2 DEF RowsOf, DoneWith
  <2>2. t.todo \cup t.gone \subseteq Accounts
    BY DEF ConnectorRecord
  <2> QED BY <2>1, <2>2 DEF RowsOf, SameBut
<1> QED BY <1>1, <1>2

\* The row that a refresh saves: of the account it read or new, selected if that was.
LEMMA RowSaved ==
  ASSUME NEW old \in Connecting!Account \cup {Absent}, NEW b \in BOOLEAN, NEW i,
         NEW row, row = IF old # Absent THEN [old EXCEPT !.restricted = b]
                        ELSE [id |-> i, selected |-> FALSE, restricted |-> b],
         old = Absent => i \in 1..MaxRows
  PROVE  row \in Connecting!Account /\ (IsSelected(row) <=> IsSelected(old))
<1>1. CASE old = Absent
  <2>1. row = [id |-> i, selected |-> FALSE, restricted |-> b]
    BY <1>1
  <2>2. row \in Connecting!Account /\ row.selected = FALSE
    BY <1>1, <2>1 DEF Connecting!Account
  <2> QED BY <1>1, <2>2 DEF IsSelected
<1>2. CASE old # Absent
  <2>1. old \in Connecting!Account /\ row = [old EXCEPT !.restricted = b]
    BY <1>2
  <2>2. row \in Connecting!Account /\ row.selected = old.selected
    BY <2>1 DEF Connecting!Account
  <2>3. row # Absent
    BY <2>2, BackOfficeConstants
  <2>4. IsSelected(row) <=> row.selected
    BY <2>3 DEF IsSelected
  <2>5. IsSelected(old) <=> old.selected
    BY <1>2 DEF IsSelected
  <2> QED BY <2>2, <2>4, <2>5
<1> QED BY <1>1, <1>2

\* A row stays, and the request goes on or is done.
LEMMA AccountStays ==
  ASSUME ConnectionsInv, NEW a \in Clients, NEW c \in Connecting!Ids, Lists(connector[a], c),
         NEW n \in ConnectorRecord, ~Makes(n), ConnectorWell(n, connection),
         \A q \in Connecting!Ids : ~HasCopy(n, q) /\ (Lists(n, q) => q = c),
         c \notin listed => RowsOf(n, account[c], omitted[c], provider),
         connector' = [connector EXCEPT ![a] = n],
         UNCHANGED <<provider, connections, connection, account, rows, asked, chosen, omitted,
                     overlapped, listed, twofold>>
  PROVE  ConnectionsInv'
<1>1. c \notin listed => \A b \in Clients \ {a} : ~Lists(connector[b], c)
  BY DEF ConnectionsInv, Selection
<1>2. \A q \in Connecting!Ids \ listed' :
        Lists(n, q) => /\ RowsOf(n, account[q], omitted'[q], provider)
                       /\ \A b \in Clients \ {a} : ~Lists(connector[b], q)
  BY <1>1
<1>3. /\ omitted' \in [Connecting!Ids -> SUBSET Accounts]
      /\ \A q \in Connecting!Ids : omitted[q] \subseteq omitted'[q]
      /\ twofold' \in BOOLEAN /\ (twofold => twofold') /\ listed \subseteq listed'
      /\ overlapped \subseteq overlapped'
  BY ConnectionsFacts DEF ConnectionsInv
<1> QED BY <1>2, <1>3, ConnectorMoves

LEMMA SaveAccountKeeps ==
  ASSUME ConnectionsInv, NEW a \in Clients, NEW x \in Accounts, Connecting!SaveAccount(a, x)
  PROVE  ConnectionsInv'
<1> DEFINE t == connector[a]
           c == t.c
           old == t.copies[x]
           row == IF old # Absent THEN [old EXCEPT !.restricted = (x \in t.barred)]
                  ELSE [id |-> rows + 1, selected |-> FALSE, restricted |-> (x \in t.barred)]
           n == [t EXCEPT !.todo = t.todo \ {x}]
           m == IF n.todo = {} /\ n.gone = {} THEN Connecting!Idle ELSE n
<1>1. t.at = "rows" /\ x \in t.todo
  BY DEF Connecting!SaveAccount
<1>2. /\ t \in ConnectorRecord /\ c \in Connecting!Ids /\ Lists(t, c) /\ c # 0
      /\ c \notin listed => /\ RowsOf(t, account[c], omitted[c], provider)
                            /\ Chosen(account[c], chosen[c], omitted[c], provider)
  BY <1>1, RowsKnown, IdsAreNumbers
<1>3. \/ /\ row.id <= MaxRows
         /\ rows' = IF old # Absent THEN rows ELSE rows + 1
         /\ account' = [account EXCEPT ![c][x] = row]
         /\ connector' = [connector EXCEPT ![a] = m]
      \/ connector' = [connector EXCEPT ![a] = Connecting!Idle] /\ UNCHANGED <<rows, account>>
  BY <1>2 DEF Connecting!SaveAccount, Connecting!Do, Connecting!Put, Connecting!Left,
     Connecting!Exists, ConnectorRecord
<1>4. UNCHANGED <<provider, connections, connection, asked, chosen, omitted, overlapped, listed,
                  twofold>>
  BY DEF Connecting!SaveAccount, Connecting!ghosts
<1>5. CASE connector' = [connector EXCEPT ![a] = Connecting!Idle] /\ UNCHANGED <<rows, account>>
  <2>1. RowsOf(Connecting!Idle, account[c], omitted[c], provider)
    BY IdleConnector DEF RowsOf
  <2> HIDE DEF c
  <2> QED BY <1>2, <1>4, <1>5, <2>1, IdleConnector, AccountStays
<1>6. CASE /\ row.id <= MaxRows
           /\ rows' = IF old # Absent THEN rows ELSE rows + 1
           /\ account' = [account EXCEPT ![c][x] = row]
           /\ connector' = [connector EXCEPT ![a] = m]
  <2>1. old \in Connecting!Account \cup {Absent}
    BY <1>2 DEF ConnectorRecord
  <2>2. rows \in Nat /\ rows <= MaxRows /\ rows \in 0..MaxRows /\ MaxRows \in Nat
    BY ConnectionsFacts, BackOfficeConstants
  <2>3. old = Absent => rows + 1 <= MaxRows
    BY <1>6
  <2>4. old = Absent => rows + 1 \in 1..MaxRows
    BY <2>2, <2>3
  <2>5. row \in Connecting!Account /\ (IsSelected(row) <=> IsSelected(old))
    <3> DEFINE b == x \in t.barred
    <3>1. b \in BOOLEAN
      OBVIOUS
    <3> QED BY <2>1, <2>4, <3>1, RowSaved
  <2>6. rows' \in 0..MaxRows
    BY <1>6, <2>2, <2>3
  <2>7. /\ m \in ConnectorRecord /\ ~Makes(m) /\ ConnectorWell(m, connection)
        /\ \A q \in Connecting!Ids : ~HasCopy(m, q) /\ (Lists(m, q) => q = c)
        /\ m = Connecting!Idle \/
             (m.at = "rows" /\ m.copies = t.copies /\ m.todo = t.todo \ {x} /\ m.gone = t.gone)
    <3>1. n \in ConnectorRecord /\ n.todo = t.todo \ {x} /\ n.gone = t.gone
      BY <1>2 DEF ConnectorRecord
    <3>2. m = Connecting!Idle \/ m = n
      OBVIOUS
    <3>3. /\ n \in {[t EXCEPT !.todo = t.todo \ {x}], [t EXCEPT !.gone = t.gone \ {x}]}
          /\ m = IF n.todo = {} /\ n.gone = {} THEN Connecting!Idle ELSE n
          /\ t.c = c
      OBVIOUS
    <3> HIDE DEF m, n, t, c
    <3>4. /\ m \in ConnectorRecord /\ ~Makes(m) /\ \A C : ConnectorWell(m, C)
          /\ \A q : ~HasCopy(m, q) /\ (Lists(m, q) => q = c)
          /\ m = Connecting!Idle \/ (m.at = "rows" /\ m.copies = t.copies)
      BY <1>1, <1>2, <3>3, FewerRows
    <3> QED BY <3>1, <3>2, <3>4 DEF t
  <2> HIDE DEF row, old, n, m
  <2> DEFINE T == [account[c] EXCEPT ![x] = row]
  <2>8. account[c] \in [Accounts -> Connecting!Account \cup {Absent}] /\ DOMAIN account = Connecting!Ids
    BY <1>2, ConnectionsFacts
  <2>9. \A y \in Accounts \ {x} : T[y] = account[c][y]
    BY <2>8
  <2>10. account' = [account EXCEPT ![c] = T]
    BY <1>2, <1>6, <2>8
  <2>11. ASSUME c \notin listed
         PROVE  /\ IsSelected(row) => x \in chosen[c]
                /\ x \in chosen[c] =>
                     IsSelected(row) \/ (provider = Connecting!Meta /\ x \in omitted[c])
                /\ RowsOf(m, T, omitted[c], provider)
    <3>1. old = account[c][x]
      BY <1>1, <1>2, <2>11 DEF RowsOf, old
    <3>2. /\ IsSelected(row) => x \in chosen[c]
          /\ x \in chosen[c] =>
               IsSelected(row) \/ (provider = Connecting!Meta /\ x \in omitted[c])
      BY <1>2, <2>5, <2>11, <3>1 DEF Chosen
    <3>4. SameBut(x, account[c], T)
      BY <2>9 DEF SameBut
    <3>5. RowsOf(t, account[c], omitted[c], provider)
      BY <1>2, <2>11
    <3>6. DoneWith(t, m, x)
      BY <1>1, <2>7 DEF DoneWith
    <3> HIDE DEF T, c, t
    <3>7. RowsOf(m, T, omitted[c], provider)
      BY <1>1, <1>2, <3>4, <3>5, <3>6, RowsLeftOf
    <3> QED BY <3>2, <3>7
  <2>12. chosen[c] \in SUBSET Accounts /\ chosen' = [chosen EXCEPT ![c] = chosen[c]]
    BY <1>2, <1>4, ConnectionsFacts
  <2> DEFINE H == chosen[c]
  <2>13. /\ c \notin listed => ChosenAfter(x, row, chosen[c], H, omitted[c], provider)
         /\ c \notin listed /\ Lists(m, c) => RowsOf(m, T, omitted[c], provider)
         /\ H \in SUBSET Accounts /\ chosen' = [chosen EXCEPT ![c] = H]
    BY <2>11, <2>12 DEF ChosenAfter
  <2>14. /\ connector' = [connector EXCEPT ![a] = m] /\ row \in Connecting!Account \cup {Absent}
         /\ T = [account[c] EXCEPT ![x] = row]
    BY <1>6, <2>5
  <2> HIDE DEF H, c, T
  <2> QED BY <1>2, <1>4, <2>6, <2>7, <2>10, <2>13, <2>14, AccountWritten
<1> QED BY <1>3, <1>5, <1>6

LEMMA RemoveAccountKeeps ==
  ASSUME ConnectionsInv, NEW a \in Clients, NEW x \in Accounts, Connecting!RemoveAccount(a, x)
  PROVE  ConnectionsInv'
<1> DEFINE t == connector[a]
           c == t.c
           n == [t EXCEPT !.gone = t.gone \ {x}]
           m == IF n.todo = {} /\ n.gone = {} THEN Connecting!Idle ELSE n
           T == [account[c] EXCEPT ![x] = Absent]
           H == chosen[c]
<1>1. t.at = "rows" /\ x \in t.gone
  BY DEF Connecting!RemoveAccount
<1>2. /\ t \in ConnectorRecord /\ c \in Connecting!Ids /\ Lists(t, c) /\ c # 0
      /\ c \notin listed => /\ RowsOf(t, account[c], omitted[c], provider)
                            /\ Chosen(account[c], H, omitted[c], provider)
  BY <1>1, RowsKnown, IdsAreNumbers
<1>3. /\ account' = [account EXCEPT ![c][x] = Absent] \/ account' = account
      /\ connector' = [connector EXCEPT ![a] = m]
  BY DEF Connecting!RemoveAccount, Connecting!Do, Connecting!Put, Connecting!Left
<1>4. UNCHANGED <<provider, connections, connection, rows, asked, chosen, omitted, overlapped,
                  listed, twofold>>
  BY DEF Connecting!RemoveAccount, Connecting!ghosts
<1>5. n \in ConnectorRecord /\ n.todo = t.todo /\ n.gone = t.gone \ {x}
  BY <1>2 DEF ConnectorRecord
<1>6. /\ n \in {[t EXCEPT !.todo = t.todo \ {x}], [t EXCEPT !.gone = t.gone \ {x}]}
      /\ m = IF n.todo = {} /\ n.gone = {} THEN Connecting!Idle ELSE n
      /\ t.c = c /\ (m = Connecting!Idle \/ m = n)
  OBVIOUS
<1> HIDE DEF m, n, t, c
<1>7. /\ m \in ConnectorRecord /\ ~Makes(m) /\ \A C : ConnectorWell(m, C)
      /\ \A q : ~HasCopy(m, q) /\ (Lists(m, q) => q = c)
      /\ m = Connecting!Idle \/ (m.at = "rows" /\ m.copies = t.copies)
  BY <1>1, <1>2, <1>6, FewerRows
<1>8. DoneWith(t, m, x)
  BY <1>1, <1>5, <1>6, <1>7 DEF DoneWith
<1>9. Lists(connector[a], c) /\ ConnectorWell(m, connection)
  BY <1>2, <1>7 DEF t
<1>10. CASE account' = account
  <2>1. SameBut(x, account[c], account[c])
    BY DEF SameBut
  <2>2. c \notin listed => RowsOf(m, account[c], omitted[c], provider)
    BY <1>1, <1>2, <1>8, <2>1, RowsLeftOf
  <2> QED BY <1>2, <1>3, <1>4, <1>7, <1>9, <1>10, <2>2, AccountStays
<1>11. CASE account' = [account EXCEPT ![c][x] = Absent]
  <2>1. account[c] \in [Accounts -> Connecting!Account \cup {Absent}] /\ DOMAIN account = Connecting!Ids
    BY <1>2, ConnectionsFacts
  <2>2. account' = [account EXCEPT ![c] = T]
    BY <1>2, <1>11, <2>1
  <2>3. SameBut(x, account[c], T)
    BY <2>1 DEF SameBut
  <2> DEFINE row == Absent
  <2>4. T = [account[c] EXCEPT ![x] = row] /\ row \in Connecting!Account \cup {Absent}
    OBVIOUS
  <2> HIDE DEF T
  <2>5. c \notin listed => RowsOf(m, T, omitted[c], provider)
    BY <1>1, <1>2, <1>8, <2>3, RowsLeftOf
  <2>6. c \notin listed => ChosenAfter(x, row, chosen[c], H, omitted[c], provider)
    BY <1>1, <1>2 DEF RowsOf, ChosenAfter, IsSelected
  <2>7. H \in SUBSET Accounts /\ chosen' = [chosen EXCEPT ![c] = H]
    BY <1>2, <1>4, ConnectionsFacts
  <2>8. rows' \in 0..MaxRows
    BY <1>4, ConnectionsFacts
  <2>9. /\ m \in ConnectorRecord /\ ~Makes(m)
        /\ \A q \in Connecting!Ids : ~HasCopy(m, q) /\ (Lists(m, q) => q = c)
    BY <1>7
  <2> HIDE DEF H, row
  <2> QED BY <1>2, <1>3, <1>4, <1>9, <2>2, <2>4, <2>5, <2>6, <2>7, <2>8, <2>9, AccountWritten
<1> QED BY <1>3, <1>10, <1>11

LEMMA SaveSelectionKeeps ==
  ASSUME ConnectionsInv, NEW a \in Clients, Connecting!SaveSelection(a)
  PROVE  ConnectionsInv'
<1> DEFINE t == connector[a]
           c == t.c
           x == t.x
           row == t.copies[x]
           T == [account[c] EXCEPT ![x] = row]
           H == IF row.selected THEN chosen[c] \cup {x} ELSE chosen[c] \ {x}
<1>1. t.at = "row"
  BY DEF Connecting!SaveSelection
<1>2. /\ t \in ConnectorRecord /\ c \in Connecting!Ids /\ Lists(t, c)
      /\ x \in Accounts /\ row # Absent
  BY <1>1, RowsKnown, ConnectorOf DEF ConnectorWell
<1>3. row \in Connecting!Account \cup {Absent}
  BY <1>2 DEF ConnectorRecord
<1>4. /\ connector' = [connector EXCEPT ![a] = Connecting!Idle]
      /\ \/ account' = [account EXCEPT ![c][x] = row] /\ chosen' = [chosen EXCEPT ![c] = H]
         \/ UNCHANGED <<account, chosen>>
      /\ UNCHANGED <<provider, connections, connection, rows, asked, omitted, overlapped,
                     listed, twofold>>
  BY DEF Connecting!SaveSelection, Connecting!Do, Connecting!Put
<1>5. /\ ConnectorWell(Connecting!Idle, connection) /\ Connecting!Idle \in ConnectorRecord
      /\ ~Makes(Connecting!Idle)
      /\ \A q \in Connecting!Ids : ~HasCopy(Connecting!Idle, q) /\ ~Lists(Connecting!Idle, q)
      /\ \A S : RowsOf(Connecting!Idle, S, omitted[c], provider)
  BY IdleConnector DEF RowsOf
<1>6. account[c] \in [Accounts -> Connecting!Account \cup {Absent}] /\ DOMAIN account = Connecting!Ids
      /\ chosen[c] \in SUBSET Accounts /\ rows \in 0..MaxRows
  BY <1>2, ConnectionsFacts
<1>7. T = [account[c] EXCEPT ![x] = row] /\ H \in SUBSET Accounts
  BY <1>2, <1>6
<1>8. ChosenAfter(x, row, chosen[c], H, omitted[c], provider)
  <2>1. IsSelected(row) <=> row.selected
    BY <1>2 DEF IsSelected
  <2> HIDE DEF row
  <2>2. CASE row.selected
    BY <2>1, <2>2 DEF ChosenAfter
  <2>3. CASE ~row.selected
    BY <2>1, <2>3 DEF ChosenAfter
  <2> QED BY <2>2, <2>3
<1>9. CASE UNCHANGED <<account, chosen>>
  <2> HIDE DEF c
  <2> QED BY <1>2, <1>4, <1>5, <1>9, AccountStays
<1>10. CASE account' = [account EXCEPT ![c][x] = row] /\ chosen' = [chosen EXCEPT ![c] = H]
  <2>1. account' = [account EXCEPT ![c] = T]
    BY <1>2, <1>6, <1>10
  <2>2. rows' \in 0..MaxRows /\ Lists(connector[a], c)
    BY <1>2, <1>4, <1>6
  <2> HIDE DEF T, H, row, x, c, t
  <2> QED BY <1>2, <1>3, <1>4, <1>5, <1>7, <1>8, <1>10, <2>1, <2>2, AccountWritten
<1> QED BY <1>4, <1>9, <1>10

-----------------------------------------------------------------------------
(* Connections: the invariant *)

LEMMA ConnectingCardinality ==
  ASSUME NEW R
  PROVE  Connecting!Cardinality(R) = Cardinality(R)
BY DEF Connecting!Cardinality, Cardinality

\* The accounts can be numbered.
LEMMA AccountsNumbered ==
  /\ Cardinality(Accounts) \in Nat
  /\ \E f \in [Accounts -> 1..Cardinality(Accounts)] :
       \A x, y \in Accounts : x # y => f[x] # f[y]
<1> DEFINE n == Cardinality(Accounts)
<1>1. n \in Nat /\ ExistsBijection(1..n, Accounts)
  BY BackOfficeConstants, FS_CardinalityType
<1>2. PICK f \in Bijection(1..n, Accounts) : TRUE
  BY <1>1 DEF ExistsBijection
<1>3. f \in Surjection(1..n, Accounts)
  BY <1>2 DEF Bijection
<1>4. \A x \in Accounts : \E i \in 1..n : f[i] = x
  BY <1>3 DEF Surjection
<1> DEFINE g == [x \in Accounts |-> CHOOSE i \in 1..n : f[i] = x]
<1> HIDE DEF n
<1>5. \A x \in Accounts : g[x] \in 1..n /\ f[g[x]] = x
  BY <1>4
<1>6. g \in [Accounts -> 1..n]
  BY <1>5
<1>7. \A x, y \in Accounts : x # y => g[x] # g[y]
  BY <1>5
<1> HIDE DEF g
<1> QED BY <1>1, <1>6, <1>7 DEF n

LEMMA ConnectionsBegin == Connecting!Init => ConnectionsInv
<1> SUFFICES ASSUME Connecting!Init PROVE ConnectionsInv
  OBVIOUS
<1> DEFINE n == Cardinality(Accounts)
           id == CHOOSE f \in [Accounts -> 1..n] : \A x, y \in Accounts : x # y => f[x] # f[y]
           T == [x \in Accounts |-> [id |-> id[x], selected |-> FALSE, restricted |-> FALSE]]
           none == [x \in Accounts |-> Absent]
           both == [active : BOOLEAN, account : Accounts \cup {Absent}]
<1>1. PICK o \in Owners \cup {Nobody} :
        connection = [c \in Connecting!Ids |-> IF c = 1
          THEN [owner |-> o, active |-> TRUE, access |-> TRUE,
                refresh |-> provider = Connecting!Google, account |-> Absent]
          ELSE Absent]
  BY DEF Connecting!Init
<1>2. /\ provider \in {Connecting!Google, Connecting!Meta} /\ connections = 1
      /\ account = [c \in Connecting!Ids |-> [x \in Accounts |->
           IF c = 1 THEN [id |-> id[x], selected |-> FALSE, restricted |-> FALSE] ELSE Absent]]
      /\ rows = n
      /\ connector = [a \in Clients |-> Connecting!Idle]
      /\ asked = [c \in Connecting!Ids |-> [active |-> c = 1, account |-> Absent]]
      /\ chosen = [c \in Connecting!Ids |-> {}] /\ omitted = [c \in Connecting!Ids |-> {}]
      /\ overlapped = {} /\ listed = {} /\ twofold = FALSE
  BY ConnectingCardinality DEF Connecting!Init
<1>3. id \in [Accounts -> 1..n] /\ n \in Nat /\ n <= MaxRows
  BY AccountsNumbered, BackOfficeConstants
<1>4. 1..n \subseteq 1..MaxRows /\ MaxRows \in Nat /\ rows \in 0..MaxRows
  BY <1>2, <1>3, BackOfficeConstants
<1> DEFINE row == [owner |-> o, active |-> TRUE, access |-> TRUE,
                   refresh |-> provider = Connecting!Google, account |-> Absent]
<1>5. row \in Connecting!Connection /\ row.active = TRUE /\ row.account = Absent
  BY DEF Connecting!Connection
<1>6. row # Absent
  BY <1>5, BackOfficeConstants
<1> HIDE DEF row, id, n
<1>7. /\ \A c \in Connecting!Ids : connection[c] = IF c = 1 THEN row ELSE Absent
      /\ connection \in [Connecting!Ids -> Connecting!Connection \cup {Absent}]
  BY <1>1, <1>5 DEF row
<1>8. T \in [Accounts -> Connecting!Account \cup {Absent}]
      /\ \A x \in Accounts : T[x].selected = FALSE
  BY <1>3, <1>4 DEF Connecting!Account
<1>9. none \in [Accounts -> Connecting!Account \cup {Absent}]
  OBVIOUS
<1>10. \A c \in Connecting!Ids : account[c] = IF c = 1 THEN T ELSE none
  BY <1>2
<1>11. /\ account \in [Connecting!Ids -> [Accounts -> Connecting!Account \cup {Absent}]]
       /\ \A c \in Connecting!Ids, x \in Accounts : ~IsSelected(account[c][x])
  <2>1. \A x \in Accounts : none[x] = Absent
    OBVIOUS
  <2>2. account = [c \in Connecting!Ids |-> account[c]]
    BY <1>2
  <2> HIDE DEF T, none
  <2>3. account \in [Connecting!Ids -> [Accounts -> Connecting!Account \cup {Absent}]]
    BY <1>8, <1>9, <1>10, <2>2
  <2> QED BY <1>8, <1>10, <2>1, <2>3 DEF IsSelected
<1> HIDE DEF T, none
<1>12. \A c \in Connecting!Ids : [active |-> c = 1, account |-> Absent] \in both
  BY Zenon
<1>13. asked \in [Connecting!Ids -> both]
  BY <1>2, <1>12
<1>14. /\ connector \in [Clients -> ConnectorRecord]
       /\ \A a \in Clients : connector[a] = Connecting!Idle
  BY <1>2, IdleConnector
<1>15. 1 \in 0..MaxConnections
  BY BackOfficeConstants
<1>16. ConnectionsTyped
  BY <1>2, <1>4, <1>7, <1>11, <1>13, <1>14, <1>15 DEF ConnectionsTyped
<1>17. Numbers
  BY <1>2, <1>7, IdsAreNumbers DEF Numbers
<1>18. \A a \in Clients : ConnectorWell(connector[a], connection)
  BY <1>14, IdleConnector
<1>19. ASSUME NEW c \in Connecting!Ids
       PROVE  Kept(c, connection, asked, connector)
  <2>1. CASE c = 1
    <3>1. asked[c].active = TRUE /\ asked[c].account = Absent
      BY <1>2, <2>1
    <3>2. connection[c] = row
      BY <1>7, <2>1
    <3> QED BY <1>5, <1>14, <3>1, <3>2, IdleConnector DEF Kept, OneCopy, Sound
  <2>2. CASE c # 1
    BY <1>7, <1>14, <2>2, IdleConnector DEF Kept, OneCopy
  <2> QED BY <2>1, <2>2
<1>20. OneEach(connection, connector)
  <2>1. \A c, d \in Connecting!Ids : connection[c] # Absent /\ connection[d] # Absent => c = d
    BY <1>7
  <2> QED BY <1>14, <2>1, IdleConnector DEF OneEach
<1>21. ASSUME NEW c \in Connecting!Ids
       PROVE  Selection(c, account[c], chosen[c], omitted[c], connector, provider)
  <2>1. Chosen(account[c], chosen[c], omitted[c], provider)
    BY <1>2, <1>11 DEF Chosen
  <2> QED BY <1>14, <2>1, IdleConnector DEF Selection
<1> QED BY <1>2, <1>16, <1>17, <1>18, <1>19, <1>20, <1>21 DEF ConnectionsInv

LEMMA ConnectionsKept == ConnectionsInv /\ [Next]_vars => ConnectionsInv'
<1> SUFFICES ASSUME ConnectionsInv, [Next]_vars
             PROVE  ConnectionsInv'
  OBVIOUS
<1>1. CASE Connecting!Next
  <2>1. PICK a \in Clients :
          \/ \/ \E o \in Owners \cup {Nobody} : Connecting!HandleCallback(a, o)
             \/ Connecting!FindConnection(a) \/ Connecting!Renew(a)
             \/ Connecting!SaveConnection(a) \/ Connecting!CutOff(a)
             \/ \E c \in Connecting!Ids : Connecting!Disconnect(a, c)
             \/ \E c \in Connecting!Ids, op \in {"use", "select", "refresh"},
                   x \in Accounts \cup {Absent} : Connecting!TakeToken(a, op, c, x)
          \/ \/ \E c \in Connecting!Ids, x \in Accounts, b \in BOOLEAN :
                  Connecting!SetSelection(a, c, x, b)
             \/ \E L, B \in SUBSET Accounts : Connecting!ReadAccounts(a, L, B)
             \/ \E x \in Accounts : Connecting!SaveAccount(a, x) \/ Connecting!RemoveAccount(a, x)
             \/ Connecting!SaveSelection(a)
    BY <1>1, Zenon DEF Connecting!Next
  <2>2. CASE \/ \E o \in Owners \cup {Nobody} : Connecting!HandleCallback(a, o)
             \/ Connecting!FindConnection(a) \/ Connecting!Renew(a)
             \/ Connecting!SaveConnection(a) \/ Connecting!CutOff(a)
             \/ \E c \in Connecting!Ids : Connecting!Disconnect(a, c)
             \/ \E c \in Connecting!Ids, op \in {"use", "select", "refresh"},
                   x \in Accounts \cup {Absent} : Connecting!TakeToken(a, op, c, x)
    BY <2>2, HandleCallbackKeeps, FindConnectionKeeps, RenewKeeps, SaveConnectionKeeps,
       CutOffConnector, DisconnectKeeps, TakeTokenKeeps
  <2>3. CASE \/ \E c \in Connecting!Ids, x \in Accounts, b \in BOOLEAN :
                  Connecting!SetSelection(a, c, x, b)
             \/ \E L, B \in SUBSET Accounts : Connecting!ReadAccounts(a, L, B)
             \/ \E x \in Accounts : Connecting!SaveAccount(a, x) \/ Connecting!RemoveAccount(a, x)
             \/ Connecting!SaveSelection(a)
    BY <2>3, SetSelectionKeeps, ReadAccountsKeeps, SaveAccountKeeps, RemoveAccountKeeps,
       SaveSelectionKeeps
  <2> QED BY <2>1, <2>2, <2>3
<1>2. CASE UNCHANGED connectionVars
  BY <1>2 DEF connectionVars, ConnectionsInv, ConnectionsTyped, Numbers, Kept, OneCopy, CopyOf,
              Sound, OneEach, Selection, Chosen, RowsOf, ConnectorWell, Makes, HasCopy, Lists,
              IsSelected
<1> QED BY <1>1, <1>2 DEF Next, Step, vars

LEMMA ConnectionsHold == ConnectionsInv => Connecting!ConnectionsHoldUnlessHeld
<1> SUFFICES ASSUME ConnectionsInv PROVE Connecting!ConnectionsHoldUnlessHeld
  OBVIOUS
<1>1. ASSUME NEW c \in Connecting!Ids \ overlapped, connection[c] # Absent
      PROVE  /\ connection[c].active = asked[c].active
             /\ connection[c].account = asked[c].account
             /\ ~connection[c].active =>
                  ~connection[c].access /\ ~connection[c].refresh /\ connection[c].account = Absent
  BY <1>1 DEF ConnectionsInv, Kept, Sound
<1>2. twofold \/ \A c, d \in Connecting!Ids :
        c # d /\ connection[c] # Absent /\ connection[d] # Absent =>
          connection[c].owner # connection[d].owner
  BY DEF ConnectionsInv, OneEach
<1>3. ASSUME NEW c \in Connecting!Ids \ listed, NEW x \in Accounts
      PROVE  /\ IsSelected(account[c][x]) => x \in chosen[c]
             /\ x \in chosen[c] => IsSelected(account[c][x]) \/
                                     (provider = Connecting!Meta /\ x \in omitted[c])
  BY DEF ConnectionsInv, Selection, Chosen
<1> QED BY <1>1, <1>2, <1>3, Zenon DEF Connecting!ConnectionsHoldUnlessHeld, Connecting!Exists,
           IsSelected

-----------------------------------------------------------------------------
\* Users, roles and connections to providers are as users asked, and sessions go back
\* to the password in force, unless two requests had a row in hand.
THEOREM AccountsHold == Spec => []AccountsHoldUnlessRaced
<1>1. Init => UsersInv /\ GrantsInv /\ ConnectionsInv
  BY UsersBegin, GrantsBegin, ConnectionsBegin DEF Init
<1>2. UsersInv /\ GrantsInv /\ ConnectionsInv /\ [Next]_vars
        => (UsersInv /\ GrantsInv /\ ConnectionsInv)'
  BY UsersKept, GrantsKept, ConnectionsKept
<1>3. UsersInv /\ GrantsInv /\ ConnectionsInv => AccountsHoldUnlessRaced
  BY UsersHold, GrantsHold, ConnectionsHold DEF AccountsHoldUnlessRaced
<1> QED BY <1>1, <1>2, <1>3, PTL DEF Spec
=============================================================================
