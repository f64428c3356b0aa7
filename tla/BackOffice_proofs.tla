--------------------------- MODULE BackOffice_proofs ---------------------------
(***************************************************************************)
(* Proofs about the parts behind what leads see, with any number of leads, *)
(* submissions, schedules, scans, checks, messages and executions: who the *)
(* person of an identifier is, what a contact keeps, what is done once,    *)
(* what the copilot has in sight, and which figures are stored.            *)
(***************************************************************************)
EXTENDS BackOffice, Sequences, FiniteSetTheorems, TLAPS

-----------------------------------------------------------------------------
(* Persons: the inductive invariant *)

Values == Identity!Values

PersonsTyped ==
  /\ persons \in Nat
  /\ lead \in [Clients ->
       [at : {"idle", "match", "identify", "find", "person", "email", "sale"},
        given : SUBSET Values, left : SUBSET Values, person : Nat]]
  /\ \A i \in identifiers : i.person \in 1..persons
  /\ \A c \in Clients : lead[c].person <= persons

\* The persons behind v, by a table T of identifiers.
Behind(v, T) == {i.person : i \in {j \in T : j.value = v}}

\* What is stored gave identifiers of its person, and a sale is about to.
StoredIdentified ==
  /\ \A s \in stored : \A v \in s.given : s.person \in Behind(v, identifiers)
  /\ \A c \in Clients : lead[c].at = "sale" =>
       \A v \in lead[c].given : lead[c].person \in Behind(v, identifiers)

\* One person at most is behind v, as far as that is promised: K came beside
\* identifiers of somebody else.
Settled(v, K) == v \in Emails \/ v \notin K
OneHolder(v, T, K) == Settled(v, K) => \A p, q \in Behind(v, T) : p = q

\* What a lead has found out of an identifier it gave, which nobody else has in
\* hand.
FoundOut(l, v, T, K) ==
  /\ l.at = "match" /\ v \notin l.left => Behind(v, T) = {}
  /\ l.at = "identify" /\ Settled(v, K) =>
       Behind(v, T) \subseteq (IF l.person = 0 THEN {} ELSE {l.person})
  /\ l.at \in {"person", "email"} => Behind(v, T) = {}

\* A lead gives something, one e-mail at most, and a purchase nothing else.
GivenWell(l) ==
  /\ l = Identity!Idle \/ (l.at # "idle" /\ l.given # {})
  /\ \A v, w \in l.given \cap Emails : v = w
  /\ l.at \in {"find", "person", "email", "sale"} => \A v, w \in l.given : v = w
  /\ l.left \subseteq l.given
  /\ l.at = "match" => l.person = 0
  /\ l.at \in {"email", "sale"} => l.person # 0

InOneHand(v) ==
  /\ OneHolder(v, identifiers, carried)
  /\ \A c \in Clients : v \in lead[c].given =>
       /\ FoundOut(lead[c], v, identifiers, carried)
       /\ \A d \in Clients : v \in lead[d].given => c = d

\* Nobody is without an identifier for no reason.
Named(p) ==
  \/ \E i \in identifiers : i.person = p
  \/ p \in nameless
  \/ \E c \in Clients : lead[c].at = "email" /\ lead[c].person = p

PersonsInv ==
  /\ PersonsTyped /\ StoredIdentified
  /\ \A c \in Clients : GivenWell(lead[c])
  /\ \A v \in Values \ sharing : InOneHand(v)
  /\ \A p \in 1..persons : Named(p)

-----------------------------------------------------------------------------
(* Persons: the steps *)

LeadRecord ==
  [at : {"idle", "match", "identify", "find", "person", "email", "sale"},
   given : SUBSET Values, left : SUBSET Values, person : Nat]

LEMMA HoldersBehind == \A v : Identity!Holders(v) = Behind(v, identifiers)
BY DEF Identity!Holders, Behind

\* Identifiers stay, and those of values that a step does not add are as they were.
LEMMA HoldersGrow ==
  ASSUME identifiers \subseteq identifiers', NEW v
  PROVE  /\ Behind(v, identifiers) \subseteq Behind(v, identifiers')
         /\ (\A i \in identifiers' : i.value = v => i \in identifiers) =>
              Behind(v, identifiers') = Behind(v, identifiers)
BY DEF Behind

\* A lead c goes on as l, and writes of the identifiers it gave.
GoesOn(c, l) ==
  /\ lead' = [lead EXCEPT ![c] = l]
  /\ l.given \subseteq lead[c].given
  /\ sharing' = sharing /\ carried \subseteq carried' /\ nameless \subseteq nameless'
  /\ identifiers \subseteq identifiers'
  /\ \A i \in identifiers' : i \in identifiers \/ i.value \in lead[c].given

\* What others have found out is not touched.
LEMMA OthersInHand ==
  ASSUME NEW v, v \notin sharing, InOneHand(v), NEW c \in Clients, NEW l, GoesOn(c, l),
         DOMAIN lead = Clients, v \notin lead[c].given
  PROVE  InOneHand(v)'
<1>1. Behind(v, identifiers') = Behind(v, identifiers)
  BY HoldersGrow DEF GoesOn
<1>2. OneHolder(v, identifiers', carried') 
  BY <1>1 DEF InOneHand, OneHolder, Settled, GoesOn
<1>3. ASSUME NEW d \in Clients, v \in lead'[d].given
      PROVE  d # c /\ lead'[d] = lead[d]
  BY <1>3 DEF GoesOn
<1>4. ASSUME NEW d \in Clients, v \in lead'[d].given
      PROVE  FoundOut(lead[d], v, identifiers', carried') /\ lead'[d] = lead[d]
  <2>1. FoundOut(lead[d], v, identifiers, carried) /\ lead'[d] = lead[d]
    BY <1>3, <1>4 DEF InOneHand
  <2> QED BY <1>1, <2>1 DEF FoundOut, Settled, GoesOn
<1> QED BY <1>2, <1>3, <1>4 DEF InOneHand

\* What c has found out stays true of what it gave.
LEMMA OwnInHand ==
  ASSUME NEW v, v \notin sharing, InOneHand(v), NEW c \in Clients, NEW l, GoesOn(c, l),
         DOMAIN lead = Clients, v \in lead[c].given,
         OneHolder(v, identifiers', carried'), v \in l.given => FoundOut(l, v, identifiers', carried')
  PROVE  InOneHand(v)'
<1>1. ASSUME NEW d \in Clients, v \in lead'[d].given
      PROVE  d = c /\ lead'[d] = l
  BY <1>1 DEF GoesOn, InOneHand
<1>2. ASSUME NEW d \in Clients, v \in lead'[d].given
      PROVE  FoundOut(lead'[d], v, identifiers', carried')
  BY <1>1, <1>2 DEF FoundOut
<1> QED BY <1>1, <1>2 DEF InOneHand

\* A step of a lead keeps the invariant if what it says of its own identifiers,
\* of what is stored and of whom it leaves without one is true.
LEMMA LeadGoesOn ==
  ASSUME PersonsInv, NEW c \in Clients, NEW l \in LeadRecord, GoesOn(c, l), persons' \in Nat,
         persons <= persons', \A i \in identifiers' : i \in identifiers \/ i.person \in 1..persons',
         l.person <= persons', GivenWell(l),
         \A s \in stored' : s \in stored \/ \A v \in s.given : s.person \in Behind(v, identifiers'),
         l.at = "sale" => \A v \in l.given : l.person \in Behind(v, identifiers'),
         \A v \in lead[c].given \ sharing : OneHolder(v, identifiers', carried'),
         \A v \in l.given \ sharing : FoundOut(l, v, identifiers', carried'),
         \A p \in 1..persons' :
           \/ p \in 1..persons /\ ~(lead[c].at = "email" /\ lead[c].person = p)
           \/ Named(p)'
  PROVE  PersonsInv'
<1> DOMAIN lead = Clients /\ DOMAIN lead' = Clients
  BY DEF PersonsInv, PersonsTyped, GoesOn
<1>1. PersonsTyped'
  <2>1. \A i \in identifiers' : i.person \in 1..persons'
    BY DEF PersonsInv, PersonsTyped, GoesOn
  <2>2. ASSUME NEW d \in Clients
        PROVE  lead'[d].person <= persons'
    BY DEF PersonsInv, PersonsTyped, GoesOn, LeadRecord
  <2>3. lead' \in [Clients -> LeadRecord]
    BY DEF PersonsInv, PersonsTyped, GoesOn, LeadRecord
  <2> QED BY <2>1, <2>2, <2>3 DEF PersonsTyped, LeadRecord, Values, Identity!Values
<1>2. StoredIdentified'
  <2>1. ASSUME NEW s \in stored', NEW v \in s.given
        PROVE  s.person \in Behind(v, identifiers')
    BY <2>1, HoldersGrow DEF PersonsInv, StoredIdentified, GoesOn
  <2>2. ASSUME NEW d \in Clients, lead'[d].at = "sale", NEW v \in lead'[d].given
        PROVE  lead'[d].person \in Behind(v, identifiers')
    <3>1. CASE d = c
      BY <2>2, <3>1 DEF GoesOn
    <3>2. CASE d # c
      BY <2>2, <3>2, HoldersGrow DEF PersonsInv, StoredIdentified, GoesOn
    <3> QED BY <3>1, <3>2
  <2> QED BY <2>1, <2>2 DEF StoredIdentified, Behind
<1>3. ASSUME NEW d \in Clients
      PROVE  GivenWell(lead[d])'
  BY DEF PersonsInv, GoesOn, GivenWell, Identity!Idle
<1>4. ASSUME NEW v \in Values \ sharing'
      PROVE  InOneHand(v)'
  <2>1. v \in Values \ sharing /\ InOneHand(v)
    BY DEF PersonsInv, GoesOn
  <2>2. CASE v \notin lead[c].given
    BY <2>1, <2>2, OthersInHand
  <2>3. CASE v \in lead[c].given
    <3>1. OneHolder(v, identifiers', carried')
      BY <2>1, <2>3 DEF OneHolder, Settled, Behind
    <3>2. v \in l.given => FoundOut(l, v, identifiers', carried')
      BY <2>1, <2>3 DEF FoundOut, Settled, Behind
    <3> QED BY <2>1, <2>3, <3>1, <3>2, OwnInHand
  <2> QED BY <2>2, <2>3
<1>5. ASSUME NEW p \in 1..persons'
      PROVE  Named(p)'
  <2>1. CASE p \in 1..persons /\ ~(lead[c].at = "email" /\ lead[c].person = p)
    BY <2>1 DEF PersonsInv, Named, GoesOn
  <2>2. CASE ~(p \in 1..persons /\ ~(lead[c].at = "email" /\ lead[c].person = p))
    BY <2>2 DEF Named
  <2> QED BY <2>1, <2>2
<1> QED
  <2>1. \A v \in Values \ sharing' : InOneHand(v)'
    BY <1>4
  <2> QED BY <1>1, <1>2, <1>3, <1>4, <1>5 DEF PersonsInv, Values, Identity!Values

\* A registration or a purchase begins: what it gives of what another has in hand
\* is promised nothing any more.
LEMMA LeadBegins ==
  ASSUME PersonsInv, NEW c \in Clients, NEW at \in {"match", "find"},
         NEW given \in SUBSET Values, given # {}, \A v, w \in given \cap Emails : v = w,
         at = "find" => \A v, w \in given : v = w,
         Identity!Begin(c, at, given)
  PROVE  PersonsInv'
<1> DEFINE l == [at |-> at, given |-> given, left |-> given, person |-> 0]
<1> USE DEF Identity!Begin, Identity!Do
<1>1. /\ lead' = [lead EXCEPT ![c] = l] /\ l \in LeadRecord
      /\ UNCHANGED <<persons, identifiers, stored, carried, nameless>>
      /\ \A d \in Clients : lead'[d] = IF d = c THEN l ELSE lead[d]
      /\ lead[c] = Identity!Idle /\ sharing \subseteq sharing'
  BY DEF PersonsInv, PersonsTyped, LeadRecord, Identity!tables
<1>2. PersonsTyped'
  BY <1>1 DEF PersonsInv, PersonsTyped, LeadRecord, Values, Identity!Values
<1>3. StoredIdentified'
  BY <1>1 DEF PersonsInv, StoredIdentified, Behind
<1>4. ASSUME NEW d \in Clients
      PROVE  GivenWell(lead[d])'
  BY <1>1 DEF PersonsInv, GivenWell, Identity!Idle
<1>5. ASSUME NEW v \in Values \ sharing'
      PROVE  InOneHand(v)'
  <2>1. v \notin sharing /\ InOneHand(v)
    BY <1>1 DEF PersonsInv
  <2>2. ASSUME v \in given, NEW d \in Clients
        PROVE  v \notin lead[d].given
    BY <1>1, <2>2
  <2>3. ASSUME NEW d \in Clients, v \in lead'[d].given
        PROVE  FoundOut(lead'[d], v, identifiers', carried')
    BY <1>1, <2>1, <2>3 DEF InOneHand, FoundOut, Settled, Behind
  <2>4. OneHolder(v, identifiers', carried')
    BY <1>1, <2>1 DEF InOneHand, OneHolder, Settled, Behind
  <2>5. ASSUME NEW d \in Clients, NEW e \in Clients, v \in lead'[d].given, v \in lead'[e].given
        PROVE  d = e
    BY <1>1, <2>1, <2>2, <2>5 DEF InOneHand
  <2> QED BY <2>3, <2>4, <2>5 DEF InOneHand
<1>6. ASSUME NEW p \in 1..persons'
      PROVE  Named(p)'
  <2>1. Named(p)
    BY <1>1 DEF PersonsInv
  <2> QED BY <1>1, <2>1 DEF Named, Identity!Idle
<1> QED BY <1>2, <1>3, <1>4, <1>5, <1>6 DEF PersonsInv, Values, Identity!Values

\* An identifier is looked for, e-mails first.
LEMMA MatchNextKeeps ==
  ASSUME PersonsInv, NEW c \in Clients, Identity!MatchNext(c)
  PROVE  PersonsInv'
<1>1. /\ lead[c] \in LeadRecord /\ lead[c].at = "match" /\ persons \in Nat
      /\ GivenWell(lead[c])
  BY Zenon DEF PersonsInv, PersonsTyped, LeadRecord, Identity!MatchNext
<1> lead[c].given # {} /\ lead[c].person = 0
  BY <1>1 DEF GivenWell, Identity!Idle
<1>2. PICK v \in Identity!First(lead[c].left) :
        \/ /\ Identity!Found(v) = {}
           /\ lead' = [lead EXCEPT ![c] = [lead[c] EXCEPT !.left = @ \ {v}]]
           /\ UNCHANGED carried
        \/ \E p \in Identity!Found(v) :
             /\ lead' = [lead EXCEPT ![c] = [lead[c] EXCEPT !.at = "identify", !.person = p]]
             /\ carried' = carried \cup
                  {w \in lead[c].given \ {v} : Behind(w, identifiers) \ {p} # {}}
  BY Zenon DEF Identity!Holders, Behind, Identity!MatchNext, Identity!Do
<1>3. /\ v \in lead[c].left
      /\ \A e \in lead[c].left \cap Emails : v \in Emails
  BY <1>2, Zenon DEF Identity!First
<1>4. (Identity!Found(v) = {}) <=> (Behind(v, identifiers) = {})
  BY DEF Identity!Found, Identity!Holders, Behind
<1>5. Identity!Found(v) \subseteq Behind(v, identifiers)
  BY DEF Identity!Found, Identity!Holders, Behind
<1>6. /\ \A w \in lead[c].given \ sharing : InOneHand(w) /\ FoundOut(lead[c], w, identifiers, carried)
      /\ GivenWell(lead[c])
  BY <1>1 DEF PersonsInv, InOneHand, LeadRecord
<1>7. UNCHANGED <<persons, identifiers, stored, sharing, nameless>>
  BY Zenon DEF Identity!MatchNext, Identity!tables
<1>8. CASE /\ Identity!Found(v) = {}
           /\ lead' = [lead EXCEPT ![c] = [lead[c] EXCEPT !.left = @ \ {v}]]
           /\ UNCHANGED carried
  <2> DEFINE l == [lead[c] EXCEPT !.left = @ \ {v}]
  <2>0. l.person <= persons
    BY <1>1 DEF LeadRecord
  <2>1. l \in LeadRecord /\ GoesOn(c, l)
    BY <1>1, <1>7, <1>8 DEF LeadRecord, GoesOn
  <2>2. GivenWell(l)
    BY <1>1, <1>6 DEF GivenWell, LeadRecord, Identity!Idle
  <2>3. ASSUME NEW w \in lead[c].given \ sharing
        PROVE  OneHolder(w, identifiers', carried') /\ FoundOut(l, w, identifiers', carried')
    <3>1. InOneHand(w) /\ FoundOut(lead[c], w, identifiers, carried)
      BY <1>6
    <3>2. OneHolder(w, identifiers', carried')
      BY <1>7, <1>8, <3>1 DEF InOneHand, OneHolder, Settled, Behind
    <3>3. w \notin lead[c].left \ {v} => Behind(w, identifiers) = {}
      BY <1>1, <1>4, <1>8, <3>1 DEF FoundOut
    <3>4. Behind(w, identifiers') = Behind(w, identifiers)
      BY <1>7 DEF Behind
    <3> QED BY <1>1, <3>2, <3>3, <3>4 DEF FoundOut, LeadRecord
  <2>4. l.at = "match" /\ l.given = lead[c].given
    BY <1>1 DEF LeadRecord
  <2> HIDE DEF l
  <2> QED BY <1>1, <1>7, <2>0, <2>1, <2>2, <2>3, <2>4, LeadGoesOn
<1>9. ASSUME NEW p \in Identity!Found(v),
             lead' = [lead EXCEPT ![c] = [lead[c] EXCEPT !.at = "identify", !.person = p]],
             carried' = carried \cup {w \in lead[c].given \ {v} : Behind(w, identifiers) \ {p} # {}}
      PROVE  PersonsInv'
  <2> DEFINE l == [lead[c] EXCEPT !.at = "identify", !.person = p]
  <2>0. p \in Nat /\ p # 0 /\ p <= persons /\ l.person = p
    <3>1. p \in Behind(v, identifiers)
      BY <1>5, <1>9
    <3>2. \A i \in identifiers : i.person \in 1..persons
      BY DEF PersonsInv, PersonsTyped
    <3>3. p \in 1..persons
      BY <3>1, <3>2 DEF Behind
    <3> QED BY <1>1, <3>3 DEF LeadRecord
  <2>1. l \in LeadRecord /\ GoesOn(c, l)
    BY <1>1, <1>7, <1>9, <2>0 DEF LeadRecord, GoesOn
  <2>2. GivenWell(l)
    BY <1>1, <1>6 DEF GivenWell, LeadRecord, Identity!Idle
  <2>3. ASSUME NEW w \in lead[c].given \ sharing
        PROVE  OneHolder(w, identifiers', carried') /\ FoundOut(l, w, identifiers', carried')
    <3>1. InOneHand(w) /\ FoundOut(lead[c], w, identifiers, carried)
      BY <1>6
    <3>2. OneHolder(w, identifiers', carried')
      BY <1>7, <1>9, <3>1 DEF InOneHand, OneHolder, Settled, Behind
    <3>3. Behind(w, identifiers') = Behind(w, identifiers)
      BY <1>7 DEF Behind
    <3>4. ASSUME w \in Emails \/ w \notin carried'
          PROVE  Behind(w, identifiers) \subseteq {p}
      <4>1. CASE w = v
        BY <1>5, <1>9, <3>1, <3>4, <4>1 DEF InOneHand, OneHolder, Settled
      <4>2. CASE w # v /\ w \in Emails
        <5>1. w \notin lead[c].left
          <6> SUFFICES ASSUME w \in lead[c].left PROVE FALSE
            OBVIOUS
          <6>1. v \in Emails
            BY <1>3, <4>2
          <6>2. v \in lead[c].given
            BY <1>1, <1>3 DEF GivenWell
          <6> QED BY <1>6, <4>2, <6>1, <6>2 DEF GivenWell
        <5> QED BY <1>1, <3>1, <5>1 DEF FoundOut
      <4>3. CASE w # v /\ w \notin Emails
        BY <1>9, <3>4, <4>3
      <4> QED BY <4>1, <4>2, <4>3
    <3>5. l.at = "identify" /\ l.person = p
      BY <1>1 DEF LeadRecord
    <3> HIDE DEF l
    <3> QED BY <2>0, <3>2, <3>3, <3>4, <3>5 DEF FoundOut, Settled
  <2>4. l.at = "identify" /\ l.given = lead[c].given
    BY <1>1 DEF LeadRecord
  <2> HIDE DEF l
  <2> QED BY <1>1, <1>7, <2>0, <2>1, <2>2, <2>3, <2>4, LeadGoesOn
<1> QED BY <1>2, <1>8, <1>9, Zenon

LEMMA LeadSet ==
  ASSUME NEW t \in LeadRecord, NEW at \in {"email", "sale"}, NEW p \in Nat
  PROVE  LET l == [t EXCEPT !.at = at, !.person = p] IN
           /\ l \in LeadRecord /\ l.at = at /\ l.person = p
           /\ l.given = t.given /\ l.left = t.left
BY DEF LeadRecord

\* None of the identifiers has a person.
LEMMA MatchNoneKeeps ==
  ASSUME PersonsInv, NEW c \in Clients, Identity!MatchNone(c)
  PROVE  PersonsInv'
<1> DEFINE l == [lead[c] EXCEPT !.at = "identify"]
<1>1. /\ lead[c] \in LeadRecord /\ lead[c].at = "match" /\ lead[c].left = {}
      /\ persons \in Nat /\ GivenWell(lead[c])
      /\ UNCHANGED <<persons, identifiers, stored, carried, sharing, nameless>>
      /\ lead' = [lead EXCEPT ![c] = l]
  BY DEF PersonsInv, PersonsTyped, LeadRecord, Identity!MatchNone, Identity!tables, Identity!Do
<1>2. l \in LeadRecord /\ l.at = "identify" /\ l.given = lead[c].given /\ l.person = 0
      /\ l.left = {}
  BY <1>1 DEF LeadRecord, GivenWell
<1>3. GoesOn(c, l) /\ GivenWell(l)
  BY <1>1, <1>2 DEF GoesOn, GivenWell, Identity!Idle
<1>4. ASSUME NEW v \in lead[c].given \ sharing
      PROVE  OneHolder(v, identifiers', carried') /\ FoundOut(l, v, identifiers', carried')
  <2>1. InOneHand(v)
    BY <1>1 DEF PersonsInv, LeadRecord
  <2> QED BY <1>1, <1>2, <2>1 DEF InOneHand, FoundOut
<1> HIDE DEF l
<1> QED BY <1>1, <1>2, <1>3, <1>4, LeadGoesOn

\* The person of a registration gets the identifiers it lacks, which are its own
\* as far as that is promised.
LEMMA IdentifyKeeps ==
  ASSUME PersonsInv, NEW c \in Clients, Identity!Identify(c)
  PROVE  PersonsInv'
<1> DEFINE p == IF lead[c].person = 0 THEN persons + 1 ELSE lead[c].person
           missing == {v \in lead[c].given : p \notin Behind(v, identifiers)}
<1>1. /\ lead[c] \in LeadRecord /\ lead[c].at = "identify"
      /\ persons \in Nat /\ GivenWell(lead[c])
      /\ lead[c].person <= persons
      /\ UNCHANGED <<carried, sharing, nameless>>
      /\ lead' = [lead EXCEPT ![c] = Identity!Idle]
      /\ persons' = IF lead[c].person = 0 THEN persons + 1 ELSE persons
      /\ stored' = stored \cup {[person |-> p, given |-> lead[c].given]}
  BY DEF PersonsInv, PersonsTyped, LeadRecord, Identity!Identify, Identity!tables, Identity!Do
<1>2. identifiers' = identifiers \cup {[person |-> p, value |-> v, hashed |-> TRUE] : v \in missing}
  BY DEF Identity!Identify, Identity!Holders, Behind
<1>3. p \in 1..persons' /\ persons' \in Nat /\ persons <= persons'
  BY <1>1 DEF LeadRecord
<1>4. /\ \A i \in identifiers' : i \in identifiers \/ (i.person = p /\ i.value \in missing)
      /\ identifiers \subseteq identifiers'
  BY <1>2
<1>5. ASSUME NEW v \in lead[c].given
      PROVE  p \in Behind(v, identifiers')
  <2>1. CASE v \in missing
    <3>1. [person |-> p, value |-> v, hashed |-> TRUE] \in identifiers'
      BY <1>2, <2>1
    <3> QED BY <3>1 DEF Behind
  <2>2. CASE v \notin missing
    BY <1>4, <2>2 DEF Behind
  <2> QED BY <2>1, <2>2
<1>6. ASSUME NEW v
      PROVE  Behind(v, identifiers') \subseteq Behind(v, identifiers) \cup {p}
  BY <1>4 DEF Behind
<1>7. lead[c].given # {}
  BY <1>1 DEF GivenWell, Identity!Idle
<1>8. Identity!Idle \in LeadRecord
  BY DEF Identity!Idle, LeadRecord
<1>9. GoesOn(c, Identity!Idle) /\ GivenWell(Identity!Idle)
  BY <1>1, <1>4 DEF GoesOn, GivenWell, Identity!Idle
<1>10. ASSUME NEW v \in lead[c].given \ sharing
       PROVE  OneHolder(v, identifiers', carried')
  <2>1. InOneHand(v)
    BY <1>1 DEF PersonsInv, LeadRecord
  <2>2. Settled(v, carried) => Behind(v, identifiers) \subseteq {p}
    BY <1>1, <2>1 DEF InOneHand, FoundOut
  <2> QED BY <1>1, <1>6, <2>2 DEF OneHolder, Settled
<1>11. ASSUME NEW q \in 1..persons', q \notin 1..persons
       PROVE  Named(q)'
  <2>1. q = p
    BY <1>1, <1>3, <1>11
  <2>2. \E i \in identifiers' : i.person = p
    BY <1>5, <1>7 DEF Behind
  <2> QED BY <2>1, <2>2 DEF Named
<1> HIDE DEF p, missing
<1>12. Identity!Idle.at = "idle" /\ Identity!Idle.given = {} /\ Identity!Idle.person = 0
  BY DEF Identity!Idle
<1>13. \A s \in stored' : s \in stored \/ \A v \in s.given : s.person \in Behind(v, identifiers')
  BY <1>1, <1>5
<1>14. \A i \in identifiers' : i \in identifiers \/ i.person \in 1..persons'
  BY <1>3, <1>4
<1>15. \A q \in 1..persons' :
         (q \in 1..persons /\ ~(lead[c].at = "email" /\ lead[c].person = q)) \/ Named(q)'
  BY <1>1, <1>11
<1> QED BY <1>3, <1>8, <1>9, <1>10, <1>12, <1>13, <1>14, <1>15, LeadGoesOn

\* A purchase has found a person, or nobody.
LEMMA FindPersonKeeps ==
  ASSUME PersonsInv, NEW c \in Clients, Identity!FindPerson(c)
  PROVE  PersonsInv'
<1>1. /\ lead[c] \in LeadRecord /\ lead[c].at = "find" /\ persons \in Nat
      /\ GivenWell(lead[c]) /\ lead[c].person <= persons
      /\ UNCHANGED <<persons, identifiers, stored, carried, sharing, nameless>>
  BY Zenon DEF PersonsInv, PersonsTyped, LeadRecord, Identity!FindPerson, Identity!tables
<1>2. PICK v \in lead[c].given :
        \/ /\ Behind(v, identifiers) = {}
           /\ lead' = [lead EXCEPT ![c] = [lead[c] EXCEPT !.at = "person"]]
        \/ \E p \in Behind(v, identifiers) :
             lead' = [lead EXCEPT ![c] = [lead[c] EXCEPT !.at = "sale", !.person = p]]
  BY Zenon DEF Identity!FindPerson, Identity!Do, Identity!Holders, Behind
<1>3. \A w \in lead[c].given : w = v
  BY <1>1, <1>2, Zenon DEF GivenWell
<1>4. ASSUME NEW w \in lead[c].given \ sharing
      PROVE  OneHolder(w, identifiers', carried')
  BY <1>1 DEF PersonsInv, InOneHand, LeadRecord
<1>5. ASSUME NEW l \in LeadRecord, lead' = [lead EXCEPT ![c] = l], l.given = lead[c].given,
             l.left = lead[c].left, l.person <= persons,
             \/ l.at = "person" /\ Behind(v, identifiers) = {}
             \/ l.at = "sale" /\ l.person \in Behind(v, identifiers) /\ l.person # 0
      PROVE  PersonsInv'
  <2>1. GoesOn(c, l) /\ GivenWell(l)
    BY <1>1, <1>5 DEF GoesOn, GivenWell, Identity!Idle
  <2>2. \A w \in l.given \ sharing : FoundOut(l, w, identifiers', carried')
    BY <1>1, <1>3, <1>5 DEF FoundOut
  <2>3. l.at = "sale" => \A w \in l.given : l.person \in Behind(w, identifiers')
    BY <1>1, <1>3, <1>5
  <2> QED BY <1>1, <1>4, <1>5, <2>1, <2>2, <2>3, LeadGoesOn
<1>6. CASE /\ Behind(v, identifiers) = {}
           /\ lead' = [lead EXCEPT ![c] = [lead[c] EXCEPT !.at = "person"]]
  <2> DEFINE l == [lead[c] EXCEPT !.at = "person"]
  <2>1. /\ l \in LeadRecord /\ l.given = lead[c].given /\ l.left = lead[c].left
        /\ l.person = lead[c].person /\ l.at = "person"
    BY <1>1 DEF LeadRecord
  <2> HIDE DEF l
  <2> QED BY <1>1, <1>5, <1>6, <2>1 DEF l
<1>7. ASSUME NEW p \in Behind(v, identifiers),
             lead' = [lead EXCEPT ![c] = [lead[c] EXCEPT !.at = "sale", !.person = p]]
      PROVE  PersonsInv'
  <2>1. \A i \in identifiers : i.person \in 1..persons
    BY DEF PersonsInv, PersonsTyped
  <2>2. p \in 1..persons
    BY <1>7, <2>1 DEF Behind
  <2>3. p \in Nat /\ p # 0 /\ p <= persons
    BY <1>1, <2>2
  <2> DEFINE l == [lead[c] EXCEPT !.at = "sale", !.person = p]
  <2>4. /\ l \in LeadRecord /\ l.given = lead[c].given /\ l.left = lead[c].left
        /\ l.person = p /\ l.at = "sale"
    BY <1>1, <2>3, LeadSet, Zenon
  <2>5. lead' = [lead EXCEPT ![c] = l]
    BY <1>7
  <2> HIDE DEF l
  <2> QED BY <1>5, <1>7, <2>3, <2>4, <2>5
<1> QED BY <1>2, <1>6, <1>7, Zenon

\* It creates one ...
LEMMA CreatePersonKeeps ==
  ASSUME PersonsInv, NEW c \in Clients, Identity!CreatePerson(c)
  PROVE  PersonsInv'
<1> DEFINE l == [lead[c] EXCEPT !.at = "email", !.person = persons + 1]
<1>1. /\ lead[c] \in LeadRecord /\ lead[c].at = "person" /\ persons \in Nat
      /\ GivenWell(lead[c])
      /\ UNCHANGED <<identifiers, stored, carried, sharing, nameless>>
      /\ persons' = persons + 1
      /\ lead' = [lead EXCEPT ![c] = l]
  BY DEF PersonsInv, PersonsTyped, LeadRecord, Identity!CreatePerson, Identity!Do
<1>2. /\ l \in LeadRecord /\ l.at = "email" /\ l.given = lead[c].given
      /\ l.person = persons + 1 /\ l.left = lead[c].left
  <2>1. PICK n \in Nat : n = persons + 1
    BY <1>1
  <2> DEFINE m == [lead[c] EXCEPT !.at = "email", !.person = n]
  <2>2. /\ m \in LeadRecord /\ m.at = "email" /\ m.person = n
        /\ m.given = lead[c].given /\ m.left = lead[c].left
    BY <1>1, LeadSet, Zenon
  <2>3. l = m
    BY <2>1
  <2> HIDE DEF l, m
  <2> QED BY <2>1, <2>2, <2>3
<1>3. GoesOn(c, l) /\ GivenWell(l)
  BY <1>1, <1>2 DEF GoesOn, GivenWell, Identity!Idle
<1>4. ASSUME NEW v \in lead[c].given \ sharing
      PROVE  OneHolder(v, identifiers', carried') /\ FoundOut(l, v, identifiers', carried')
  <2>1. InOneHand(v)
    BY <1>1 DEF PersonsInv, LeadRecord
  <2> QED BY <1>1, <1>2, <2>1 DEF InOneHand, FoundOut
<1>5. lead'[c] = l
  BY <1>1 DEF PersonsInv, PersonsTyped
<1> HIDE DEF l
<1>6. ASSUME NEW q \in 1..persons', q \notin 1..persons
      PROVE  Named(q)'
  <2>1. q = persons + 1
    BY <1>1, <1>6
  <2> QED BY <1>2, <1>5, <2>1 DEF Named
<1>7. \A q \in 1..persons' :
         (q \in 1..persons /\ ~(lead[c].at = "email" /\ lead[c].person = q)) \/ Named(q)'
  BY <1>1, <1>6
<1> QED BY <1>1, <1>2, <1>3, <1>4, <1>7, LeadGoesOn

\* ... gives it the e-mail ...
LEMMA SaveEmailKeeps ==
  ASSUME PersonsInv, NEW c \in Clients, Identity!SaveEmail(c)
  PROVE  PersonsInv'
<1> DEFINE l == [lead[c] EXCEPT !.at = "sale"]
           p == lead[c].person
<1>1. /\ lead[c] \in LeadRecord /\ lead[c].at = "email" /\ persons \in Nat
      /\ GivenWell(lead[c]) /\ lead[c].person <= persons
      /\ UNCHANGED <<persons, stored, carried, sharing, nameless>>
      /\ lead' = [lead EXCEPT ![c] = l]
  BY DEF PersonsInv, PersonsTyped, LeadRecord, Identity!SaveEmail, Identity!Do
<1>2. /\ l \in LeadRecord /\ l.at = "sale" /\ l.given = lead[c].given
      /\ l.person = p /\ l.left = lead[c].left
      /\ p \in 1..persons /\ lead[c].given # {}
  BY <1>1 DEF LeadRecord, GivenWell, Identity!Idle
<1>3. identifiers' = identifiers \cup
        {[person |-> p, value |-> v, hashed |-> FALSE] : v \in lead[c].given}
  BY DEF Identity!SaveEmail
<1>4. /\ \A i \in identifiers' :
           i \in identifiers \/ (i.person = p /\ i.value \in lead[c].given)
      /\ identifiers \subseteq identifiers'
  BY <1>3
<1>5. ASSUME NEW v \in lead[c].given
      PROVE  p \in Behind(v, identifiers')
  <2>1. [person |-> p, value |-> v, hashed |-> FALSE] \in identifiers'
    BY <1>3
  <2> QED BY <2>1 DEF Behind
<1>6. ASSUME NEW v
      PROVE  Behind(v, identifiers') \subseteq Behind(v, identifiers) \cup {p}
  BY <1>4 DEF Behind
<1> HIDE DEF l, p
<1>7. GoesOn(c, l) /\ GivenWell(l)
  BY <1>1, <1>2, <1>4 DEF GoesOn, GivenWell, Identity!Idle
<1>8. ASSUME NEW v \in lead[c].given \ sharing
      PROVE  OneHolder(v, identifiers', carried') /\ FoundOut(l, v, identifiers', carried')
  <2>1. InOneHand(v)
    BY <1>1 DEF PersonsInv, LeadRecord
  <2>2. Behind(v, identifiers) = {}
    BY <1>1, <2>1 DEF InOneHand, FoundOut
  <2> QED BY <1>2, <1>6, <2>2 DEF OneHolder, FoundOut
<1>9. ASSUME NEW q \in 1..persons', lead[c].person = q
      PROVE  Named(q)'
  BY <1>2, <1>5, <1>9 DEF Named, Behind, p
<1>10. \A q \in 1..persons' :
         (q \in 1..persons /\ ~(lead[c].at = "email" /\ lead[c].person = q)) \/ Named(q)'
  BY <1>1, <1>9
<1>11. \A i \in identifiers' : i \in identifiers \/ i.person \in 1..persons'
  BY <1>1, <1>2, <1>4
<1> QED BY <1>1, <1>2, <1>5, <1>7, <1>8, <1>10, <1>11, LeadGoesOn DEF p

\* ... and stores the sale.
LEMMA SaveSaleKeeps ==
  ASSUME PersonsInv, NEW c \in Clients, Identity!SaveSale(c)
  PROVE  PersonsInv'
<1>1. /\ lead[c] \in LeadRecord /\ lead[c].at = "sale" /\ persons \in Nat
      /\ UNCHANGED <<persons, identifiers, carried, sharing, nameless>>
      /\ lead' = [lead EXCEPT ![c] = Identity!Idle]
      /\ stored' = stored \cup {[person |-> lead[c].person, given |-> lead[c].given]}
  BY DEF PersonsInv, PersonsTyped, LeadRecord, Identity!SaveSale, Identity!Do
<1>2. \A v \in lead[c].given : lead[c].person \in Behind(v, identifiers')
  BY <1>1 DEF PersonsInv, StoredIdentified
<1>3. /\ Identity!Idle \in LeadRecord /\ Identity!Idle.at = "idle"
      /\ Identity!Idle.given = {} /\ Identity!Idle.person = 0
  BY DEF Identity!Idle, LeadRecord
<1>4. GoesOn(c, Identity!Idle) /\ GivenWell(Identity!Idle)
  BY <1>1 DEF GoesOn, GivenWell, Identity!Idle
<1>5. ASSUME NEW v \in lead[c].given \ sharing
      PROVE  OneHolder(v, identifiers', carried')
  BY <1>1 DEF PersonsInv, InOneHand, LeadRecord
<1>6. \A s \in stored' : s \in stored \/ \A v \in s.given : s.person \in Behind(v, identifiers')
  BY <1>1, <1>2
<1> QED BY <1>1, <1>3, <1>4, <1>5, <1>6, LeadGoesOn

\* Cut off between the two, it leaves a person without a name.
LEMMA LeadFails ==
  ASSUME PersonsInv, NEW c \in Clients, Identity!Fail(c)
  PROVE  PersonsInv'
<1>1. /\ lead[c] \in LeadRecord /\ persons \in Nat
      /\ UNCHANGED <<persons, identifiers, stored, carried, sharing>>
      /\ lead' = [lead EXCEPT ![c] = Identity!Idle]
      /\ nameless \subseteq nameless' /\ (lead[c].at = "email" => lead[c].person \in nameless')
  BY DEF PersonsInv, PersonsTyped, LeadRecord, Identity!Fail, Identity!Do, Identity!tables
<1>2. /\ Identity!Idle \in LeadRecord /\ Identity!Idle.at = "idle"
      /\ Identity!Idle.given = {} /\ Identity!Idle.person = 0
  BY DEF Identity!Idle, LeadRecord
<1>3. GoesOn(c, Identity!Idle) /\ GivenWell(Identity!Idle)
  BY <1>1 DEF GoesOn, GivenWell, Identity!Idle
<1>4. ASSUME NEW v \in lead[c].given \ sharing
      PROVE  OneHolder(v, identifiers', carried')
  BY <1>1 DEF PersonsInv, InOneHand, LeadRecord
<1>5. ASSUME NEW q, lead[c].at = "email", lead[c].person = q
      PROVE  Named(q)'
  BY <1>1, <1>5 DEF Named
<1>6. \A q \in 1..persons' :
         (q \in 1..persons /\ ~(lead[c].at = "email" /\ lead[c].person = q)) \/ Named(q)'
  BY <1>1, <1>5
<1> QED BY <1>1, <1>2, <1>3, <1>4, <1>6, LeadGoesOn

LEMMA PersonsCounted == \A S : Identity!Cardinality(S) = Cardinality(S)
BY DEF Identity!Cardinality, Cardinality

LEMMA PairCounted ==
  ASSUME NEW v, NEW w, v # w
  PROVE  IsFiniteSet({v, w}) /\ Cardinality({v, w}) = 2
<1>1. IsFiniteSet({v}) /\ Cardinality({v}) = 1
  BY FS_Singleton
<1>2. {v, w} = {v} \cup {w} /\ w \notin {v}
  OBVIOUS
<1> QED BY <1>1, <1>2, FS_AddElement

\* What a payload may give has one e-mail.
LEMMA GivenOfPayload ==
  ASSUME NEW given \in Identity!Given
  PROVE  /\ given \in SUBSET Values /\ given # {}
         /\ \A v, w \in given \cap Emails : v = w
<1>1. given \in SUBSET Values /\ given # {} /\ Cardinality(given \cap Emails) <= 1
  <2>1. \A kind \in {Emails, LeadPhones, Cpfs} : Identity!Cardinality(given \cap kind) <= 1
    BY DEF Identity!Given
  <2>2. given \in SUBSET Values /\ given # {}
    BY DEF Identity!Given, Values
  <2> QED BY <2>1, <2>2, PersonsCounted
<1>2. IsFiniteSet(given \cap Emails)
  BY BackOfficeConstants, FS_Intersection
<1>3. ASSUME NEW v \in given \cap Emails, NEW w \in given \cap Emails, v # w
      PROVE  FALSE
  <2>1. IsFiniteSet({v, w}) /\ Cardinality({v, w}) = 2
    BY <1>3, PairCounted
  <2>2. Cardinality({v, w}) <= Cardinality(given \cap Emails)
    BY <1>2, FS_Subset
  <2>3. Cardinality(given \cap Emails) \in Nat
    BY <1>2, FS_CardinalityType
  <2> QED BY <1>1, <2>1, <2>2, <2>3
<1> QED BY <1>1, <1>3

LEMMA PersonsBegin == Identity!Init => PersonsInv
<1> SUFFICES ASSUME Identity!Init PROVE PersonsInv
  OBVIOUS
<1>1. /\ persons = 0 /\ identifiers = {} /\ stored = {}
      /\ DOMAIN lead = Clients /\ \A c \in Clients : lead[c] = Identity!Idle
      /\ lead = [c \in Clients |-> Identity!Idle]
  BY DEF Identity!Init
<1>2. Identity!Idle \in LeadRecord /\ GivenWell(Identity!Idle)
      /\ Identity!Idle.person = 0 /\ Identity!Idle.at = "idle" /\ Identity!Idle.given = {}
  BY DEF Identity!Idle, LeadRecord, GivenWell
<1>3. PersonsTyped
  BY <1>1, <1>2 DEF PersonsTyped, LeadRecord
<1>4. StoredIdentified /\ \A v \in Values : InOneHand(v)
  BY <1>1, <1>2 DEF StoredIdentified, InOneHand, OneHolder, Behind
<1> QED BY <1>1, <1>2, <1>3, <1>4 DEF PersonsInv

LEMMA PersonsKept == PersonsInv /\ [Next]_vars => PersonsInv'
<1> SUFFICES ASSUME PersonsInv, [Next]_vars
             PROVE  PersonsInv'
  OBVIOUS
<1>1. CASE Identity!Next
  <2> PICK c \in Clients :
        \/ \E given \in Identity!Given : Identity!Register(c, given)
        \/ Identity!MatchNext(c) \/ Identity!MatchNone(c) \/ Identity!Identify(c)
        \/ \E e \in Emails : Identity!Purchase(c, e)
        \/ Identity!FindPerson(c) \/ Identity!CreatePerson(c) \/ Identity!SaveEmail(c)
        \/ Identity!SaveSale(c) \/ Identity!Fail(c)
    BY <1>1 DEF Identity!Next
  <2>1. ASSUME NEW given \in Identity!Given, Identity!Register(c, given)
        PROVE  PersonsInv'
    BY <2>1, GivenOfPayload, LeadBegins DEF Identity!Register
  <2>2. ASSUME NEW e \in Emails, Identity!Purchase(c, e)
        PROVE  PersonsInv'
    <3>1. {e} \in SUBSET Values /\ {e} # {} /\ \A v, w \in {e} : v = w
      BY DEF Values, Identity!Values
    <3> QED BY <2>2, <3>1, LeadBegins DEF Identity!Purchase
  <2> QED BY <2>1, <2>2, MatchNextKeeps, MatchNoneKeeps, IdentifyKeeps, FindPersonKeeps,
             CreatePersonKeeps, SaveEmailKeeps, SaveSaleKeeps, LeadFails
<1>2. CASE UNCHANGED identityVars
  BY <1>2 DEF identityVars, PersonsInv, PersonsTyped, StoredIdentified, InOneHand, Named
<1> QED BY <1>1, <1>2 DEF Next, Step, vars

\* The invariant is strong enough.
LEMMA PersonsOne == PersonsInv => Identity!OnePersonUnlessShared
<1> SUFFICES ASSUME PersonsInv PROVE Identity!OnePersonUnlessShared
  OBVIOUS
<1>1. ASSUME NEW v \in Values \ sharing, Settled(v, carried)
      PROVE  /\ Identity!Cardinality(Identity!Holders(v)) <= 1
             /\ \A s, t \in stored : v \in s.given \cap t.given => s.person = t.person
  <2>1. \A p, q \in Identity!Holders(v) : p = q
    BY <1>1, HoldersBehind DEF PersonsInv, InOneHand, OneHolder
  <2>2. \A s \in stored : v \in s.given => s.person \in Identity!Holders(v)
    BY HoldersBehind DEF PersonsInv, StoredIdentified
  <2>3. CASE Identity!Holders(v) = {}
    BY <2>2, <2>3, PersonsCounted, FS_EmptySet
  <2>4. ASSUME NEW p \in Identity!Holders(v)
        PROVE  Cardinality(Identity!Holders(v)) = 1
    <3>1. Identity!Holders(v) = {p}
      BY <2>1
    <3> QED BY <3>1, FS_Singleton
  <2>5. Identity!Cardinality(Identity!Holders(v)) <= 1
    BY <2>3, <2>4, PersonsCounted
  <2> QED BY <2>1, <2>2, <2>5
<1>2. \A p \in 1..persons : Named(p)
  BY DEF PersonsInv
<1> QED BY <1>1, <1>2 DEF Identity!OnePersonUnlessShared, Settled, Named, Values

-----------------------------------------------------------------------------
(* Contacts: the inductive invariant *)

SenderRecord ==
  [at : {"post", "search", "put", "tag", "log", "failed"}, given : Contacts!Given,
   duplicate : {"none", "email", "phone"}, id : Nat]

ContactsTyped ==
  /\ contact \in [Contacts!Ids -> Contacts!Contact \cup {Absent}]
  /\ DOMAIN sender = Clients
  /\ \A a \in Clients : sender[a] # Contacts!Idle => sender[a] \in SenderRecord

\* Contact i of a table T has the e-mail that was given, or lost it to another, D
\* being the e-mails so lost; and it has its tag.
HasEmail(i, g, T, D) == g.email # Absent => T[i].email = g.email \/ g.email \in D
HasTag(i, g, T) == {g.tag} \cap Known \subseteq T[i].tags

\* The contact a submission goes by is there, and is as it left it.
SenderAt(t, T, D) ==
  /\ t.at \in {"put", "tag", "log"} => t.id \in Contacts!Ids /\ T[t.id] # Absent
  /\ t.at \in {"tag", "log"} => HasEmail(t.id, t.given, T, D)
  /\ t.at = "log" => HasTag(t.id, t.given, T) /\ t.given.source = "inlead"

\* So is the one that it ended with, which the webhook's log tells.
SentWell(s, T, D) ==
  /\ s.id \in Contacts!Ids /\ T[s.id] # Absent
  /\ HasEmail(s.id, s.given, T, D) /\ HasTag(s.id, s.given, T)
ToldWell(s, U, L) ==
  s.given.source = "inlead" => s.given \in U \/ [given |-> s.given, status |-> "sent"] \in L

LoggedWell(l, S) ==
  /\ l.given.source = "inlead"
  /\ l.status \in {"sent", "failed"}
  /\ l.status = "sent" => \E s \in S : s.given = l.given

ContactsInv ==
  /\ ContactsTyped
  /\ \A a \in Clients : SenderAt(sender[a], contact, displaced)
  /\ \A s \in sent : SentWell(s, contact, displaced)
  /\ \A s \in sent : ToldWell(s, untold, log)
  /\ \A l \in log : LoggedWell(l, sent)

-----------------------------------------------------------------------------
(* Contacts: the steps *)

\* No contact goes, loses a tag, or an e-mail without a trace.
ContactsStay(T, E, D, F) ==
  /\ D \subseteq F
  /\ \A i \in Contacts!Ids : T[i] # Absent =>
       /\ E[i] # Absent /\ T[i].tags \subseteq E[i].tags
       /\ E[i].email = T[i].email \/ T[i].email \in F \cup {Absent}

LEMMA SenderStays ==
  ASSUME NEW T, NEW E, NEW D, NEW F, ContactsStay(T, E, D, F), NEW t, SenderAt(t, T, D)
  PROVE  SenderAt(t, E, F)
BY DEF SenderAt, ContactsStay, HasEmail, HasTag

LEMMA SentStays ==
  ASSUME NEW T, NEW E, NEW D, NEW F, ContactsStay(T, E, D, F), NEW s, SentWell(s, T, D)
  PROVE  SentWell(s, E, F)
BY DEF SentWell, ContactsStay, HasEmail, HasTag

\* A step of a submission keeps the invariant if what it says of itself, of what
\* ended and of the log is true.
LEMMA SenderGoesOn ==
  ASSUME ContactsInv, NEW a \in Clients, NEW t, t = Contacts!Idle \/ t \in SenderRecord,
         sender' = [sender EXCEPT ![a] = t], SenderAt(t, contact', displaced'),
         contact' \in [Contacts!Ids -> Contacts!Contact \cup {Absent}],
         ContactsStay(contact, contact', displaced, displaced'),
         untold \subseteq untold', sent \subseteq sent', log \subseteq log',
         \A s \in sent' : s \in sent \/
           (SentWell(s, contact', displaced') /\ ToldWell(s, untold', log')),
         \A l \in log' : l \in log \/ LoggedWell(l, sent')
  PROVE  ContactsInv'
<1>1. ContactsTyped'
  <2>1. DOMAIN sender' = Clients
    BY DEF ContactsInv, ContactsTyped
  <2>2. ASSUME NEW b \in Clients
        PROVE  sender'[b] = Contacts!Idle \/ sender'[b] \in SenderRecord
    BY DEF ContactsInv, ContactsTyped
  <2> QED BY <2>1, <2>2 DEF ContactsTyped, Contacts!Idle, SenderRecord, Contacts!Ids,
        Contacts!Contact, Contacts!Given, Contacts!OfRegistration, Contacts!OfScore,
        Contacts!OfInlead, Contacts!From
<1>2. ASSUME NEW b \in Clients
      PROVE  SenderAt(sender'[b], contact', displaced')
  <2>1. CASE b = a
    BY <2>1 DEF ContactsInv, ContactsTyped
  <2>2. CASE b # a
    <3>1. sender'[b] = sender[b] /\ SenderAt(sender[b], contact, displaced)
      BY <2>2 DEF ContactsInv, ContactsTyped
    <3> QED BY <3>1, SenderStays
  <2> QED BY <2>1, <2>2
<1>3. ASSUME NEW s \in sent'
      PROVE  SentWell(s, contact', displaced') /\ ToldWell(s, untold', log')
  <2>1. CASE s \in sent
    <3>1. SentWell(s, contact, displaced) /\ ToldWell(s, untold, log)
      BY <2>1 DEF ContactsInv
    <3> QED BY <3>1, SentStays DEF ToldWell
  <2> QED BY <2>1, <1>3
<1>4. ASSUME NEW l \in log'
      PROVE  LoggedWell(l, sent')
  BY <1>4 DEF ContactsInv, LoggedWell
<1> QED
  <2>1. \A b \in Clients : SenderAt(sender'[b], contact', displaced')
    BY <1>2
  <2>2. \A s \in sent' : SentWell(s, contact', displaced')
    BY <1>3
  <2>3. \A s \in sent' : ToldWell(s, untold', log')
    BY <1>3
  <2>4. \A l \in log' : LoggedWell(l, sent')
    BY <1>4
  <2> QED BY <1>1, <2>1, <2>2, <2>3, <2>4
        DEF ContactsInv, SenderAt, SentWell, ToldWell, LoggedWell, HasEmail, HasTag, Contacts!Ids

LEMMA ContactsUnchanged ==
  ASSUME contact' = contact, displaced' = displaced
  PROVE  ContactsStay(contact, contact', displaced, displaced')
BY DEF ContactsStay

\* A submission under way is not an idle one.
LEMMA SenderTyped ==
  ASSUME ContactsInv, NEW a \in Clients, sender[a].at # "idle"
  PROVE  sender[a] \in SenderRecord /\ SenderAt(sender[a], contact, displaced)
BY DEF ContactsInv, ContactsTyped, Contacts!Idle

LEMMA IdleSender ==
  /\ Contacts!Idle.at = "idle"
  /\ \A T, D : SenderAt(Contacts!Idle, T, D)
BY DEF Contacts!Idle, SenderAt

LEMMA FailedSender ==
  ASSUME NEW t \in SenderRecord
  PROVE  LET f == [t EXCEPT !.at = "failed"] IN
           f \in SenderRecord /\ \A T, D : SenderAt(f, T, D)
BY DEF SenderRecord, SenderAt

LEMMA SenderSet ==
  ASSUME NEW t \in SenderRecord, NEW at \in {"put", "tag"}, NEW i \in Contacts!Ids
  PROVE  LET u == [t EXCEPT !.at = at, !.id = i] IN
           u \in SenderRecord /\ u.at = at /\ u.id = i /\ u.given = t.given
<1>1. i \in Nat
  BY BackOfficeConstants DEF Contacts!Ids
<1> QED BY <1>1 DEF SenderRecord

\* A request is taken, refused as a duplicate, or searched for.
LEMMA SubmitKeeps ==
  ASSUME ContactsInv, NEW a \in Clients, NEW g \in Contacts!Given, Contacts!Submit(a, g)
  PROVE  ContactsInv'
<1> DEFINE t == [at |-> "post", given |-> g, duplicate |-> "none", id |-> 0]
<1>1. /\ UNCHANGED <<contact, sent, log, displaced, untold>>
      /\ sender' = [sender EXCEPT ![a] = t]
  BY DEF Contacts!Submit
<1>2. t \in SenderRecord /\ SenderAt(t, contact', displaced')
  BY DEF SenderRecord, SenderAt
<1> HIDE DEF t
<1> QED BY <1>1, <1>2, SenderGoesOn, ContactsUnchanged DEF ContactsInv, ContactsTyped

LEMMA RefuseKeeps ==
  ASSUME ContactsInv, NEW a \in Clients, Contacts!Refuse(a)
  PROVE  ContactsInv'
<1>1. /\ UNCHANGED <<contact, sent, log, displaced, untold>>
      /\ sender[a].at = "post"
      /\ \E d \in {"none", "email", "phone"} :
           sender' = [sender EXCEPT ![a].at = "search", ![a].duplicate = d]
  BY DEF Contacts!Refuse, Contacts!In, Contacts!Duplicates
<1>2. PICK d \in {"none", "email", "phone"} :
        sender' = [sender EXCEPT ![a].at = "search", ![a].duplicate = d]
  BY <1>1
<1> DEFINE t == [sender[a] EXCEPT !.at = "search", !.duplicate = d]
<1>3. sender' = [sender EXCEPT ![a] = t]
  BY <1>2
<1>4. t \in SenderRecord /\ SenderAt(t, contact', displaced')
  BY <1>1, SenderTyped DEF SenderRecord, SenderAt
<1> HIDE DEF t
<1> QED BY <1>1, <1>3, <1>4, SenderGoesOn, ContactsUnchanged DEF ContactsInv, ContactsTyped

LEMMA SearchKeeps ==
  ASSUME ContactsInv, NEW a \in Clients, Contacts!Search(a)
  PROVE  ContactsInv'
<1>1. /\ UNCHANGED <<contact, sent, log, displaced, untold>>
      /\ sender[a].at = "search"
      /\ \/ \E i \in Contacts!Hits(sender[a]) :
              sender' = [sender EXCEPT ![a].at = "put", ![a].id = i]
         \/ sender' = [sender EXCEPT ![a].at = "failed"]
  BY DEF Contacts!Search, Contacts!In, Contacts!Goes
<1>2. sender[a] \in SenderRecord
  BY <1>1, SenderTyped
<1>3. ASSUME NEW i \in Contacts!Hits(sender[a]),
             sender' = [sender EXCEPT ![a].at = "put", ![a].id = i]
      PROVE  ContactsInv'
  <2> DEFINE t == [sender[a] EXCEPT !.at = "put", !.id = i]
  <2>1. i \in Contacts!Ids /\ contact[i] # Absent
    BY DEF Contacts!Hits, Contacts!By
  <2>2. t \in SenderRecord /\ SenderAt(t, contact', displaced')
    <3>1. t \in SenderRecord /\ t.at = "put" /\ t.id = i
      BY <1>2, <2>1, SenderSet, Zenon
    <3> HIDE DEF t
    <3> QED BY <1>1, <2>1, <3>1 DEF SenderAt
  <2>3. sender' = [sender EXCEPT ![a] = t]
    BY <1>3
  <2> HIDE DEF t
  <2> QED BY <1>1, <2>2, <2>3, SenderGoesOn, ContactsUnchanged, Zenon DEF ContactsInv, ContactsTyped
<1>4. ASSUME sender' = [sender EXCEPT ![a].at = "failed"]
      PROVE  ContactsInv'
  <2> DEFINE t == [sender[a] EXCEPT !.at = "failed"]
  <2>1. sender' = [sender EXCEPT ![a] = t] /\ t \in SenderRecord
        /\ SenderAt(t, contact', displaced')
    BY <1>2, <1>4, FailedSender
  <2> HIDE DEF t
  <2> QED BY <1>1, <2>1, SenderGoesOn, ContactsUnchanged, Zenon DEF ContactsInv, ContactsTyped
<1> QED BY <1>1, <1>3, <1>4

\* A contact is created where there was none.
LEMMA CreateKeeps ==
  ASSUME ContactsInv, NEW a \in Clients, Contacts!Create(a)
  PROVE  ContactsInv'
<1> DEFINE g == sender[a].given
           made == [email |-> g.email, phone |-> g.phone, tags |-> {}]
<1>1. /\ UNCHANGED <<sent, log, displaced>> /\ untold \subseteq untold'
      /\ sender[a].at = "post"
      /\ \E i \in Contacts!Ids :
           /\ contact[i] = Absent /\ contact' = [contact EXCEPT ![i] = made]
           /\ \/ sender' = [sender EXCEPT ![a].at = "tag", ![a].id = i]
              \/ sender' = [sender EXCEPT ![a].at = "failed"]
  BY DEF Contacts!Create, Contacts!In, Contacts!Goes
<1>2. PICK i \in Contacts!Ids :
           /\ contact[i] = Absent /\ contact' = [contact EXCEPT ![i] = made]
           /\ \/ sender' = [sender EXCEPT ![a].at = "tag", ![a].id = i]
              \/ sender' = [sender EXCEPT ![a].at = "failed"]
  BY <1>1
<1>3. sender[a] \in SenderRecord /\ g \in Contacts!Given
  BY <1>1, SenderTyped DEF SenderRecord
<1>4. made \in Contacts!Contact /\ made # Absent /\ made.email = g.email
  <2>1. g.email \in Emails \cup {Absent} /\ g.phone \in LeadPhones \cup {Absent}
    BY <1>3 DEF Contacts!Given, Contacts!OfRegistration, Contacts!OfScore, Contacts!OfInlead,
                Contacts!From
  <2> QED BY <2>1, BackOfficeConstants DEF Contacts!Contact
<1> HIDE DEF made
<1>5. /\ contact' \in [Contacts!Ids -> Contacts!Contact \cup {Absent}]
      /\ contact'[i] = made
      /\ \A j \in Contacts!Ids : contact[j] # Absent => contact'[j] = contact[j]
  BY <1>2, <1>4 DEF ContactsInv, ContactsTyped
<1>6. ContactsStay(contact, contact', displaced, displaced')
  BY <1>1, <1>5 DEF ContactsStay
<1>7. ASSUME sender' = [sender EXCEPT ![a].at = "tag", ![a].id = i]
      PROVE  ContactsInv'
  <2> DEFINE t == [sender[a] EXCEPT !.at = "tag", !.id = i]
  <2>1. sender' = [sender EXCEPT ![a] = t]
    BY <1>7
  <2>2. t \in SenderRecord /\ t.at = "tag" /\ t.id = i /\ t.given = g
    BY <1>3, SenderSet, Zenon
  <2> HIDE DEF t, g
  <2>3. SenderAt(t, contact', displaced')
    BY <1>4, <1>5, <2>2 DEF SenderAt, HasEmail
  <2> QED BY <1>1, <1>5, <1>6, <2>1, <2>2, <2>3, SenderGoesOn DEF ContactsInv
<1>8. ASSUME sender' = [sender EXCEPT ![a].at = "failed"]
      PROVE  ContactsInv'
  <2> DEFINE t == [sender[a] EXCEPT !.at = "failed"]
  <2>1. sender' = [sender EXCEPT ![a] = t] /\ t \in SenderRecord
        /\ SenderAt(t, contact', displaced')
    BY <1>3, <1>8, FailedSender
  <2> HIDE DEF t
  <2> QED BY <1>1, <1>5, <1>6, <2>1, SenderGoesOn DEF ContactsInv
<1> QED BY <1>2, <1>7, <1>8

LEMMA OverwrittenContact ==
  ASSUME NEW old \in Contacts!Contact, NEW g \in Contacts!Given
  PROVE  LET over == Contacts!Overwritten(old, g) IN
           /\ over \in Contacts!Contact /\ over # Absent /\ over.tags = old.tags
           /\ g.email # Absent => over.email = g.email
<1>1. g.email \in Emails \cup {Absent} /\ g.phone \in LeadPhones \cup {Absent}
  BY DEF Contacts!Given, Contacts!OfRegistration, Contacts!OfScore, Contacts!OfInlead,
         Contacts!From
<1> QED BY <1>1, BackOfficeConstants DEF Contacts!Overwritten, Contacts!Contact

\* A contact that is overwritten keeps its tags; an e-mail it loses is displaced.
LEMMA UpdateKeeps ==
  ASSUME ContactsInv, NEW a \in Clients, Contacts!Update(a)
  PROVE  ContactsInv'
<1> DEFINE i == sender[a].id
           g == sender[a].given
           over == Contacts!Overwritten(contact[i], g)
<1>1. /\ UNCHANGED <<sent, log>> /\ untold \subseteq untold' /\ sender[a].at = "put"
      /\ \/ sender' = [sender EXCEPT ![a].at = "failed"] /\ UNCHANGED <<contact, displaced>>
         \/ /\ contact' = [contact EXCEPT ![i] = over]
            /\ displaced' = IF contact[i].email \in {over.email, Absent} THEN displaced
                            ELSE displaced \cup {contact[i].email}
            /\ \/ sender' = [sender EXCEPT ![a].at = "tag"]
               \/ sender' = [sender EXCEPT ![a].at = "failed"]
  BY DEF Contacts!Update, Contacts!In, Contacts!Goes
<1>2. sender[a] \in SenderRecord /\ g \in Contacts!Given
      /\ i \in Contacts!Ids /\ contact[i] # Absent
  BY <1>1, SenderTyped DEF SenderRecord, SenderAt
<1>3. contact[i] \in Contacts!Contact
  BY <1>2 DEF ContactsInv, ContactsTyped
<1>4. /\ over \in Contacts!Contact /\ over # Absent /\ over.tags = contact[i].tags
      /\ g.email # Absent => over.email = g.email
  BY <1>2, <1>3, OverwrittenContact
<1>5. [sender[a] EXCEPT !.at = "failed"] \in SenderRecord
      /\ SenderAt([sender[a] EXCEPT !.at = "failed"], contact', displaced')
  BY <1>2, FailedSender
<1> DEFINE f == [sender[a] EXCEPT !.at = "failed"]
           t == [sender[a] EXCEPT !.at = "tag"]
<1>6. ASSUME sender' = [sender EXCEPT ![a] = f], UNCHANGED <<contact, displaced>>
      PROVE  ContactsInv'
  <2> HIDE DEF f, i, g, over
  <2> QED BY <1>1, <1>5, <1>6, SenderGoesOn, ContactsUnchanged DEF ContactsInv, ContactsTyped, f
<1>7. ASSUME contact' = [contact EXCEPT ![i] = over],
             displaced' = IF contact[i].email \in {over.email, Absent} THEN displaced
                          ELSE displaced \cup {contact[i].email},
             sender' = [sender EXCEPT ![a] = t] \/ sender' = [sender EXCEPT ![a] = f]
      PROVE  ContactsInv'
  <2>1. t \in SenderRecord /\ t.at = "tag" /\ t.id = i /\ t.given = g
    BY <1>2 DEF SenderRecord
  <2> f \in SenderRecord /\ SenderAt(f, contact', displaced')
    BY <1>5
  <2> HIDE DEF t, f, g, over, i
  <2>2. contact' \in [Contacts!Ids -> Contacts!Contact \cup {Absent}] /\ contact'[i] = over
        /\ \A j \in Contacts!Ids : j # i => contact'[j] = contact[j]
    BY <1>2, <1>4, <1>7 DEF ContactsInv, ContactsTyped
  <2>3. ContactsStay(contact, contact', displaced, displaced')
    BY <1>2, <1>4, <1>7, <2>2 DEF ContactsStay
  <2>4. SenderAt(t, contact', displaced')
    BY <1>2, <1>4, <2>1, <2>2 DEF SenderAt, HasEmail
  <2> QED BY <1>1, <1>7, <2>1, <2>2, <2>3, <2>4, SenderGoesOn DEF ContactsInv
<1> QED
  <2> HIDE DEF i, g, over
  <2> QED BY <1>1, <1>6, <1>7

\* A contact gets its tag, and what is done with it has ended but for the log.
LEMMA AttachTagKeeps ==
  ASSUME ContactsInv, NEW a \in Clients, Contacts!AttachTag(a)
  PROVE  ContactsInv'
<1> DEFINE i == sender[a].id
           g == sender[a].given
           f == [sender[a] EXCEPT !.at = "failed"]
           t == [sender[a] EXCEPT !.at = "log"]
           tagged == [contact EXCEPT ![i].tags = Contacts!Attached(@, g.tag)]
<1>1. /\ UNCHANGED <<log, displaced>> /\ untold \subseteq untold' /\ sender[a].at = "tag"
      /\ \/ /\ contact' = tagged
            /\ \/ g.source = "inlead" /\ sender' = [sender EXCEPT ![a] = t] /\ UNCHANGED sent
               \/ /\ g.source # "inlead" /\ sender' = [sender EXCEPT ![a] = Contacts!Idle]
                  /\ sent' = sent \cup {[given |-> g, id |-> i]}
               \/ sender' = [sender EXCEPT ![a] = f] /\ UNCHANGED sent
         \/ sender' = [sender EXCEPT ![a] = f] /\ UNCHANGED <<contact, sent>>
  BY DEF Contacts!AttachTag, Contacts!In, Contacts!Goes
<1>2. sender[a] \in SenderRecord /\ g \in Contacts!Given
      /\ i \in Contacts!Ids /\ contact[i] # Absent /\ HasEmail(i, g, contact, displaced)
  BY <1>1, SenderTyped DEF SenderRecord, SenderAt
<1>3. contact[i] \in Contacts!Contact
  BY <1>2 DEF ContactsInv, ContactsTyped
<1>4. f \in SenderRecord /\ SenderAt(f, contact', displaced')
  BY <1>2, FailedSender
<1>5. t \in SenderRecord /\ t.at = "log" /\ t.id = i /\ t.given = g
  BY <1>2 DEF SenderRecord
<1>6. ASSUME sender' = [sender EXCEPT ![a] = f], UNCHANGED <<contact, sent>>
      PROVE  ContactsInv'
  <2> HIDE DEF f, i, g, t, tagged
  <2> QED BY <1>1, <1>4, <1>6, SenderGoesOn, ContactsUnchanged DEF ContactsInv, ContactsTyped
<1> DEFINE over == [contact[i] EXCEPT !.tags = Contacts!Attached(@, g.tag)]
<1>7. /\ over \in Contacts!Contact /\ over # Absent /\ over.email = contact[i].email
      /\ contact[i].tags \subseteq over.tags /\ {g.tag} \cap Known \subseteq over.tags
  BY <1>3, BackOfficeConstants DEF Contacts!Contact, Contacts!Attached
<1>8. tagged = [contact EXCEPT ![i] = over]
  OBVIOUS
<1>9. ASSUME contact' = tagged
      PROVE  ContactsInv'
  <2> HIDE DEF t, f, g, over, i, tagged
  <2>2. contact' \in [Contacts!Ids -> Contacts!Contact \cup {Absent}] /\ contact'[i] = over
        /\ \A j \in Contacts!Ids : j # i => contact'[j] = contact[j]
    BY <1>2, <1>7, <1>8, <1>9 DEF ContactsInv, ContactsTyped
  <2>3. ContactsStay(contact, contact', displaced, displaced')
    BY <1>1, <1>2, <1>7, <2>2 DEF ContactsStay
  <2>4. /\ contact'[i] # Absent /\ HasEmail(i, g, contact', displaced')
        /\ HasTag(i, g, contact')
    BY <1>1, <1>2, <1>7, <2>2 DEF HasEmail, HasTag
  <2>5. ASSUME sender' = [sender EXCEPT ![a] = f], UNCHANGED sent
        PROVE  ContactsInv'
    BY <1>1, <1>4, <2>2, <2>3, <2>5, SenderGoesOn DEF ContactsInv
  <2>6. ASSUME g.source = "inlead", sender' = [sender EXCEPT ![a] = t], UNCHANGED sent
        PROVE  ContactsInv'
    <3>1. SenderAt(t, contact', displaced')
      BY <1>2, <1>5, <2>4, <2>6 DEF SenderAt
    <3> QED BY <1>1, <1>5, <2>2, <2>3, <2>6, <3>1, SenderGoesOn DEF ContactsInv
  <2>7. ASSUME g.source # "inlead", sender' = [sender EXCEPT ![a] = Contacts!Idle],
               sent' = sent \cup {[given |-> g, id |-> i]}
        PROVE  ContactsInv'
    <3>1. \A s \in sent' : s \in sent \/
            (SentWell(s, contact', displaced') /\ ToldWell(s, untold', log'))
      BY <1>2, <2>4, <2>7 DEF SentWell, ToldWell
    <3> QED BY <1>1, <2>2, <2>3, <2>7, <3>1, IdleSender, SenderGoesOn DEF ContactsInv
  <2> QED BY <1>1, <1>9, <2>5, <2>6, <2>7, <1>6
<1> QED
  <2> HIDE DEF t, f, g, over, i, tagged
  <2> QED BY <1>1, <1>6, <1>9

\* The log tells what was sent, or that this could not be told.
LEMMA LogSentKeeps ==
  ASSUME ContactsInv, NEW a \in Clients, Contacts!LogSent(a)
  PROVE  ContactsInv'
<1> DEFINE i == sender[a].id
           g == sender[a].given
<1>1. /\ UNCHANGED <<contact, displaced>> /\ sender[a].at = "log"
      /\ sent' = sent \cup {[given |-> g, id |-> i]}
      /\ sender' = [sender EXCEPT ![a] = Contacts!Idle]
      /\ \/ log' = log \cup {[given |-> g, status |-> "sent"]} /\ UNCHANGED untold
         \/ /\ untold' = untold \cup {g}
            /\ log' \in {log, log \cup {[given |-> g, status |-> "failed"]}}
  BY DEF Contacts!LogSent, Contacts!In
<1>2. /\ i \in Contacts!Ids /\ contact[i] # Absent /\ HasEmail(i, g, contact, displaced)
      /\ HasTag(i, g, contact) /\ g.source = "inlead"
  BY <1>1, SenderTyped DEF SenderAt
<1> HIDE DEF i, g
<1>3. \A s \in sent' : s \in sent \/
        (SentWell(s, contact', displaced') /\ ToldWell(s, untold', log'))
  BY <1>1, <1>2 DEF SentWell, ToldWell
<1>4. \A l \in log' : l \in log \/ LoggedWell(l, sent')
  <2>1. [given |-> g, id |-> i] \in sent'
    BY <1>1
  <2>2. \E s \in sent' : s.given = g
    BY <2>1
  <2> QED BY <1>1, <1>2, <2>2 DEF LoggedWell
<1>5. untold \subseteq untold' /\ log \subseteq log' /\ sent \subseteq sent'
  BY <1>1
<1> QED BY <1>1, <1>3, <1>4, <1>5, IdleSender, SenderGoesOn, ContactsUnchanged
        DEF ContactsInv, ContactsTyped

\* A failure is delivered again or told.
LEMMA SenderFails ==
  ASSUME ContactsInv, NEW a \in Clients, Contacts!Fail(a)
  PROVE  ContactsInv'
<1> DEFINE g == sender[a].given
           t == [at |-> "post", given |-> g, duplicate |-> "none", id |-> 0]
<1>1. /\ UNCHANGED <<contact, sent, displaced, untold>> /\ sender[a].at = "failed"
      /\ \/ sender' = [sender EXCEPT ![a] = t] /\ UNCHANGED log
         \/ /\ sender' = [sender EXCEPT ![a] = Contacts!Idle]
            /\ \/ UNCHANGED log
               \/ g.source = "inlead" /\ log' = log \cup {[given |-> g, status |-> "failed"]}
  BY DEF Contacts!Fail, Contacts!In
<1>2. t \in SenderRecord /\ SenderAt(t, contact', displaced')
  BY <1>1, SenderTyped DEF SenderRecord, SenderAt
<1> HIDE DEF g, t
<1>3. log \subseteq log' /\ \A l \in log' : l \in log \/ LoggedWell(l, sent')
  BY <1>1 DEF LoggedWell
<1> QED BY <1>1, <1>2, <1>3, IdleSender, SenderGoesOn, ContactsUnchanged
        DEF ContactsInv, ContactsTyped

LEMMA ContactsBegin == Contacts!Init => ContactsInv
<1> SUFFICES ASSUME Contacts!Init PROVE ContactsInv
  OBVIOUS
<1>1. /\ contact = [i \in Contacts!Ids |-> Absent] /\ sender = [a \in Clients |-> Contacts!Idle]
      /\ sent = {} /\ log = {}
  BY DEF Contacts!Init
<1>2. ContactsTyped
  BY <1>1 DEF ContactsTyped
<1> QED BY <1>1, <1>2, IdleSender DEF ContactsInv

LEMMA ContactsKept == ContactsInv /\ [Next]_vars => ContactsInv'
<1> SUFFICES ASSUME ContactsInv, [Next]_vars
             PROVE  ContactsInv'
  OBVIOUS
<1>1. CASE Contacts!Next
  <2> PICK a \in Clients :
        \/ \E g \in Contacts!Given : Contacts!Submit(a, g)
        \/ Contacts!Create(a) \/ Contacts!Refuse(a) \/ Contacts!Search(a) \/ Contacts!Update(a)
        \/ Contacts!AttachTag(a) \/ Contacts!LogSent(a) \/ Contacts!Fail(a)
    BY <1>1 DEF Contacts!Next
  <2> QED BY SubmitKeeps, CreateKeeps, RefuseKeeps, SearchKeeps, UpdateKeeps, AttachTagKeeps,
             LogSentKeeps, SenderFails
<1>2. CASE UNCHANGED contactVars
  BY <1>2 DEF contactVars, ContactsInv, ContactsTyped
<1> QED BY <1>1, <1>2 DEF Next, Step, vars

\* The invariant is strong enough.
LEMMA ContactsHold == ContactsInv => Contacts!ContactKeptUnlessDisplaced
<1> SUFFICES ASSUME ContactsInv PROVE Contacts!ContactKeptUnlessDisplaced
  OBVIOUS
<1>1. \A s \in sent : HasEmail(s.id, s.given, contact, displaced) /\ HasTag(s.id, s.given, contact)
  BY DEF ContactsInv, SentWell
<1>2. ASSUME NEW l \in log
      PROVE  IF l.status = "sent" THEN \E s \in sent : s.given = l.given
             ELSE (\E s \in sent : s.given = l.given) => l.given \in untold \/
                    [given |-> l.given, status |-> "sent"] \in log
  BY DEF ContactsInv, LoggedWell, ToldWell
<1> QED BY <1>1, <1>2 DEF Contacts!ContactKeptUnlessDisplaced, HasEmail, HasTag

-----------------------------------------------------------------------------
(* What leads see of it: persons and contacts *)

\* Captures and sales with an identifier in common belong to one person, and a
\* contact keeps the e-mail and the tag of the submission that ended with it.
THEOREM PersonsAndContactsKept == Spec => []OnePersonUnlessShared
<1>1. Init => PersonsInv /\ ContactsInv
  BY PersonsBegin, ContactsBegin DEF Init
<1>2. PersonsInv /\ ContactsInv /\ [Next]_vars => (PersonsInv /\ ContactsInv)'
  BY PersonsKept, ContactsKept
<1>3. PersonsInv /\ ContactsInv => OnePersonUnlessShared
  BY PersonsOne, ContactsHold DEF OnePersonUnlessShared
<1> QED BY <1>1, <1>2, <1>3, PTL DEF Spec
-----------------------------------------------------------------------------
(* Schedules: the inductive invariant *)

Row == [minute : Nat, active : BOOLEAN, last : Nat]
RunnerRecord ==
  [at : {"idle", "tick", "runs", "save"}, minute : Nat, todo : SUBSET Schedules,
   id : Schedules \cup {Absent}, row : Row \cup {Absent}, day : Nat, asked : BOOLEAN]

SchedulesTyped ==
  /\ schedule \in [Schedules -> Row \cup {Absent}]
  /\ day \in Nat /\ minute \in Nat
  /\ runner \in [Runners -> RunnerRecord]
  /\ DOMAIN ran = Schedules
  /\ \A s \in Schedules : \A d \in ran[s] : d \in Nat /\ d <= day

\* A run that is to be saved is of a schedule in hand, which had a row; who was
\* asked for a run has no other in hand.
RunnerWell(t) ==
  /\ t.at \in {"idle", "tick"} => t.todo = {}
  /\ IF t.at = "save" THEN t.id \in t.todo /\ t.row \in Row ELSE t.id = Absent
  /\ t.asked => \A s, q \in t.todo : s = q

\* What is in hand did not run today, R being the days on which it ran, unless it
\* was asked for; and while a run is to be saved none comes after it.
NotToday(t, s, R, today) ==
  s \in t.todo =>
    IF t.at = "save" /\ t.id = s THEN \A d \in R : d <= t.day
    ELSE t.asked \/ \A d \in R : d < today

\* The last run is marked in a table S, or is about to be.
Marked(s, T, R, S) ==
  S[s] # Absent =>
    \/ \E r \in Runners : T[r].at = "save" /\ T[r].id = s
    \/ \A d \in R[s] : d <= S[s].last

OneRunner(s, T) == \A r, q \in Runners : s \in T[r].todo /\ s \in T[q].todo => r = q

Unused(s) == schedule[s] = Absent /\ ran[s] = {}

SchedulesInv ==
  /\ SchedulesTyped
  /\ \A r \in Runners : RunnerWell(runner[r])
  /\ \A s \in Schedules \ held :
       /\ OneRunner(s, runner) /\ Marked(s, runner, ran, schedule)
       /\ \A r \in Runners : NotToday(runner[r], s, ran[s], day)
  /\ \A s \in Schedules \cap new : Unused(s)
  /\ \A r \in Runners : runner[r].at = "save" => runner[r].id \notin new
  /\ again \subseteq held

-----------------------------------------------------------------------------
(* Schedules: the steps *)

\* What a runner has in hand is what it has to do.
LEMMA InHandTodo ==
  ASSUME SchedulesInv, NEW r \in Runners
  PROVE  Scheduling!InHand(r) = runner[r].todo
BY DEF SchedulesInv, RunnerWell, Scheduling!InHand

\* A step of a runner keeps the invariant if what it says of its own schedules is
\* true, and what it takes in hand that others have is held.
LEMMA RunnerGoesOn ==
  ASSUME SchedulesInv, NEW r \in Runners, NEW t \in RunnerRecord, RunnerWell(t),
         runner' = [runner EXCEPT ![r] = t], UNCHANGED <<day, minute, new>>,
         schedule' \in [Schedules -> Row \cup {Absent}],
         DOMAIN ran' = Schedules, \A s \in Schedules : \A d \in ran'[s] : d \in Nat /\ d <= day,
         held \subseteq held', again' \subseteq held',
         \A s \in t.todo \ held' : s \in runner[r].todo \/
           \A q \in Runners \ {r} : s \notin runner[q].todo,
         \A s \in Schedules \ held' : NotToday(t, s, ran'[s], day),
         \A s \in Schedules : ran'[s] = ran[s] \/ s \in runner[r].todo,
         \A s \in Schedules \ held' : Marked(s, runner', ran', schedule'),
         \A s \in Schedules \cap new : schedule'[s] = schedule[s] /\ ran'[s] = ran[s],
         t.at = "save" => t.id \notin new
  PROVE  SchedulesInv'
<1>0. runner \in [Runners -> RunnerRecord]
  BY DEF SchedulesInv, SchedulesTyped
<1>1. SchedulesTyped'
  <2>1. runner' \in [Runners -> RunnerRecord]
    BY <1>0
  <2> QED BY <2>1 DEF SchedulesInv, SchedulesTyped
<1>2. ASSUME NEW q \in Runners
      PROVE  RunnerWell(runner'[q]) /\ (runner'[q].at = "save" => runner'[q].id \notin new')
  <2>1. CASE q = r
    BY <1>0, <2>1
  <2>2. CASE q # r
    BY <1>0, <2>2 DEF SchedulesInv
  <2> QED BY <2>1, <2>2
<1>3. ASSUME NEW s \in Schedules \ held'
      PROVE  OneRunner(s, runner')
  <2>1. OneRunner(s, runner)
    BY DEF SchedulesInv
  <2>2. ASSUME NEW q \in Runners, q # r, s \in t.todo
        PROVE  s \notin runner[q].todo
    BY <2>1, <2>2 DEF OneRunner
  <2>3. runner'[r] = t /\ \A q \in Runners : q # r => runner'[q] = runner[q]
    BY <1>0
  <2> QED BY <2>1, <2>2, <2>3 DEF OneRunner
<1>4. ASSUME NEW s \in Schedules \ held', NEW q \in Runners
      PROVE  NotToday(runner'[q], s, ran'[s], day')
  <2>1. CASE q = r
    BY <1>0, <2>1
  <2>2. CASE q # r
    <3>1. runner'[q] = runner[q] /\ NotToday(runner[q], s, ran[s], day) /\ OneRunner(s, runner)
      BY <1>0, <2>2 DEF SchedulesInv
    <3>2. s \in runner[q].todo => ran'[s] = ran[s]
      BY <2>2, <3>1 DEF OneRunner
    <3> QED BY <3>1, <3>2 DEF NotToday
  <2> QED BY <2>1, <2>2
<1>5. \A s \in Schedules \cap new' : Unused(s)'
  BY DEF SchedulesInv, Unused
<1> QED
  <2>1. \A s \in Schedules \ held' : OneRunner(s, runner') /\ Marked(s, runner', ran', schedule')
    BY <1>3
  <2>2. \A s \in Schedules \ held' : \A q \in Runners : NotToday(runner'[q], s, ran'[s], day')
    BY <1>4
  <2>3. \A q \in Runners : RunnerWell(runner'[q])
    BY <1>2
  <2>4. \A q \in Runners : runner'[q].at = "save" => runner'[q].id \notin new'
    BY <1>2
  <2> QED BY <1>1, <1>5, <2>1, <2>2, <2>3, <2>4
        DEF SchedulesInv, OneRunner, Marked, NotToday, RunnerWell

\* A mark stays where a runner that does not save it goes on.
LEMMA MarkStays ==
  ASSUME SchedulesInv, NEW s \in Schedules \ held, NEW r \in Runners, NEW t \in RunnerRecord,
         runner' = [runner EXCEPT ![r] = t],
         runner[r].at = "save" /\ runner[r].id = s => t.at = "save" /\ t.id = s,
         schedule'[s] = schedule[s], ran'[s] = ran[s]
  PROVE  Marked(s, runner', ran', schedule')
<1>1. Marked(s, runner, ran, schedule) /\ runner \in [Runners -> RunnerRecord]
  BY DEF SchedulesInv, SchedulesTyped
<1>2. ASSUME NEW q \in Runners, runner[q].at = "save" /\ runner[q].id = s
      PROVE  runner'[q].at = "save" /\ runner'[q].id = s
  BY <1>1, <1>2
<1> QED BY <1>1, <1>2 DEF Marked

LEMMA HoldApart ==
  ASSUME SchedulesInv, NEW r \in Runners, NEW S, Scheduling!Hold(r, S)
  PROVE  /\ held \subseteq held'
         /\ \A s \in S \ held' : \A q \in Runners \ {r} : s \notin runner[q].todo
<1>1. held' = held \cup (S \cap UNION {runner[q].todo : q \in Runners \ {r}})
  <2>1. {Scheduling!InHand(q) : q \in Runners \ {r}} = {runner[q].todo : q \in Runners \ {r}}
    BY InHandTodo
  <2> QED BY <2>1 DEF Scheduling!Hold
<1> QED BY <1>1

\* A runner that lets its schedules go, or takes one off, says nothing new.
LEMMA IdleRunner ==
  /\ Scheduling!Idle \in RunnerRecord /\ RunnerWell(Scheduling!Idle)
  /\ Scheduling!Idle.todo = {} /\ Scheduling!Idle.at = "idle"
  /\ \A s, R, d : NotToday(Scheduling!Idle, s, R, d)
BY DEF Scheduling!Idle, RunnerRecord, RunnerWell, NotToday

LEMMA RestOfRunner ==
  ASSUME SchedulesInv, NEW r \in Runners, NEW s, s \in runner[r].todo
  PROVE  /\ Scheduling!Rest(r, s) \in RunnerRecord /\ RunnerWell(Scheduling!Rest(r, s))
         /\ Scheduling!Rest(r, s).todo = runner[r].todo \ {s}
         /\ Scheduling!Rest(r, s).at # "save"
         /\ ~ Scheduling!Rest(r, s).asked
<1>1. runner[r] \in RunnerRecord
  BY DEF SchedulesInv, SchedulesTyped
<1> DEFINE left == runner[r].todo \ {s}
           t == [Scheduling!Idle EXCEPT !.at = "runs", !.todo = left]
<1>2. left \subseteq Schedules
  BY <1>1 DEF RunnerRecord
<1> HIDE DEF left
<1>3. t \in RunnerRecord /\ t.todo = left /\ t.at = "runs" /\ t.asked = FALSE /\ RunnerWell(t)
  BY <1>2 DEF RunnerRecord, Scheduling!Idle, RunnerWell
<1>4. Scheduling!Idle.asked = FALSE
  BY DEF Scheduling!Idle
<1>5. Scheduling!Rest(r, s) = IF left = {} THEN Scheduling!Idle ELSE t
  BY DEF Scheduling!Rest, left
<1> HIDE DEF t
<1>6. CASE left = {}
  BY <1>4, <1>5, <1>6, IdleRunner DEF left
<1>7. CASE left # {}
  BY <1>3, <1>5, <1>7 DEF left
<1> QED BY <1>6, <1>7

\* What is left to do did not run today either.
LEMMA RestNotToday ==
  ASSUME SchedulesInv, NEW r \in Runners, NEW s \in Schedules \ held, NEW t \in RunnerRecord,
         t.todo \subseteq runner[r].todo, t.at # "save",
         runner[r].at = "save" /\ runner[r].id = s => s \notin t.todo,
         NEW q \in runner[r].todo, q \notin t.todo
  PROVE  NotToday(t, s, ran[s], day)
<1>1. NotToday(runner[r], s, ran[s], day) /\ RunnerWell(runner[r])
  BY DEF SchedulesInv
<1> QED BY <1>1 DEF NotToday, RunnerWell

\* Users create and remove schedules.
LEMMA CreateSchedule ==
  ASSUME SchedulesInv, NEW s \in Schedules, NEW m \in Nat, NEW on \in BOOLEAN,
         Scheduling!Create(s, m, on)
  PROVE  SchedulesInv'
<1> DEFINE row == [minute |-> m, active |-> on, last |-> 0]
<1>1. /\ s \in new /\ new' = new \ {s} /\ schedule' = [schedule EXCEPT ![s] = row]
      /\ UNCHANGED <<day, minute, runner, ran, again, held>>
  BY DEF Scheduling!Create, Scheduling!clock
<1>2. row \in Row
  BY DEF Row
<1> HIDE DEF row
<1>3. Unused(s)
  BY <1>1 DEF SchedulesInv
<1>4. SchedulesTyped'
  BY <1>1, <1>2 DEF SchedulesInv, SchedulesTyped
<1>5. ASSUME NEW q \in Schedules \ held
      PROVE  Marked(q, runner', ran', schedule')
  <2>1. CASE q = s
    BY <1>1, <1>3, <2>1 DEF Marked, Unused
  <2>2. CASE q # s
    BY <1>1, <2>2 DEF Marked, SchedulesInv, SchedulesTyped
  <2> QED BY <2>1, <2>2
<1>6. \A q \in Schedules \cap new' : Unused(q)'
  BY <1>1 DEF SchedulesInv, SchedulesTyped, Unused
<1> QED BY <1>1, <1>4, <1>5, <1>6 DEF SchedulesInv, OneRunner, NotToday, Marked

LEMMA RemoveSchedule ==
  ASSUME SchedulesInv, NEW s \in Schedules, Scheduling!Remove(s)
  PROVE  SchedulesInv'
<1>1. /\ schedule' = [schedule EXCEPT ![s] = Absent]
      /\ UNCHANGED <<day, minute, new, runner, ran, again, held>>
  BY DEF Scheduling!Remove, Scheduling!clock
<1>2. SchedulesTyped'
  BY <1>1 DEF SchedulesInv, SchedulesTyped
<1>3. ASSUME NEW q \in Schedules \ held
      PROVE  Marked(q, runner', ran', schedule')
  BY <1>1 DEF Marked, SchedulesInv, SchedulesTyped
<1>4. \A q \in Schedules \cap new' : Unused(q)'
  BY <1>1 DEF SchedulesInv, SchedulesTyped, Unused
<1> QED BY <1>1, <1>2, <1>3, <1>4 DEF SchedulesInv, OneRunner, NotToday, Marked

\* A user asks for a run.
LEMMA RunNowKeeps ==
  ASSUME SchedulesInv, NEW r \in Runners, NEW s \in Schedules, Scheduling!RunNow(r, s)
  PROVE  SchedulesInv'
<1> DEFINE t == [Scheduling!Idle EXCEPT !.at = "runs", !.todo = {s}, !.asked = TRUE]
<1>1. /\ runner' = [runner EXCEPT ![r] = t] /\ runner[r] = Scheduling!Idle
      /\ UNCHANGED <<schedule, new, day, minute, ran, again>> /\ Scheduling!Hold(r, {s})
  BY DEF Scheduling!RunNow, Scheduling!Do, Scheduling!clock
<1>2. t \in RunnerRecord /\ t.todo = {s} /\ t.at = "runs" /\ RunnerWell(t)
      /\ \A q, R, d : NotToday(t, q, R, d)
  BY DEF RunnerRecord, Scheduling!Idle, RunnerWell, NotToday
<1> HIDE DEF t
<1>3. held \subseteq held' /\ \A q \in t.todo \ held' : \A p \in Runners \ {r} : q \notin runner[p].todo
  BY <1>1, <1>2, HoldApart
<1>4. ASSUME NEW q \in Schedules \ held'
      PROVE  Marked(q, runner', ran', schedule')
  BY <1>1, <1>2, <1>3, IdleRunner, MarkStays
<1>5. again' \subseteq held' /\ again \subseteq held
  BY <1>1, <1>3 DEF SchedulesInv
<1> QED BY <1>1, <1>2, <1>3, <1>4, <1>5, RunnerGoesOn DEF SchedulesInv, SchedulesTyped

\* A scheduler's minute comes ...
LEMMA TickKeeps ==
  ASSUME SchedulesInv, NEW r \in Runners, Scheduling!Tick(r)
  PROVE  SchedulesInv'
<1> DEFINE t == [Scheduling!Idle EXCEPT !.at = "tick", !.minute = minute]
<1>1. /\ runner' = [runner EXCEPT ![r] = t] /\ runner[r] = Scheduling!Idle
      /\ UNCHANGED <<schedule, new, day, minute, ran, again, held>>
  BY DEF Scheduling!Tick, Scheduling!Do, Scheduling!clock
<1>2. t \in RunnerRecord /\ t.todo = {} /\ t.at = "tick" /\ RunnerWell(t)
      /\ \A q, R, d : NotToday(t, q, R, d)
  BY DEF RunnerRecord, Scheduling!Idle, RunnerWell, NotToday, SchedulesInv, SchedulesTyped
<1> HIDE DEF t
<1>3. ASSUME NEW q \in Schedules \ held'
      PROVE  Marked(q, runner', ran', schedule')
  BY <1>1, <1>2, IdleRunner, MarkStays
<1> QED BY <1>1, <1>2, <1>3, RunnerGoesOn DEF SchedulesInv, SchedulesTyped

\* ... and it looks for what is due, which did not run today.
LEMMA LookKeeps ==
  ASSUME SchedulesInv, NEW r \in Runners, Scheduling!Look(r)
  PROVE  SchedulesInv'
<1> DEFINE due == {s \in Schedules : Scheduling!Exists(schedule[s]) /\
                     Scheduling!Due(schedule[s], runner[r].minute)}
           u == [Scheduling!Idle EXCEPT !.at = "runs", !.todo = due]
           t == IF due = {} THEN Scheduling!Idle ELSE u
<1>1. /\ runner' = [runner EXCEPT ![r] = t] /\ runner[r].at = "tick"
      /\ UNCHANGED <<schedule, new, day, minute, ran, again>> /\ Scheduling!Hold(r, due)
  BY DEF Scheduling!Look, Scheduling!Do, Scheduling!clock
<1>2. due \subseteq Schedules /\ \A s \in due : schedule[s] # Absent /\ schedule[s].last < day
  BY DEF Scheduling!Due, Scheduling!Exists
<1>3. runner[r].todo = {}
  BY <1>1 DEF SchedulesInv, RunnerWell
<1>4. held \subseteq held' /\ \A q \in due \ held' : \A p \in Runners \ {r} : q \notin runner[p].todo
  BY <1>1, HoldApart
<1> HIDE DEF due
<1>5. u \in RunnerRecord /\ u.todo = due /\ u.at = "runs" /\ RunnerWell(u)
  BY <1>2 DEF RunnerRecord, Scheduling!Idle, RunnerWell
<1> HIDE DEF u
<1>6. t \in RunnerRecord /\ t.todo = due /\ t.at # "save" /\ RunnerWell(t)
  BY <1>5, IdleRunner
<1> HIDE DEF t
<1>7. ASSUME NEW s \in Schedules \ held'
      PROVE  Marked(s, runner', ran', schedule')
  BY <1>1, <1>4, <1>6, MarkStays
<1>8. ASSUME NEW s \in Schedules \ held'
      PROVE  NotToday(t, s, ran'[s], day)
  <2>1. CASE s \in due
    <3>1. Marked(s, runner, ran, schedule) /\ schedule[s] \in Row
      BY <1>2, <1>4, <2>1 DEF SchedulesInv, SchedulesTyped
    <3>2. ASSUME NEW p \in Runners, runner[p].at = "save", runner[p].id = s
          PROVE  FALSE
      <4>1. s \in runner[p].todo
        BY <3>2 DEF SchedulesInv, RunnerWell
      <4> QED BY <1>3, <1>4, <2>1, <4>1
    <3>3. \A d \in ran[s] : d <= schedule[s].last
      BY <1>2, <2>1, <3>1, <3>2 DEF Marked
    <3>4. \A d \in ran[s] : d < day
      BY <1>2, <2>1, <3>1, <3>3 DEF Row, SchedulesInv, SchedulesTyped
    <3> QED BY <1>1, <1>6, <3>4 DEF NotToday
  <2>2. CASE s \notin due
    BY <1>6, <2>2 DEF NotToday
  <2> QED BY <2>1, <2>2
<1>9. again' \subseteq held'
  BY <1>1, <1>4 DEF SchedulesInv
<1> QED BY <1>1, <1>3, <1>4, <1>6, <1>7, <1>8, <1>9, RunnerGoesOn DEF SchedulesInv, SchedulesTyped

\* A run of a schedule that is there is dispatched, for the first time today unless
\* it was asked for.
LEMMA DispatchKeeps ==
  ASSUME SchedulesInv, NEW r \in Runners, NEW s \in Schedules, Scheduling!Dispatch(r, s),
         Scheduling!Exists(schedule[s])
  PROVE  SchedulesInv'
<1> DEFINE t == [runner[r] EXCEPT !.at = "save", !.id = s, !.row = schedule[s], !.day = day]
<1>1. /\ runner[r].at = "runs" /\ s \in runner[r].todo /\ runner' = [runner EXCEPT ![r] = t]
      /\ ran' = [ran EXCEPT ![s] = @ \cup {day}]
      /\ again' = IF day \in ran[s] /\ ~runner[r].asked THEN again \cup {s} ELSE again
      /\ UNCHANGED <<schedule, new, day, minute, held>>
  BY DEF Scheduling!Dispatch, Scheduling!Do, Scheduling!clock
<1>2. /\ runner[r] \in RunnerRecord /\ RunnerWell(runner[r]) /\ schedule[s] \in Row
      /\ day \in Nat /\ DOMAIN ran = Schedules
  BY DEF Scheduling!Exists, SchedulesInv, SchedulesTyped
<1>3. /\ t \in RunnerRecord /\ t.at = "save" /\ t.id = s /\ t.row \in Row /\ t.day = day
      /\ t.todo = runner[r].todo /\ t.asked = runner[r].asked
  BY <1>2 DEF RunnerRecord
<1> HIDE DEF t
<1>4. RunnerWell(t)
  BY <1>1, <1>2, <1>3 DEF RunnerWell
<1>5. \A q \in Schedules : \A d \in ran'[q] : d \in Nat /\ d <= day
  BY <1>1, <1>2 DEF SchedulesInv, SchedulesTyped
<1>6. ran'[s] = ran[s] \cup {day} /\ \A q \in Schedules : q # s => ran'[q] = ran[q]
  BY <1>1, <1>2
<1>7. ASSUME NEW q \in Schedules \ held
      PROVE  NotToday(t, q, ran'[q], day)
  <2>1. CASE q = s
    BY <1>3, <1>5, <2>1 DEF NotToday
  <2>2. CASE q # s
    <3>1. NotToday(runner[r], q, ran[q], day)
      BY DEF SchedulesInv
    <3> QED BY <1>1, <1>3, <1>6, <2>2, <3>1 DEF NotToday
  <2> QED BY <2>1, <2>2
<1>8. ASSUME NEW q \in Schedules \ held
      PROVE  Marked(q, runner', ran', schedule')
  <2>1. CASE q = s
    <3>1. runner'[r] = t
      BY <1>1 DEF SchedulesInv, SchedulesTyped
    <3> QED BY <1>3, <2>1, <3>1 DEF Marked
  <2>2. CASE q # s
    BY <1>1, <1>3, <1>6, <2>2, MarkStays
  <2> QED BY <2>1, <2>2
<1>9. s \notin new
  BY <1>2 DEF SchedulesInv, Unused, Scheduling!Exists
<1>10. again' \subseteq held
  <2>1. CASE s \in held
    BY <1>1, <2>1 DEF SchedulesInv
  <2>2. CASE s \notin held
    <3>1. NotToday(runner[r], s, ran[s], day)
      BY <2>2 DEF SchedulesInv
    <3>2. runner[r].asked \/ day \notin ran[s]
      BY <1>1, <1>2, <3>1 DEF NotToday
    <3> QED BY <1>1, <3>2 DEF SchedulesInv
  <2> QED BY <2>1, <2>2
<1>11. DOMAIN ran' = Schedules /\ schedule' \in [Schedules -> Row \cup {Absent}]
       /\ UNCHANGED <<day, minute, new>> /\ held \subseteq held'
  BY <1>1, <1>2 DEF SchedulesInv, SchedulesTyped
<1>12. /\ \A q \in Schedules : ran'[q] = ran[q] \/ q \in runner[r].todo
       /\ \A q \in Schedules \cap new : schedule'[q] = schedule[q] /\ ran'[q] = ran[q]
  BY <1>1, <1>6, <1>9
<1>13. runner' = [runner EXCEPT ![r] = t] /\ held' = held
  BY <1>1
<1> QED BY <1>3, <1>4, <1>5, <1>7, <1>8, <1>9, <1>10, <1>11, <1>12, <1>13, RunnerGoesOn

\* A runner lets a schedule go, and maybe the others: it is held if it was to be saved.
LEMMA RunnerLetsGo ==
  ASSUME SchedulesInv, NEW r \in Runners, NEW t \in RunnerRecord, RunnerWell(t),
         t.todo \subseteq runner[r].todo, t.at # "save",
         t.todo = {} \/ t.todo # runner[r].todo,
         runner' = [runner EXCEPT ![r] = t], held \subseteq held',
         runner[r].at = "save" => runner[r].id \in held',
         UNCHANGED <<schedule, new, day, minute, ran, again>>
  PROVE  SchedulesInv'
<1>1. runner[r] \in RunnerRecord /\ RunnerWell(runner[r])
  BY DEF SchedulesInv, SchedulesTyped
<1>2. ASSUME NEW q \in Schedules \ held'
      PROVE  Marked(q, runner', ran', schedule')
  BY MarkStays
<1>3. ASSUME NEW q \in Schedules \ held'
      PROVE  NotToday(t, q, ran'[q], day)
  <2>1. CASE t.todo = {}
    BY <2>1 DEF NotToday
  <2>2. CASE t.todo # runner[r].todo
    BY <2>2, RestNotToday
  <2> QED BY <2>1, <2>2
<1>4. again' \subseteq held'
  BY DEF SchedulesInv
<1> QED BY <1>1, <1>2, <1>3, <1>4, RunnerGoesOn DEF SchedulesInv, SchedulesTyped

LEMMA AfterFailureLess ==
  ASSUME SchedulesInv, NEW r \in Runners, NEW s, s \in runner[r].todo
  PROVE  LET t == Scheduling!AfterFailure(r, s) IN
           /\ t \in RunnerRecord /\ RunnerWell(t) /\ t.at # "save"
           /\ t.todo \subseteq runner[r].todo /\ t.todo # runner[r].todo
BY IdleRunner, RestOfRunner DEF Scheduling!AfterFailure

LEMMA DispatchNone ==
  ASSUME SchedulesInv, NEW r \in Runners, NEW s \in Schedules, Scheduling!Dispatch(r, s),
         ~Scheduling!Exists(schedule[s])
  PROVE  SchedulesInv'
<1>1. /\ runner[r].at = "runs" /\ s \in runner[r].todo
      /\ runner' = [runner EXCEPT ![r] = Scheduling!AfterFailure(r, s)]
      /\ UNCHANGED <<schedule, new, day, minute, ran, again, held>>
  BY DEF Scheduling!Dispatch, Scheduling!Do, Scheduling!clock
<1> QED BY <1>1, AfterFailureLess, RunnerLetsGo

LEMMA SaveFailsKeeps ==
  ASSUME SchedulesInv, NEW r \in Runners, Scheduling!SaveFails(r)
  PROVE  SchedulesInv'
<1>1. /\ runner[r].at = "save" /\ held' = held \cup {runner[r].id}
      /\ runner' = [runner EXCEPT ![r] = Scheduling!AfterFailure(r, runner[r].id)]
      /\ UNCHANGED <<schedule, new, day, minute, ran, again>>
  BY DEF Scheduling!SaveFails, Scheduling!Do, Scheduling!clock
<1>2. runner[r].id \in runner[r].todo
  BY <1>1 DEF SchedulesInv, RunnerWell
<1> QED BY <1>1, <1>2, AfterFailureLess, RunnerLetsGo

LEMMA RunnerDiesKeeps ==
  ASSUME SchedulesInv, NEW r \in Runners, Scheduling!RunnerDies(r)
  PROVE  SchedulesInv'
<1>1. /\ held' = IF runner[r].at = "save" THEN held \cup {runner[r].id} ELSE held
      /\ runner' = [runner EXCEPT ![r] = Scheduling!Idle]
      /\ UNCHANGED <<schedule, new, day, minute, ran, again>>
  BY DEF Scheduling!RunnerDies, Scheduling!Do, Scheduling!clock
<1> QED BY <1>1, IdleRunner, RunnerLetsGo

\* The run is marked: no other was dispatched since.
LEMMA SaveRunKeeps ==
  ASSUME SchedulesInv, NEW r \in Runners, Scheduling!SaveRun(r)
  PROVE  SchedulesInv'
<1> DEFINE s == runner[r].id
           row == [runner[r].row EXCEPT !.last = runner[r].day]
           t == Scheduling!Rest(r, s)
<1>1. /\ runner[r].at = "save" /\ runner' = [runner EXCEPT ![r] = t]
      /\ schedule' = [schedule EXCEPT ![s] = row]
      /\ UNCHANGED <<new, day, minute, ran, again, held>>
  BY DEF Scheduling!SaveRun, Scheduling!Do, Scheduling!clock
<1>2. runner[r] \in RunnerRecord /\ s \in runner[r].todo /\ runner[r].row \in Row
  BY <1>1 DEF SchedulesInv, SchedulesTyped, RunnerWell
<1>3. row \in Row /\ row.last = runner[r].day /\ s \in Schedules /\ s \notin new
  BY <1>1, <1>2 DEF Row, RunnerRecord, SchedulesInv
<1>4. t \in RunnerRecord /\ RunnerWell(t) /\ t.todo = runner[r].todo \ {s} /\ t.at # "save"
  BY <1>2, RestOfRunner
<1> HIDE DEF s, row, t
<1>5. schedule' \in [Schedules -> Row \cup {Absent}] /\ schedule'[s] = row
      /\ \A q \in Schedules : q # s => schedule'[q] = schedule[q]
  BY <1>1, <1>3 DEF SchedulesInv, SchedulesTyped
<1>6. ASSUME NEW q \in Schedules \ held
      PROVE  Marked(q, runner', ran', schedule')
  <2>1. CASE q = s
    <3>1. NotToday(runner[r], s, ran[s], day)
      BY <2>1 DEF SchedulesInv
    <3>2. \A d \in ran[s] : d <= runner[r].day
      BY <1>1, <1>2, <3>1 DEF NotToday, s
    <3> QED BY <1>1, <1>3, <1>5, <2>1, <3>2 DEF Marked
  <2>2. CASE q # s
    BY <1>1, <1>4, <1>5, <2>2, MarkStays DEF s
  <2> QED BY <2>1, <2>2
<1>7. ASSUME NEW q \in Schedules \ held
      PROVE  NotToday(t, q, ran'[q], day)
  BY <1>1, <1>2, <1>4, RestNotToday DEF s
<1> QED BY <1>1, <1>3, <1>4, <1>5, <1>6, <1>7, RunnerGoesOn DEF SchedulesInv, SchedulesTyped

LEMMA SchedulesBegin == Scheduling!Init => SchedulesInv
<1> SUFFICES ASSUME Scheduling!Init PROVE SchedulesInv
  OBVIOUS
<1>1. /\ schedule = [s \in Schedules |-> Absent] /\ new = Schedules
      /\ day = 1 /\ minute = 0 /\ runner = [r \in Runners |-> Scheduling!Idle]
      /\ ran = [s \in Schedules |-> {}] /\ again = {} /\ held = {}
  BY DEF Scheduling!Init
<1>2. SchedulesTyped
  BY <1>1, IdleRunner DEF SchedulesTyped
<1>3. \A s \in Schedules : OneRunner(s, runner) /\ Marked(s, runner, ran, schedule) /\ Unused(s)
  BY <1>1, IdleRunner DEF OneRunner, Marked, Unused
<1>4. ASSUME NEW r \in Runners
      PROVE  RunnerWell(runner[r]) /\ runner[r].at # "save"
             /\ \A s \in Schedules : NotToday(runner[r], s, ran[s], day)
  BY <1>1, IdleRunner
<1> QED BY <1>1, <1>2, <1>3, <1>4 DEF SchedulesInv

LEMMA SchedulesKept == SchedulesInv /\ [Next]_vars => SchedulesInv'
<1> SUFFICES ASSUME SchedulesInv, [Next]_vars
             PROVE  SchedulesInv'
  OBVIOUS
<1>1. CASE Scheduling!Next
  <2>1. ASSUME NEW s \in Schedules, NEW m \in 0..MaxMinute, NEW on \in BOOLEAN,
               Scheduling!Create(s, m, on)
        PROVE  SchedulesInv'
    BY <2>1, CreateSchedule
  <2>2. ASSUME NEW r \in Runners, NEW s \in Schedules, Scheduling!Dispatch(r, s)
        PROVE  SchedulesInv'
    BY <2>2, DispatchKeeps, DispatchNone
  <2>3. ASSUME Scheduling!Advance
        PROVE  SchedulesInv'
    <3>1. /\ day' \in Nat /\ day <= day' /\ minute' \in Nat
          /\ UNCHANGED <<schedule, new, runner, ran, again, held>>
      BY <2>3 DEF Scheduling!Advance, SchedulesInv, SchedulesTyped
    <3>2. SchedulesTyped'
      BY <3>1 DEF SchedulesInv, SchedulesTyped
    <3>3. ASSUME NEW s \in Schedules \ held', NEW r \in Runners
          PROVE  NotToday(runner[r], s, ran[s], day')
      <4>1. NotToday(runner[r], s, ran[s], day) /\ day \in Nat
            /\ \A d \in ran[s] : d \in Nat
        BY <3>1 DEF SchedulesInv, SchedulesTyped
      <4> QED BY <3>1, <4>1 DEF NotToday
    <3> QED BY <3>1, <3>2, <3>3 DEF SchedulesInv, OneRunner, Marked, NotToday, Unused
  <2> QED BY <1>1, <2>1, <2>2, <2>3, RemoveSchedule, RunNowKeeps, TickKeeps, LookKeeps,
             SaveRunKeeps, SaveFailsKeeps, RunnerDiesKeeps DEF Scheduling!Next
<1>2. CASE UNCHANGED scheduleVars
  BY <1>2 DEF scheduleVars, SchedulesInv, SchedulesTyped, OneRunner, Marked, Unused
<1> QED BY <1>1, <1>2 DEF Next, Step, vars
-----------------------------------------------------------------------------
(* Alerts: the inductive invariant *)

ScanRecord ==
  [at : {"idle", "next", "new", "store"}, todo : SUBSET Signals,
   signal : Signals \cup {Absent}, explained : BOOLEAN]

AlertsTyped ==
  /\ alert \in [Signals -> Alerts!Alert \cup {Absent}]
  /\ scan \in [Scans -> ScanRecord]
  /\ calls \in [Signals -> Nat]
  /\ DOMAIN handled = Signals

\* A scan that has a signal in hand is about to have it explained or stored.
ScanWell(t) == IF t.at \in {"new", "store"} THEN t.signal \in Signals ELSE t.signal = Absent

\* One scan has a signal in hand, by a table T of scans, and its alert, by a table
\* A, is there or about to be once the model was asked.
OneScan(s, T) == \A n, m \in Scans : T[n].signal = s /\ T[m].signal = s => n = m
AskedOnce(s, T, A, C) ==
  /\ C[s] <= 1
  /\ C[s] # 0 => A[s] # Absent \/ \E n \in Scans : T[n].at = "store" /\ T[n].signal = s
  /\ \A n \in Scans : T[n].at = "new" /\ T[n].signal = s => C[s] = 0

\* An alert is open until a user sets it.
StatusKept(s, A, H) == IF A[s] = Absent THEN H[s] = "open" ELSE A[s].status = H[s]

AlertsInv ==
  /\ AlertsTyped
  /\ \A n \in Scans : ScanWell(scan[n])
  /\ \A s \in Signals \ doubled : OneScan(s, scan) /\ AskedOnce(s, scan, alert, calls)
  /\ \A s \in Signals : StatusKept(s, alert, handled)

-----------------------------------------------------------------------------
(* Alerts: the steps *)

\* A step of a scan keeps the invariant if what it says of the signals it has in
\* hand is true.
LEMMA ScanGoesOn ==
  ASSUME AlertsInv, NEW n \in Scans, NEW t \in ScanRecord, ScanWell(t),
         scan' = [scan EXCEPT ![n] = t], doubled \subseteq doubled', handled' = handled,
         alert' \in [Signals -> Alerts!Alert \cup {Absent}], calls' \in [Signals -> Nat],
         \A s \in Signals \ doubled' :
           \/ s \notin {scan[n].signal, t.signal} /\ alert'[s] = alert[s] /\ calls'[s] = calls[s]
           \/ OneScan(s, scan') /\ AskedOnce(s, scan', alert', calls'),
         \A s \in Signals : StatusKept(s, alert', handled)
  PROVE  AlertsInv'
<1>0. scan \in [Scans -> ScanRecord]
  BY DEF AlertsInv, AlertsTyped
<1>1. AlertsTyped' /\ scan'[n] = t /\ \A m \in Scans : m # n => scan'[m] = scan[m]
  BY <1>0 DEF AlertsInv, AlertsTyped
<1>2. \A m \in Scans : ScanWell(scan'[m])
  BY <1>1 DEF AlertsInv
<1>3. ASSUME NEW s \in Signals \ doubled'
      PROVE  OneScan(s, scan') /\ AskedOnce(s, scan', alert', calls')
  <2>1. OneScan(s, scan) /\ AskedOnce(s, scan, alert, calls)
    BY DEF AlertsInv
  <2>2. CASE s \notin {scan[n].signal, t.signal} /\ alert'[s] = alert[s] /\ calls'[s] = calls[s]
    <3>1. \A m \in Scans : (scan'[m].signal = s \/ scan[m].signal = s) => scan'[m] = scan[m]
      BY <1>1, <2>2
    <3>2. OneScan(s, scan')
      BY <2>1, <3>1 DEF OneScan
    <3>3. AskedOnce(s, scan', alert', calls')
      BY <2>1, <2>2, <3>1 DEF AskedOnce
    <3> QED BY <3>2, <3>3
  <2> QED BY <2>1, <2>2
<1>4. \A s \in Signals \ doubled' : OneScan(s, scan') /\ AskedOnce(s, scan', alert', calls')
  BY <1>3
<1>5. \A s \in Signals : StatusKept(s, alert', handled')
  OBVIOUS
<1> QED BY <1>1, <1>2, <1>4, <1>5 DEF AlertsInv, ScanWell, OneScan, AskedOnce, StatusKept

LEMMA NextScan ==
  ASSUME NEW S \in SUBSET Signals
  PROVE  LET t == [Alerts!Idle EXCEPT !.at = "next", !.todo = S] IN
           t \in ScanRecord /\ ScanWell(t) /\ t.signal = Absent
BY DEF Alerts!Idle, ScanRecord, ScanWell

LEMMA IdleScan ==
  Alerts!Idle \in ScanRecord /\ ScanWell(Alerts!Idle) /\ Alerts!Idle.signal = Absent
BY DEF Alerts!Idle, ScanRecord, ScanWell

LEMMA BeginKeeps ==
  ASSUME AlertsInv, NEW n \in Scans, NEW S \in Alerts!Findings, Alerts!Begin(n, S)
  PROVE  AlertsInv'
<1> DEFINE t == [Alerts!Idle EXCEPT !.at = "next", !.todo = S]
<1>1. /\ scan' = [scan EXCEPT ![n] = t] /\ scan[n] = Alerts!Idle
      /\ UNCHANGED <<alert, calls, handled, doubled>>
  BY DEF Alerts!Begin, Alerts!Do
<1>2. t \in ScanRecord /\ ScanWell(t) /\ t.signal = Absent
  BY NextScan, Zenon DEF Alerts!Findings
<1> HIDE DEF t
<1>3. alert' \in [Signals -> Alerts!Alert \cup {Absent}] /\ calls' \in [Signals -> Nat]
      /\ \A s \in Signals : StatusKept(s, alert', handled)
  BY <1>1 DEF AlertsInv, AlertsTyped
<1>4. \A s \in Signals \ doubled' :
        s \notin {scan[n].signal, t.signal} /\ alert'[s] = alert[s] /\ calls'[s] = calls[s]
  BY <1>1, <1>2, IdleScan, BackOfficeConstants
<1> QED BY <1>1, <1>2, <1>3, <1>4, ScanGoesOn

\* A signal that was not alerted is taken in hand, and held if another has it.
LEMMA LookAtSignal ==
  ASSUME AlertsInv, NEW n \in Scans, NEW s \in Signals, Alerts!Look(n, s)
  PROVE  AlertsInv'
<1> DEFINE t == [scan[n] EXCEPT !.todo = @ \ {s}]
           u == [t EXCEPT !.at = "new", !.signal = s]
           w == IF t.todo = {} THEN Alerts!Idle ELSE t
<1>1. /\ scan[n].at = "next" /\ s \in scan[n].todo
      /\ scan' = [scan EXCEPT ![n] = IF alert[s] = Absent THEN u ELSE w]
      /\ doubled' = IF alert[s] = Absent /\ \E m \in Scans \ {n} : scan[m].signal = s
                    THEN doubled \cup {s} ELSE doubled
      /\ UNCHANGED <<alert, calls, handled>>
  BY DEF Alerts!Look, Alerts!Do, Alerts!AlreadyAlerted, Alerts!Exists
<1>2. scan \in [Scans -> ScanRecord] /\ scan[n] \in ScanRecord /\ scan[n].signal = Absent
  BY <1>1 DEF AlertsInv, AlertsTyped, ScanWell
<1>3. t \in ScanRecord /\ ScanWell(t) /\ t.signal = Absent
  BY <1>1, <1>2 DEF ScanRecord, ScanWell
<1> HIDE DEF t
<1>4. u \in ScanRecord /\ ScanWell(u) /\ u.signal = s /\ u.at = "new"
  BY <1>3 DEF ScanRecord, ScanWell
<1>5. w \in ScanRecord /\ ScanWell(w) /\ w.signal = Absent
  BY <1>3, IdleScan
<1> HIDE DEF u, w
<1>6. alert' \in [Signals -> Alerts!Alert \cup {Absent}] /\ calls' \in [Signals -> Nat]
      /\ (\A q \in Signals : StatusKept(q, alert', handled)) /\ doubled \subseteq doubled'
  BY <1>1 DEF AlertsInv, AlertsTyped
<1>7. CASE alert[s] # Absent
  <2>1. \A q \in Signals \ doubled' :
          q \notin {scan[n].signal, w.signal} /\ alert'[q] = alert[q] /\ calls'[q] = calls[q]
    BY <1>1, <1>2, <1>5, BackOfficeConstants
  <2> QED BY <1>1, <1>5, <1>6, <1>7, <2>1, ScanGoesOn
<1>8. CASE alert[s] = Absent
  <2>1. ASSUME s \notin doubled'
        PROVE  OneScan(s, scan') /\ AskedOnce(s, scan', alert', calls')
    <3>1. \A m \in Scans \ {n} : scan[m].signal # s
      BY <1>1, <1>8, <2>1
    <3>2. scan'[n] = u /\ \A m \in Scans \ {n} : scan'[m] = scan[m]
      BY <1>1, <1>2, <1>8
    <3>3. AskedOnce(s, scan, alert, calls)
      BY <1>6, <2>1 DEF AlertsInv
    <3>4. calls[s] = 0
      BY <1>1, <1>8, <3>1, <3>3 DEF AskedOnce
    <3>5. OneScan(s, scan')
      BY <3>1, <3>2 DEF OneScan
    <3> QED BY <1>1, <3>4, <3>5 DEF AskedOnce
  <2>2. \A q \in Signals \ doubled' :
          \/ q \notin {scan[n].signal, u.signal} /\ alert'[q] = alert[q] /\ calls'[q] = calls[q]
          \/ OneScan(q, scan') /\ AskedOnce(q, scan', alert', calls')
    BY <1>1, <1>2, <1>4, <2>1, BackOfficeConstants
  <2> QED BY <1>1, <1>4, <1>6, <1>8, <2>2, ScanGoesOn
<1> QED BY <1>7, <1>8

\* The model is asked.
LEMMA ExplainKeeps ==
  ASSUME AlertsInv, NEW n \in Scans, NEW ok \in BOOLEAN, Alerts!Explain(n, ok)
  PROVE  AlertsInv'
<1> DEFINE s == scan[n].signal
           t == [scan[n] EXCEPT !.at = "store", !.explained = ok]
<1>1. /\ scan[n].at = "new" /\ scan' = [scan EXCEPT ![n] = t]
      /\ calls' = [calls EXCEPT ![s] = @ + 1]
      /\ UNCHANGED <<alert, handled, doubled>>
  BY DEF Alerts!Explain, Alerts!Do
<1>2. scan \in [Scans -> ScanRecord] /\ scan[n] \in ScanRecord /\ s \in Signals
  BY <1>1 DEF AlertsInv, AlertsTyped, ScanWell
<1>3. t \in ScanRecord /\ ScanWell(t) /\ t.signal = s /\ t.at = "store"
  BY <1>2 DEF ScanRecord, ScanWell
<1> HIDE DEF t
<1>4. scan'[n] = t /\ \A m \in Scans \ {n} : scan'[m] = scan[m]
  BY <1>1, <1>2
<1>5. /\ alert' \in [Signals -> Alerts!Alert \cup {Absent}] /\ calls' \in [Signals -> Nat]
      /\ \A q \in Signals : StatusKept(q, alert', handled)
  <2>1. calls \in [Signals -> Nat] /\ alert \in [Signals -> Alerts!Alert \cup {Absent}]
    BY DEF AlertsInv, AlertsTyped
  <2>2. calls' \in [Signals -> Nat]
    BY <1>1, <1>2, <2>1
  <2> QED BY <1>1, <2>1, <2>2 DEF AlertsInv
<1>6. ASSUME s \notin doubled
      PROVE  OneScan(s, scan') /\ AskedOnce(s, scan', alert', calls')
  <2>1. OneScan(s, scan) /\ AskedOnce(s, scan, alert, calls) /\ calls \in [Signals -> Nat]
    BY <1>2, <1>6 DEF AlertsInv, AlertsTyped
  <2>2. calls[s] = 0 /\ calls'[s] = 1
    BY <1>1, <1>2, <2>1 DEF AskedOnce
  <2>3. \A m \in Scans \ {n} : scan'[m].signal # s
    BY <1>4, <2>1 DEF OneScan
  <2>4. OneScan(s, scan')
    BY <1>4, <2>3 DEF OneScan
  <2>5. \A m \in Scans : ~(scan'[m].at = "new" /\ scan'[m].signal = s)
    BY <1>3, <1>4, <2>3
  <2> QED BY <1>3, <1>4, <2>2, <2>4, <2>5 DEF AskedOnce
<1>7. \A q \in Signals \ doubled :
        \/ q \notin {scan[n].signal, t.signal} /\ alert'[q] = alert[q] /\ calls'[q] = calls[q]
        \/ OneScan(q, scan') /\ AskedOnce(q, scan', alert', calls')
  BY <1>1, <1>3, <1>6 DEF AlertsInv, AlertsTyped
<1> QED BY <1>1, <1>3, <1>5, <1>7, ScanGoesOn

LEMMA RestOfScan ==
  ASSUME NEW n \in Scans, scan[n] \in ScanRecord
  PROVE  LET t == Alerts!Rest(n) IN t \in ScanRecord /\ ScanWell(t) /\ t.signal = Absent
<1>1. scan[n].todo \in SUBSET Signals
  BY DEF ScanRecord
<1> QED BY <1>1, IdleScan, NextScan, Zenon DEF Alerts!Rest

\* The alert is stored, unless another was.
LEMMA StoreKeeps ==
  ASSUME AlertsInv, NEW n \in Scans, Alerts!Store(n)
  PROVE  AlertsInv'
<1> DEFINE s == scan[n].signal
           t == Alerts!Rest(n)
           row == [status |-> "open", explained |-> scan[n].explained]
<1>1. /\ scan[n].at = "store" /\ scan' = [scan EXCEPT ![n] = t]
      /\ alert' = IF alert[s] # Absent THEN alert ELSE [alert EXCEPT ![s] = row]
      /\ UNCHANGED <<calls, handled, doubled>>
  BY DEF Alerts!Store, Alerts!Do, Alerts!Exists
<1>2. scan \in [Scans -> ScanRecord] /\ scan[n] \in ScanRecord /\ s \in Signals
      /\ alert \in [Signals -> Alerts!Alert \cup {Absent}]
  BY <1>1 DEF AlertsInv, AlertsTyped, ScanWell
<1>3. t \in ScanRecord /\ ScanWell(t) /\ t.signal = Absent
  BY <1>2, RestOfScan
<1>4. row \in Alerts!Alert /\ row # Absent /\ row.status = "open"
  <2>1. row \in Alerts!Alert
    BY <1>2 DEF Alerts!Alert, Alerts!Statuses, ScanRecord
  <2> QED BY <2>1, BackOfficeConstants
<1> HIDE DEF t, row
<1>5. /\ alert' \in [Signals -> Alerts!Alert \cup {Absent}] /\ alert'[s] # Absent
      /\ \A q \in Signals : q # s => alert'[q] = alert[q]
      /\ alert[s] # Absent => alert'[s] = alert[s]
      /\ alert[s] = Absent => alert'[s] = row
  BY <1>1, <1>2, <1>4
<1>6. \A q \in Signals : StatusKept(q, alert', handled)
  BY <1>2, <1>4, <1>5 DEF AlertsInv, StatusKept
<1>7. calls' \in [Signals -> Nat]
  BY <1>1 DEF AlertsInv, AlertsTyped
<1>8. scan'[n] = t /\ \A m \in Scans \ {n} : scan'[m] = scan[m]
  BY <1>1, <1>2
<1>9. ASSUME s \notin doubled
      PROVE  OneScan(s, scan') /\ AskedOnce(s, scan', alert', calls')
  <2>1. OneScan(s, scan) /\ AskedOnce(s, scan, alert, calls)
    BY <1>2, <1>9 DEF AlertsInv
  <2>2. \A m \in Scans : scan'[m].signal # s
    BY <1>2, <1>3, <1>8, <2>1, BackOfficeConstants DEF OneScan
  <2> QED BY <1>1, <1>5, <2>1, <2>2 DEF OneScan, AskedOnce
<1>10. \A q \in Signals \ doubled :
        \/ q \notin {scan[n].signal, t.signal} /\ alert'[q] = alert[q] /\ calls'[q] = calls[q]
        \/ OneScan(q, scan') /\ AskedOnce(q, scan', alert', calls')
  BY <1>1, <1>3, <1>5, <1>9, BackOfficeConstants
<1> QED BY <1>1, <1>3, <1>5, <1>6, <1>7, <1>10, ScanGoesOn

\* What a scan had in hand when it is cut off is held.
LEMMA CutOffKeeps ==
  ASSUME AlertsInv, NEW n \in Scans, NEW left \in SUBSET Signals, Alerts!CutOff(n, left)
  PROVE  AlertsInv'
<1> DEFINE u == [Alerts!Idle EXCEPT !.at = "next", !.todo = left]
           t == IF left = {} THEN Alerts!Idle ELSE u
<1>1. /\ scan' = [scan EXCEPT ![n] = t] /\ doubled' = doubled \cup ({scan[n].signal} \ {Absent})
      /\ UNCHANGED <<alert, calls, handled>>
  BY DEF Alerts!CutOff, Alerts!Do
<1>2. t \in ScanRecord /\ ScanWell(t) /\ t.signal = Absent
  BY NextScan, IdleScan, Zenon
<1> HIDE DEF t
<1>3. alert' \in [Signals -> Alerts!Alert \cup {Absent}] /\ calls' \in [Signals -> Nat]
      /\ (\A s \in Signals : StatusKept(s, alert', handled)) /\ doubled \subseteq doubled'
  BY <1>1 DEF AlertsInv, AlertsTyped
<1>4. \A s \in Signals \ doubled' : s \notin {scan[n].signal, t.signal}
  BY <1>1, <1>2, BackOfficeConstants
<1> QED BY <1>1, <1>2, <1>3, <1>4, ScanGoesOn

\* A user sets a status.
LEMMA UpdateStatusKeeps ==
  ASSUME AlertsInv, NEW s \in Signals, NEW status \in Alerts!Statuses,
         Alerts!UpdateStatus(s, status)
  PROVE  AlertsInv'
<1>1. /\ alert[s] # Absent /\ alert' = [alert EXCEPT ![s].status = status]
      /\ handled' = [handled EXCEPT ![s] = status]
      /\ UNCHANGED <<scan, calls, doubled>>
  BY DEF Alerts!UpdateStatus, Alerts!Exists
<1>2. alert \in [Signals -> Alerts!Alert \cup {Absent}] /\ alert[s] \in Alerts!Alert
      /\ DOMAIN handled = Signals
  BY <1>1 DEF AlertsInv, AlertsTyped
<1> DEFINE row == [alert[s] EXCEPT !.status = status]
<1>3. row \in Alerts!Alert /\ row.status = status /\ row # Absent
  <2>1. row \in Alerts!Alert /\ row.status = status
    BY <1>2 DEF Alerts!Alert
  <2> QED BY <2>1, BackOfficeConstants
<1>4. alert' = [alert EXCEPT ![s] = row]
  BY <1>1
<1> HIDE DEF row
<1>5. /\ alert' \in [Signals -> Alerts!Alert \cup {Absent}] /\ alert'[s] = row
      /\ \A q \in Signals : q # s => alert'[q] = alert[q]
      /\ handled'[s] = status /\ \A q \in Signals : q # s => handled'[q] = handled[q]
  BY <1>1, <1>2, <1>3, <1>4
<1>6. AlertsTyped'
  BY <1>1, <1>5 DEF AlertsInv, AlertsTyped
<1>7. \A q \in Signals : StatusKept(q, alert', handled')
  BY <1>3, <1>5 DEF AlertsInv, StatusKept
<1>8. \A q \in Signals \ doubled' : OneScan(q, scan') /\ AskedOnce(q, scan', alert', calls')
  BY <1>1, <1>3, <1>5 DEF AlertsInv, AskedOnce, OneScan
<1> QED BY <1>1, <1>6, <1>7, <1>8 DEF AlertsInv, OneScan, AskedOnce, StatusKept

LEMMA AlertsBegin == Alerts!Init => AlertsInv
<1> SUFFICES ASSUME Alerts!Init PROVE AlertsInv
  OBVIOUS
<1>1. /\ alert = [s \in Signals |-> Absent] /\ scan = [n \in Scans |-> Alerts!Idle]
      /\ calls = [s \in Signals |-> 0] /\ handled = [s \in Signals |-> "open"]
  BY DEF Alerts!Init
<1>2. AlertsTyped
  BY <1>1, IdleScan DEF AlertsTyped
<1>3. \A s \in Signals : OneScan(s, scan) /\ AskedOnce(s, scan, alert, calls)
                         /\ StatusKept(s, alert, handled)
  BY <1>1, IdleScan, BackOfficeConstants DEF OneScan, AskedOnce, StatusKept
<1>4. \A n \in Scans : ScanWell(scan[n])
  BY <1>1, IdleScan
<1> QED BY <1>2, <1>3, <1>4 DEF AlertsInv

LEMMA AlertsKept == AlertsInv /\ [Next]_vars => AlertsInv'
<1> SUFFICES ASSUME AlertsInv, [Next]_vars
             PROVE  AlertsInv'
  OBVIOUS
<1>1. CASE Alerts!Next
  <2>1. ASSUME NEW n \in Scans,
               \/ \E S \in Alerts!Findings : Alerts!Begin(n, S)
               \/ \E S \in SUBSET Signals : Alerts!CutOff(n, S)
               \/ \E s \in Signals : Alerts!Look(n, s)
               \/ \E ok \in BOOLEAN : Alerts!Explain(n, ok)
               \/ Alerts!Store(n)
        PROVE  AlertsInv'
    BY <2>1, BeginKeeps, CutOffKeeps, LookAtSignal, ExplainKeeps, StoreKeeps
  <2> QED BY <1>1, <2>1, UpdateStatusKeeps DEF Alerts!Next
<1>2. CASE UNCHANGED alertVars
  BY <1>2 DEF alertVars, AlertsInv, AlertsTyped
<1> QED BY <1>1, <1>2 DEF Next, Step, vars

LEMMA AlertsHold == AlertsInv => Alerts!ExplainedOnceUnlessDoubled
<1> SUFFICES ASSUME AlertsInv PROVE Alerts!ExplainedOnceUnlessDoubled
  OBVIOUS
<1>1. ASSUME NEW s \in Signals
      PROVE  /\ s \notin doubled => calls[s] <= 1
             /\ alert[s] # Absent => alert[s].status = handled[s]
  BY DEF AlertsInv, AskedOnce, StatusKept
<1> QED BY <1>1 DEF Alerts!ExplainedOnceUnlessDoubled, Alerts!Exists
-----------------------------------------------------------------------------
(* Limits: the inductive invariant *)

Counters == Limiting!Counters
Tally == [count : Nat, resetAt : Int]

\* P tells when checks were let through: in one window as many as the limit; after
\* those of two windows the next comes Ttl after the first.
Spaced(P) ==
  \A i \in 1..Len(P) : i + 2 * Limit <= Len(P) => P[i + 2 * Limit] - P[i] >= Ttl

\* The last window, which counts in b, began at from; m checks came before it, the
\* last of them in a window that was over then.
Window(P, m, from, b, now) ==
  /\ Len(P) - m <= Limit
  /\ \A i \in 1..m : P[i] <= from /\ (i + Limit <= m => P[i] + Ttl <= from)
  /\ from <= now /\ \A i \in 1..Len(P) : P[i] <= now
  /\ IF b.resetAt > now THEN from = b.resetAt - Ttl /\ Len(P) - m <= b.count
     ELSE from + Ttl <= now
Windowed(P, b, now) == \E m \in 0..Len(P), from \in Int : Window(P, m, from, b, now)

\* A window that has counted so many has let so many through, up to the limit.
Counting(P, b, now) ==
  b.resetAt > now => \A i \in 1..Limit : i <= b.count =>
    i <= Len(P) /\ P[Len(P) - i + 1] + Ttl >= b.resetAt

LimitsTyped ==
  /\ time \in Nat
  /\ bucket \in [Counters -> Tally] /\ \A k \in Counters : bucket[k].resetAt <= time + Ttl
  /\ passed \in [Counters -> Seq(Int)]
  /\ DOMAIN denied = Counters
  /\ \A a \in Clients : checking[a] # Absent =>
       checking[a].process \in Runners /\ checking[a].began \in Int /\ checking[a].began <= time

LimitsInv ==
  /\ LimitsTyped
  /\ \A k \in Counters : ~Limiting!Forgetful(k) =>
       Spaced(passed[k]) /\ Windowed(passed[k], bucket[k], time)
  /\ \A k \in Counters : k \notin astray =>
       Counting(passed[k], bucket[k], time) /\ \A ago \in denied[k] : ago < Ttl

-----------------------------------------------------------------------------
(* Limits: the steps *)

LEMMA CountedTally ==
  ASSUME NEW b \in Tally, NEW at \in Int, time \in Nat, at <= time + Ttl, b.resetAt <= time + Ttl
  PROVE  LET u == Limiting!Counted(b, at) IN
           /\ u \in Tally /\ u.resetAt <= time + Ttl
           /\ b.resetAt <= time => u.count = 1 /\ u.resetAt = at
           /\ b.resetAt > time => u.count = b.count + 1 /\ u.resetAt = b.resetAt
BY DEF Limiting!Counted, Tally

\* The count of a check, and the check if it is let through, keep what was said
\* of two windows, ...
LEMMA CountedInWindow ==
  ASSUME NEW P \in Seq(Int), NEW b \in Tally, NEW u \in Tally, time \in Nat,
         Spaced(P), Windowed(P, b, time),
         b.resetAt <= time => u.count = 1 /\ u.resetAt = time + Ttl,
         b.resetAt > time => u.count = b.count + 1 /\ u.resetAt = b.resetAt
  PROVE  /\ Windowed(P, u, time)
         /\ u.count <= Limit =>
              Spaced(Append(P, time)) /\ Windowed(Append(P, time), u, time)
<1>0. Limit \in Nat \ {0} /\ Ttl \in Nat \ {0}
  BY BackOfficeConstants
<1> USE <1>0
<1>1. PICK m \in 0..Len(P), from \in Int : Window(P, m, from, b, time)
  BY DEF Windowed
<1> DEFINE n == Len(P)
           Q == Append(P, time)
<1>2. n \in Nat /\ m \in Nat /\ m <= n /\ \A i \in 1..n : P[i] \in Int
  OBVIOUS
<1>3. /\ Q \in Seq(Int) /\ Len(Q) = n + 1 /\ Q[n + 1] = time
      /\ \A i \in 1..n : Q[i] = P[i]
  OBVIOUS
<1>4. /\ n - m <= Limit /\ from <= time
      /\ \A i \in 1..n : P[i] <= time
      /\ \A i \in 1..m : P[i] <= from /\ (i + Limit <= m => P[i] + Ttl <= from)
      /\ b.resetAt > time => from = b.resetAt - Ttl /\ n - m <= b.count
      /\ b.resetAt <= time => from + Ttl <= time
      /\ b.count \in Nat /\ b.resetAt \in Int /\ u.count \in Nat /\ u.resetAt \in Int
  BY <1>1, <1>2 DEF Window, Tally
<1>5. \A i \in 1..n : i + 2 * Limit <= n => P[i + 2 * Limit] - P[i] >= Ttl
  BY DEF Spaced
<1> HIDE DEF n, Q
\* What the check is to be spaced from is where it is let through.
<1>6. ASSUME \A i \in 1..n : i + 2 * Limit = n + 1 => P[i] + Ttl <= time
      PROVE  Spaced(Q)
  <2>1. ASSUME NEW i \in 1 .. n + 1, i + 2 * Limit <= n + 1
        PROVE  Q[i + 2 * Limit] - Q[i] >= Ttl
    <3>1. i \in 1..n /\ Q[i] = P[i] /\ P[i] \in Int
      BY <1>2, <1>3, <2>1
    <3>2. CASE i + 2 * Limit <= n
      <4>1. i + 2 * Limit \in 1..n
        BY <1>2, <3>1, <3>2
      <4> QED BY <1>3, <1>5, <3>1, <3>2, <4>1
    <3>3. CASE i + 2 * Limit = n + 1
      BY <1>3, <1>6, <3>1, <3>3
    <3> QED BY <1>2, <2>1, <3>2, <3>3
  <2> QED BY <1>3, <2>1 DEF Spaced
\* Where a window begins, ...
<1>7. CASE b.resetAt <= time
  <2>1. ASSUME NEW i \in 1..n, i + Limit <= n
        PROVE  P[i] + Ttl <= time
    <3>1. i \in 1..m /\ P[i] \in Int
      BY <1>2, <1>4, <2>1
    <3> QED BY <1>4, <1>7, <3>1
  <2>2. Window(P, n, time, u, time)
    BY <1>2, <1>4, <1>7, <2>1 DEF Window, n
  <2>3. Window(Q, n, time, u, time)
    <3>1. \A i \in 1..n : Q[i] = P[i] /\ Q[i] <= time /\ (i + Limit <= n => Q[i] + Ttl <= time)
      BY <1>3, <1>4, <2>1
    <3>2. \A i \in 1 .. n + 1 : Q[i] <= time
      BY <1>2, <1>3, <3>1
    <3> QED BY <1>2, <1>3, <1>4, <1>7, <3>1, <3>2 DEF Window
  <2>4. Windowed(P, u, time) /\ Windowed(Q, u, time)
    <3>1. n \in 0..Len(P) /\ n \in 0..Len(Q) /\ time \in Int
      BY <1>2, <1>3 DEF n
    <3> QED BY <2>2, <2>3, <3>1 DEF Windowed
  <2>5. Spaced(Q)
    <3>1. ASSUME NEW i \in 1..n, i + 2 * Limit = n + 1
          PROVE  P[i] + Ttl <= time
      <4>1. i + Limit <= n
        BY <1>2, <3>1
      <4> QED BY <2>1, <4>1
    <3> QED BY <1>6, <3>1
  <2> QED BY <2>4, <2>5 DEF Q
\* ... and where it goes on.
<1>8. CASE b.resetAt > time
  <2>1. Windowed(P, u, time)
    <3>1. Window(P, m, from, u, time)
      BY <1>2, <1>4, <1>8 DEF Window, n
    <3> QED BY <3>1 DEF Windowed
  <2>2. ASSUME u.count <= Limit
        PROVE  Windowed(Q, u, time)
    <3>1. \A i \in 1..m : Q[i] <= from /\ (i + Limit <= m => Q[i] + Ttl <= from)
      <4>1. \A i \in 1..m : i \in 1..n /\ Q[i] = P[i]
        BY <1>2, <1>3
      <4> QED BY <1>4, <4>1
    <3>2. \A i \in 1 .. n + 1 : Q[i] <= time
      <4>1. \A i \in 1..n : Q[i] <= time
        BY <1>3, <1>4
      <4> QED BY <1>2, <1>3, <4>1
    <3>3. n + 1 - m <= Limit /\ n + 1 - m <= u.count
      BY <1>2, <1>4, <1>8, <2>2
    <3>4. u.resetAt > time /\ from = u.resetAt - Ttl
      BY <1>4, <1>8
    <3>5. Window(Q, m, from, u, time)
      BY <1>2, <1>3, <1>4, <3>1, <3>2, <3>3, <3>4 DEF Window
    <3>6. m \in 0..Len(Q)
      BY <1>2, <1>3
    <3> QED BY <3>5, <3>6 DEF Windowed
  <2>3. ASSUME u.count <= Limit
        PROVE  Spaced(Q)
    <3>1. ASSUME NEW i \in 1..n, i + 2 * Limit = n + 1
          PROVE  P[i] + Ttl <= time
      <4>1. i \in 1..m /\ i + Limit <= m /\ P[i] \in Int
        BY <1>2, <1>4, <1>8, <2>3, <3>1, SMTT(30)
      <4> QED BY <1>4, <4>1
    <3> QED BY <1>6, <3>1
  <2> QED BY <2>1, <2>2, <2>3 DEF Q
<1> QED BY <1>4, <1>7, <1>8

\* ... and of what a window has let through; one that denies has let the limit
\* through.
LEMMA CountedAll ==
  ASSUME NEW P \in Seq(Int), NEW b \in Tally, NEW u \in Tally, time \in Nat,
         Counting(P, b, time), u.resetAt <= time + Ttl,
         b.resetAt <= time => u.count = 1,
         b.resetAt > time => u.count = b.count + 1 /\ u.resetAt = b.resetAt
  PROVE  /\ u.count <= Limit => Counting(Append(P, time), u, time)
         /\ u.count > Limit =>
              Counting(P, u, time) /\ Limit <= Len(P) /\ time - P[Len(P) - Limit + 1] < Ttl
<1>0. Limit \in Nat \ {0} /\ Ttl \in Nat \ {0}
  BY BackOfficeConstants
<1> USE <1>0
<1> DEFINE n == Len(P)
           Q == Append(P, time)
<1>1. n \in Nat /\ \A i \in 1..n : P[i] \in Int
  OBVIOUS
<1>2. /\ Len(Q) = n + 1 /\ Q[n + 1] = time
      /\ \A i \in 1..n : Q[i] = P[i]
  OBVIOUS
<1> HIDE DEF Q
<1>3. CASE u.count <= Limit
  <2>1. ASSUME u.resetAt > time, NEW i \in 1..Limit, i <= u.count
        PROVE  i <= n + 1 /\ Q[n + 1 - i + 1] + Ttl >= u.resetAt
    <3>1. CASE i = 1
      BY <1>1, <1>2, <3>1 DEF Tally
    <3>2. CASE i # 1
      <4>1. b.resetAt > time /\ i - 1 \in 1..Limit /\ i - 1 <= b.count
        BY <2>1, <3>2 DEF Tally
      <4>2. i - 1 <= n /\ P[n - (i - 1) + 1] + Ttl >= b.resetAt
        BY <4>1 DEF Counting
      <4> QED BY <1>1, <1>2, <4>1, <4>2, SMTT(30)
    <3> QED BY <3>1, <3>2
  <2> QED BY <1>2, <1>3, <2>1 DEF Counting, Q, Tally
<1>4. CASE u.count > Limit
  <2>1. b.resetAt > time /\ b.count >= Limit
    BY <1>4 DEF Tally
  <2>2. ASSUME NEW i \in 1..Limit
        PROVE  i <= n /\ P[n - i + 1] + Ttl >= b.resetAt
    <3>1. i <= b.count
      BY <2>1 DEF Tally
    <3> QED BY <2>1, <3>1 DEF Counting
  <2>3. Limit <= n /\ P[n - Limit + 1] + Ttl >= b.resetAt
    BY <2>2
  <2> HIDE DEF n
  <2>4. time - P[n - Limit + 1] < Ttl
    BY <1>1, <2>1, <2>3 DEF Tally
  <2> QED BY <1>4, <2>1, <2>2, <2>3, <2>4 DEF Counting, n, Tally
<1> QED BY <1>3, <1>4 DEF Tally

\* A counter that counts a check and answers keeps what is said of it.
LEMMA CounterAnswers ==
  ASSUME LimitsInv, NEW k \in Counters, NEW at \in Int, at <= time + Ttl,
         bucket'[k] = Limiting!Counted(bucket[k], at), Limiting!Answer(k)
  PROVE  /\ bucket'[k] \in Tally /\ bucket'[k].resetAt <= time + Ttl
         /\ passed' \in [Counters -> Seq(Int)] /\ DOMAIN denied' = Counters
         /\ \A j \in Counters : j # k => passed'[j] = passed[j] /\ denied'[j] = denied[j]
         /\ ~Limiting!Forgetful(k) /\ (bucket[k].resetAt <= time => at = time + Ttl) =>
              Spaced(passed'[k]) /\ Windowed(passed'[k], bucket'[k], time)
         /\ k \notin astray =>
              Counting(passed'[k], bucket'[k], time) /\ \A ago \in denied'[k] : ago < Ttl
<1> DEFINE u == bucket'[k]
           P == passed[k]
<1>1. /\ time \in Nat /\ bucket[k] \in Tally /\ bucket[k].resetAt <= time + Ttl
      /\ passed \in [Counters -> Seq(Int)] /\ P \in Seq(Int) /\ DOMAIN denied = Counters
  BY DEF LimitsInv, LimitsTyped
<1>2. /\ u \in Tally /\ u.resetAt <= time + Ttl
      /\ bucket[k].resetAt <= time => u.count = 1 /\ u.resetAt = at
      /\ bucket[k].resetAt > time => u.count = bucket[k].count + 1 /\ u.resetAt = bucket[k].resetAt
  BY <1>1, CountedTally
<1>3. ASSUME u.count <= Limit
      PROVE  passed' = [passed EXCEPT ![k] = Append(P, time)] /\ denied' = denied
  BY <1>3 DEF Limiting!Answer, Limiting!WithinLimit
<1>4. ASSUME ~(u.count <= Limit)
      PROVE  /\ passed' = passed
             /\ denied' = [denied EXCEPT ![k] = @ \cup {Limiting!SinceLimit(k)}]
  BY <1>4 DEF Limiting!Answer, Limiting!WithinLimit
<1>5. Limiting!SinceLimit(k) = IF Len(P) < Limit THEN time + Ttl ELSE time - P[Len(P) - Limit + 1]
  BY DEF Limiting!SinceLimit
<1> HIDE DEF u, P
<1>6. Append(P, time) \in Seq(Int)
  BY <1>1
<1>7. /\ passed' \in [Counters -> Seq(Int)] /\ DOMAIN denied' = Counters
      /\ \A j \in Counters : j # k => passed'[j] = passed[j] /\ denied'[j] = denied[j]
      /\ passed'[k] = IF u.count <= Limit THEN Append(P, time) ELSE P
      /\ denied'[k] = IF u.count <= Limit THEN denied[k]
                      ELSE denied[k] \cup {Limiting!SinceLimit(k)}
  <2>1. CASE u.count <= Limit
    BY <1>1, <1>3, <1>6, <2>1
  <2>2. CASE ~(u.count <= Limit)
    BY <1>1, <1>4, <2>2 DEF P
  <2> QED BY <2>1, <2>2
<1>8. ASSUME ~Limiting!Forgetful(k), bucket[k].resetAt <= time => at = time + Ttl
      PROVE  Spaced(passed'[k]) /\ Windowed(passed'[k], u, time)
  <2>1. Spaced(P) /\ Windowed(P, bucket[k], time)
    BY <1>8 DEF LimitsInv, P
  <2>2. /\ Windowed(P, u, time)
        /\ u.count <= Limit => Spaced(Append(P, time)) /\ Windowed(Append(P, time), u, time)
    BY <1>1, <1>2, <1>8, <2>1, CountedInWindow
  <2> QED BY <1>7, <2>1, <2>2
<1>9. ASSUME k \notin astray
      PROVE  Counting(passed'[k], u, time) /\ \A ago \in denied'[k] : ago < Ttl
  <2>1. Counting(P, bucket[k], time) /\ \A ago \in denied[k] : ago < Ttl
    BY <1>9 DEF LimitsInv, P
  <2>2. /\ u.count <= Limit => Counting(Append(P, time), u, time)
        /\ u.count > Limit =>
             Counting(P, u, time) /\ Limit <= Len(P) /\ time - P[Len(P) - Limit + 1] < Ttl
    BY <1>1, <1>2, <2>1, CountedAll
  <2>3. CASE u.count <= Limit
    BY <1>7, <2>1, <2>2, <2>3
  <2>4. CASE ~(u.count <= Limit)
    <3>1. u.count > Limit /\ Limit \in Nat /\ Len(P) \in Nat
      BY <1>1, <1>2, <2>4, BackOfficeConstants DEF Tally
    <3>2. Limiting!SinceLimit(k) < Ttl
      BY <1>5, <2>2, <3>1
    <3> QED BY <1>7, <2>1, <2>2, <2>4, <3>1, <3>2
  <2> QED BY <2>3, <2>4
<1> QED BY <1>2, <1>7, <1>8, <1>9 DEF u

\* One that counts a check and does not answer keeps the spaces.
LEMMA CounterCounts ==
  ASSUME LimitsInv, NEW k \in Counters, NEW at \in Int, at <= time + Ttl,
         bucket'[k] = Limiting!Counted(bucket[k], at)
  PROVE  /\ bucket'[k] \in Tally /\ bucket'[k].resetAt <= time + Ttl
         /\ ~Limiting!Forgetful(k) /\ (bucket[k].resetAt <= time => at = time + Ttl) =>
              Spaced(passed[k]) /\ Windowed(passed[k], bucket'[k], time)
<1>1. /\ time \in Nat /\ bucket[k] \in Tally /\ bucket[k].resetAt <= time + Ttl
      /\ passed[k] \in Seq(Int)
  BY DEF LimitsInv, LimitsTyped
<1> DEFINE u == bucket'[k]
<1>2. /\ u \in Tally /\ u.resetAt <= time + Ttl
      /\ bucket[k].resetAt <= time => u.count = 1 /\ u.resetAt = at
      /\ bucket[k].resetAt > time => u.count = bucket[k].count + 1 /\ u.resetAt = bucket[k].resetAt
  BY <1>1, CountedTally
<1> HIDE DEF u
<1>3. ASSUME ~Limiting!Forgetful(k), bucket[k].resetAt <= time => at = time + Ttl
      PROVE  Spaced(passed[k]) /\ Windowed(passed[k], u, time)
  <2>1. Spaced(passed[k]) /\ Windowed(passed[k], bucket[k], time)
    BY <1>3 DEF LimitsInv
  <2> QED BY <1>1, <1>2, <1>3, <2>1, CountedInWindow
<1> QED BY <1>2, <1>3 DEF u

\* The check of a checker began, and a window it opens in the database lasts as long
\* as it should if nobody had to wait.
LEMMA CheckBegan ==
  ASSUME LimitsInv, NEW a \in Clients, checking[a] # Absent
  PROVE  /\ checking[a].process \in Runners
         /\ checking[a].began + Ttl \in Int /\ checking[a].began + Ttl <= time + Ttl
         /\ ~Limiting!Hurried(a) =>
              ~hurried /\ (bucket[Database].resetAt <= time => checking[a].began + Ttl = time + Ttl)
<1>1. /\ checking[a].process \in Runners /\ checking[a].began \in Int /\ checking[a].began <= time
      /\ time \in Nat
  BY DEF LimitsInv, LimitsTyped
<1>2. Ttl \in Nat
  BY BackOfficeConstants
<1> QED BY <1>1, <1>2 DEF Limiting!Hurried

LEMMA CounterNames ==
  /\ Database \in Counters /\ Runners \subseteq Counters /\ Database \notin Runners
  /\ \A k \in Counters : Limiting!Forgetful(k) <=> IF k = Database THEN hurried ELSE k \in astray
BY BackOfficeConstants DEF Counters, Limiting!Counters, Limiting!Forgetful

LEMMA EmptyTally ==
  /\ Limiting!Empty \in Tally /\ Limiting!Empty.count = 0 /\ Limiting!Empty.resetAt = 0
BY DEF Limiting!Empty, Tally

\* A check begins.
LEMMA BeginCheck ==
  ASSUME LimitsInv, NEW a \in Clients, NEW p \in Runners, Limiting!Begin(a, p)
  PROVE  LimitsInv'
<1>1. /\ checking' = [checking EXCEPT ![a] = [process |-> p, began |-> time]]
      /\ UNCHANGED <<time, bucket, passed, denied, hurried, astray>>
  BY DEF Limiting!Begin
<1>2. ASSUME NEW b \in Clients, checking'[b] # Absent
      PROVE  checking'[b].process \in Runners /\ checking'[b].began \in Int
             /\ checking'[b].began <= time
  <2>1. CASE checking'[b] = checking[b]
    BY <1>2, <2>1 DEF LimitsInv, LimitsTyped
  <2>2. CASE checking'[b] # checking[b]
    <3>1. checking'[b] = [process |-> p, began |-> time] /\ time \in Nat
      BY <1>1, <2>2 DEF LimitsInv, LimitsTyped
    <3> QED BY <3>1
  <2> QED BY <2>1, <2>2
<1> QED BY <1>1, <1>2 DEF LimitsInv, LimitsTyped, Limiting!Forgetful

\* A checker that is done makes no check.
LEMMA DoneChecks ==
  ASSUME LimitsInv, NEW a \in Clients, Limiting!Done(a) 
  PROVE  \A b \in Clients : checking'[b] # Absent =>
           checking'[b].process \in Runners /\ checking'[b].began \in Int
             /\ checking'[b].began <= time
<1> SUFFICES ASSUME NEW b \in Clients, checking'[b] # Absent
             PROVE  checking'[b] = checking[b]
  BY DEF LimitsInv, LimitsTyped
<1> QED BY DEF Limiting!Done

LEMMA CheckPostgresKeeps ==
  ASSUME LimitsInv, NEW a \in Clients, Limiting!CheckPostgres(a)
  PROVE  LimitsInv'
<1> DEFINE at == checking[a].began + Ttl
<1>1. /\ checking[a] # Absent /\ bucket' = [bucket EXCEPT ![Database] = Limiting!Counted(@, at)]
      /\ Limiting!Answer(Database) /\ Limiting!Done(a) /\ hurried' = Limiting!Hurried(a)
      /\ UNCHANGED <<time, astray>>
  BY DEF Limiting!CheckPostgres, Limiting!InDatabase
<1>2. /\ at \in Int /\ at <= time + Ttl
      /\ ~hurried' => ~hurried /\ (bucket[Database].resetAt <= time => at = time + Ttl)
  BY <1>1, CheckBegan
<1> HIDE DEF at
<1>3. /\ bucket'[Database] = Limiting!Counted(bucket[Database], at)
      /\ \A k \in Counters : k # Database => bucket'[k] = bucket[k]
      /\ DOMAIN bucket' = Counters /\ bucket \in [Counters -> Tally]
      /\ \A k \in Counters : bucket[k].resetAt <= time + Ttl
  BY <1>1, CounterNames DEF LimitsInv, LimitsTyped
<1>4. /\ bucket'[Database] \in Tally /\ bucket'[Database].resetAt <= time + Ttl
      /\ passed' \in [Counters -> Seq(Int)] /\ DOMAIN denied' = Counters
      /\ \A j \in Counters : j # Database => passed'[j] = passed[j] /\ denied'[j] = denied[j]
      /\ ~hurried' => Spaced(passed'[Database]) /\ Windowed(passed'[Database], bucket'[Database], time)
      /\ Database \notin astray =>
           Counting(passed'[Database], bucket'[Database], time)
             /\ \A ago \in denied'[Database] : ago < Ttl
  BY <1>1, <1>2, <1>3, CounterNames, CounterAnswers
<1>5. bucket' \in [Counters -> Tally] /\ \A k \in Counters : bucket'[k].resetAt <= time + Ttl
  <2>1. bucket' = [bucket EXCEPT ![Database] = bucket'[Database]]
    BY <1>1, <1>3
  <2> QED BY <1>3, <1>4, <2>1, CounterNames
<1>6. LimitsTyped'
  BY <1>1, <1>4, <1>5, DoneChecks DEF LimitsInv, LimitsTyped
<1>7. ASSUME NEW k \in Counters, ~(IF k = Database THEN hurried' ELSE k \in astray')
      PROVE  Spaced(passed'[k]) /\ Windowed(passed'[k], bucket'[k], time')
  <2>1. CASE k = Database
    BY <1>1, <1>4, <1>7, <2>1
  <2>2. CASE k # Database
    <3>1. Spaced(passed[k]) /\ Windowed(passed[k], bucket[k], time)
      BY <1>1, <1>7, <2>2, CounterNames DEF LimitsInv
    <3> QED BY <1>1, <1>3, <1>4, <2>2, <3>1
  <2> QED BY <2>1, <2>2
<1>8. ASSUME NEW k \in Counters, k \notin astray'
      PROVE  Counting(passed'[k], bucket'[k], time') /\ \A ago \in denied'[k] : ago < Ttl
  BY <1>1, <1>3, <1>4, <1>8 DEF LimitsInv
<1> QED BY <1>6, <1>7, <1>8 DEF LimitsInv, Limiting!Forgetful

\* The database is as it was, or it counted a check whose answer was lost.
LEMMA DatabaseCounts ==
  ASSUME LimitsInv, astray \subseteq astray',
         \/ bucket'[Database] = bucket[Database] /\ UNCHANGED hurried
         \/ \E a \in Clients :
              /\ checking[a] # Absent
              /\ bucket'[Database] = Limiting!Counted(bucket[Database], checking[a].began + Ttl)
              /\ hurried' = Limiting!Hurried(a) /\ Database \in astray'
  PROVE  /\ bucket'[Database] \in Tally /\ bucket'[Database].resetAt <= time + Ttl
         /\ ~hurried' => Spaced(passed[Database])
                           /\ Windowed(passed[Database], bucket'[Database], time)
         /\ Database \notin astray' => bucket'[Database] = bucket[Database]
<1>1. CASE bucket'[Database] = bucket[Database] /\ UNCHANGED hurried
  BY <1>1, CounterNames DEF LimitsInv, LimitsTyped
<1>2. ASSUME NEW a \in Clients, checking[a] # Absent,
             bucket'[Database] = Limiting!Counted(bucket[Database], checking[a].began + Ttl),
             hurried' = Limiting!Hurried(a), Database \in astray'
      PROVE  /\ bucket'[Database] \in Tally /\ bucket'[Database].resetAt <= time + Ttl
             /\ ~hurried' => Spaced(passed[Database])
                               /\ Windowed(passed[Database], bucket'[Database], time)
             /\ Database \notin astray' => bucket'[Database] = bucket[Database]
  <2> DEFINE at == checking[a].began + Ttl
  <2>1. /\ at \in Int /\ at <= time + Ttl
        /\ ~hurried' => ~hurried /\ (bucket[Database].resetAt <= time => at = time + Ttl)
    BY <1>2, CheckBegan
  <2>2. bucket'[Database] = Limiting!Counted(bucket[Database], at)
    BY <1>2
  <2> HIDE DEF at
  <2>3. /\ bucket'[Database] \in Tally /\ bucket'[Database].resetAt <= time + Ttl
        /\ ~Limiting!Forgetful(Database) /\ (bucket[Database].resetAt <= time => at = time + Ttl) =>
             Spaced(passed[Database]) /\ Windowed(passed[Database], bucket'[Database], time)
    BY <2>1, <2>2, CounterNames, CounterCounts
  <2> QED BY <1>2, <2>1, <2>3, CounterNames
<1> QED BY <1>1, <1>2

LEMMA CheckMemoryKeeps ==
  ASSUME LimitsInv, NEW a \in Clients, Limiting!CheckMemory(a)
  PROVE  LimitsInv'
<1> DEFINE p == checking[a].process
           own == Limiting!Counted(bucket[p], time + Ttl)
           shared == Limiting!Counted(bucket[Database], checking[a].began + Ttl)
<1>1. /\ checking[a] # Absent /\ Limiting!Answer(p) /\ Limiting!Done(a) /\ UNCHANGED time
      /\ \/ bucket' = [bucket EXCEPT ![p] = own] /\ UNCHANGED <<hurried, astray>>
         \/ /\ bucket' = [bucket EXCEPT ![p] = own, ![Database] = shared]
            /\ hurried' = Limiting!Hurried(a) /\ astray' = astray \cup {Database}
  BY DEF Limiting!CheckMemory
<1>2. p \in Runners /\ p \in Counters /\ p # Database /\ Database \in Counters
  BY <1>1, CheckBegan, CounterNames
<1>3. time \in Nat /\ bucket \in [Counters -> Tally]
      /\ \A k \in Counters : bucket[k].resetAt <= time + Ttl
  BY DEF LimitsInv, LimitsTyped
<1> HIDE DEF p, own, shared
<1>4. /\ bucket'[p] = own
      /\ \/ bucket'[Database] = bucket[Database] /\ UNCHANGED hurried
         \/ /\ bucket'[Database] = shared
            /\ hurried' = Limiting!Hurried(a) /\ Database \in astray'
      /\ astray \subseteq astray'
      /\ DOMAIN bucket' = Counters
      /\ \A k \in Counters \ {p, Database} : bucket'[k] = bucket[k]
      /\ \A k \in Counters \ {Database} : k \in astray' <=> k \in astray
  BY <1>1, <1>2, <1>3
<1>5. /\ bucket'[Database] \in Tally /\ bucket'[Database].resetAt <= time + Ttl
      /\ ~hurried' => Spaced(passed[Database])
                        /\ Windowed(passed[Database], bucket'[Database], time)
      /\ Database \notin astray' => bucket'[Database] = bucket[Database]
  BY <1>1, <1>4, DatabaseCounts DEF shared
<1> DEFINE at == time + Ttl
<1>6. at \in Int /\ at <= time + Ttl /\ bucket'[p] = Limiting!Counted(bucket[p], at)
  BY <1>3, <1>4, BackOfficeConstants DEF own
<1>7. /\ bucket'[p] \in Tally /\ bucket'[p].resetAt <= time + Ttl
      /\ passed' \in [Counters -> Seq(Int)] /\ DOMAIN denied' = Counters
      /\ \A j \in Counters : j # p => passed'[j] = passed[j] /\ denied'[j] = denied[j]
      /\ p \notin astray => Spaced(passed'[p]) /\ Windowed(passed'[p], bucket'[p], time)
      /\ p \notin astray =>
           Counting(passed'[p], bucket'[p], time) /\ \A ago \in denied'[p] : ago < Ttl
  <2> HIDE DEF at
  <2>1. /\ bucket'[p] \in Tally /\ bucket'[p].resetAt <= time + Ttl
        /\ passed' \in [Counters -> Seq(Int)] /\ DOMAIN denied' = Counters
        /\ \A j \in Counters : j # p => passed'[j] = passed[j] /\ denied'[j] = denied[j]
        /\ ~Limiting!Forgetful(p) /\ (bucket[p].resetAt <= time => at = time + Ttl) =>
             Spaced(passed'[p]) /\ Windowed(passed'[p], bucket'[p], time)
        /\ p \notin astray =>
             Counting(passed'[p], bucket'[p], time) /\ \A ago \in denied'[p] : ago < Ttl
    BY <1>1, <1>2, <1>6, CounterAnswers
  <2> QED BY <1>2, <2>1, CounterNames DEF at
<1>8. bucket' \in [Counters -> Tally] /\ \A k \in Counters : bucket'[k].resetAt <= time + Ttl
  <2>1. \A k \in Counters : bucket'[k] \in Tally /\ bucket'[k].resetAt <= time + Ttl
    BY <1>3, <1>4, <1>5, <1>7
  <2>2. bucket' = [k \in Counters |-> bucket'[k]]
    BY <1>1, <1>3, <1>4
  <2> QED BY <2>1, <2>2
<1>9. LimitsTyped'
  BY <1>1, <1>7, <1>8, DoneChecks DEF LimitsInv, LimitsTyped
<1>10. ASSUME NEW k \in Counters, ~(IF k = Database THEN hurried' ELSE k \in astray')
       PROVE  Spaced(passed'[k]) /\ Windowed(passed'[k], bucket'[k], time')
  <2>1. CASE k = Database
    BY <1>1, <1>2, <1>5, <1>7, <1>10, <2>1
  <2>2. CASE k = p
    BY <1>1, <1>2, <1>4, <1>7, <1>10, <2>2
  <2>3. CASE k \notin {p, Database}
    <3>1. Spaced(passed[k]) /\ Windowed(passed[k], bucket[k], time)
      BY <1>4, <1>10, <2>3, CounterNames DEF LimitsInv
    <3> QED BY <1>1, <1>4, <1>7, <2>3, <3>1
  <2> QED BY <2>1, <2>2, <2>3
<1>11. ASSUME NEW k \in Counters, k \notin astray'
       PROVE  Counting(passed'[k], bucket'[k], time') /\ \A ago \in denied'[k] : ago < Ttl
  <2>1. k \notin astray
    BY <1>4, <1>11
  <2>2. CASE k = p
    BY <1>1, <1>7, <2>1, <2>2
  <2>3. CASE k # p
    <3>1. bucket'[k] = bucket[k]
      BY <1>4, <1>5, <1>11, <2>3
    <3> QED BY <1>1, <1>7, <2>1, <2>3, <3>1 DEF LimitsInv
  <2> QED BY <2>2, <2>3
<1> QED BY <1>9, <1>10, <1>11 DEF LimitsInv, Limiting!Forgetful

\* A process that starts again has an empty Map.
LEMMA RestartKeeps ==
  ASSUME LimitsInv, NEW p \in Runners, Limiting!Restart(p)
  PROVE  LimitsInv'
<1>1. /\ UNCHANGED <<time, passed, denied>> /\ p \in astray' /\ astray \subseteq astray'
      /\ \/ /\ bucket' = [bucket EXCEPT ![p] = Limiting!Empty] /\ UNCHANGED hurried
            /\ astray' = astray \cup {p}
         \/ \E a \in Clients :
              /\ checking[a] # Absent
              /\ bucket' = [bucket EXCEPT ![p] = Limiting!Empty,
                   ![Database] = Limiting!Counted(@, checking[a].began + Ttl)]
              /\ astray' = astray \cup {p, Database}
              /\ hurried' = Limiting!Hurried(a)
      /\ checking' = [a \in Clients |->
           IF checking[a] # Absent /\ checking[a].process = p THEN Absent ELSE checking[a]]
  BY DEF Limiting!Restart
<1>2. p \in Counters /\ p # Database /\ Database \in Counters
  BY CounterNames
<1>3. time \in Nat /\ bucket \in [Counters -> Tally]
      /\ \A k \in Counters : bucket[k].resetAt <= time + Ttl
  BY DEF LimitsInv, LimitsTyped
<1>4. /\ bucket'[p] = Limiting!Empty /\ DOMAIN bucket' = Counters
      /\ \A k \in Counters \ {p, Database} : bucket'[k] = bucket[k]
      /\ \A k \in Counters \ {p, Database} : k \in astray' <=> k \in astray
      /\ \/ bucket'[Database] = bucket[Database] /\ UNCHANGED hurried
         \/ \E a \in Clients :
              /\ checking[a] # Absent
              /\ bucket'[Database] = Limiting!Counted(bucket[Database], checking[a].began + Ttl)
              /\ hurried' = Limiting!Hurried(a) /\ Database \in astray'
  <2>1. CASE bucket' = [bucket EXCEPT ![p] = Limiting!Empty] /\ astray' = astray \cup {p}
               /\ UNCHANGED hurried
    BY <1>2, <1>3, <2>1
  <2>2. ASSUME NEW a \in Clients, checking[a] # Absent,
               bucket' = [bucket EXCEPT ![p] = Limiting!Empty,
                   ![Database] = Limiting!Counted(@, checking[a].began + Ttl)],
               astray' = astray \cup {p, Database}, hurried' = Limiting!Hurried(a)
        PROVE  /\ bucket'[p] = Limiting!Empty /\ DOMAIN bucket' = Counters
               /\ \A k \in Counters \ {p, Database} : bucket'[k] = bucket[k]
               /\ \A k \in Counters \ {p, Database} : k \in astray' <=> k \in astray
               /\ bucket'[Database] =
                    Limiting!Counted(bucket[Database], checking[a].began + Ttl)
               /\ Database \in astray'
    BY <1>2, <1>3, <2>2
  <2> QED BY <1>1, <2>1, <2>2
<1>5. /\ bucket'[Database] \in Tally /\ bucket'[Database].resetAt <= time + Ttl
      /\ ~hurried' => Spaced(passed[Database])
                        /\ Windowed(passed[Database], bucket'[Database], time)
      /\ Database \notin astray' => bucket'[Database] = bucket[Database]
  BY <1>1, <1>4, DatabaseCounts
<1>6. bucket' \in [Counters -> Tally] /\ \A k \in Counters : bucket'[k].resetAt <= time + Ttl
  <2>1. \A k \in Counters : bucket'[k] \in Tally /\ bucket'[k].resetAt <= time + Ttl
    BY <1>3, <1>4, <1>5, EmptyTally, BackOfficeConstants
  <2>2. bucket' = [k \in Counters |-> bucket'[k]]
    BY <1>1, <1>3, <1>4
  <2> QED BY <2>1, <2>2
<1>7. \A b \in Clients : checking'[b] # Absent => checking'[b] = checking[b]
  BY <1>1
<1>8. LimitsTyped'
  BY <1>1, <1>6, <1>7 DEF LimitsInv, LimitsTyped
<1>9. ASSUME NEW k \in Counters, ~(IF k = Database THEN hurried' ELSE k \in astray')
      PROVE  Spaced(passed'[k]) /\ Windowed(passed'[k], bucket'[k], time')
  <2>1. CASE k = Database
    BY <1>1, <1>5, <1>9, <2>1
  <2>2. CASE k # Database
    <3>1. k # p /\ k \notin astray
      BY <1>1, <1>9, <2>2
    <3> QED BY <1>1, <1>4, <2>2, <3>1, CounterNames DEF LimitsInv
  <2> QED BY <2>1, <2>2
<1>10. ASSUME NEW k \in Counters, k \notin astray'
       PROVE  Counting(passed'[k], bucket'[k], time') /\ \A ago \in denied'[k] : ago < Ttl
  <2>1. k # p /\ k \notin astray /\ bucket'[k] = bucket[k]
    BY <1>1, <1>4, <1>5, <1>10
  <2> QED BY <1>1, <2>1 DEF LimitsInv
<1> QED BY <1>8, <1>9, <1>10 DEF LimitsInv, Limiting!Forgetful

\* What ended, or time that goes by, says nothing new of what came before.
LEMMA WindowedLater ==
  ASSUME NEW P \in Seq(Int), NEW b \in Tally, NEW u \in Tally, NEW now \in Nat, NEW later \in Nat,
         now <= later, u = b \/ (b.resetAt <= now /\ u.resetAt <= later), Windowed(P, b, now)
  PROVE  Windowed(P, u, later)
<1>1. PICK m \in 0..Len(P), from \in Int : Window(P, m, from, b, now)
  BY DEF Windowed
<1>2. \A i \in 1..Len(P) : P[i] \in Int
  OBVIOUS
<1>3. Ttl \in Nat
  BY BackOfficeConstants
<1>4. \A i \in 1..Len(P) : P[i] <= later
  BY <1>1, <1>2 DEF Window
<1>5. Window(P, m, from, u, later)
  BY <1>1, <1>3, <1>4 DEF Window, Tally
<1> QED BY <1>5 DEF Windowed

LEMMA CleanUpKeeps ==
  ASSUME LimitsInv, Limiting!CleanUp
  PROVE  LimitsInv'
<1>1. /\ bucket[Database].resetAt < time
      /\ bucket' = [bucket EXCEPT ![Database] = Limiting!Empty]
      /\ UNCHANGED <<time, checking, passed, denied, hurried, astray>>
  BY DEF Limiting!CleanUp
<1>2. time \in Nat /\ bucket \in [Counters -> Tally] /\ passed \in [Counters -> Seq(Int)]
      /\ \A k \in Counters : bucket[k].resetAt <= time + Ttl
  BY DEF LimitsInv, LimitsTyped
<1>3. bucket'[Database] = Limiting!Empty /\ bucket' \in [Counters -> Tally]
      /\ \A k \in Counters : k # Database => bucket'[k] = bucket[k]
  BY <1>1, <1>2, EmptyTally, CounterNames
<1>4. \A k \in Counters : bucket'[k].resetAt <= time + Ttl
  <2>1. Ttl \in Nat
    BY BackOfficeConstants
  <2>2. bucket'[Database].resetAt <= time + Ttl
    BY <1>2, <1>3, <2>1, EmptyTally
  <2> QED BY <1>2, <1>3, <2>2
<1>5. LimitsTyped'
  BY <1>1, <1>3, <1>4 DEF LimitsInv, LimitsTyped
<1>6. ASSUME NEW k \in Counters, Windowed(passed[k], bucket[k], time)
      PROVE  Windowed(passed[k], bucket'[k], time)
  <2>1. bucket[k] \in Tally /\ bucket'[k] \in Tally /\ passed[k] \in Seq(Int)
    BY <1>2, <1>3
  <2>2. bucket'[k] = bucket[k] \/ (bucket[k].resetAt <= time /\ bucket'[k].resetAt <= time)
    BY <1>1, <1>2, <1>3, CounterNames, EmptyTally DEF Tally
  <2>3. time <= time
    BY <1>2
  <2> QED BY <1>2, <1>6, <2>1, <2>2, <2>3, WindowedLater
<1>7. ASSUME NEW k \in Counters, Counting(passed[k], bucket[k], time)
      PROVE  Counting(passed[k], bucket'[k], time)
  <2>1. CASE k = Database
    BY <1>2, <1>3, <2>1, EmptyTally DEF Counting
  <2>2. CASE k # Database
    BY <1>3, <1>7, <2>2
  <2> QED BY <2>1, <2>2
<1>8. \A k \in Counters : ~(IF k = Database THEN hurried' ELSE k \in astray') =>
        Spaced(passed'[k]) /\ Windowed(passed'[k], bucket'[k], time')
  BY <1>1, <1>6, CounterNames DEF LimitsInv
<1>9. \A k \in Counters : k \notin astray' =>
        Counting(passed'[k], bucket'[k], time') /\ \A ago \in denied'[k] : ago < Ttl
  BY <1>1, <1>7 DEF LimitsInv
<1> QED BY <1>5, <1>8, <1>9 DEF LimitsInv, Limiting!Forgetful

LEMMA TickKeepsLimits ==
  ASSUME LimitsInv, Limiting!Tick
  PROVE  LimitsInv'
<1>1. time' = time + 1 /\ UNCHANGED <<bucket, checking, passed, denied, hurried, astray>>
  BY DEF Limiting!Tick
<1>2. time \in Nat /\ bucket \in [Counters -> Tally] /\ passed \in [Counters -> Seq(Int)]
      /\ \A k \in Counters : bucket[k].resetAt <= time + Ttl
  BY DEF LimitsInv, LimitsTyped
<1>3. LimitsTyped'
  <2>1. \A k \in Counters : bucket[k].resetAt <= time + 1 + Ttl
    BY <1>2, BackOfficeConstants DEF Tally
  <2>2. \A b \in Clients : checking[b] # Absent => checking[b].began <= time + 1
    BY <1>2 DEF LimitsInv, LimitsTyped
  <2> QED BY <1>1, <1>2, <2>1, <2>2 DEF LimitsInv, LimitsTyped
<1>4. ASSUME NEW k \in Counters, Windowed(passed[k], bucket[k], time)
      PROVE  Windowed(passed[k], bucket[k], time')
  <2>1. bucket[k] \in Tally /\ passed[k] \in Seq(Int) /\ time' \in Nat /\ time <= time'
    BY <1>1, <1>2
  <2> QED BY <1>2, <1>4, <2>1, WindowedLater
<1>5. ASSUME NEW k \in Counters, Counting(passed[k], bucket[k], time)
      PROVE  Counting(passed[k], bucket[k], time')
  <2>1. bucket[k].resetAt > time' => bucket[k].resetAt > time
    BY <1>1, <1>2 DEF Tally
  <2> QED BY <1>5, <2>1 DEF Counting
<1>6. \A k \in Counters : ~(IF k = Database THEN hurried' ELSE k \in astray') =>
        Spaced(passed'[k]) /\ Windowed(passed'[k], bucket'[k], time')
  BY <1>1, <1>4, CounterNames DEF LimitsInv
<1>7. \A k \in Counters : k \notin astray' =>
        Counting(passed'[k], bucket'[k], time') /\ \A ago \in denied'[k] : ago < Ttl
  BY <1>1, <1>5 DEF LimitsInv
<1> QED BY <1>3, <1>6, <1>7 DEF LimitsInv, Limiting!Forgetful

LEMMA LimitsBegin == Limiting!Init => LimitsInv
<1> SUFFICES ASSUME Limiting!Init PROVE LimitsInv
  OBVIOUS
<1>1. /\ time = 0 /\ bucket = [k \in Counters |-> Limiting!Empty]
      /\ checking = [a \in Clients |-> Absent] /\ passed = [k \in Counters |-> <<>>]
      /\ denied = [k \in Counters |-> {}]
  BY DEF Limiting!Init, Counters
<1>2. LimitsTyped
  BY <1>1, EmptyTally, BackOfficeConstants DEF LimitsTyped
<1>3. Spaced(<<>>) /\ Counting(<<>>, Limiting!Empty, 0)
  BY EmptyTally DEF Spaced, Counting
<1>4. Windowed(<<>>, Limiting!Empty, 0)
  <2>1. Limit \in Nat /\ Ttl \in Nat
    BY BackOfficeConstants
  <2>2. Window(<<>>, 0, -Ttl, Limiting!Empty, 0)
    BY <2>1, EmptyTally DEF Window
  <2>3. 0 \in 0..Len(<<>>) /\ -Ttl \in Int
    BY <2>1
  <2> QED BY <2>2, <2>3 DEF Windowed
<1> QED BY <1>1, <1>2, <1>3, <1>4 DEF LimitsInv

LEMMA LimitsKept == LimitsInv /\ [Next]_vars => LimitsInv'
<1> SUFFICES ASSUME LimitsInv, [Next]_vars
             PROVE  LimitsInv'
  OBVIOUS
<1>1. CASE Limiting!Next
  BY <1>1, BeginCheck, CheckPostgresKeeps, CheckMemoryKeeps, RestartKeeps, CleanUpKeeps,
     TickKeepsLimits DEF Limiting!Next
<1>2. CASE UNCHANGED limitVars
  BY <1>2 DEF limitVars, LimitsInv, LimitsTyped, Limiting!Forgetful
<1> QED BY <1>1, <1>2 DEF Next, Step, vars

LEMMA LimitsHold == LimitsInv => Limiting!LimitHoldsUnlessAstray
<1> SUFFICES ASSUME LimitsInv PROVE Limiting!LimitHoldsUnlessAstray
  OBVIOUS
<1>1. ASSUME NEW k \in Counters, ~Limiting!Forgetful(k), NEW i \in 1 .. Len(passed[k]) - 2 * Limit
      PROVE  passed[k][i + 2 * Limit] - passed[k][i] >= Ttl
  <2>1. Spaced(passed[k]) /\ passed[k] \in Seq(Int)
    BY <1>1 DEF LimitsInv, LimitsTyped
  <2>2. i \in 1..Len(passed[k]) /\ i + 2 * Limit <= Len(passed[k])
    BY <2>1, BackOfficeConstants
  <2> QED BY <2>1, <2>2 DEF Spaced
<1>2. \A k \in Counters : k \notin astray => \A ago \in denied[k] : ago < Ttl
  BY DEF LimitsInv
<1> QED BY <1>1, <1>2 DEF Limiting!LimitHoldsUnlessAstray, Counters

-----------------------------------------------------------------------------
(* What goes by a clock *)

\* A schedule runs once a day, a signal is explained once, and a window of the limit
\* on logins lets through as many as it may.
THEOREM DoneOnce == Spec => []OnceUnlessHeld
<1>1. Init => SchedulesInv /\ AlertsInv /\ LimitsInv
  BY SchedulesBegin, AlertsBegin, LimitsBegin DEF Init
<1>2. SchedulesInv /\ AlertsInv /\ LimitsInv /\ [Next]_vars
        => (SchedulesInv /\ AlertsInv /\ LimitsInv)'
  BY SchedulesKept, AlertsKept, LimitsKept
<1>3. SchedulesInv /\ AlertsInv /\ LimitsInv => OnceUnlessHeld
  BY AlertsHold, LimitsHold DEF OnceUnlessHeld, SchedulesInv, Scheduling!OncePerDayUnlessHeld
<1> QED BY <1>1, <1>2, <1>3, PTL DEF Spec

-----------------------------------------------------------------------------
(* Conversations with the copilot: the inductive invariant *)

Brief == [role : {"user", "assistant"}, request : Nat]
Question(r) == [role |-> "user", request |-> r]
Message ==
  [role : {"user"}, request : Nat] \cup
  [role : {"assistant"}, request : Nat, saw : Seq(Brief), text : {"answer", "apology"}]

Sending == [op : {"send"}, at : {"ask", "read"}, request : Nat, conversation : Conversations]
Answering ==
  [op : {"send"}, at : {"work", "dispatch", "reply"}, request : Nat,
   conversation : Conversations, rounds : Int, text : {"tools", "answer", "nothing"},
   saw : Seq(Brief)]
Settling ==
  [op : {"configure"}, at : {"load", "insert", "write"}, want : Chat!Config,
   loaded : Chat!Config \cup {Absent}, fields : SUBSET Chat!Fields]

TalkerRecord == {Chat!Idle} \cup Sending \cup Answering \cup Settling

ChatTyped ==
  /\ requests \in Nat
  /\ chat \in [Conversations -> Seq(Message)]
  /\ talker \in [Clients -> TalkerRecord]
  /\ notes \in Chat!Config \cup {Absent} /\ notesAsked \in Chat!Config \cup {Absent}

\* Of the messages s the one numbered j is the question of request r, and saw begins
\* with it and those before it.
Shows(s, j, r, saw) ==
  /\ j \in 1..Len(s) /\ s[j] = Question(r)
  /\ Chat!IsPrefix(Chat!Told(SubSeq(s, 1, j)), saw)

\* Each answer has its question in sight, and, if no two requests met, just before it
\* and at the end of what it goes by.
Seen(s, alone) ==
  \A i \in 1..Len(s) : s[i].role = "assistant" =>
    \E j \in 1 .. i - 1 :
      /\ Shows(s, j, s[i].request, s[i].saw)
      /\ alone = {} => j = i - 1 /\ Len(s[i].saw) = j

\* A request t, by the messages s of its conversation.
TalkerWell(t, s, alone) ==
  /\ t \in Sending /\ t.at = "read" =>
       \E j \in 1..Len(s) : s[j] = Question(t.request) /\ (alone = {} => j = Len(s))
  /\ t \in Answering =>
       \E j \in 1..Len(s) :
         Shows(s, j, t.request, t.saw) /\ (alone = {} => j = Len(s) /\ Len(t.saw) = j)

\* Who is in conversation c, by a table T of requests, and alone if no two met.
Talks(t, c) == t.op = "send" /\ t.conversation = c
OneTalker(c, T) == \A a, b \in Clients : Talks(T[a], c) /\ Talks(T[b], c) => a = b
Conversation(c, s, T, alone) ==
  /\ Seen(s, alone)
  /\ \A a \in Clients : Talks(T[a], c) => TalkerWell(T[a], s, alone)
  /\ alone = {} => OneTalker(c, T)

\* Who has read a row has read one there is.
Loaded(T, row) ==
  \A a \in Clients : T[a].op = "configure" /\ T[a].at # "insert" => row # Absent

\* A request that configures has in hand the row but for the fields it was given.
SettlerWell(t, row) ==
  t.op = "configure" =>
    /\ t.at = "insert" <=> row = Absent
    /\ \A f \in Chat!Fields \ t.fields : t.want[f] = IF row = Absent THEN 0 ELSE row[f]
    /\ t.at = "write" => t.loaded = row
OneSettler(T) ==
  \A a, b \in Clients : T[a].op = "configure" /\ T[b].op = "configure" => a = b
NotesHold(row, want, T) ==
  row = want /\ OneSettler(T) /\ \A a \in Clients : SettlerWell(T[a], row)

ChatInv ==
  /\ ChatTyped /\ Loaded(talker, notes)
  /\ \A c \in Conversations : Conversation(c, chat[c], talker, {c} \cap mixed)
  /\ ~notesRaced => NotesHold(notes, notesAsked, talker)

-----------------------------------------------------------------------------
(* Conversations: what is read of them *)

\* No message is of anybody else, so that the model is told all of them.
LEMMA HistoryIsAll ==
  ASSUME NEW s \in Seq(Message)
  PROVE  Chat!History(s) = s
<1> DEFINE kept == {i \in DOMAIN s : s[i].role \in {"user", "assistant"}}
<1>1. Len(s) \in Nat /\ DOMAIN s = 1..Len(s) /\ \A i \in 1..Len(s) : s[i] \in Message
  OBVIOUS
<1>2. \A i \in 1..Len(s) : s[i].role \in {"user", "assistant"}
  BY <1>1 DEF Message
<1>3. kept = 1..Len(s)
  BY <1>1, <1>2
<1>4. \A n \in Nat : Chat!Cardinality(1..n) = n
  <2>1. \A n \in Nat : Cardinality(1..n) = n
    BY FS_Interval
  <2> QED BY <2>1 DEF Chat!Cardinality, Cardinality
<1>5. Chat!Cardinality(kept) = Len(s)
  BY <1>1, <1>3, <1>4
<1>6. ASSUME NEW i \in kept PROVE Chat!Cardinality({j \in kept : j <= i}) = i
  <2>1. i \in 1..Len(s) /\ i \in Nat
    BY <1>1, <1>3
  <2>2. {j \in kept : j <= i} = 1..i
    BY <1>1, <1>3, <2>1
  <2> QED BY <1>4, <2>1, <2>2
<1>7. ASSUME NEW k \in 1..Len(s)
      PROVE  (CHOOSE i \in kept : Chat!Cardinality({j \in kept : j <= i}) = k) = k
  BY <1>3, <1>6
<1>8. Chat!History(s) =
        [k \in 1..Chat!Cardinality(kept) |->
           s[CHOOSE i \in kept : Chat!Cardinality({j \in kept : j <= i}) = k]]
  BY DEF Chat!History
<1> HIDE DEF kept
<1>9. Chat!History(s) = [k \in 1..Len(s) |-> s[k]]
  BY <1>5, <1>7, <1>8
<1> QED BY <1>1, <1>9

LEMMA ToldBriefly ==
  ASSUME NEW s \in Seq(Message)
  PROVE  /\ Chat!Told(s) \in Seq(Brief) /\ Len(Chat!Told(s)) = Len(s)
         /\ \A i \in 1..Len(s) : Chat!Told(s)[i] = [role |-> s[i].role, request |-> s[i].request]
<1>1. Len(s) \in Nat /\ DOMAIN s = 1..Len(s) /\ \A i \in 1..Len(s) : s[i] \in Message
  OBVIOUS
<1>2. \A i \in 1..Len(s) : s[i].role \in {"user", "assistant"} /\ s[i].request \in Nat
  BY <1>1 DEF Message
<1>3. \A i \in 1..Len(s) : [role |-> s[i].role, request |-> s[i].request] \in Brief
  BY <1>2 DEF Brief
<1>4. Chat!Told(s) = [i \in 1..Len(s) |-> [role |-> s[i].role, request |-> s[i].request]]
  BY <1>1 DEF Chat!Told
<1>5. Chat!Told(s) \in [1..Len(s) -> Brief]
  BY <1>3, <1>4
<1> QED BY <1>1, <1>4, <1>5

\* What the first j messages tell is the beginning of what all of them do.
LEMMA ToldBegins ==
  ASSUME NEW s \in Seq(Message), NEW j \in 1..Len(s)
  PROVE  Chat!IsPrefix(Chat!Told(SubSeq(s, 1, j)), Chat!Told(s))
<1>1. Len(s) \in Nat /\ j \in Nat /\ \A i \in 1..Len(s) : s[i] \in Message
  OBVIOUS
<1>2. /\ SubSeq(s, 1, j) \in Seq(Message) /\ Len(SubSeq(s, 1, j)) = j
      /\ \A i \in 1..j : SubSeq(s, 1, j)[i] = s[i]
  BY <1>1
<1> DEFINE p == Chat!Told(SubSeq(s, 1, j))
           t == Chat!Told(s)
<1>3. /\ p \in Seq(Brief) /\ Len(p) = j
      /\ \A i \in 1..j : p[i] = [role |-> s[i].role, request |-> s[i].request]
  BY <1>1, <1>2, ToldBriefly
<1>4. /\ t \in Seq(Brief) /\ Len(t) = Len(s)
      /\ \A i \in 1..Len(s) : t[i] = [role |-> s[i].role, request |-> s[i].request]
  BY ToldBriefly
<1> HIDE DEF p, t
<1>5. \A i \in 1..j : p[i] = t[i]
  BY <1>1, <1>3, <1>4
<1>6. SubSeq(p, 1, j) = SubSeq(t, 1, j)
  BY <1>1, <1>3, <1>4, <1>5
<1>7. Chat!IsPrefix(p, t)
  BY <1>1, <1>3, <1>4, <1>6 DEF Chat!IsPrefix
<1> QED BY <1>7 DEF p, t

\* A message more leaves the beginning of a conversation what it was.
LEMMA StillBegins ==
  ASSUME NEW s \in Seq(Message), NEW m \in Message, NEW j \in 1..Len(s)
  PROVE  SubSeq(Append(s, m), 1, j) = SubSeq(s, 1, j) /\ Append(s, m)[j] = s[j]
OBVIOUS

LEMMA StillShows ==
  ASSUME NEW s \in Seq(Message), NEW m \in Message, NEW j, NEW r, NEW saw,
         Shows(s, j, r, saw)
  PROVE  Shows(Append(s, m), j, r, saw)
<1>1. j \in 1..Len(s) /\ j \in 1..Len(Append(s, m))
  BY DEF Shows
<1>2. SubSeq(Append(s, m), 1, j) = SubSeq(s, 1, j) /\ Append(s, m)[j] = s[j]
  BY <1>1, StillBegins
<1> QED BY <1>1, <1>2 DEF Shows

LEMMA SeenAppend ==
  ASSUME NEW s \in Seq(Message), NEW m \in Message, NEW alone, Seen(s, alone),
         m.role = "assistant" =>
           \E j \in 1..Len(s) :
             Shows(s, j, m.request, m.saw) /\ (alone = {} => j = Len(s) /\ Len(m.saw) = j)
  PROVE  Seen(Append(s, m), alone)
<1> DEFINE q == Append(s, m)
<1>0. Len(s) \in Nat /\ Len(q) = Len(s) + 1 /\ q[Len(s) + 1] = m
      /\ \A i \in 1..Len(s) : q[i] = s[i]
  OBVIOUS
<1>1. ASSUME NEW i \in 1..Len(q), q[i].role = "assistant"
      PROVE  \E j \in 1 .. i - 1 :
               /\ Shows(q, j, q[i].request, q[i].saw)
               /\ alone = {} => j = i - 1 /\ Len(q[i].saw) = j
  <2>1. CASE i \in 1..Len(s)
    <3>1. q[i] = s[i]
      BY <1>0, <2>1
    <3>2. PICK j \in 1 .. i - 1 :
            /\ Shows(s, j, s[i].request, s[i].saw)
            /\ alone = {} => j = i - 1 /\ Len(s[i].saw) = j
      BY <1>1, <2>1, <3>1 DEF Seen
    <3>3. Shows(q, j, s[i].request, s[i].saw)
      BY <3>2, StillShows
    <3> QED BY <3>1, <3>2, <3>3
  <2>2. CASE i = Len(s) + 1
    <3>1. q[i] = m
      BY <1>0, <2>2
    <3>2. PICK j \in 1..Len(s) :
            Shows(s, j, m.request, m.saw) /\ (alone = {} => j = Len(s) /\ Len(m.saw) = j)
      BY <1>1, <3>1
    <3>3. Shows(q, j, m.request, m.saw)
      BY <3>2, StillShows
    <3>4. j \in 1 .. i - 1 /\ (j = Len(s) => j = i - 1)
      BY <1>0, <2>2
    <3> HIDE DEF q
    <3> QED BY <3>1, <3>2, <3>3, <3>4
  <2> QED BY <1>0, <1>1, <2>1, <2>2
<1> HIDE DEF q
<1>2. Seen(q, alone)
  BY <1>1 DEF Seen
<1> QED BY <1>2 DEF q

-----------------------------------------------------------------------------
(* Conversations: the steps *)

LEMMA ChatBegins == Chat!Init => ChatInv
<1> SUFFICES ASSUME Chat!Init PROVE ChatInv
  OBVIOUS
<1>1. /\ chat = [c \in Conversations |-> <<>>] /\ notes = Absent /\ notesAsked = Absent
      /\ talker = [a \in Clients |-> Chat!Idle] /\ requests = 0 /\ mixed = {}
  BY DEF Chat!Init
<1>2. Chat!Idle.op = "idle"
  BY DEF Chat!Idle
<1>3. ChatTyped
  <2>1. <<>> \in Seq(Message) /\ Chat!Idle \in TalkerRecord
    BY DEF TalkerRecord
  <2> QED BY <1>1, <2>1 DEF ChatTyped
<1>4. \A c \in Conversations : Conversation(c, chat[c], talker, {c} \cap mixed)
  BY <1>1, <1>2 DEF Conversation, Seen, Talks, OneTalker
<1>5. NotesHold(notes, notesAsked, talker)
  BY <1>1, <1>2 DEF NotesHold, OneSettler, SettlerWell
<1>6. Loaded(talker, notes)
  BY <1>1, <1>2 DEF Loaded
<1> QED BY <1>3, <1>4, <1>5, <1>6 DEF ChatInv

LEMMA TalkerSet ==
  ASSUME ChatInv, NEW a \in Clients, NEW t, talker' = [talker EXCEPT ![a] = t]
  PROVE  talker'[a] = t /\ \A b \in Clients \ {a} : talker'[b] = talker[b]
BY DEF ChatInv, ChatTyped

\* What a is in, whoever else is there, is what it was in.
StillTalks(t, u) ==
  \A c \in Conversations : Talks(t, c) => Talks(u, c) /\ TalkerWell(t, chat[c], {c} \cap mixed)

LEMMA TalkGoesOn ==
  ASSUME ChatInv, NEW a \in Clients, NEW t, talker' = [talker EXCEPT ![a] = t],
         chat' = chat, mixed' = mixed, StillTalks(t, talker[a])
  PROVE  \A c \in Conversations : Conversation(c, chat'[c], talker', {c} \cap mixed')
<1> SUFFICES ASSUME NEW c \in Conversations
             PROVE  Conversation(c, chat[c], talker', {c} \cap mixed)
  OBVIOUS
<1>1. Conversation(c, chat[c], talker, {c} \cap mixed)
  BY DEF ChatInv
<1>2. talker'[a] = t /\ \A b \in Clients \ {a} : talker'[b] = talker[b]
  BY TalkerSet
<1>3. Talks(t, c) => Talks(talker[a], c) /\ TalkerWell(t, chat[c], {c} \cap mixed)
  BY DEF StillTalks
<1>4. \A b \in Clients : Talks(talker'[b], c) =>
        Talks(talker[b], c) /\ TalkerWell(talker'[b], chat[c], {c} \cap mixed)
  BY <1>1, <1>2, <1>3 DEF Conversation
<1>5. OneTalker(c, talker) => OneTalker(c, talker')
  BY <1>4 DEF OneTalker
<1> QED BY <1>1, <1>4, <1>5 DEF Conversation

LEMMA NotesGoOn ==
  ASSUME ChatInv, NEW a \in Clients, NEW t, talker' = [talker EXCEPT ![a] = t],
         notes' = notes, notesAsked' = notesAsked, notesRaced' = notesRaced,
         t.op = "configure" =>
           talker[a].op = "configure" /\ (SettlerWell(talker[a], notes) => SettlerWell(t, notes))
  PROVE  ~notesRaced' => NotesHold(notes', notesAsked', talker')
<1> SUFFICES ASSUME ~notesRaced PROVE NotesHold(notes, notesAsked, talker')
  OBVIOUS
<1>1. NotesHold(notes, notesAsked, talker)
  BY DEF ChatInv
<1>2. talker'[a] = t /\ \A b \in Clients \ {a} : talker'[b] = talker[b]
  BY TalkerSet
<1>3. \A b \in Clients : talker'[b].op = "configure" => talker[b].op = "configure"
  BY <1>2
<1>4. OneSettler(talker')
  BY <1>1, <1>3 DEF NotesHold, OneSettler
<1>5. SettlerWell(t, notes)
  BY <1>1 DEF NotesHold, SettlerWell
<1>6. \A b \in Clients : SettlerWell(talker'[b], notes)
  BY <1>1, <1>2, <1>5 DEF NotesHold
<1> QED BY <1>1, <1>4, <1>6 DEF NotesHold

\* A step of a that leaves the tables alone.
LEMMA TalkerGoesOn ==
  ASSUME ChatInv, NEW a \in Clients, NEW t \in TalkerRecord,
         talker' = [talker EXCEPT ![a] = t], requests' \in Nat,
         UNCHANGED <<chat, mixed, notes, notesAsked, notesRaced>>,
         StillTalks(t, talker[a]),
         t.op = "configure" =>
           /\ talker[a].op = "configure" /\ notes # Absent
           /\ SettlerWell(talker[a], notes) => SettlerWell(t, notes)
  PROVE  ChatInv'
<1>1. ChatTyped'
  BY DEF ChatInv, ChatTyped, TalkerRecord
<1>2. \A c \in Conversations : Conversation(c, chat'[c], talker', {c} \cap mixed')
  BY TalkGoesOn
<1>3. ~notesRaced' => NotesHold(notes', notesAsked', talker')
  BY NotesGoOn
<1>4. Loaded(talker', notes')
  BY TalkerSet DEF ChatInv, Loaded
<1> QED BY <1>1, <1>2, <1>3, <1>4 DEF ChatInv

LEMMA CutOffTalker ==
  ASSUME ChatInv, NEW a \in Clients, Chat!CutOff(a)
  PROVE  ChatInv'
<1>1. /\ talker' = [talker EXCEPT ![a] = Chat!Idle] /\ requests' \in Nat
      /\ UNCHANGED <<chat, mixed, notes, notesAsked, notesRaced>>
  BY DEF Chat!CutOff, Chat!Do, ChatInv, ChatTyped
<1>2. Chat!Idle \in TalkerRecord /\ Chat!Idle.op = "idle"
  BY DEF TalkerRecord, Chat!Idle
<1>3. StillTalks(Chat!Idle, talker[a])
  BY <1>2 DEF StillTalks, Talks
<1> QED BY <1>1, <1>2, <1>3, TalkerGoesOn

LEMMA ToolsKeep ==
  ASSUME ChatInv, NEW a \in Clients, Chat!Dispatch(a)
  PROVE  ChatInv'
<1> DEFINE n == talker[a].rounds + 1
           t == [talker[a] EXCEPT !.rounds = n, !.at = IF n = MaxRounds THEN "reply" ELSE "work"]
<1>1. /\ talker' = [talker EXCEPT ![a] = t] /\ requests' \in Nat
      /\ UNCHANGED <<chat, mixed, notes, notesAsked, notesRaced>>
  BY DEF Chat!Dispatch, Chat!Do, ChatInv, ChatTyped
<1>2. talker[a] \in Answering
  BY DEF Chat!Dispatch, Chat!Talking, Chat!In, ChatInv, ChatTyped, TalkerRecord, Chat!Idle, Sending,
         Settling
<1>3. /\ t \in Answering /\ t.op = "send" /\ t.conversation = talker[a].conversation
      /\ t.request = talker[a].request /\ t.saw = talker[a].saw
  <2> DEFINE step == IF n = MaxRounds THEN "reply" ELSE "work"
  <2>1. step \in {"work", "dispatch", "reply"}
    OBVIOUS
  <2>2. t = [talker[a] EXCEPT !.rounds = n, !.at = step]
    OBVIOUS
  <2>3. n \in Int
    BY <1>2 DEF Answering
  <2> HIDE DEF step, t, n
  <2> QED BY <1>2, <2>1, <2>2, <2>3 DEF Answering
<1> HIDE DEF t
<1>4. StillTalks(t, talker[a])
  <2> SUFFICES ASSUME NEW c \in Conversations, Talks(t, c)
               PROVE  Talks(talker[a], c) /\ TalkerWell(t, chat[c], {c} \cap mixed)
    BY DEF StillTalks
  <2>1. Talks(talker[a], c)
    BY <1>2, <1>3 DEF Talks, Answering
  <2>2. TalkerWell(talker[a], chat[c], {c} \cap mixed)
    BY <2>1 DEF ChatInv, Conversation
  <2>3. t \notin Sending
    BY <1>3 DEF Answering, Sending
  <2> QED BY <1>2, <1>3, <2>1, <2>2, <2>3 DEF TalkerWell
<1>5. t \in TalkerRecord
  BY <1>3 DEF TalkerRecord
<1> QED BY <1>1, <1>3, <1>4, <1>5, TalkerGoesOn

LEMMA CompleteKeeps ==
  ASSUME ChatInv, NEW a \in Clients, NEW reply \in {"tools", "answer", "nothing"},
         Chat!Complete(a, reply)
  PROVE  ChatInv'
<1> DEFINE t == [talker[a] EXCEPT !.at = IF reply = "tools" THEN "dispatch" ELSE "reply",
                                  !.text = reply]
<1>1. /\ talker' = [talker EXCEPT ![a] = t] /\ requests' \in Nat
      /\ UNCHANGED <<chat, mixed, notes, notesAsked, notesRaced>>
  BY DEF Chat!Complete, Chat!Do, ChatInv, ChatTyped
<1>2. talker[a] \in Answering
  BY DEF Chat!Complete, Chat!Talking, Chat!In, ChatInv, ChatTyped, TalkerRecord, Chat!Idle, Sending,
         Settling
<1>3. /\ t \in Answering /\ t.op = "send" /\ t.conversation = talker[a].conversation
      /\ t.request = talker[a].request /\ t.saw = talker[a].saw
  <2> DEFINE step == IF reply = "tools" THEN "dispatch" ELSE "reply"
  <2>1. step \in {"work", "dispatch", "reply"}
    OBVIOUS
  <2>2. t = [talker[a] EXCEPT !.at = step, !.text = reply]
    OBVIOUS
  <2> HIDE DEF step, t
  <2> QED BY <1>2, <2>1, <2>2 DEF Answering
<1> HIDE DEF t
<1>4. StillTalks(t, talker[a])
  <2> SUFFICES ASSUME NEW c \in Conversations, Talks(t, c)
               PROVE  Talks(talker[a], c) /\ TalkerWell(t, chat[c], {c} \cap mixed)
    BY DEF StillTalks
  <2>1. Talks(talker[a], c)
    BY <1>2, <1>3 DEF Talks, Answering
  <2>2. TalkerWell(talker[a], chat[c], {c} \cap mixed)
    BY <2>1 DEF ChatInv, Conversation
  <2>3. t \notin Sending
    BY <1>3 DEF Answering, Sending
  <2> QED BY <1>2, <1>3, <2>1, <2>2, <2>3 DEF TalkerWell
<1>5. t \in TalkerRecord
  BY <1>3 DEF TalkerRecord
<1> QED BY <1>1, <1>3, <1>4, <1>5, TalkerGoesOn

LEMMA SendKeeps ==
  ASSUME ChatInv, NEW a \in Clients, NEW c \in Conversations, Chat!Send(a, c)
  PROVE  ChatInv'
<1> DEFINE t == [op |-> "send", at |-> "ask", request |-> requests + 1, conversation |-> c]
<1>1. /\ talker[a] = Chat!Idle /\ talker' = [talker EXCEPT ![a] = t] /\ requests' = requests + 1
      /\ UNCHANGED <<chat, notes, notesAsked, notesRaced>>
      /\ mixed' = IF \E b \in Clients : Chat!Talking(b) /\ talker[b].conversation = c
                  THEN mixed \cup {c} ELSE mixed
  BY DEF Chat!Send, Chat!Do, Chat!NextRequest
<1>2. requests' \in Nat /\ t \in Sending
  BY <1>1 DEF ChatInv, ChatTyped, Sending
<1>3. t \notin Answering /\ t.op = "send" /\ t.at = "ask" /\ t.conversation = c
  BY DEF Answering
<1>4. talker'[a] = t /\ \A b \in Clients \ {a} : talker'[b] = talker[b]
  BY <1>1, TalkerSet
<1>5. mixed \subseteq mixed' /\ (c \notin mixed' => \A b \in Clients : ~Talks(talker[b], c))
  BY <1>1 DEF Chat!Talking, Talks
<1> HIDE DEF t
<1>6. ChatTyped'
  BY <1>1, <1>2 DEF ChatInv, ChatTyped, TalkerRecord
<1>7. ASSUME NEW d \in Conversations
      PROVE  Conversation(d, chat'[d], talker', {d} \cap mixed')
  <2>1. Conversation(d, chat[d], talker, {d} \cap mixed) /\ chat'[d] = chat[d]
    BY <1>1 DEF ChatInv
  <2>2. {d} \cap mixed' = {} => {d} \cap mixed = {}
    BY <1>5
  <2>3. Seen(chat[d], {d} \cap mixed')
    BY <2>1, <2>2 DEF Conversation, Seen
  <2>4. ASSUME NEW b \in Clients, Talks(talker'[b], d)
        PROVE  TalkerWell(talker'[b], chat[d], {d} \cap mixed')
    <3>1. CASE b = a
      BY <1>3, <1>4, <3>1 DEF TalkerWell
    <3>2. CASE b # a
      <4>1. TalkerWell(talker[b], chat[d], {d} \cap mixed) /\ talker'[b] = talker[b]
        BY <1>4, <2>1, <2>4, <3>2 DEF Conversation
      <4> QED BY <2>2, <4>1 DEF TalkerWell
    <3> QED BY <3>1, <3>2
  <2>5. ASSUME {d} \cap mixed' = {} PROVE OneTalker(d, talker')
    <3>1. OneTalker(d, talker)
      BY <2>1, <2>2, <2>5 DEF Conversation
    <3>2. CASE d = c
      <4>1. \A b \in Clients \ {a} : ~Talks(talker'[b], d)
        BY <1>4, <1>5, <2>5, <3>2
      <4> QED BY <4>1 DEF OneTalker
    <3>3. CASE d # c
      <4>1. ~Talks(talker'[a], d)
        BY <1>3, <1>4, <3>3 DEF Talks
      <4> QED BY <1>4, <3>1, <4>1 DEF OneTalker
    <3> QED BY <3>2, <3>3
  <2> QED BY <2>1, <2>3, <2>4, <2>5 DEF Conversation
<1>8. ~notesRaced' => NotesHold(notes', notesAsked', talker')
  BY <1>1, <1>3, NotesGoOn
<1>9. Loaded(talker', notes')
  BY <1>1, <1>3, <1>4 DEF ChatInv, Loaded
<1> QED BY <1>6, <1>7, <1>8, <1>9 DEF ChatInv

\* A message m more in a's conversation, after which a is in it as t or not at all.
LEMMA MessageKeeps ==
  ASSUME ChatInv, NEW a \in Clients, NEW t \in TalkerRecord, NEW m \in Message,
         NEW c \in Conversations, Talks(talker[a], c), t.op # "configure",
         talker' = [talker EXCEPT ![a] = t], chat' = [chat EXCEPT ![c] = Append(@, m)],
         UNCHANGED <<requests, mixed, notes, notesAsked, notesRaced>>,
         t.op = "send" => Talks(t, c) /\ TalkerWell(t, Append(chat[c], m), {c} \cap mixed),
         Seen(Append(chat[c], m), {c} \cap mixed)
  PROVE  ChatInv'
<1>1. chat \in [Conversations -> Seq(Message)] /\ chat[c] \in Seq(Message)
  BY DEF ChatInv, ChatTyped
<1>2. Append(chat[c], m) \in Seq(Message)
  BY <1>1
<1>3. chat'[c] = Append(chat[c], m) /\ \A d \in Conversations \ {c} : chat'[d] = chat[d]
  BY <1>1
<1>4. talker'[a] = t /\ \A b \in Clients \ {a} : talker'[b] = talker[b]
  BY TalkerSet
<1>5. ChatTyped'
  BY <1>1, <1>2 DEF ChatInv, ChatTyped
<1>6. \A b \in Clients, d \in Conversations : Talks(talker'[b], d) => Talks(talker[b], d)
  BY <1>4 DEF Talks
<1>7. ASSUME NEW d \in Conversations
      PROVE  Conversation(d, chat'[d], talker', {d} \cap mixed')
  <2>1. Conversation(d, chat[d], talker, {d} \cap mixed) /\ mixed' = mixed
    BY DEF ChatInv
  <2>2. OneTalker(d, talker) => OneTalker(d, talker')
    BY <1>6 DEF OneTalker
  <2>3. CASE d # c
    <3>1. chat'[d] = chat[d] /\ ~Talks(t, d)
      BY <1>3, <2>3 DEF Talks
    <3>2. \A b \in Clients : Talks(talker'[b], d) => TalkerWell(talker'[b], chat[d], {d} \cap mixed)
      BY <1>4, <2>1, <3>1 DEF Conversation
    <3> QED BY <2>1, <2>2, <3>1, <3>2 DEF Conversation
  <2>4. CASE d = c
    <3>1. ASSUME NEW b \in Clients, Talks(talker'[b], c)
          PROVE  TalkerWell(talker'[b], chat'[c], {c} \cap mixed)
      <4>1. CASE b = a
        BY <1>3, <1>4, <3>1, <4>1 DEF Talks
      <4>2. CASE b # a
        <5>1. talker'[b] = talker[b] /\ Talks(talker[b], c)
              /\ TalkerWell(talker[b], chat[c], {c} \cap mixed)
          BY <1>4, <2>1, <2>4, <3>1, <4>2 DEF Conversation
        <5>2. {c} \cap mixed # {}
          BY <2>1, <2>4, <4>2, <5>1 DEF Conversation, OneTalker
        <5>3. \A j \in 1..Len(chat[c]) :
                /\ j \in 1..Len(chat'[c]) /\ chat'[c][j] = chat[c][j]
                /\ \A r, saw : Shows(chat[c], j, r, saw) => Shows(chat'[c], j, r, saw)
          BY <1>1, <1>3, StillShows, StillBegins
        <5> QED BY <5>1, <5>2, <5>3 DEF TalkerWell
      <4> QED BY <4>1, <4>2
    <3> QED BY <1>3, <2>1, <2>2, <2>4, <3>1 DEF Conversation
  <2> QED BY <2>3, <2>4
<1>8. ~notesRaced' => NotesHold(notes', notesAsked', talker')
  BY NotesGoOn
<1>9. Loaded(talker', notes')
  BY <1>4 DEF ChatInv, Loaded
<1> QED BY <1>5, <1>7, <1>8, <1>9 DEF ChatInv

LEMMA SaveQuestionKeeps ==
  ASSUME ChatInv, NEW a \in Clients, Chat!SaveQuestion(a)
  PROVE  ChatInv'
<1> DEFINE c == talker[a].conversation
           m == Question(talker[a].request)
           t == [talker[a] EXCEPT !.at = "read"]
<1>1. /\ chat' = [chat EXCEPT ![c] = Append(@, m)] /\ talker' = [talker EXCEPT ![a] = t]
      /\ UNCHANGED <<requests, mixed, notes, notesAsked, notesRaced>>
  BY DEF Chat!SaveQuestion, Chat!Do, Question
<1>2. talker[a] \in Sending /\ talker[a].at = "ask"
  BY DEF Chat!SaveQuestion, Chat!Talking, Chat!In, ChatInv, ChatTyped, TalkerRecord, Chat!Idle,
         Answering, Settling
<1>3. /\ t \in Sending /\ t.op = "send" /\ t.conversation = c /\ t.request = talker[a].request
      /\ c \in Conversations /\ Talks(talker[a], c) /\ Talks(t, c)
  BY <1>2 DEF Sending, Talks
<1>4. m \in Message /\ m.role = "user"
  BY <1>2 DEF Message, Question, Sending
<1>5. chat[c] \in Seq(Message) /\ Conversation(c, chat[c], talker, {c} \cap mixed)
  BY <1>3 DEF ChatInv, ChatTyped
<1> HIDE DEF t, m, c
<1>6. Seen(Append(chat[c], m), {c} \cap mixed)
  BY <1>4, <1>5, SeenAppend DEF Conversation
<1>7. TalkerWell(t, Append(chat[c], m), {c} \cap mixed)
  <2>1. /\ Len(Append(chat[c], m)) \in 1..Len(Append(chat[c], m))
        /\ Append(chat[c], m)[Len(Append(chat[c], m))] = m
    BY <1>4, <1>5
  <2>2. m = Question(t.request) /\ t \notin Answering
    BY <1>3 DEF m, Sending, Answering
  <2> QED BY <2>1, <2>2 DEF TalkerWell
<1>8. t \in TalkerRecord /\ t.op # "configure"
  BY <1>3 DEF TalkerRecord
<1> QED BY <1>1, <1>3, <1>4, <1>6, <1>7, <1>8, MessageKeeps

LEMMA ReadHistoryKeeps ==
  ASSUME ChatInv, NEW a \in Clients, Chat!ReadHistory(a)
  PROVE  ChatInv'
<1> DEFINE c == talker[a].conversation
           s == chat[c]
           t == [op |-> "send", at |-> "work", request |-> talker[a].request,
                 conversation |-> c, rounds |-> 0, text |-> "tools",
                 saw |-> Chat!Told(Chat!History(s))]
<1>1. /\ talker' = [talker EXCEPT ![a] = t]
      /\ UNCHANGED <<chat, requests, mixed, notes, notesAsked, notesRaced>>
  BY DEF Chat!ReadHistory, Chat!Do
<1>2. talker[a] \in Sending /\ talker[a].at = "read"
  BY DEF Chat!ReadHistory, Chat!Talking, Chat!In, ChatInv, ChatTyped, TalkerRecord, Chat!Idle,
         Answering, Settling
<1>3. /\ talker[a].request \in Nat /\ c \in Conversations
      /\ Talks(talker[a], c) /\ s \in Seq(Message)
  BY <1>2 DEF Sending, Talks, ChatInv, ChatTyped
<1>4. /\ t.saw = Chat!Told(s) /\ Chat!Told(s) \in Seq(Brief) /\ Len(Chat!Told(s)) = Len(s)
  BY <1>3, HistoryIsAll, ToldBriefly
<1>5. t \in Answering
  BY <1>3, <1>4 DEF Answering
<1>6. t.op = "send" /\ t.conversation = c /\ t.request = talker[a].request
  OBVIOUS
<1> HIDE DEF t
<1>7. TalkerWell(talker[a], s, {c} \cap mixed)
  BY <1>3 DEF ChatInv, Conversation
<1> HIDE DEF s, c
<1>8. PICK j \in 1..Len(s) :
        s[j] = Question(t.request) /\ ({c} \cap mixed = {} => j = Len(s))
  BY <1>2, <1>6, <1>7 DEF TalkerWell
<1>9. Shows(s, j, t.request, t.saw)
  BY <1>3, <1>4, <1>8, ToldBegins DEF Shows
<1>10. TalkerWell(t, s, {c} \cap mixed)
  <2>1. t \notin Sending
    BY <1>5 DEF Sending, Answering
  <2> QED BY <1>4, <1>8, <1>9, <2>1 DEF TalkerWell
<1>11. StillTalks(t, talker[a])
  BY <1>3, <1>6, <1>10 DEF StillTalks, Talks, s
<1>12. t \in TalkerRecord /\ t.op # "configure" /\ requests' \in Nat
  BY <1>1, <1>5, <1>6 DEF TalkerRecord, ChatInv, ChatTyped
<1> QED BY <1>1, <1>11, <1>12, TalkerGoesOn

LEMMA SaveAnswerKeeps ==
  ASSUME ChatInv, NEW a \in Clients, Chat!SaveAnswer(a)
  PROVE  ChatInv'
<1> DEFINE c == talker[a].conversation
           m == [role |-> "assistant", request |-> talker[a].request, saw |-> talker[a].saw,
                 text |-> IF talker[a].text = "answer" THEN "answer" ELSE "apology"]
<1>1. /\ chat' = [chat EXCEPT ![c] = Append(@, m)]
      /\ talker' = [talker EXCEPT ![a] = Chat!Idle]
      /\ UNCHANGED <<requests, mixed, notes, notesAsked, notesRaced>>
  BY DEF Chat!SaveAnswer, Chat!Do
<1>2. talker[a] \in Answering
  BY DEF Chat!SaveAnswer, Chat!Talking, Chat!In, ChatInv, ChatTyped, TalkerRecord, Chat!Idle,
         Sending, Settling
<1>3. c \in Conversations /\ Talks(talker[a], c)
  BY <1>2 DEF Answering, Talks
<1>4. m \in Message /\ m.request = talker[a].request /\ m.saw = talker[a].saw
  BY <1>2 DEF Message, Answering
<1>5. chat[c] \in Seq(Message) /\ Conversation(c, chat[c], talker, {c} \cap mixed)
  BY <1>3 DEF ChatInv, ChatTyped
<1> HIDE DEF m, c
<1>6. Seen(Append(chat[c], m), {c} \cap mixed)
  <2>1. TalkerWell(talker[a], chat[c], {c} \cap mixed)
    BY <1>3, <1>5 DEF Conversation
  <2>2. \E j \in 1..Len(chat[c]) :
          /\ Shows(chat[c], j, m.request, m.saw)
          /\ {c} \cap mixed = {} => j = Len(chat[c]) /\ Len(m.saw) = j
    BY <1>2, <1>4, <2>1 DEF TalkerWell
  <2> QED BY <1>4, <1>5, <2>2, SeenAppend DEF Conversation
<1>7. Chat!Idle \in TalkerRecord /\ Chat!Idle.op = "idle"
  BY DEF TalkerRecord, Chat!Idle
<1> QED BY <1>1, <1>3, <1>4, <1>6, <1>7, MessageKeeps

-----------------------------------------------------------------------------
(* The configuration *)

LEMMA TalkAside ==
  ASSUME ChatInv, NEW a \in Clients, NEW t, talker' = [talker EXCEPT ![a] = t],
         chat' = chat, mixed' = mixed, t.op # "send"
  PROVE  \A c \in Conversations : Conversation(c, chat'[c], talker', {c} \cap mixed')
<1>1. StillTalks(t, talker[a])
  BY DEF StillTalks, Talks
<1> QED BY <1>1, TalkGoesOn

LEMMA ConfigureKeeps ==
  ASSUME ChatInv, NEW a \in Clients, NEW F \in SUBSET Chat!Fields, NEW v \in 0..1,
         Chat!Configure(a, F, v)
  PROVE  ChatInv'
<1> DEFINE row == IF notes # Absent THEN notes ELSE Chat!Default
           w == Chat!Given(row, F, v)
           t == [op |-> "configure", at |-> IF notes # Absent THEN "load" ELSE "insert",
                 want |-> w, loaded |-> Absent, fields |-> F]
<1>1. /\ talker' = [talker EXCEPT ![a] = t] /\ requests' = requests + 1
      /\ UNCHANGED <<chat, mixed, notes, notesAsked>>
      /\ notesRaced' = (notesRaced \/ \E b \in Clients : Chat!Configuring(b))
      /\ talker[a] = Chat!Idle
  BY DEF Chat!Configure, Chat!Do, Chat!NextRequest, Chat!Exists
<1>2. row \in Chat!Config
  BY DEF ChatInv, ChatTyped, Chat!Config, Chat!Default
<1>3. w \in Chat!Config /\ \A f \in Chat!Fields \ F : w[f] = row[f]
  BY <1>2 DEF Chat!Config, Chat!Given
<1>4. \A f \in Chat!Fields : Chat!Default[f] = 0
  BY DEF Chat!Default
<1>5. requests' \in Nat
  BY <1>1 DEF ChatInv, ChatTyped
<1> HIDE DEF w
<1>6. t \in Settling
  BY <1>3 DEF Settling
<1>7. /\ t.op = "configure" /\ t.fields = F /\ t.want = w
      /\ t.at = "insert" <=> notes = Absent
      /\ t.at # "write"
  OBVIOUS
<1> HIDE DEF t
<1>8. SettlerWell(t, notes)
  BY <1>3, <1>4, <1>7 DEF SettlerWell
<1>9. talker'[a] = t /\ \A b \in Clients \ {a} : talker'[b] = talker[b]
  BY <1>1, TalkerSet
<1>10. ASSUME ~notesRaced' PROVE NotesHold(notes, notesAsked, talker')
  <2>1. ~notesRaced /\ \A b \in Clients : talker[b].op # "configure"
    BY <1>1, <1>10, Zenon DEF Chat!Configuring, ChatInv, ChatTyped
  <2>2. NotesHold(notes, notesAsked, talker)
    BY <2>1 DEF ChatInv
  <2>3. OneSettler(talker')
    BY <1>9, <2>1 DEF OneSettler
  <2>4. \A b \in Clients : SettlerWell(talker'[b], notes)
    BY <1>8, <1>9, <2>2 DEF NotesHold
  <2> QED BY <2>2, <2>3, <2>4 DEF NotesHold
<1>11. ChatTyped'
  BY <1>1, <1>5, <1>6 DEF ChatInv, ChatTyped, TalkerRecord
<1>12. \A c \in Conversations : Conversation(c, chat'[c], talker', {c} \cap mixed')
  BY <1>1, <1>7, TalkAside
<1>13. Loaded(talker', notes')
  BY <1>1, <1>7, <1>9 DEF ChatInv, Loaded
<1> QED BY <1>1, <1>10, <1>11, <1>12, <1>13 DEF ChatInv

LEMMA LoadConfigKeeps ==
  ASSUME ChatInv, NEW a \in Clients, Chat!LoadConfig(a)
  PROVE  ChatInv'
<1> DEFINE t == [talker[a] EXCEPT !.at = "write", !.loaded = notes]
<1>1. /\ talker' = [talker EXCEPT ![a] = t] /\ talker[a].at = "load"
      /\ UNCHANGED <<chat, requests, mixed, notes, notesAsked, notesRaced>>
  BY DEF Chat!LoadConfig, Chat!Do, Chat!In
<1>2. talker[a] \in Settling
  BY DEF Chat!LoadConfig, Chat!Configuring, Chat!In, ChatInv, ChatTyped, TalkerRecord, Chat!Idle,
         Sending, Answering
<1>3. requests' \in Nat /\ notes \in Chat!Config \cup {Absent}
  BY <1>1 DEF ChatInv, ChatTyped
<1>4. /\ t \in Settling /\ t.op = "configure" /\ t.at = "write" /\ t.loaded = notes
      /\ t.want = talker[a].want /\ t.fields = talker[a].fields
      /\ talker[a].op = "configure"
  BY <1>2, <1>3 DEF Settling
<1> HIDE DEF t
<1>5. notes # Absent /\ (SettlerWell(talker[a], notes) => SettlerWell(t, notes))
  BY <1>1, <1>4 DEF SettlerWell, ChatInv, Loaded
<1>6. StillTalks(t, talker[a])
  BY <1>4 DEF StillTalks, Talks
<1>7. t \in TalkerRecord
  BY <1>4 DEF TalkerRecord
<1> QED BY <1>1, <1>3, <1>4, <1>5, <1>6, <1>7, TalkerGoesOn

LEMMA AbsentConfig == Absent \notin Chat!Config
BY BackOfficeConstants

LEMMA InsertConfigKeeps ==
  ASSUME ChatInv, NEW a \in Clients, Chat!InsertConfig(a)
  PROVE  ChatInv'
<1> DEFINE t == talker[a]
<1>1. /\ t.op = "configure" /\ t.at = "insert"
      /\ IF notes # Absent THEN UNCHANGED <<notes, notesAsked>>
         ELSE notes' = t.want /\ Chat!Ask(t)
      /\ talker' = [talker EXCEPT ![a] = Chat!Idle]
      /\ UNCHANGED <<chat, requests, mixed, notesRaced>>
  BY DEF Chat!InsertConfig, Chat!Configuring, Chat!In, Chat!Do, Chat!Exists
<1>2. t \in Settling
  BY <1>1 DEF ChatInv, ChatTyped, TalkerRecord, Chat!Idle, Sending, Answering
<1>3. Chat!Idle \in TalkerRecord /\ Chat!Idle.op = "idle"
  BY DEF TalkerRecord, Chat!Idle
<1>4. talker'[a] = Chat!Idle /\ \A b \in Clients \ {a} : talker'[b] = talker[b]
  BY <1>1, TalkerSet
<1>5. t.want \in Chat!Config /\ t.fields \in SUBSET Chat!Fields
  BY <1>2 DEF Settling
<1>6. Chat!Ask(t) =>
        notesAsked' \in Chat!Config /\
        (notesAsked = Absent =>
          notesAsked' = [f \in Chat!Fields |-> IF f \in t.fields THEN t.want[f] ELSE 0])
  BY <1>5 DEF Chat!Ask, Chat!Exists, Chat!Default, Chat!Config, ChatInv, ChatTyped
<1> HIDE DEF t
<1>7. ChatTyped'
  BY <1>1, <1>3, <1>5, <1>6 DEF ChatInv, ChatTyped
<1>8. \A c \in Conversations : Conversation(c, chat'[c], talker', {c} \cap mixed')
  BY <1>1, <1>3, TalkAside
<1>9. ASSUME ~notesRaced' PROVE NotesHold(notes', notesAsked', talker')
  <2>1. NotesHold(notes, notesAsked, talker)
    BY <1>1, <1>9 DEF ChatInv
  <2>2. /\ notes = notesAsked /\ OneSettler(talker) /\ SettlerWell(t, notes)
        /\ talker[a].op = "configure"
    BY <1>1, <2>1 DEF NotesHold, t
  <2>3. notes = Absent /\ \A f \in Chat!Fields \ t.fields : t.want[f] = 0
    BY <1>1, <2>2 DEF SettlerWell
  <2>4. notes' = t.want /\ Chat!Ask(t)
    BY <1>1, <2>3
  <2>5. notesAsked' = [f \in Chat!Fields |-> IF f \in t.fields THEN t.want[f] ELSE 0]
    BY <1>6, <2>2, <2>3, <2>4
  <2>6. t.want = [f \in Chat!Fields |-> t.want[f]]
    BY <1>5 DEF Chat!Config
  <2>7. notes' = notesAsked'
    BY <2>3, <2>4, <2>5, <2>6
  <2>8. \A b \in Clients : talker'[b].op # "configure"
    BY <1>3, <1>4, <2>2 DEF OneSettler
  <2> QED BY <2>7, <2>8 DEF NotesHold, OneSettler, SettlerWell
<1>10. Loaded(talker', notes')
  BY <1>1, <1>3, <1>4, <1>5, AbsentConfig DEF ChatInv, Loaded
<1> QED BY <1>7, <1>8, <1>9, <1>10 DEF ChatInv

LEMMA WriteConfigKeeps ==
  ASSUME ChatInv, NEW a \in Clients, Chat!WriteConfig(a)
  PROVE  ChatInv'
<1> DEFINE t == talker[a]
           row == [f \in Chat!Fields |->
                     IF t.want[f] # t.loaded[f] THEN t.want[f] ELSE notes[f]]
<1>1. /\ t.op = "configure" /\ t.at = "write"
      /\ notes' = row /\ Chat!Ask(t)
      /\ talker' = [talker EXCEPT ![a] = Chat!Idle]
      /\ UNCHANGED <<chat, requests, mixed, notesRaced>>
  BY DEF Chat!WriteConfig, Chat!Configuring, Chat!In, Chat!Do
<1>2. t \in Settling
  BY <1>1 DEF ChatInv, ChatTyped, TalkerRecord, Chat!Idle, Sending, Answering
<1>3. Chat!Idle \in TalkerRecord /\ Chat!Idle.op = "idle"
  BY DEF TalkerRecord, Chat!Idle
<1>4. talker'[a] = Chat!Idle /\ \A b \in Clients \ {a} : talker'[b] = talker[b]
  BY <1>1, TalkerSet
<1>5. t.want \in Chat!Config /\ t.fields \in SUBSET Chat!Fields
  BY <1>2 DEF Settling
<1>6. /\ notesAsked' \in Chat!Config
      /\ notesAsked # Absent =>
           notesAsked' = [f \in Chat!Fields |-> IF f \in t.fields THEN t.want[f] ELSE notesAsked[f]]
  BY <1>1, <1>5 DEF Chat!Ask, Chat!Exists, Chat!Default, Chat!Config, ChatInv, ChatTyped
<1> HIDE DEF t, row
<1>7. row \in Chat!Config
  <2>1. notes \in Chat!Config
    BY <1>1 DEF ChatInv, ChatTyped, Loaded, t
  <2> QED BY <1>5, <2>1 DEF row, Chat!Config
<1>8. ChatTyped'
  BY <1>1, <1>3, <1>6, <1>7 DEF ChatInv, ChatTyped
<1>9. \A c \in Conversations : Conversation(c, chat'[c], talker', {c} \cap mixed')
  BY <1>1, <1>3, TalkAside
<1>10. ASSUME ~notesRaced' PROVE NotesHold(notes', notesAsked', talker')
  <2>1. NotesHold(notes, notesAsked, talker)
    BY <1>1, <1>10 DEF ChatInv
  <2>2. /\ notes = notesAsked /\ OneSettler(talker) /\ SettlerWell(t, notes)
        /\ talker[a].op = "configure"
    BY <1>1, <2>1 DEF NotesHold, t
  <2>3. /\ notes # Absent /\ t.loaded = notes
        /\ \A f \in Chat!Fields \ t.fields : t.want[f] = notes[f]
    BY <1>1, <2>2 DEF SettlerWell
  <2>4. notesAsked' = [f \in Chat!Fields |-> IF f \in t.fields THEN t.want[f] ELSE notes[f]]
    BY <1>6, <2>2, <2>3
  <2>5. notes' = notesAsked'
    BY <1>1, <2>3, <2>4 DEF row
  <2>6. \A b \in Clients : talker'[b].op # "configure"
    BY <1>3, <1>4, <2>2 DEF OneSettler
  <2> QED BY <2>5, <2>6 DEF NotesHold, OneSettler, SettlerWell
<1>11. Loaded(talker', notes')
  BY <1>1, <1>7, AbsentConfig DEF Loaded
<1> QED BY <1>8, <1>9, <1>10, <1>11 DEF ChatInv

-----------------------------------------------------------------------------
(* What the copilot goes by *)

LEMMA ChatKept ==
  (part = "chat" => ChatInv) /\ [Next]_vars => (part' = "chat" => ChatInv')
<1> SUFFICES ASSUME part = "chat", part' = "chat", ChatInv, [Next]_vars PROVE ChatInv'
  BY DEF Next, Step, vars
<1>1. CASE Chat!Next
  <2>1. PICK a \in Clients :
          \/ \E c \in Conversations : Chat!Send(a, c)
          \/ Chat!SaveQuestion(a) \/ Chat!ReadHistory(a) \/ Chat!Dispatch(a)
          \/ Chat!SaveAnswer(a)
          \/ \E reply \in {"tools", "answer", "nothing"} : Chat!Complete(a, reply)
          \/ \E F \in SUBSET Chat!Fields, v \in 0..1 : Chat!Configure(a, F, v)
          \/ Chat!InsertConfig(a) \/ Chat!LoadConfig(a) \/ Chat!WriteConfig(a)
          \/ Chat!CutOff(a)
    BY <1>1, Zenon DEF Chat!Next
  <2> QED BY <2>1, SendKeeps, SaveQuestionKeeps, ReadHistoryKeeps, ToolsKeep, SaveAnswerKeeps,
             CompleteKeeps, ConfigureKeeps, InsertConfigKeeps, LoadConfigKeeps, WriteConfigKeeps,
             CutOffTalker
<1>2. CASE UNCHANGED <<requests, chatVars>>
  BY <1>2 DEF chatVars, ChatInv, ChatTyped, Conversation, OneTalker, Loaded, NotesHold, OneSettler
<1> QED BY <1>1, <1>2 DEF Next, Step, vars

LEMMA ChatHolds ==
  ChatInv => Chat!AnswersSeeAllUnlessMixed /\ Chat!ConfigAsAskedUnlessRaced
<1> SUFFICES ASSUME ChatInv
             PROVE  Chat!AnswersSeeAllUnlessMixed /\ Chat!ConfigAsAskedUnlessRaced
  OBVIOUS
<1>1. ASSUME NEW c \in Conversations, NEW i \in 1..Len(chat[c]), chat[c][i].role = "assistant"
      PROVE  \E j \in 1 .. i - 1 :
               /\ chat[c][j] = [role |-> "user", request |-> chat[c][i].request]
               /\ Chat!IsPrefix(Chat!Told(SubSeq(chat[c], 1, j)), chat[c][i].saw)
               /\ c \notin mixed => j = i - 1 /\ Len(chat[c][i].saw) = j
  <2>1. Seen(chat[c], {c} \cap mixed)
    BY DEF ChatInv, Conversation
  <2>2. PICK j \in 1 .. i - 1 :
          /\ Shows(chat[c], j, chat[c][i].request, chat[c][i].saw)
          /\ {c} \cap mixed = {} => j = i - 1 /\ Len(chat[c][i].saw) = j
    BY <1>1, <2>1 DEF Seen
  <2> QED BY <2>2 DEF Shows, Question
<1>2. ~notesRaced => notes = notesAsked
  BY DEF ChatInv, NotesHold
<1> QED BY <1>1, <1>2 DEF Chat!AnswersSeeAllUnlessMixed, Chat!ConfigAsAskedUnlessRaced

\* The copilot answers with the whole conversation in sight, and by the configuration
\* asked for, unless two requests met.
THEOREM CopilotSeesAll == Spec => []CopilotSeesAllUnlessMixed
<1>1. Init => (part = "chat" => ChatInv)
  BY ChatBegins DEF Init
<1>2. (part = "chat" => ChatInv) /\ [Next]_vars => (part = "chat" => ChatInv)'
  BY ChatKept
<1>3. (part = "chat" => ChatInv) => CopilotSeesAllUnlessMixed
  BY ChatHolds DEF CopilotSeesAllUnlessMixed
<1> QED BY <1>1, <1>2, <1>3, PTL DEF Spec

-----------------------------------------------------------------------------
(* Figures: the inductive invariant *)

FetchRecord ==
  [at : {"idle", "running", "completed", "failed"}, slice : Figures!Slices,
   targets : SUBSET Figures!AccountNumbers, ask : SUBSET Figures!AccountNumbers,
   hand : SUBSET Figures!Rows, got : [Figures!Rows -> Nat],
   short : SUBSET Figures!AccountNumbers, records : Nat]

FiguresTyped ==
  /\ truth \in Nat \ {0}
  /\ figure \in [Figures!Rows -> Nat] /\ file \in [Figures!Rows -> Nat]
  /\ sync \in [Syncs -> FetchRecord]
  /\ \A k \in Figures!Rows : figure[k] <= truth /\ file[k] <= truth

\* An execution counts what it got and has not in hand, has nothing yet of the accounts
\* it is to ask for, nothing that Meta has not said by the version v, and all of those
\* it asked for but what was cut short.
FetchWell(t, v) ==
  /\ t.hand \subseteq Figures!Fetched(t)
  /\ IsFiniteSet(Figures!Fetched(t) \ t.hand) /\ t.records = Cardinality(Figures!Fetched(t) \ t.hand)
  /\ \A k \in Figures!Rows :
       /\ t.got[k] <= v
       /\ k[1] \in t.ask => t.got[k] = 0
       /\ k[1] \in t.targets \ t.short /\ k[1] \notin t.ask /\ k[3] = t.slice => t.got[k] # 0
  /\ t.at = "completed" => t.ask = {} /\ t.hand = {}

\* The version v of the row k is at least as new as any of the executions S got it but
\* one that has it in hand, and no newer than what that one has.
Newest(k, v, S) ==
  \A r \in Syncs :
    /\ k \notin S[r].hand => S[r].got[k] <= v
    /\ k \in S[r].hand => v <= S[r].got[k] /\ \A q \in Syncs \ {r} : k \notin S[q].hand

FiguresInv ==
  /\ FiguresTyped
  /\ \A r \in Syncs : FetchWell(sync[r], truth)
  /\ \A k \in Figures!Rows \ outdone : Newest(k, figure[k], sync)

LEMMA RowParts ==
  /\ \A k \in Figures!Rows :
       k[1] \in Figures!AccountNumbers /\ k[2] \in Figures!AdNumbers /\ k[3] \in Figures!Slices
  /\ \A a \in Figures!AccountNumbers, slice \in Figures!Slices :
       \A k \in Figures!RowsOf(a, slice) : k \in Figures!Rows /\ k[1] = a /\ k[3] = slice
  /\ \A k \in Figures!Rows : k \in Figures!RowsOf(k[1], k[3])
BY DEF Figures!Rows, Figures!RowsOf, Figures!Account, Figures!Slice

\* An execution begins with nothing.
LEMMA NothingFetched ==
  ASSUME NEW v \in Nat, NEW t \in FetchRecord, t.hand = {}, t.got = Figures!NoRows,
         t.records = 0, t.ask = t.targets, t.at # "completed"
  PROVE  FetchWell(t, v)
<1>1. \A k \in Figures!Rows : t.got[k] = 0
  BY DEF Figures!NoRows
<1>2. Figures!Fetched(t) = {}
  BY <1>1 DEF Figures!Fetched
<1>3. Figures!Fetched(t) \ t.hand = {}
  BY <1>2
<1>4. IsFiniteSet(Figures!Fetched(t) \ t.hand) /\ Cardinality(Figures!Fetched(t) \ t.hand) = 0
  BY <1>3, FS_EmptySet
<1> QED BY <1>1, <1>2, <1>4 DEF FetchWell

\* The execution r goes on as t, and no row changes but those outdone.
LEMMA SyncGoesOn ==
  ASSUME FiguresInv, NEW r \in Syncs, NEW t \in FetchRecord, FetchWell(t, truth),
         sync' = [sync EXCEPT ![r] = t],
         UNCHANGED <<truth, file>>,
         figure' \in [Figures!Rows -> Nat], \A k \in Figures!Rows : figure'[k] <= truth,
         \A k \in Figures!Rows \ outdone' : Newest(k, figure'[k], sync')
  PROVE  FiguresInv'
<1>1. FiguresTyped'
  BY DEF FiguresInv, FiguresTyped
<1>2. \A q \in Syncs : FetchWell(sync'[q], truth)
  BY DEF FiguresInv, FiguresTyped
<1> QED BY <1>1, <1>2 DEF FiguresInv

\* An execution that holds nothing goes on holding nothing.
LEMMA SyncBeginsAgain ==
  ASSUME FiguresInv, NEW r \in Syncs, NEW t \in FetchRecord, FetchWell(t, truth),
         t.hand = {}, t.got = Figures!NoRows,
         sync' = [sync EXCEPT ![r] = t],
         UNCHANGED <<truth, file, figure, outdone>>
  PROVE  FiguresInv'
<1>1. sync'[r] = t /\ \A q \in Syncs \ {r} : sync'[q] = sync[q]
  BY DEF FiguresInv, FiguresTyped
<1>2. ASSUME NEW k \in Figures!Rows \ outdone PROVE Newest(k, figure[k], sync')
  <2>1. Newest(k, figure[k], sync)
    BY DEF FiguresInv
  <2>2. t.got[k] <= figure[k]
    BY DEF Figures!NoRows, FiguresInv, FiguresTyped
  <2> QED BY <1>1, <2>1, <2>2 DEF Newest
<1>3. figure' \in [Figures!Rows -> Nat] /\ \A k \in Figures!Rows : figure'[k] <= truth
  BY DEF FiguresInv, FiguresTyped
<1> QED BY <1>2, <1>3, SyncGoesOn

LEMMA EmptySync ==
  /\ Figures!NoSync \in FetchRecord
  /\ Figures!NoSync.hand = {} /\ Figures!NoSync.got = Figures!NoRows
  /\ Figures!NoSync.records = 0 /\ Figures!NoSync.targets = {} /\ Figures!NoSync.ask = {}
BY DEF Figures!NoSync, FetchRecord, Figures!Slices, Figures!NoRows

LEMMA FiguresBegin == Figures!Init => FiguresInv
<1> SUFFICES ASSUME Figures!Init PROVE FiguresInv
  OBVIOUS
<1>1. /\ truth = 1 /\ figure = Figures!NoRows /\ file = Figures!NoRows
      /\ sync = [r \in Syncs |-> Figures!NoSync]
  BY DEF Figures!Init
<1>2. Figures!NoSync \in FetchRecord
  BY DEF Figures!NoSync, FetchRecord, Figures!Slices, Figures!NoRows
<1>3. FetchWell(Figures!NoSync, truth)
  BY <1>1, <1>2, NothingFetched DEF Figures!NoSync
<1>4. FiguresTyped
  BY <1>1, <1>2 DEF FiguresTyped, Figures!NoRows
<1>5. ASSUME NEW k \in Figures!Rows PROVE Newest(k, figure[k], sync)
  BY <1>1 DEF Newest, Figures!NoSync, Figures!NoRows
<1> QED BY <1>1, <1>3, <1>4, <1>5 DEF FiguresInv

-----------------------------------------------------------------------------
(* Figures: the steps *)

LEMMA ChangeKeeps ==
  ASSUME FiguresInv, Figures!Change
  PROVE  FiguresInv'
<1>1. truth' = truth + 1 /\ UNCHANGED <<figure, sync, file, outdone>>
  BY DEF Figures!Change
<1>2. FiguresTyped'
  BY <1>1 DEF FiguresInv, FiguresTyped
<1>3. ASSUME NEW r \in Syncs PROVE FetchWell(sync[r], truth')
  <2>1. FetchWell(sync[r], truth) /\ sync[r] \in FetchRecord /\ truth \in Nat
    BY DEF FiguresInv, FiguresTyped
  <2>2. \A k \in Figures!Rows : sync[r].got[k] \in Nat
    BY <2>1 DEF FetchRecord
  <2> QED BY <1>1, <2>1, <2>2 DEF FetchWell
<1> QED BY <1>1, <1>2, <1>3 DEF FiguresInv

LEMMA StartKeeps ==
  ASSUME FiguresInv, NEW r \in Syncs, NEW slice \in Figures!Slices,
         NEW accounts \in SUBSET Figures!AccountNumbers, Figures!Start(r, slice, accounts)
  PROVE  FiguresInv'
<1> DEFINE t == [Figures!NoSync EXCEPT !.slice = slice, !.targets = accounts, !.ask = accounts,
                   !.at = IF accounts = {} THEN "failed" ELSE "running"]
<1>1. sync' = [sync EXCEPT ![r] = t] /\ UNCHANGED <<truth, figure, file, outdone>>
  BY Zenon DEF Figures!Start
<1>2. /\ t \in FetchRecord
      /\ t.hand = {} /\ t.got = Figures!NoRows /\ t.records = 0 /\ t.ask = t.targets
      /\ t.at # "completed"
  BY EmptySync DEF FetchRecord
<1> HIDE DEF t
<1>3. FetchWell(t, truth)
  BY <1>2, NothingFetched DEF FiguresInv, FiguresTyped
<1> QED BY <1>1, <1>2, <1>3, SyncBeginsAgain

LEMMA FailKeeps ==
  ASSUME FiguresInv, NEW r \in Syncs, Figures!Fail(r)
  PROVE  FiguresInv'
<1> DEFINE t == [Figures!NoSync EXCEPT !.at = "failed", !.slice = sync[r].slice]
<1>1. sync' = [sync EXCEPT ![r] = t] /\ UNCHANGED <<truth, figure, file, outdone>>
  BY Zenon DEF Figures!Fail
<1>2. /\ t \in FetchRecord
      /\ t.hand = {} /\ t.got = Figures!NoRows /\ t.records = 0 /\ t.ask = t.targets
      /\ t.at # "completed"
  BY EmptySync DEF FetchRecord, FiguresInv, FiguresTyped
<1> HIDE DEF t
<1>3. FetchWell(t, truth)
  BY <1>2, NothingFetched DEF FiguresInv, FiguresTyped
<1> QED BY <1>1, <1>2, <1>3, SyncBeginsAgain

\* What an account answers is of it and of the slice asked for.
LEMMA AnswersOfAccount ==
  ASSUME NEW a \in Figures!AccountNumbers, NEW slice \in Figures!Slices,
         NEW page \in Figures!Answers(a, slice)
  PROVE  page \subseteq Figures!RowsOf(a, slice)
BY DEF Figures!Answers, Figures!FirstRows

LEMMA FetchKeeps ==
  ASSUME FiguresInv, NEW r \in Syncs, NEW a \in Figures!AccountNumbers, Figures!Fetch(r, a)
  PROVE  FiguresInv'
<1> DEFINE u == sync[r]
<1>1. PICK page \in Figures!Answers(a, u.slice) :
        /\ sync' = [sync EXCEPT ![r] =
             [u EXCEPT !.ask = u.ask \ {a}, !.hand = u.hand \cup page,
                       !.got = [k \in Figures!Rows |-> IF k \in page THEN truth ELSE u.got[k]],
                       !.short = IF page = Figures!RowsOf(a, u.slice) THEN u.short
                                 ELSE u.short \cup {a}]]
        /\ outdone' = outdone \cup (page \cap Figures!InHand)
  BY Zenon DEF Figures!Fetch
<1>2. u.at = "running" /\ a \in u.ask /\ UNCHANGED <<truth, figure, file>>
  BY DEF Figures!Fetch, Figures!In
<1>3. /\ u \in FetchRecord /\ FetchWell(u, truth) /\ truth \in Nat \ {0}
      /\ sync \in [Syncs -> FetchRecord] /\ figure \in [Figures!Rows -> Nat]
      /\ \A k \in Figures!Rows : figure[k] <= truth
  BY DEF FiguresInv, FiguresTyped
<1> DEFINE full == Figures!RowsOf(a, u.slice)
           now == [k \in Figures!Rows |-> IF k \in page THEN truth ELSE u.got[k]]
           t == [u EXCEPT !.ask = u.ask \ {a}, !.hand = u.hand \cup page, !.got = now,
                          !.short = IF page = full THEN u.short ELSE u.short \cup {a}]
<1>4. sync' = [sync EXCEPT ![r] = t]
  BY <1>1
<1>5. /\ page \subseteq full /\ full \subseteq Figures!Rows
      /\ \A k \in full : k[1] = a /\ k[3] = u.slice
      /\ \A k \in Figures!Rows : k[1] = a /\ k[3] = u.slice => k \in full
  <2>1. u.slice \in Figures!Slices
    BY <1>3 DEF FetchRecord
  <2> QED BY <1>1, <2>1, AnswersOfAccount, RowParts
<1>6. /\ t.at = u.at /\ t.slice = u.slice /\ t.targets = u.targets /\ t.ask = u.ask \ {a}
      /\ t.hand = u.hand \cup page /\ t.got = now /\ t.records = u.records
      /\ page = full => t.short = u.short
      /\ page # full => t.short = u.short \cup {a}
  <2> HIDE DEF now, full
  <2> QED BY <1>3 DEF FetchRecord
<1>7. t \in FetchRecord
  <2>1. now \in [Figures!Rows -> Nat]
    BY <1>3 DEF FetchRecord
  <2> HIDE DEF now, full
  <2> QED BY <1>3, <1>5, <2>1 DEF FetchRecord
<1> HIDE DEF t, full
<1>8. \A k \in page : t.got[k] = truth /\ u.got[k] = 0
  BY <1>2, <1>3, <1>5, <1>6 DEF FetchWell
<1>9. \A k \in Figures!Rows \ page : t.got[k] = u.got[k]
  BY <1>6
<1> HIDE DEF now
<1>10. FetchWell(t, truth)
  <2>1. Figures!Fetched(t) = Figures!Fetched(u) \cup page /\ Figures!Fetched(u) \cap page = {}
    BY <1>3, <1>5, <1>8, <1>9 DEF Figures!Fetched
  <2>2. t.hand \subseteq Figures!Fetched(t) /\ Figures!Fetched(t) \ t.hand = Figures!Fetched(u) \ u.hand
    BY <1>3, <1>6, <2>1 DEF FetchWell
  <2>3. IsFiniteSet(Figures!Fetched(t) \ t.hand) /\ t.records = Cardinality(Figures!Fetched(t) \ t.hand)
    BY <1>3, <1>6, <2>2 DEF FetchWell
  <2>4. ASSUME NEW k \in Figures!Rows
        PROVE  /\ t.got[k] <= truth
               /\ k[1] \in t.ask => t.got[k] = 0
               /\ k[1] \in t.targets \ t.short /\ k[1] \notin t.ask /\ k[3] = t.slice
                    => t.got[k] # 0
    <3>1. CASE k \in page
      BY <1>3, <1>5, <1>6, <1>8, <3>1
    <3>2. CASE k \notin page
      <4>1. /\ t.got[k] = u.got[k] /\ u.got[k] <= truth
            /\ k[1] \in u.ask => u.got[k] = 0
            /\ k[1] \in u.targets \ u.short /\ k[1] \notin u.ask /\ k[3] = u.slice
                 => u.got[k] # 0
        BY <1>3, <1>9, <3>2 DEF FetchWell
      <4>2. k[1] = a /\ k[3] = u.slice => a \in t.short
        BY <1>5, <1>6, <3>2
      <4> QED BY <1>6, <4>1, <4>2
    <3> QED BY <3>1, <3>2
  <2> QED BY <1>2, <1>6, <2>2, <2>3, <2>4 DEF FetchWell
<1>11. sync'[r] = t /\ \A q \in Syncs \ {r} : sync'[q] = sync[q]
  BY <1>4 DEF FiguresInv, FiguresTyped
<1>12. ASSUME NEW k \in Figures!Rows \ outdone' PROVE Newest(k, figure[k], sync')
  <2>1. Newest(k, figure[k], sync)
    BY <1>1 DEF FiguresInv
  <2>2. CASE k \in page
    <3>1. \A q \in Syncs : k \notin sync[q].hand
      BY <1>1, <2>2 DEF Figures!InHand
    <3> QED BY <1>3, <1>6, <1>8, <1>11, <2>1, <2>2, <3>1 DEF Newest
  <2>3. CASE k \notin page
    <3>1. t.got[k] = u.got[k] /\ (k \in t.hand <=> k \in u.hand)
      BY <1>6, <1>9, <2>3
    <3> QED BY <1>11, <2>1, <3>1 DEF Newest
  <2> QED BY <2>2, <2>3
<1> QED BY <1>2, <1>3, <1>4, <1>7, <1>10, <1>12, SyncGoesOn

LEMMA SaveFigureKeeps ==
  ASSUME FiguresInv, NEW r \in Syncs, NEW k \in Figures!Rows, Figures!Save(r, k)
  PROVE  FiguresInv'
<1> DEFINE u == sync[r]
           t == [at |-> u.at, slice |-> u.slice, targets |-> u.targets, ask |-> u.ask,
                 hand |-> u.hand \ {k}, got |-> u.got, short |-> u.short,
                 records |-> u.records + 1]
<1>1. /\ u.at = "running" /\ k \in u.hand /\ UNCHANGED <<truth, file, outdone>>
      /\ figure' = [figure EXCEPT ![k] = u.got[k]]
      /\ sync' = [sync EXCEPT ![r].hand = @ \ {k}, ![r].records = @ + 1]
  BY DEF Figures!Save, Figures!In, Figures!IsFirst, Figures!Key
<1>2. /\ u \in FetchRecord /\ FetchWell(u, truth) /\ sync \in [Syncs -> FetchRecord]
      /\ figure \in [Figures!Rows -> Nat]
      /\ \A j \in Figures!Rows : figure[j] <= truth
  BY DEF FiguresInv, FiguresTyped
<1>3. sync' = [sync EXCEPT ![r] = t]
  BY <1>1, <1>2 DEF FetchRecord
<1>4. /\ t.at = u.at /\ t.slice = u.slice /\ t.targets = u.targets /\ t.ask = u.ask
      /\ t.hand = u.hand \ {k} /\ t.got = u.got /\ t.short = u.short
      /\ t.records = u.records + 1
  OBVIOUS
<1>5. t \in FetchRecord
  BY <1>2 DEF FetchRecord
<1> HIDE DEF t
<1>6. FetchWell(t, truth)
  <2>1. Figures!Fetched(t) = Figures!Fetched(u) /\ k \in Figures!Fetched(u)
    BY <1>1, <1>2, <1>4 DEF Figures!Fetched, FetchWell
  <2>2. Figures!Fetched(t) \ t.hand = (Figures!Fetched(u) \ u.hand) \cup {k} /\ k \notin Figures!Fetched(u) \ u.hand
    BY <1>1, <1>4, <2>1
  <2>3. IsFiniteSet(Figures!Fetched(u) \ u.hand) /\ u.records = Cardinality(Figures!Fetched(u) \ u.hand)
    BY <1>2 DEF FetchWell
  <2>4. /\ IsFiniteSet(Figures!Fetched(t) \ t.hand)
        /\ Cardinality(Figures!Fetched(t) \ t.hand) = u.records + 1
    BY <2>2, <2>3, FS_AddElement
  <2>5. t.hand \subseteq Figures!Fetched(t)
    BY <1>2, <1>4, <2>1 DEF FetchWell
  <2>6. u.at # "completed"
    BY <1>1
  <2> QED BY <1>2, <1>4, <2>4, <2>5, <2>6 DEF FetchWell
<1>7. sync'[r] = t /\ \A q \in Syncs \ {r} : sync'[q] = sync[q]
  BY <1>2, <1>3
<1>8. /\ figure'[k] = u.got[k] /\ u.got[k] \in Nat /\ u.got[k] <= truth
      /\ \A j \in Figures!Rows \ {k} : figure'[j] = figure[j]
  BY <1>1, <1>2 DEF FetchRecord, FetchWell
<1>9. figure' \in [Figures!Rows -> Nat] /\ \A j \in Figures!Rows : figure'[j] <= truth
  BY <1>1, <1>2, <1>8
<1>10. ASSUME NEW j \in Figures!Rows \ outdone' PROVE Newest(j, figure'[j], sync')
  <2>1. Newest(j, figure[j], sync)
    BY <1>1 DEF FiguresInv
  <2>2. CASE j = k
    <3>1. /\ figure[k] <= u.got[k] /\ figure[k] \in Nat
          /\ \A q \in Syncs \ {r} : k \notin sync[q].hand
      BY <1>1, <1>2, <2>1, <2>2 DEF Newest
    <3>2. \A q \in Syncs \ {r} : sync[q].got[k] <= figure[k] /\ sync[q].got[k] \in Nat
      BY <1>2, <2>1, <2>2, <3>1 DEF Newest, FetchRecord
    <3>3. \A q \in Syncs \ {r} : sync[q].got[k] <= u.got[k]
      BY <1>8, <3>1, <3>2
    <3> QED BY <1>4, <1>7, <1>8, <2>2, <3>1, <3>3 DEF Newest
  <2>3. CASE j # k
    <3>1. figure'[j] = figure[j] /\ t.got[j] = u.got[j] /\ (j \in t.hand <=> j \in u.hand)
      BY <1>4, <1>8, <2>3
    <3> QED BY <1>7, <2>1, <3>1 DEF Newest
  <2> QED BY <2>2, <2>3
<1> QED BY <1>1, <1>3, <1>5, <1>6, <1>9, <1>10, SyncGoesOn

LEMMA FinishKeeps ==
  ASSUME FiguresInv, NEW r \in Syncs, Figures!Finish(r)
  PROVE  FiguresInv'
<1> DEFINE u == sync[r]
           t == [u EXCEPT !.at = "completed"]
<1>1. /\ u.ask = {} /\ u.hand = {} /\ UNCHANGED <<truth, file, figure, outdone>>
      /\ sync' = [sync EXCEPT ![r].at = "completed"]
  BY DEF Figures!Finish
<1>2. /\ u \in FetchRecord /\ FetchWell(u, truth) /\ sync \in [Syncs -> FetchRecord]
      /\ figure \in [Figures!Rows -> Nat]
      /\ \A j \in Figures!Rows : figure[j] <= truth
  BY DEF FiguresInv, FiguresTyped
<1>3. sync' = [sync EXCEPT ![r] = t]
  BY <1>1
<1>4. /\ t.slice = u.slice /\ t.targets = u.targets /\ t.ask = u.ask /\ t.hand = u.hand
      /\ t.got = u.got /\ t.short = u.short /\ t.records = u.records
  BY <1>2 DEF FetchRecord
<1>5. t \in FetchRecord
  BY <1>2 DEF FetchRecord
<1> HIDE DEF t
<1>6. FetchWell(t, truth)
  BY <1>1, <1>2, <1>4 DEF FetchWell, Figures!Fetched
<1>7. sync'[r] = t /\ \A q \in Syncs \ {r} : sync'[q] = sync[q]
  BY <1>2, <1>3
<1>8. ASSUME NEW j \in Figures!Rows \ outdone' PROVE Newest(j, figure'[j], sync')
  <2>1. Newest(j, figure[j], sync)
    BY <1>1 DEF FiguresInv
  <2> QED BY <1>1, <1>4, <1>7, <2>1 DEF Newest
<1> QED BY <1>1, <1>2, <1>3, <1>5, <1>6, <1>8, SyncGoesOn

LEMMA ExportKeeps ==
  ASSUME FiguresInv, NEW a \in Figures!AccountNumbers, Figures!Export(a)
  PROVE  FiguresInv'
<1>1. /\ UNCHANGED <<truth, figure, sync, outdone>>
      /\ file' = [k \in Figures!Rows |->
                    IF k[1] = a /\ k[3] # "ad" THEN figure[k] ELSE 0]
  BY DEF Figures!Export, Figures!Account, Figures!Slice
<1>2. FiguresTyped'
  BY <1>1 DEF FiguresInv, FiguresTyped
<1> QED BY <1>1, <1>2 DEF FiguresInv

LEMMA ImportRowKeeps ==
  ASSUME FiguresInv, NEW k \in Figures!Rows, Figures!ImportRow(k)
  PROVE  FiguresInv'
<1>1. /\ UNCHANGED <<truth, sync>> /\ file' = [file EXCEPT ![k] = 0]
      /\ figure' = [figure EXCEPT ![k] = file[k]] /\ outdone' = outdone \cup {k}
  BY DEF Figures!ImportRow, Figures!Key
<1>2. FiguresTyped'
  BY <1>1 DEF FiguresInv, FiguresTyped
<1>3. \A j \in Figures!Rows \ outdone' : j \notin outdone /\ figure'[j] = figure[j]
  BY <1>1 DEF FiguresInv, FiguresTyped
<1> QED BY <1>1, <1>2, <1>3 DEF FiguresInv

LEMMA FiguresStay ==
  ASSUME FiguresInv, UNCHANGED figureVars
  PROVE  FiguresInv'
BY DEF figureVars, FiguresInv, FiguresTyped

LEMMA FiguresStepKept ==
  (part = "figures" => FiguresInv) /\ [Next]_vars => (part' = "figures" => FiguresInv')
<1> SUFFICES ASSUME part = "figures", part' = "figures", FiguresInv, [Next]_vars
             PROVE  FiguresInv'
  BY DEF Next, Step, vars
<1>1. CASE Figures!Next
  <2>1. \/ Figures!Change
        \/ \E r \in Syncs :
             \/ \E slice \in Figures!Slices, accounts \in {{}, Figures!AccountNumbers} :
                  Figures!Start(r, slice, accounts)
             \/ \E a \in Figures!AccountNumbers : Figures!Fetch(r, a)
             \/ \E k \in Figures!Rows : Figures!Save(r, k)
             \/ Figures!Finish(r) \/ Figures!Fail(r)
        \/ \E a \in Figures!AccountNumbers : Figures!Export(a)
        \/ \E k \in Figures!Rows : Figures!ImportRow(k)
    BY <1>1, Zenon DEF Figures!Next
  <2> QED BY <2>1, ChangeKeeps, StartKeeps, FetchKeeps, SaveFigureKeeps, FinishKeeps, FailKeeps,
             ExportKeeps, ImportRowKeeps
<1>2. CASE UNCHANGED figureVars
  BY <1>2, FiguresStay
<1> QED BY <1>1, <1>2 DEF Next, Step, vars

LEMMA FiguresHold == FiguresInv => Figures!FiguresShowNewestUnlessOverlapped
<1> SUFFICES ASSUME FiguresInv, NEW r \in Syncs, Figures!In(r, "completed")
             PROVE  Figures!ShownNewest(sync[r])
  BY DEF Figures!FiguresShowNewestUnlessOverlapped
<1> DEFINE t == sync[r]
<1>1. /\ FetchWell(t, truth) /\ t.ask = {} /\ t.hand = {} /\ t \in FetchRecord
      /\ figure \in [Figures!Rows -> Nat]
  BY DEF FiguresInv, FiguresTyped, FetchWell, Figures!In
<1>2. t.records = Figures!Cardinality(Figures!Fetched(t))
  <2>1. Figures!Fetched(t) \ t.hand = Figures!Fetched(t)
    BY <1>1
  <2>2. Figures!Cardinality(Figures!Fetched(t)) = Cardinality(Figures!Fetched(t))
    BY DEF Figures!Cardinality, Cardinality
  <2> QED BY <1>1, <2>1, <2>2 DEF FetchWell
<1>3. ASSUME NEW k \in Figures!Rows, k \notin outdone PROVE figure[k] >= t.got[k]
  <2>1. Newest(k, figure[k], sync)
    BY <1>3 DEF FiguresInv
  <2>2. t.got[k] <= figure[k]
    BY <1>1, <2>1 DEF Newest
  <2> QED BY <1>1, <2>2 DEF FetchRecord
<1>4. ASSUME NEW a \in t.targets \ t.short, NEW k \in Figures!Rows,
             k \in Figures!RowsOf(a, t.slice)
      PROVE  t.got[k] # 0
  <2>1. a \in Figures!AccountNumbers /\ t.slice \in Figures!Slices
    BY <1>1 DEF FetchRecord
  <2>2. k[1] = a /\ k[3] = t.slice
    BY <1>4, <2>1, RowParts
  <2> QED BY <1>1, <2>2 DEF FetchWell
<1> QED BY <1>2, <1>3, <1>4 DEF Figures!ShownNewest

-----------------------------------------------------------------------------
(* Targets *)

LEMMA TargetsBegin == Boards!Init => Boards!TargetsKeptUnlessUndone
BY DEF Boards!Init, Boards!TargetsKeptUnlessUndone

\* What one administrator saves is laid under what was sent last, which is what is
\* stored.
LEMMA TargetsSaved ==
  ASSUME Boards!TargetsKeptUnlessUndone, NEW e \in Editors, Boards!Save(e)
  PROVE  Boards!TargetsKeptUnlessUndone'
<1> DEFINE loaded == editor[e].loaded
           fields == editor[e].fields
<1>1. CASE UNCHANGED <<config, wanted, undone>>
  BY <1>1 DEF Boards!TargetsKeptUnlessUndone
<1>2. CASE /\ config' = Boards!Laid(loaded, fields)
           /\ wanted' = [stored |-> TRUE,
                target |-> IF fields.target \in {Absent, 0} THEN wanted.target
                           ELSE fields.target,
                key |-> IF fields.key = Absent THEN wanted.key ELSE fields.key]
           /\ undone' = (undone \/ config # loaded)
  <2>1. ASSUME ~undone' PROVE config'.target = wanted'.target /\ config'.key = wanted'.key
    <3>1. ~undone /\ config = loaded
      BY <1>2, <2>1
    <3>2. loaded.target = wanted.target /\ loaded.key = wanted.key
      BY <3>1 DEF Boards!TargetsKeptUnlessUndone
    <3> QED BY <1>2, <3>2 DEF Boards!Laid
  <2> QED BY <2>1 DEF Boards!TargetsKeptUnlessUndone
<1> QED BY <1>1, <1>2 DEF Boards!Save

LEMMA TargetsKept ==
  /\ part = "dashboards" => Boards!TargetsKeptUnlessUndone
  /\ [Next]_vars
  => (part' = "dashboards" => Boards!TargetsKeptUnlessUndone')
<1> SUFFICES ASSUME part = "dashboards", part' = "dashboards",
                    Boards!TargetsKeptUnlessUndone, [Next]_vars
             PROVE  Boards!TargetsKeptUnlessUndone'
  BY DEF Next, Step, vars
<1>1. CASE UNCHANGED <<config, wanted, undone>>
  BY <1>1 DEF Boards!TargetsKeptUnlessUndone
<1>2. CASE Boards!Next
  <2>1. CASE \E e \in Editors : Boards!Save(e)
    BY <2>1, TargetsSaved
  <2>2. CASE \E e \in Editors, fields \in Boards!Fields : Boards!Edit(e, fields)
    BY <1>1, <2>2 DEF Boards!Edit
  <2>3. CASE \E r \in Boards!Reads : Boards!Read(r)
    BY <1>1, <2>3 DEF Boards!Read, Boards!settings
  <2>4. CASE \E how \in {"grown", "rewritten"} : Boards!Write(how)
    BY <1>1, <2>4 DEF Boards!Write, Boards!settings
  <2>5. \/ \E how \in {"grown", "rewritten"} : Boards!Write(how)
        \/ \E e \in Editors : Boards!Save(e)
        \/ \E e \in Editors, fields \in Boards!Fields : Boards!Edit(e, fields)
        \/ \E r \in Boards!Reads : Boards!Read(r)
    BY <1>2, Zenon DEF Boards!Next, Boards!Fetch, Boards!Clear, Boards!Register, Boards!Merge,
                       Boards!Respond, Boards!RemoveVersion, Boards!Sell, Boards!Refund
  <2> QED BY <2>1, <2>2, <2>3, <2>4, <2>5
<1>3. CASE UNCHANGED dashboardVars
  BY <1>1, <1>3 DEF dashboardVars
<1> QED BY <1>2, <1>3 DEF Next, Step, vars

\* What a synchronisation got is what is stored, unless two had a row in hand or it was
\* imported; and the targets of a launch are what was sent for them, unless two saved
\* at a time.
THEOREM FiguresKept == Spec => []FiguresKeptUnlessOverlapped
<1> DEFINE Inv == /\ part = "figures" => FiguresInv
                  /\ part = "dashboards" => Boards!TargetsKeptUnlessUndone
<1>1. Init => Inv
  BY FiguresBegin, TargetsBegin DEF Init
<1>2. Inv /\ [Next]_vars => Inv'
  BY FiguresStepKept, TargetsKept
<1>3. Inv => FiguresKeptUnlessOverlapped
  BY FiguresHold DEF FiguresKeptUnlessOverlapped
<1> QED BY <1>1, <1>2, <1>3, PTL DEF Spec
=============================================================================
