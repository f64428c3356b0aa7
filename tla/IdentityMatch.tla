---------------------------- MODULE IdentityMatch ----------------------------
(***************************************************************************)
(* Which person a lead is.  Registrations give an e-mail, a phone or a CPF *)
(* and look for a person by one after the other; purchases give an e-mail. *)
(* Whoever finds nobody creates a person, and the identifiers are added to *)
(* the person that was found or created.  No index keeps an identifier from*)
(* having two persons.                                                     *)
(*                                                                         *)
(* A registration is one transaction under READ COMMITTED, whose statements*)
(* see what is committed by then; a purchase has none.                     *)
(***************************************************************************)
EXTENDS Integers, FiniteSets

CONSTANTS
  Emails, Phones, Cpfs, \* identifiers, normalised
  Clients,         \* registrations and purchases in progress at a time
  MaxLeads,        \* bound: registrations and purchases
  MaxFaults        \* bound: errors and crashes

VARIABLES
  persons,         \* persons so far
  identifiers,     \* the table of identifiers
  stored,          \* captures and sales: what they gave and whose they are
  lead,            \* the registration or purchase each client is in
  leads,
  crowded,         \* identifiers two of them had in hand at a time
  carried,         \* identifiers added to a person although another had them
  nameless,        \* persons whose purchase was cut off before their e-mail
  faults

tables == <<persons, identifiers, stored>>
vars == <<tables, lead, leads, crowded, carried, nameless, faults>>

Values == Emails \cup Phones \cup Cpfs
Persons == 1..MaxLeads

\* What a payload may give: one of each kind at most, and one at least.
Given == {S \in (SUBSET Values) \ {{}} :
            \A kind \in {Emails, Phones, Cpfs} : Cardinality(S \cap kind) <= 1}

Idle == [at |-> "idle", given |-> {}, left |-> {}, person |-> 0]

TypeOK ==
  /\ persons \in 0..MaxLeads /\ leads \in 0..MaxLeads
  /\ identifiers \subseteq [person : Persons, value : Values, hashed : BOOLEAN]
  /\ stored \subseteq [person : Persons, given : Given]
  /\ lead \in [Clients -> [at : {"idle", "match", "identify", "find", "person", "email", "sale"},
                           given : Given \cup {{}}, left : SUBSET Values, person : 0..MaxLeads]]
  /\ crowded \subseteq Values /\ carried \subseteq Values
  /\ nameless \subseteq Persons
  /\ faults \in 0..MaxFaults
  /\ \A i \in identifiers : i.person <= persons

Init ==
  /\ persons = 0 /\ identifiers = {} /\ stored = {}
  /\ lead = [c \in Clients |-> Idle] /\ leads = 0
  /\ crowded = {} /\ carried = {} /\ nameless = {}
  /\ faults = 0

-----------------------------------------------------------------------------
Holders(v) == {i.person : i \in {j \in identifiers : j.value = v}}

Do(c, l) == lead' = [lead EXCEPT ![c] = l]

Begin(c, at, given) ==
  /\ lead[c] = Idle
  /\ leads < MaxLeads /\ leads' = leads + 1
  /\ Do(c, [at |-> at, given |-> given, left |-> given, person |-> 0])
  /\ crowded' = crowded \cup (given \cap UNION {lead[d].given : d \in Clients})
  /\ UNCHANGED <<tables, carried, nameless, faults>>

-----------------------------------------------------------------------------
(* Registrations *)

\* persistLead, when no capture is the request's or recent enough.
Register(c, given) == Begin(c, "match", given)

\* The identifiers are tried in this order.
First(S) ==
  IF S \cap Emails # {} THEN S \cap Emails
  ELSE IF S \cap Phones # {} THEN S \cap Phones ELSE S

\* Faulty variant: a person is looked for by the e-mail only.
FoundByEmail(v) == IF v \in Emails THEN Holders(v) ELSE {}

\* Rows with a hash come first; purchases leave none. Any of several.
Found(v) ==
  LET hashed == {i.person : i \in {j \in identifiers : j.value = v /\ j.hashed}}
  IN IF hashed # {} THEN hashed ELSE Holders(v)

\* The next identifier has a person, or it has none.
MatchNext(c) ==
  /\ lead[c].at = "match" /\ lead[c].left # {}
  /\ \E v \in First(lead[c].left) :
       \/ /\ Found(v) = {}
          /\ Do(c, [lead[c] EXCEPT !.left = @ \ {v}])
          /\ UNCHANGED carried
       \/ \E p \in Found(v) :
            /\ Do(c, [lead[c] EXCEPT !.at = "identify", !.person = p])
            /\ carried' = carried \cup {w \in lead[c].given \ {v} : Holders(w) \ {p} # {}}
  /\ UNCHANGED <<tables, leads, crowded, nameless, faults>>

MatchNone(c) ==
  /\ lead[c].at = "match" /\ lead[c].left = {}
  /\ Do(c, [lead[c] EXCEPT !.at = "identify"])
  /\ UNCHANGED <<tables, leads, crowded, carried, nameless, faults>>

\* The person is created or was found, those of the identifiers that it lacks
\* are inserted, and all is committed with the capture.
Identify(c) ==
  /\ lead[c].at = "identify"
  /\ LET l == lead[c]
         p == IF l.person = 0 THEN persons + 1 ELSE l.person
         missing == {v \in l.given : p \notin Holders(v)} IN
       /\ persons' = IF l.person = 0 THEN persons + 1 ELSE persons
       /\ identifiers' = identifiers \cup {[person |-> p, value |-> v, hashed |-> TRUE] : v \in missing}
       /\ stored' = stored \cup {[person |-> p, given |-> l.given]}
  /\ Do(c, Idle)
  /\ UNCHANGED <<leads, crowded, carried, nameless, faults>>

-----------------------------------------------------------------------------
(* Purchases *)

\* processRaw
Purchase(c, email) == Begin(c, "find", {email})

\* findOrCreatePerson: a person with the e-mail, any of several.
FindPerson(c) ==
  /\ lead[c].at = "find"
  /\ \E v \in lead[c].given :
       \/ /\ Holders(v) = {}
          /\ Do(c, [lead[c] EXCEPT !.at = "person"])
       \/ \E p \in Holders(v) : Do(c, [lead[c] EXCEPT !.at = "sale", !.person = p])
  /\ UNCHANGED <<tables, leads, crowded, carried, nameless, faults>>

CreatePerson(c) ==
  /\ lead[c].at = "person"
  /\ persons' = persons + 1
  /\ Do(c, [lead[c] EXCEPT !.at = "email", !.person = persons + 1])
  /\ UNCHANGED <<identifiers, stored, leads, crowded, carried, nameless, faults>>

SaveEmail(c) ==
  /\ lead[c].at = "email"
  /\ identifiers' = identifiers \cup
       {[person |-> lead[c].person, value |-> v, hashed |-> FALSE] : v \in lead[c].given}
  /\ Do(c, [lead[c] EXCEPT !.at = "sale"])
  /\ UNCHANGED <<persons, stored, leads, crowded, carried, nameless, faults>>

SaveSale(c) ==
  /\ lead[c].at = "sale"
  /\ stored' = stored \cup {[person |-> lead[c].person, given |-> lead[c].given]}
  /\ Do(c, Idle)
  /\ UNCHANGED <<persons, identifiers, leads, crowded, carried, nameless, faults>>

\* An error or a crash: a registration is rolled back, a purchase stays where
\* it was. Either may be tried again, as another.
Fail(c) ==
  /\ lead[c] # Idle
  /\ faults < MaxFaults /\ faults' = faults + 1
  /\ nameless' = IF lead[c].at = "email" THEN nameless \cup {lead[c].person} ELSE nameless
  /\ Do(c, Idle)
  /\ UNCHANGED <<tables, leads, crowded, carried>>

-----------------------------------------------------------------------------
Next ==
  \E c \in Clients :
    \/ \E given \in Given : Register(c, given)
    \/ MatchNext(c) \/ MatchNone(c) \/ Identify(c)
    \/ \E e \in Emails : Purchase(c, e)
    \/ FindPerson(c) \/ CreatePerson(c) \/ SaveEmail(c) \/ SaveSale(c)
    \/ Fail(c)

-----------------------------------------------------------------------------
(* Properties *)

\* Two captures or sales with an identifier in common belong to one person,
\* and the identifier to nobody else, unless two requests had it in hand at a time
\* or it came beside an identifier of somebody else, which an e-mail, being
\* tried first, cannot. Every person has an identifier, unless the purchase that
\* created it was cut off.
OnePersonUnlessShared ==
  /\ \A v \in Values \ crowded : v \in Emails \/ v \notin carried =>
       /\ Cardinality(Holders(v)) <= 1
       /\ \A s, t \in stored : v \in s.given \cap t.given => s.person = t.person
  /\ \A p \in 1..persons :
       \/ \E i \in identifiers : i.person = p
       \/ p \in nameless
       \/ \E c \in Clients : lead[c].at = "email" /\ lead[c].person = p

=============================================================================
