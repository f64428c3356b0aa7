----------------------------- MODULE ContactBook -----------------------------
(***************************************************************************)
(* The contacts of ActiveCampaign, as registrations, scores and the        *)
(* webhook of InLead keep them: a contact is created; refused as a         *)
(* duplicate, it is searched for, and the first found is overwritten; then *)
(* it gets the tag.  Each step is a call of its own, which may fail, and   *)
(* whose answer may be lost when it has taken effect.                      *)
(***************************************************************************)
EXTENDS Integers

CONSTANTS
  Clients,         \* submissions under way at a time
  ContactEmails, ContactPhones,
  Tags, Known,     \* tags asked for, and those ActiveCampaign has
  MaxContacts,     \* bound: contacts
  MaxSubmissions,  \* bound: submissions
  MaxFaults,       \* bound: calls that fail, answers lost, logs not saved
  Absent           \* no such contact, e-mail, phone or tag

VARIABLES
  contact,         \* the contacts of ActiveCampaign
  sender,          \* the submission each client is in
  submissions, faults,
  sent,            \* submissions that ended well, with their contact
  log,             \* rows of the webhook's log
  displaced,       \* e-mails that a contact had and lost
  untold           \* submissions whose log was not saved, or whose answer was lost

senderVars == <<sender, submissions, faults, sent, log, untold>>
vars == <<contact, senderVars, displaced>>

Ids == 1..MaxContacts
Contact == [email : ContactEmails \cup {Absent}, phone : ContactPhones \cup {Absent},
            tags : SUBSET Known]
Sources == {"registration", "score", "inlead"}
\* What is sent has an e-mail, a phone or both ...
From(source, tags) ==
  {g \in [source : {source}, email : ContactEmails \cup {Absent}, phone : ContactPhones \cup {Absent},
          tag : tags] : g.email # Absent \/ g.phone # Absent}
\* ... with the tag of a page, if it has one, none for a score, whose e-mail and
\* phone may be those of its capture, and one for the webhook.
OfRegistration == From("registration", Tags \cup {Absent})
OfScore == From("score", {Absent})
OfInlead == From("inlead", Tags)
Given == OfRegistration \cup OfScore \cup OfInlead
Idle == [at |-> "idle", given |-> Absent, duplicate |-> "none", id |-> 0]

TypeOK ==
  /\ contact \in [Ids -> Contact \cup {Absent}]
  /\ sender \in [Clients ->
       {Idle} \cup [at : {"post", "search", "put", "tag", "log", "failed"}, given : Given,
                    duplicate : {"none", "email", "phone"}, id : 0..MaxContacts]]
  /\ submissions \in 0..MaxSubmissions /\ faults \in 0..MaxFaults
  /\ sent \subseteq [given : Given, id : Ids]
  /\ log \subseteq [given : Given, status : {"sent", "failed"}]
  /\ displaced \subseteq ContactEmails /\ untold \subseteq Given
  \* ActiveCampaign has an e-mail once
  /\ \A i, j \in Ids : contact[i] # Absent /\ contact[j] # Absent /\ i # j =>
       contact[i].email = Absent \/ contact[i].email # contact[j].email

Init ==
  /\ contact = [i \in Ids |-> Absent]
  /\ sender = [a \in Clients |-> Idle]
  /\ submissions = 0 /\ faults = 0
  /\ sent = {} /\ log = {} /\ displaced = {} /\ untold = {}

-----------------------------------------------------------------------------
Goes(a, at) == sender' = [sender EXCEPT ![a].at = at]
In(a, at) == sender[a].at = at
Fault == faults < MaxFaults /\ faults' = faults + 1

\* What ActiveCampaign finds by a field of what was sent
By(field, g) ==
  IF g[field] = Absent THEN {}
  ELSE {i \in Ids : contact[i] # Absent /\ contact[i][field] = g[field]}

\* A request is taken from the queue, or comes in.
Submit(a, g) ==
  /\ sender[a] = Idle
  /\ submissions < MaxSubmissions /\ submissions' = submissions + 1
  /\ sender' = [sender EXCEPT ![a] = [at |-> "post", given |-> g, duplicate |-> "none", id |-> 0]]
  /\ UNCHANGED <<contact, faults, sent, log, displaced, untold>>

Duplicates(g) == {field \in {"email", "phone"} : By(field, g) # {}}

\* The contact is created ...
Create(a) ==
  LET g == sender[a].given IN
  /\ In(a, "post") /\ Duplicates(g) = {}
  /\ \E i \in Ids :
       /\ contact[i] = Absent /\ \A j \in 1 .. i - 1 : contact[j] # Absent
       /\ contact' = [contact EXCEPT ![i] = [email |-> g.email, phone |-> g.phone, tags |-> {}]]
       /\ \/ /\ sender' = [sender EXCEPT ![a].at = "tag", ![a].id = i]
             /\ UNCHANGED <<faults, untold>>
          \/ /\ Fault /\ Goes(a, "failed") \* the answer is lost
             /\ untold' = untold \cup {g}
  /\ UNCHANGED <<submissions, sent, log, displaced>>

\* ... or refused, for one of its fields or without saying which.
Refuse(a) ==
  /\ In(a, "post")
  /\ \E field \in Duplicates(sender[a].given) :
       \/ sender' = [sender EXCEPT ![a].at = "search", ![a].duplicate = field]
       \/ sender' = [sender EXCEPT ![a].at = "search", ![a].duplicate = "none"]
  /\ UNCHANGED <<contact, submissions, faults, sent, log, displaced, untold>>

\* isDuplicateError says where to search; a search that fails finds nothing.
Hits(t) ==
  CASE t.duplicate = "none" /\ By("email", t.given) # {} -> By("email", t.given)
    [] t.duplicate = "none" -> By("phone", t.given)
    [] OTHER -> By(t.duplicate, t.given)

Search(a) ==
  /\ In(a, "search")
  /\ \/ /\ \E i \in Hits(sender[a]) : \* the first, of ActiveCampaign's order
             sender' = [sender EXCEPT ![a].at = "put", ![a].id = i]
        /\ UNCHANGED faults
     \/ /\ Hits(sender[a]) = {} /\ Goes(a, "failed")
        /\ UNCHANGED faults
     \/ Fault /\ Goes(a, "failed")
  /\ UNCHANGED <<contact, submissions, sent, log, displaced, untold>>

\* Faulty variant: the e-mail stays as it was.
OverwrittenPhone(old, g) == [old EXCEPT !.phone = IF g.phone = Absent THEN @ ELSE g.phone]

\* What was not given is left out of the body, and stays.
Overwritten(old, g) ==
  [old EXCEPT !.email = IF g.email = Absent THEN @ ELSE g.email,
              !.phone = IF g.phone = Absent THEN @ ELSE g.phone]

\* updateContact, which is refused if another contact has the e-mail.
Update(a) ==
  LET t == sender[a]
      new == Overwritten(contact[t.id], t.given)
      refused == By("email", new) \ {t.id} # {} IN
  /\ In(a, "put")
  /\ IF refused
     THEN Goes(a, "failed") /\ UNCHANGED <<contact, displaced, faults, untold>>
     ELSE /\ contact' = [contact EXCEPT ![t.id] = new]
          /\ displaced' = IF contact[t.id].email \in {new.email, Absent} THEN displaced
                          ELSE displaced \cup {contact[t.id].email}
          /\ \/ Goes(a, "tag") /\ UNCHANGED <<faults, untold>>
             \/ Fault /\ Goes(a, "failed") /\ untold' = untold \cup {t.given}
  /\ UNCHANGED <<submissions, sent, log>>

\* A tag that is there already or is unknown is no error, and changes nothing.
Attached(tags, tag) == tags \cup ({tag} \cap Known)

\* attachTagFromPayload, which is content without a tag; a score has none.
AttachTag(a) ==
  LET t == sender[a] IN
  /\ In(a, "tag")
  /\ \/ /\ contact' = [contact EXCEPT ![t.id].tags = Attached(@, t.given.tag)]
        /\ \/ IF t.given.source = "inlead"
              THEN Goes(a, "log") /\ UNCHANGED <<sent, faults, untold>>
              ELSE /\ sent' = sent \cup {[given |-> t.given, id |-> t.id]}
                   /\ sender' = [sender EXCEPT ![a] = Idle]
                   /\ UNCHANGED <<faults, untold>>
           \/ /\ t.given.tag # Absent /\ Fault /\ Goes(a, "failed")
              /\ untold' = untold \cup {t.given} /\ UNCHANGED sent
     \/ /\ t.given.tag # Absent /\ Fault /\ Goes(a, "failed")
        /\ UNCHANGED <<contact, sent, untold>>
  /\ UNCHANGED <<submissions, log, displaced>>

\* sendToActiveCampaign logs what was sent; if the row cannot be saved, that it
\* failed.
LogSent(a) ==
  LET t == sender[a] IN
  /\ In(a, "log")
  /\ sent' = sent \cup {[given |-> t.given, id |-> t.id]}
  /\ sender' = [sender EXCEPT ![a] = Idle]
  /\ \/ log' = log \cup {[given |-> t.given, status |-> "sent"]} /\ UNCHANGED <<faults, untold>>
     \/ /\ Fault /\ untold' = untold \cup {t.given} \* unless that cannot be saved either
        /\ log' \in {log, log \cup {[given |-> t.given, status |-> "failed"]}}
  /\ UNCHANGED <<contact, submissions, displaced>>

\* A registration is delivered again; the others tell their caller.
Fail(a) ==
  LET t == sender[a] IN
  /\ In(a, "failed")
  /\ \/ /\ t.given.source = "registration"
        /\ sender' = [sender EXCEPT ![a] = [at |-> "post", given |-> t.given, duplicate |-> "none",
                                            id |-> 0]]
        /\ UNCHANGED <<log, faults>>
     \/ /\ sender' = [sender EXCEPT ![a] = Idle]
        /\ \/ /\ log' = IF t.given.source = "inlead"
                     THEN log \cup {[given |-> t.given, status |-> "failed"]} ELSE log
              /\ UNCHANGED faults
           \/ t.given.source = "inlead" /\ Fault /\ UNCHANGED log
  /\ UNCHANGED <<contact, submissions, sent, displaced, untold>>

Next ==
  \E a \in Clients :
    \/ \E g \in Given : Submit(a, g)
    \/ Create(a) \/ Refuse(a) \/ Search(a) \/ Update(a) \/ AttachTag(a) \/ LogSent(a) \/ Fail(a)

Spec == Init /\ [][Next]_vars

-----------------------------------------------------------------------------
(* Properties *)

\* The contact that a submission ended with has its e-mail and its tag, unless a
\* submission with the same phone has put another e-mail in its place since; and
\* the webhook's log says that one was sent only if it was, and that it failed
\* where the whole of it took effect only if that could not be told.
ContactKeptUnlessDisplaced ==
  /\ \A s \in sent :
       /\ s.given.email # Absent => contact[s.id].email = s.given.email \/ s.given.email \in displaced
       /\ {s.given.tag} \cap Known \subseteq contact[s.id].tags
  /\ \A l \in log :
       IF l.status = "sent" THEN \E s \in sent : s.given = l.given
       ELSE (\E s \in sent : s.given = l.given) => l.given \in untold \/
              [given |-> l.given, status |-> "sent"] \in log

=============================================================================
