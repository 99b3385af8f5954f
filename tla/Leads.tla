------------------------------- MODULE Leads -------------------------------
(***************************************************************************)
(* Lead records (aggregator/lead-records.ts): forms, newsletters and       *)
(* orders submit leads that are told apart by their dedupe key, payments   *)
(* mark them converted.  A submission is four D1 statements; others run in *)
(* between, and it may stop at any of them.                                *)
(*                                                                         *)
(* A submission that createLead refuses (contact, consent, kind) or the    *)
(* route does (size, honeypot) leaves no trace.  Of the fields that are    *)
(* kept when the new value is blank, full_name and the three contacts, one *)
(* stands for all; those that are written once stand in the row's id.      *)
(***************************************************************************)
CONSTANTS
  FormKeys,       \* <kind>:idem:<idempotency key>
  NewsletterKeys, \* newsletter:<email>
  BusinessKeys,   \* <source reference type>:<id>
  Contacts,       \* what a submission says of one contact field
  NoContact,      \* "", when it says nothing
  Submissions,    \* what is sent: a key, a contact and marketing consent
  LeadIds,        \* what createId draws, also a bound on submissions
  Payments,       \* conversion references
  NoPayment,
  Visitors        \* submissions under way at the same time

DedupeKeys == FormKeys \cup NewsletterKeys \cup BusinessKeys

(* Who submits: the product-interest route, linkNewsletterLead (always     *)
(* with consent to marketing) and linkBusinessLead                         *)
FormLead(s) == s.key \in FormKeys
NewsletterLead(s) == s.key \in NewsletterKeys /\ s.marketing
BusinessLead(s) == s.key \in BusinessKeys

ASSUME LeadConstants ==
  /\ DedupeKeys # {} /\ LeadIds # {}
  /\ NoContact \notin Contacts /\ NoPayment \notin Payments
  /\ Submissions \subseteq [key : DedupeKeys, contact : Contacts \cup {NoContact},
                            marketing : BOOLEAN]
  /\ \A s \in Submissions : FormLead(s) \/ NewsletterLead(s) \/ BusinessLead(s)

VARIABLES
  lead,      \* ap_leads by its UNIQUE dedupe_key
  events,    \* ids of the leads ap_business_events has a lead.created of
  visitor,   \* the submission of each visitor
  drawn,     \* ids that createId has drawn
  answered   \* keys of which createLead has answered one         (history)

leadVars == <<lead, events, visitor, drawn, answered>>

Lead == [stored : BOOLEAN, id : LeadIds, status : {"new", "converted"},
         contact : Contacts \cup {NoContact}, marketing : BOOLEAN,
         payment : Payments \cup {NoPayment}]
Submitting == [pc : {"idle", "existing", "upsert", "reread", "event", "answered"},
               key : DedupeKeys, contact : Contacts \cup {NoContact},
               marketing : BOOLEAN, id : LeadIds, exists : BOOLEAN,
               retry : BOOLEAN]  \* one of its key had been answered before it

LeadTypeOK ==
  /\ lead \in [DedupeKeys -> Lead]
  /\ events \subseteq LeadIds
  /\ visitor \in [Visitors -> Submitting]
  /\ drawn \subseteq LeadIds
  /\ answered \subseteq DedupeKeys

NoLead == [stored |-> FALSE, id |-> CHOOSE i \in LeadIds : TRUE, status |-> "new",
           contact |-> NoContact, marketing |-> FALSE, payment |-> NoPayment]

Gone == [pc |-> "idle", key |-> CHOOSE k \in DedupeKeys : TRUE,
         contact |-> NoContact, marketing |-> FALSE, id |-> NoLead.id,
         exists |-> FALSE, retry |-> FALSE]

LeadInit ==
  /\ lead = [k \in DedupeKeys |-> NoLead]
  /\ events = {}
  /\ visitor = [v \in Visitors |-> Gone]
  /\ drawn = {}
  /\ answered = {}

(* createId never draws an id twice.  Which one makes no difference.       *)
FreshIds == LeadIds \ drawn
CreateId == CHOOSE i \in FreshIds : TRUE

Asks(v, pc) == visitor[v].pc = pc

-----------------------------------------------------------------------------
(* createLead, for a form, linkNewsletterLead (which gives marketing       *)
(* consent) or linkBusinessLead                                            *)
Submits(v, s) ==
  /\ Asks(v, "idle") /\ FreshIds # {}
  /\ visitor' = [visitor EXCEPT ![v] =
       [pc |-> "existing", key |-> s.key, contact |-> s.contact,
        marketing |-> s.marketing, id |-> CreateId, exists |-> FALSE,
        retry |-> s.key \in answered]]
  /\ drawn' = drawn \cup {CreateId}
  /\ UNCHANGED <<lead, events, answered>>

ReadExisting(v) ==
  /\ Asks(v, "existing")
  /\ visitor' = [visitor EXCEPT ![v].pc = "upsert",
                                ![v].exists = lead[visitor[v].key].stored]
  /\ UNCHANGED <<lead, events, drawn, answered>>

Inserted(s) ==
  [stored |-> TRUE, id |-> s.id, status |-> "new", contact |-> s.contact,
   marketing |-> s.marketing, payment |-> NoPayment]

(* Mutant: the conflict replaces the row.                                  *)
Replaced(l, s) == [Inserted(s) EXCEPT !.id = l.id]

Updated(l, s) ==
  [l EXCEPT !.contact = IF s.contact # NoContact THEN s.contact ELSE l.contact,
            !.marketing = l.marketing \/ s.marketing]

(* INSERT ... ON CONFLICT(dedupe_key) DO UPDATE; the contact and consent   *)
(* are not used again.                                                     *)
Upsert(v) ==
  LET s == visitor[v]
  IN /\ s.pc = "upsert"
     /\ lead' = [lead EXCEPT ![s.key] =
          IF lead[s.key].stored THEN Updated(lead[s.key], s) ELSE Inserted(s)]
     /\ visitor' = [visitor EXCEPT ![v] =
          [s EXCEPT !.pc = "reread", !.contact = NoContact, !.marketing = FALSE]]
     /\ UNCHANGED <<events, drawn, answered>>

(* Mutant: the id that was drawn is the answer.                            *)
TheDrawn(s) == s.id
ThePersisted(s) == lead[s.key].id

Answered(s) == answered \cup {s.key}

(* The id of the row, whoever inserted it; a lead that was there when the  *)
(* request looked is answered, a new one is recorded first.                *)
Reread(v) ==
  LET s == visitor[v]
  IN /\ Asks(v, "reread")
     /\ visitor' = [visitor EXCEPT ![v].id = ThePersisted(s),
                        ![v].pc = IF s.exists THEN "answered" ELSE "event"]
     /\ answered' = IF s.exists THEN Answered(s) ELSE answered
     /\ UNCHANGED <<lead, events, drawn>>

(* Two that both were first to look both record it.                        *)
RecordEvent(v) ==
  /\ Asks(v, "event")
  /\ events' = events \cup {visitor[v].id}
  /\ visitor' = [visitor EXCEPT ![v].pc = "answered"]
  /\ answered' = Answered(visitor[v])
  /\ UNCHANGED <<lead, drawn>>

(* An error, which linkBusinessLead keeps from its caller, the worker's    *)
(* end, or the answer has been given.                                      *)
SubmissionEnds(v) ==
  /\ ~Asks(v, "idle")
  /\ visitor' = [visitor EXCEPT ![v] = Gone]
  /\ UNCHANGED <<lead, events, drawn, answered>>

(* markLeadConvertedBySourceReference: one UPDATE, of the row if there is  *)
(* one and it is not converted yet; its errors are kept from the webhook.  *)
MarkConverted(k, payment) ==
  /\ lead[k].stored /\ lead[k].status # "converted"
  /\ lead' = [lead EXCEPT ![k].status = "converted", ![k].payment = payment]
  /\ UNCHANGED <<events, visitor, drawn, answered>>

LeadNext ==
  \/ \E v \in Visitors :
       \/ \E s \in Submissions : Submits(v, s)
       \/ ReadExisting(v) \/ Upsert(v) \/ Reread(v) \/ RecordEvent(v)
       \/ SubmissionEnds(v)
  \/ \E k \in BusinessKeys, p \in Payments : MarkConverted(k, p)

LeadSpec == LeadInit /\ [][LeadNext]_leadVars

-----------------------------------------------------------------------------
(* Properties                                                              *)

(* However submissions of one key overlap, fail and are sent again, each   *)
(* is answered with the id of the one lead of that key; one that is sent   *)
(* after an answer is recognised as a repeat; and a lead answered as new   *)
(* has been recorded.                                                      *)
OneLeadPerKey ==
  \A v \in Visitors :
    LET s == visitor[v]
    IN s.pc = "answered" =>
         /\ lead[s.key].stored /\ lead[s.key].id = s.id
         /\ s.retry => s.exists
         /\ ~s.exists => s.id \in events

(* A submission never takes back what a lead has: its id, its conversion   *)
(* with the payment that made it, a contact, the consent to marketing.     *)
(* Consent is gained only from a submission that gives it.                 *)
LeadsOnlyGain ==
  [][\A k \in DedupeKeys :
       /\ lead[k].stored =>
            /\ lead'[k].stored /\ lead'[k].id = lead[k].id
            /\ lead[k].status = "converted" =>
                 lead'[k].status = "converted" /\ lead'[k].payment = lead[k].payment
            /\ lead[k].contact # NoContact => lead'[k].contact # NoContact
            /\ lead[k].marketing => lead'[k].marketing
       /\ lead'[k].marketing /\ ~lead[k].marketing =>
            \E v \in Visitors : visitor[v].pc = "upsert" /\ visitor[v].key = k
                                /\ visitor[v].marketing]_leadVars
=============================================================================
