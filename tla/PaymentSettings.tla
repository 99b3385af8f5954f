-------------------------- MODULE PaymentSettings --------------------------
(***************************************************************************)
(* The versioned payment preference (aggregator/payment-preference.ts) and *)
(* the quotes made from it (payment-pricing.ts).  An update is two D1      *)
(* statements, a read that checks the expected revision and an UPDATE that *)
(* checks it again; other editors and visitors run in between, and the     *)
(* answer to an update may be lost.                                        *)
(***************************************************************************)
EXTENDS Naturals

CONSTANTS Editors,     \* control-plane users, each with one page open
          MaxRevision  \* bound: no save is submitted above it

ASSUME MaxRevisionIsNat == MaxRevision \in Nat

Preference == {"USD", "INR", "AUTO"}
Country == {"IN", "other"}                      \* "other" also when unknown
Version == [value : Preference, revision : Nat]

VARIABLES
  value,     \* ap_business_settings.payment_preference: its value
  revision,  \* and its revision
  pc,        \* where each editor's update request is
  page,      \* the version the editor's page shows
  want,      \* the value it submits
  told,      \* versions answered to callers                       (history)
  quotes     \* quotes given to visitors                           (history)

row == <<value, revision>>
requests == <<pc, page, want>>
vars == <<row, requests, told, quotes>>

TypeOK ==
  /\ value \in Preference
  /\ revision \in Nat
  /\ pc \in [Editors -> {"closed", "open", "check", "save"}]
  /\ page \in [Editors -> Version]
  /\ want \in [Editors -> Preference]
  /\ told \subseteq Version
  /\ quotes \subseteq [preference : Preference, country : Country,
                       provider : {"stripe", "razorpay"}]

Row == [value |-> value, revision |-> revision]

(* Migration 0011 writes the first version.                                *)
Init ==
  /\ value = "AUTO"
  /\ revision = 1
  /\ pc = [p \in Editors |-> "closed"]
  /\ page = [p \in Editors |-> Row]
  /\ want = [p \in Editors |-> "AUTO"]
  /\ told = {}
  /\ quotes = {}

Goto(p, from, to) ==
  /\ pc[p] \in from
  /\ pc' = [pc EXCEPT ![p] = to]

(* GET                                                                     *)
Load(p) ==
  /\ Goto(p, {"closed", "open"}, "open")
  /\ page' = [page EXCEPT ![p] = Row]
  /\ told' = told \cup {Row}
  /\ UNCHANGED <<row, want, quotes>>

(* PATCH, with the page's revision as expectedRevision                     *)
Submit(p, v) ==
  /\ revision < MaxRevision
  /\ Goto(p, {"open"}, "check")
  /\ want' = [want EXCEPT ![p] = v]
  /\ UNCHANGED <<row, page, told, quotes>>

CheckRevision(p) ==
  /\ Goto(p, {"check"}, IF revision = page[p].revision THEN "save" ELSE "open")
  /\ UNCHANGED <<row, page, want, told, quotes>>

(* Mutant: the UPDATE has no revision clause.                              *)
UpdateAnyRevision(p) == TRUE
StillExpected(p) == revision = page[p].revision

(* UPDATE ... WHERE revision = ? RETURNING; the page shows what it saved.  *)
Save(p) ==
  /\ Goto(p, {"save"}, "open")
  /\ StillExpected(p)
  /\ value' = want[p]
  /\ revision' = page[p].revision + 1
  /\ page' = [page EXCEPT ![p] = Row']
  /\ told' = told \cup {Row'}
  /\ UNCHANGED <<want, quotes>>

(* The same, with the answer lost.                                         *)
SaveUnheard(p) ==
  /\ Goto(p, {"save"}, "open")
  /\ StillExpected(p)
  /\ value' = want[p]
  /\ revision' = page[p].revision + 1
  /\ UNCHANGED <<page, want, told, quotes>>

(* No row was updated: 409, "Reload the current preference".               *)
Conflict(p) ==
  /\ Goto(p, {"save"}, "open")
  /\ ~StillExpected(p)
  /\ UNCHANGED <<row, page, want, told, quotes>>

Die(p) ==
  /\ Goto(p, {"check", "save"}, "open")
  /\ UNCHANGED <<row, page, want, told, quotes>>

resolvePaymentCurrency(preference, country) ==
  IF preference = "AUTO" THEN IF country = "IN" THEN "INR" ELSE "USD"
  ELSE preference

providerForPaymentCurrency(currency) ==
  IF currency = "INR" THEN "razorpay" ELSE "stripe"

(* getPaymentQuote reads the preference once; a price that is not set is   *)
(* an error and leaves no quote.                                           *)
Quote(country) ==
  /\ quotes' = quotes \cup
       {[preference |-> value, country |-> country,
         provider |->
           providerForPaymentCurrency(resolvePaymentCurrency(value, country))]}
  /\ UNCHANGED <<row, requests, told>>

Next ==
  \/ \E p \in Editors :
       \/ Load(p) \/ CheckRevision(p) \/ Save(p) \/ SaveUnheard(p)
       \/ Conflict(p) \/ Die(p)
       \/ \E v \in Preference : Submit(p, v)
  \/ \E c \in Country : Quote(c)

Spec == Init /\ [][Next]_vars

-----------------------------------------------------------------------------
(* Properties.                                                             *)

(* A revision number names one value: whatever editors were told of one    *)
(* revision, and in whatever order their updates ran, is the same.         *)
RevisionNamesValue ==
  \A v, w \in told : v.revision = w.revision => v.value = w.value

(* A save replaces exactly the version its editor's page showed, and moves *)
(* one revision on: no concurrent edit is overwritten unseen.              *)
SavesOverSeen ==
  [][/\ \E p \in Editors : pc[p] = "save" /\ page[p] = Row
     /\ revision' = revision + 1]_row

(* docs/PAYMENT_CURRENCY.md: "Both `AUTO` and `USD` resolve to the         *)
(* existing USD/Stripe checkout."                                          *)
ExistingCheckoutOnly ==
  \A q \in quotes : q.preference \in {"AUTO", "USD"} => q.provider = "stripe"
=============================================================================
