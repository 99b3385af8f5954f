------------------------------ MODULE Checkout ------------------------------
(***************************************************************************)
(* Buying the full reading: the checkout request                           *)
(* (pages/api/checkout/full-reading.ts), the two payment webhooks          *)
(* (stripe-webhook.ts, razorpay-webhook.ts) and the order capability they  *)
(* share (human-design-orders.ts).                                         *)
(*                                                                         *)
(* A request or a delivery is a process; each of its steps is one D1       *)
(* statement or one call of a provider, because the worker can be          *)
(* interleaved with any other at every await and can die there.  The       *)
(* payment provider and the mail provider are external.                    *)
(***************************************************************************)
EXTENDS Naturals, FiniteSets

CONSTANTS Orders,     \* one per checkout request: createId never repeats
          reading,    \* the chart each request names; the row stores it
          NoReading,  \* it names none
          Hooks,      \* webhook deliveries handled at the same time
          NoEvent

(* A webhook event says that the order's payment is not settled, that it   *)
(* settled for something else than the stored amount and currency, or that *)
(* it settled exactly.                                                     *)
Event == [order : Orders, kind : {"unpaid", "other", "exact"}]

ASSUME NoEventIsNoEvent == NoEvent \notin Event

VARIABLES
  payment,   \* ap_human_design_orders: payment_status, "none" before the INSERT
  fulfilment,\* fulfillment_status
  gateway,   \* the provider the stored currency stands for
  attached,  \* orders that carry their session's id
  lead,      \* ap_leads row linked to the order
  request,   \* where the checkout request of the order is
  remote,    \* the provider's session of the order            (external)
  events,    \* webhook events the provider has emitted        (external)
  acked,     \* those it has seen answered with a 2xx          (external)
  pc,        \* where each webhook delivery is
  event,     \* the event it handles
  mails      \* customer confirmations the mail provider took  (external)

site == <<payment, fulfilment, gateway, attached, lead>>
remoteState == <<remote, events, acked>>
hooks == <<pc, event>>
vars == <<site, request, remoteState, hooks, mails>>

Payable == {"open", "processing"}          \* the customer has the URL
RequestPc == {"idle", "allowed", "created", "linked", "opened", "failing", "done"}
HookPc == {"idle", "lookup", "fulfil", "recheck", "convert", "sender", "mail",
           "notified", "admin"}

TypeOK ==
  /\ payment \in [Orders -> {"none", "pending", "paid", "failed"}]
  /\ fulfilment \in [Orders -> {"none", "pending", "queued", "notified"}]
  /\ gateway \in [Orders -> {"none", "stripe", "razorpay"}]
  /\ attached \subseteq Orders
  /\ lead \in [Orders -> {"none", "new", "converted"}]
  /\ request \in [Orders -> RequestPc]
  /\ remote \in [Orders -> {"none", "session", "other", "exact"} \cup Payable]
  /\ events \subseteq Event
  /\ acked \subseteq events
  /\ pc \in [Hooks -> HookPc]
  /\ event \in [Hooks -> Event \cup {NoEvent}]
  /\ mails \in [Orders -> Nat]

Init ==
  /\ payment = [o \in Orders |-> "none"]
  /\ fulfilment = [o \in Orders |-> "none"]
  /\ gateway = [o \in Orders |-> "none"]
  /\ attached = {}
  /\ lead = [o \in Orders |-> "none"]
  /\ request = [o \in Orders |-> "idle"]
  /\ remote = [o \in Orders |-> "none"]
  /\ events = {}
  /\ acked = {}
  /\ pc = [h \in Hooks |-> "idle"]
  /\ event = [h \in Hooks |-> NoEvent]
  /\ mails = [o \in Orders |-> 0]

-----------------------------------------------------------------------------
(* The checkout request of order o.                                        *)

Goto(o, from, to) ==
  /\ request[o] = from
  /\ request' = [request EXCEPT ![o] = to]
  /\ UNCHANGED <<hooks, mails>>

Paid(o) == payment[o] = "paid"

(* getPaidHumanDesignReadingAccess: some paid order names the chart.       *)
Owned(r) == r # NoReading /\ \E o \in Orders : reading[o] = r /\ Paid(o)

(* The ownership check answers 409 for a chart that is already paid for.   *)
CheckOwned(o) ==
  /\ Goto(o, "idle", IF Owned(reading[o]) THEN "done" ELSE "allowed")
  /\ UNCHANGED <<site, remoteState>>

(* A D1 error inside the check is caught and answered as "not owned".      *)
OwnershipUnreadable(o) ==
  /\ reading[o] # NoReading
  /\ Goto(o, "idle", "allowed")
  /\ UNCHANGED <<site, remoteState>>

(* Quote the price, which picks the provider, and INSERT the order.        *)
CreateOrder(o) ==
  /\ Goto(o, "allowed", "created")
  /\ payment' = [payment EXCEPT ![o] = "pending"]
  /\ fulfilment' = [fulfilment EXCEPT ![o] = "pending"]
  /\ \E g \in {"stripe", "razorpay"} : gateway' = [gateway EXCEPT ![o] = g]
  /\ UNCHANGED <<attached, lead, remoteState>>

(* linkBusinessLead swallows every error: the lead may be missing.         *)
LinkLead(o) ==
  /\ Goto(o, "created", "linked")
  /\ lead' \in {lead, [lead EXCEPT ![o] = "new"]}
  /\ UNCHANGED <<payment, fulfilment, gateway, attached, remoteState>>

(* The provider opens a session and its answer is a usable URL.            *)
OpenSession(o) ==
  /\ Goto(o, "linked", "opened")
  /\ remote' = [remote EXCEPT ![o] = "session"]
  /\ UNCHANGED <<site, events, acked>>

(* The call throws, or Stripe refuses or answers with a foreign URL; the   *)
(* session may exist all the same.                                         *)
SessionUnusable(o) ==
  /\ Goto(o, "linked", "failing")
  /\ remote' \in {remote, [remote EXCEPT ![o] = "session"]}
  /\ UNCHANGED <<site, events, acked>>

(* Razorpay refuses, or its secret is missing: the request returns an      *)
(* error and leaves the order pending.                                     *)
RazorpayRefuses(o) ==
  /\ gateway[o] = "razorpay"
  /\ Goto(o, "linked", "done")
  /\ UNCHANGED <<site, remoteState>>

ReplyBeforeAttach(o) ==        \* mutant: the URL is out before the UPDATE can fail
  /\ Goto(o, "opened", "failing")
  /\ remote' = [remote EXCEPT ![o] = "open"]
  /\ UNCHANGED <<site, events, acked>>

(* Store the session on the order (Stripe: only while it is pending) and   *)
(* answer with the URL, which is all a customer needs to pay.              *)
AttachAndReply(o) ==
  /\ Goto(o, "opened", "done")
  /\ attached' = IF gateway[o] = "razorpay" \/ payment[o] = "pending"
                  THEN attached \cup {o} ELSE attached
  /\ remote' = [remote EXCEPT ![o] = "open"]
  /\ UNCHANGED <<payment, fulfilment, gateway, lead, events, acked>>

AttachThrows(o) ==
  /\ Goto(o, "opened", "failing")
  /\ attached' \in {attached, attached \cup {o}}
  /\ UNCHANGED <<payment, fulfilment, gateway, lead, remoteState>>

FailBoth(o) ==                 \* mutant: a status the fulfilment column does not have
  /\ Goto(o, "failing", "done")
  /\ payment' = [payment EXCEPT ![o] = IF @ = "pending" THEN "failed" ELSE @]
  /\ fulfilment' = [fulfilment EXCEPT ![o] = "failed"]
  /\ UNCHANGED <<gateway, attached, lead, remoteState>>

(* failHumanDesignOrder                                                    *)
FailOrder(o) ==
  /\ Goto(o, "failing", "done")
  /\ payment' = [payment EXCEPT ![o] = IF @ = "pending" THEN "failed" ELSE @]
  /\ UNCHANGED <<fulfilment, gateway, attached, lead, remoteState>>

RequestDies(o) ==
  /\ request[o] \notin {"idle", "done"}
  /\ Goto(o, request[o], "done")
  /\ UNCHANGED <<site, remoteState>>

CheckoutStep(o) ==
  \/ CheckOwned(o) \/ OwnershipUnreadable(o) \/ CreateOrder(o) \/ LinkLead(o)
  \/ OpenSession(o) \/ SessionUnusable(o) \/ RazorpayRefuses(o)
  \/ AttachAndReply(o) \/ AttachThrows(o) \/ FailOrder(o) \/ RequestDies(o)

-----------------------------------------------------------------------------
(* The payment provider: what it does with an open session, and the events *)
(* it emits.  An event is delivered any number of times, in any order, and *)
(* an acknowledged one can still arrive again.                             *)

Emit(o, k, from, to) ==
  /\ remote[o] \in from
  /\ remote' = [remote EXCEPT ![o] = to]
  /\ events' = events \cup {[order |-> o, kind |-> k]}
  /\ UNCHANGED <<site, request, acked, hooks, mails>>

CompleteUnpaid(o) == Emit(o, "unpaid", {"open"}, "processing")
Capture(o) == Emit(o, "exact", Payable, "exact")
CaptureOther(o) == Emit(o, "other", Payable, "other")

-----------------------------------------------------------------------------
(* A webhook delivery, handled by h.                                       *)

HookGoto(h, from, to) ==
  /\ pc[h] = from
  /\ pc' = [pc EXCEPT ![h] = to]
  /\ UNCHANGED <<request, remoteState, event>>

Answer(h, from, ok) ==
  /\ pc[h] \in from
  /\ pc' = [pc EXCEPT ![h] = "idle"]
  /\ event' = [event EXCEPT ![h] = NoEvent]
  /\ acked' = IF ok THEN acked \cup {event[h]} ELSE acked
  /\ UNCHANGED <<request, remote, events>>

(* Signature and event type are checked without a D1 call; an event that   *)
(* settles nothing is acknowledged at once.                                *)
Deliver(h, e) ==
  /\ pc[h] = "idle"
  /\ e \in events
  /\ IF e.kind = "unpaid"
     THEN acked' = acked \cup {e} /\ UNCHANGED hooks
     ELSE /\ pc' = [pc EXCEPT ![h] = "lookup"]
          /\ event' = [event EXCEPT ![h] = e]
          /\ UNCHANGED acked
  /\ UNCHANGED <<site, request, remote, events, mails>>

Target(h) == event[h].order

(* Stripe names the order; Razorpay's order is found by the attached id.   *)
RowFound(o) ==
  /\ payment[o] # "none"
  /\ gateway[o] = "razorpay" => o \in attached

MatchesAnyAmount(h) ==         \* mutant: the amount is not compared
  event[h].kind # "unpaid" /\ RowFound(Target(h))

(* Compare amount and currency with the stored order.                      *)
Matches(h) == event[h].kind = "exact" /\ RowFound(Target(h))

LookUpAndIgnore(h) ==          \* mutant: an event that does not match gets a 2xx
  /\ pc[h] = "lookup"
  /\ \/ Matches(h) /\ HookGoto(h, "lookup", "fulfil")
     \/ ~Matches(h) /\ Answer(h, {"lookup"}, TRUE)
  /\ UNCHANGED <<site, mails>>

LookUp(h) ==
  /\ pc[h] = "lookup"
  /\ \/ Matches(h) /\ HookGoto(h, "lookup", "fulfil")
     \/ ~Matches(h) /\ Answer(h, {"lookup"}, FALSE)
  /\ UNCHANGED <<site, mails>>

FulfilAgain(h) ==              \* mutant: payment_status <> 'paid' left out
  /\ LET o == Target(h)
     IN /\ HookGoto(h, "fulfil", "convert")
        /\ payment' = [payment EXCEPT ![o] = "paid"]
        /\ fulfilment' = [fulfilment EXCEPT ![o] = "queued"]
        /\ attached' = attached \cup {o}
  /\ UNCHANGED <<gateway, lead, mails>>

(* The compare-and-set UPDATE of fulfillHumanDesignOrder.                  *)
Fulfil(h) ==
  /\ pc[h] = "fulfil"
  /\ LET o == Target(h)
     IN \/ /\ ~Paid(o)
           /\ payment' = [payment EXCEPT ![o] = "paid"]
           /\ fulfilment' = [fulfilment EXCEPT ![o] = "queued"]
           /\ attached' = attached \cup {o}
           /\ HookGoto(h, "fulfil", "convert")
        \/ /\ Paid(o)
           /\ HookGoto(h, "fulfil", "recheck")
           /\ UNCHANGED <<payment, fulfilment, attached>>
  /\ UNCHANGED <<gateway, lead, mails>>

(* Nothing was updated: an order that is paid by now was fulfilled before. *)
Recheck(h) ==
  /\ Answer(h, {"recheck"}, Paid(Target(h)))
  /\ UNCHANGED <<site, mails>>

(* markLeadConvertedBySourceReference swallows every error.                *)
ConvertLead(h) ==
  /\ HookGoto(h, "convert", "sender")
  /\ \/ lead' = [lead EXCEPT ![Target(h)] = IF @ = "new" THEN "converted" ELSE @]
     \/ UNCHANGED lead
  /\ UNCHANGED <<payment, fulfilment, gateway, attached, mails>>

(* No sender address is configured: nobody is written to.                  *)
ReadSender(h) ==
  /\ HookGoto(h, "sender", "mail") \/ Answer(h, {"sender"}, TRUE)
  /\ UNCHANGED <<site, mails>>

(* The mail provider takes the confirmation; its answer may be lost.  A    *)
(* send is never repeated.                                                 *)
MailCustomer(h) ==
  /\ HookGoto(h, "mail", "notified") \/ HookGoto(h, "mail", "admin")
  /\ mails' = [mails EXCEPT ![Target(h)] = @ + 1]
  /\ UNCHANGED site

MailRefused(h) ==
  /\ HookGoto(h, "mail", "admin")
  /\ UNCHANGED <<site, mails>>

RecordNotified(h) ==
  /\ HookGoto(h, "notified", "admin")
  /\ fulfilment' = [fulfilment EXCEPT ![Target(h)] = "notified"]
  /\ UNCHANGED <<payment, gateway, attached, lead, mails>>

(* Whatever the admin's copy does, the delivery is acknowledged.           *)
MailAdmin(h) ==
  /\ Answer(h, {"admin"}, TRUE)
  /\ UNCHANGED <<site, mails>>

HookErrorIgnored(h) ==         \* mutant: an error is answered with a 2xx
  /\ Answer(h, HookPc \ {"idle"}, TRUE)
  /\ UNCHANGED <<site, mails>>

(* A D1 error, an unreadable configuration or the end of the worker: no    *)
(* 2xx, so the provider keeps the event.                                   *)
HookDies(h) ==
  /\ Answer(h, HookPc \ {"idle"}, FALSE)
  /\ UNCHANGED <<site, mails>>

HookStep(h) ==
  \/ LookUp(h) \/ Fulfil(h) \/ Recheck(h) \/ ConvertLead(h) \/ ReadSender(h)
  \/ MailCustomer(h) \/ MailRefused(h) \/ RecordNotified(h) \/ MailAdmin(h)

Next ==
  \/ \E o \in Orders :
       CheckoutStep(o) \/ CompleteUnpaid(o) \/ Capture(o) \/ CaptureOther(o)
  \/ \E h \in Hooks : HookStep(h) \/ HookDies(h) \/ \E e \in Event : Deliver(h, e)

Spec == Init /\ [][Next]_vars

(* The provider delivers an event again and again until it is answered     *)
(* with a 2xx, a live worker runs on, and a D1 failure is not for ever: an *)
(* UPDATE that is tried without end is made in the end.                    *)
Redeliver(o) ==
  \E h \in Hooks, e \in events \ acked : e.order = o /\ Deliver(h, e)

Handling(h, at, o) == pc[h] = at /\ Target(h) = o

Fairness ==
  /\ \A h \in Hooks : WF_vars(HookStep(h))
  /\ \A o \in Orders :
       /\ SF_vars(Redeliver(o))
       /\ SF_vars(\E h \in Hooks : Handling(h, "lookup", o) /\ LookUp(h))
       /\ SF_vars(\E h \in Hooks : Handling(h, "fulfil", o) /\ Fulfil(h))

FairSpec == Spec /\ Fairness

-----------------------------------------------------------------------------
(* Properties.                                                             *)

(* An order is paid only when the provider has collected exactly its       *)
(* stored amount in its stored currency, whatever events arrived and in    *)
(* whatever order (stripe-webhook.ts, razorpay-webhook.ts).                *)
PaidMeansCharged == \A o \in Orders : Paid(o) => remote[o] = "exact"

(* The checkout request marks an order failed only when no customer can    *)
(* pay it: a failed order is never one that was, or still can be, charged. *)
FailedNeverCharged ==
  \A o \in Orders : payment[o] = "failed" => remote[o] \in {"none", "session"}

(* Duplicate and concurrent deliveries send the customer at most one       *)
(* confirmation, and "notified" is recorded only after it was taken.       *)
OneConfirmation ==
  \A o \in Orders : /\ mails[o] <= 1
                    /\ fulfilment[o] = "notified" => mails[o] = 1

(* The site answers a settling event with a 2xx, after which the provider  *)
(* forgets it, only once the order is durably paid.                        *)
AckedIsSettled ==
  \A e \in acked : e.kind # "unpaid" => e.kind = "exact" /\ Paid(e.order)

(* Late or repeated requests and deliveries never undo a payment nor send  *)
(* a notified order back to the queue.                                     *)
Rank(s) == CASE s = "none" -> 0 [] s = "pending" -> 1 [] s = "queued" -> 2
             [] s = "notified" -> 3
SettledForGood ==
  [][\A o \in Orders : Paid(o) =>
       /\ payment'[o] = "paid"
       /\ o \in attached'
       /\ Rank(fulfilment'[o]) >= Rank(fulfilment[o])]_site

(* The site keeps the shop's promise (module Purchase).                    *)
Promise == INSTANCE Purchase
  WITH charged   <- {o \in Orders : remote[o] = "exact"},
       granted   <- {o \in Orders : Paid(o)},
       confirmed <- {o \in Orders : mails[o] > 0}
KeepsPromise == Promise!Spec

(* An exactly charged order is granted in the end, in spite of crashes,    *)
(* failed statements and lost acknowledgements.                            *)
ChargedIsGranted == \A o \in Orders : remote[o] = "exact" ~> Paid(o)

(* What the checkout says with its 409, "You already own the full reading  *)
(* for this chart.": a chart is not paid for twice.                        *)
ChartBoughtOnce ==
  \A o, p \in Orders :
    Paid(o) /\ Paid(p) /\ reading[o] = reading[p] /\ reading[o] # NoReading => o = p
=============================================================================
