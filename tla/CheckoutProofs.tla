--------------------------- MODULE CheckoutProofs ---------------------------
(***************************************************************************)
(* Safety of module Checkout for any number of orders and deliveries.      *)
(***************************************************************************)
EXTENDS Checkout, TLAPS

(* Handlers of the one delivery that won the compare-and-set for an order, *)
(* and those of them that have not offered the confirmation yet.           *)
Winner == {"convert", "sender", "mail", "notified", "admin"}
BeforeMail == {"convert", "sender", "mail"}

(* What the provider has emitted agrees with the state of its session, and *)
(* only a request that has answered exposes a session to a customer.       *)
RemoteInv ==
  /\ \A e \in events : /\ e.kind = "exact" => remote[e.order] = "exact"
                       /\ e.kind = "other" => remote[e.order] = "other"
  /\ \A o \in Orders : remote[o] \notin {"none", "session"} => request[o] = "done"

(* An order row follows its request and its session.                       *)
OrderInv ==
  \A o \in Orders :
    /\ request[o] \in {"idle", "allowed"} => payment[o] = "none"
    /\ payment[o] = "failed" =>
         request[o] = "done" /\ remote[o] \in {"none", "session"}
    /\ Paid(o) => remote[o] = "exact" /\ o \in attached
    /\ Paid(o) <=> fulfilment[o] \in {"queued", "notified"}
    /\ lead[o] = "converted" => Paid(o)

(* A delivery past the comparison carries an exact settlement, and past    *)
(* the UPDATE its order is paid.                                           *)
HookInv ==
  \A h \in Hooks :
    /\ pc[h] # "idle" => event[h] \in events /\ event[h].kind # "unpaid"
    /\ pc[h] \notin {"idle", "lookup"} => event[h].kind = "exact"
    /\ pc[h] \in Winner \cup {"recheck"} => Paid(Target(h))

(* One winner per order, and the confirmation is its to send.              *)
MailInv ==
  /\ \A h, g \in Hooks :
       pc[h] \in Winner /\ pc[g] \in Winner /\ Target(h) = Target(g) => h = g
  /\ \A h \in Hooks : /\ pc[h] \in BeforeMail => mails[Target(h)] = 0
                      /\ pc[h] = "notified" => mails[Target(h)] = 1
  /\ \A o \in Orders : /\ mails[o] \in {0, 1}
                       /\ ~Paid(o) => mails[o] = 0
                       /\ fulfilment[o] = "notified" => mails[o] = 1

IInv == TypeOK /\ RemoteInv /\ OrderInv /\ HookInv /\ MailInv /\ AckedIsSettled
-----------------------------------------------------------------------------
(* The empty shop satisfies the invariant.                                 *)
LEMMA Initially == Init => IInv
  BY DEF Init, IInv, TypeOK, RequestPc, HookPc, Payable, RemoteInv, OrderInv, HookInv,
         MailInv, AckedIsSettled, Paid, Winner, BeforeMail

(* What a checkout request, the provider and a delivery leave alone.       *)
LEMMA RequestFrame ==
  ASSUME NEW o \in Orders, CheckoutStep(o)
  PROVE  UNCHANGED <<pc, event, mails, events, acked>>
  BY DEF CheckoutStep, CheckOwned, OwnershipUnreadable, CreateOrder, LinkLead,
     OpenSession, SessionUnusable, RazorpayRefuses, AttachAndReply,
     AttachThrows, FailOrder, RequestDies, Goto, site, remoteState, hooks

(* What the payment provider's own steps leave alone.                      *)
LEMMA ProviderFrame ==
  ASSUME NEW o \in Orders, CompleteUnpaid(o) \/ Capture(o) \/ CaptureOther(o)
  PROVE  /\ UNCHANGED <<site, request, acked, pc, event, mails>>
         /\ events \subseteq events'
  BY DEF CompleteUnpaid, Capture, CaptureOther, Emit, hooks

(* What a delivery that is being handled leaves alone.                     *)
LEMMA HookFrame ==
  ASSUME NEW h \in Hooks, HookStep(h) \/ HookDies(h)
  PROVE  UNCHANGED <<request, remote, events, gateway>>
  BY DEF HookStep, LookUp, Fulfil, Recheck, ConvertLead, ReadSender,
     MailCustomer, MailRefused, RecordNotified, MailAdmin, HookDies, HookGoto,
     Answer, site, remoteState

(* A busy delivery handles an emitted event of a known order.              *)
LEMMA TargetIs ==
  ASSUME IInv, NEW h \in Hooks, pc[h] # "idle"
  PROVE  /\ event[h] \in events \cap Event
         /\ Target(h) \in Orders
         /\ pc[h] # "lookup" => remote[Target(h)] = "exact" /\ request[Target(h)] = "done"
  BY DEF IInv, TypeOK, HookInv, RemoteInv, Event, Target

(* Every step preserves the types.                                         *)
LEMMA TypeStep ==
  ASSUME TypeOK, HookInv, [Next]_vars
  PROVE  TypeOK'
<1>1. ASSUME NEW o \in Orders, CheckOwned(o)
      PROVE  TypeOK'
  BY <1>1 DEF CheckOwned, Goto, site, remoteState, hooks, TypeOK, RequestPc,
     HookPc, Payable, Owned
<1>2. ASSUME NEW o \in Orders, OwnershipUnreadable(o)
      PROVE  TypeOK'
  BY <1>2 DEF OwnershipUnreadable, Goto, site, remoteState, hooks, TypeOK,
     RequestPc, HookPc, Payable
<1>3. ASSUME NEW o \in Orders, CreateOrder(o)
      PROVE  TypeOK'
  BY <1>3 DEF CreateOrder, Goto, site, remoteState, hooks, TypeOK, RequestPc,
     HookPc, Payable
<1>4. ASSUME NEW o \in Orders, LinkLead(o)
      PROVE  TypeOK'
  BY <1>4 DEF LinkLead, Goto, site, remoteState, hooks, TypeOK, RequestPc,
     HookPc, Payable
<1>5. ASSUME NEW o \in Orders, OpenSession(o)
      PROVE  TypeOK'
  BY <1>5 DEF OpenSession, Goto, site, remoteState, hooks, TypeOK, RequestPc,
     HookPc, Payable
<1>6. ASSUME NEW o \in Orders, SessionUnusable(o)
      PROVE  TypeOK'
  BY <1>6 DEF SessionUnusable, Goto, site, remoteState, hooks, TypeOK,
     RequestPc, HookPc, Payable
<1>7. ASSUME NEW o \in Orders, RazorpayRefuses(o)
      PROVE  TypeOK'
  BY <1>7 DEF RazorpayRefuses, Goto, site, remoteState, hooks, TypeOK,
     RequestPc, HookPc, Payable
<1>8. ASSUME NEW o \in Orders, AttachAndReply(o)
      PROVE  TypeOK'
  BY <1>8 DEF AttachAndReply, Goto, site, remoteState, hooks, TypeOK,
     RequestPc, HookPc, Payable
<1>9. ASSUME NEW o \in Orders, AttachThrows(o)
      PROVE  TypeOK'
  BY <1>9 DEF AttachThrows, Goto, site, remoteState, hooks, TypeOK, RequestPc,
     HookPc, Payable
<1>10. ASSUME NEW o \in Orders, FailOrder(o)
      PROVE  TypeOK'
  BY <1>10 DEF FailOrder, Goto, site, remoteState, hooks, TypeOK, RequestPc,
     HookPc, Payable
<1>11. ASSUME NEW o \in Orders, RequestDies(o)
      PROVE  TypeOK'
  BY <1>11 DEF RequestDies, Goto, site, remoteState, hooks, TypeOK, RequestPc,
     HookPc, Payable
<1>12. ASSUME NEW o \in Orders, CompleteUnpaid(o)
      PROVE  TypeOK'
  BY <1>12 DEF CompleteUnpaid, Emit, site, remoteState, hooks, TypeOK,
     RequestPc, HookPc, Payable, Event
<1>13. ASSUME NEW o \in Orders, Capture(o)
      PROVE  TypeOK'
  BY <1>13 DEF Capture, Emit, site, remoteState, hooks, TypeOK, RequestPc,
     HookPc, Payable, Event
<1>14. ASSUME NEW o \in Orders, CaptureOther(o)
      PROVE  TypeOK'
  BY <1>14 DEF CaptureOther, Emit, site, remoteState, hooks, TypeOK,
     RequestPc, HookPc, Payable, Event
<1>15. ASSUME NEW h \in Hooks, LookUp(h)
      PROVE  TypeOK'
  BY <1>15 DEF LookUp, HookGoto, Answer, Target, site, remoteState, hooks,
     TypeOK, RequestPc, HookPc, Payable, HookInv, Event, Paid, Matches,
     RowFound
<1>16. ASSUME NEW h \in Hooks, Fulfil(h)
      PROVE  TypeOK'
  BY <1>16 DEF Fulfil, HookGoto, Answer, Target, site, remoteState, hooks,
     TypeOK, RequestPc, HookPc, Payable, HookInv, Event, Paid
<1>17. ASSUME NEW h \in Hooks, Recheck(h)
      PROVE  TypeOK'
  BY <1>17 DEF Recheck, HookGoto, Answer, Target, site, remoteState, hooks,
     TypeOK, RequestPc, HookPc, Payable, HookInv, Event, Paid
<1>18. ASSUME NEW h \in Hooks, ConvertLead(h)
      PROVE  TypeOK'
  BY <1>18 DEF ConvertLead, HookGoto, Answer, Target, site, remoteState,
     hooks, TypeOK, RequestPc, HookPc, Payable, HookInv, Event, Paid
<1>19. ASSUME NEW h \in Hooks, ReadSender(h)
      PROVE  TypeOK'
  BY <1>19 DEF ReadSender, HookGoto, Answer, Target, site, remoteState, hooks,
     TypeOK, RequestPc, HookPc, Payable, HookInv, Event, Paid
<1>20. ASSUME NEW h \in Hooks, MailCustomer(h)
      PROVE  TypeOK'
  BY <1>20 DEF MailCustomer, HookGoto, Answer, Target, site, remoteState,
     hooks, TypeOK, RequestPc, HookPc, Payable, HookInv, Event, Paid
<1>21. ASSUME NEW h \in Hooks, MailRefused(h)
      PROVE  TypeOK'
  BY <1>21 DEF MailRefused, HookGoto, Answer, Target, site, remoteState,
     hooks, TypeOK, RequestPc, HookPc, Payable, HookInv, Event, Paid
<1>22. ASSUME NEW h \in Hooks, RecordNotified(h)
      PROVE  TypeOK'
  BY <1>22 DEF RecordNotified, HookGoto, Answer, Target, site, remoteState,
     hooks, TypeOK, RequestPc, HookPc, Payable, HookInv, Event, Paid
<1>23. ASSUME NEW h \in Hooks, MailAdmin(h)
      PROVE  TypeOK'
  BY <1>23 DEF MailAdmin, HookGoto, Answer, Target, site, remoteState, hooks,
     TypeOK, RequestPc, HookPc, Payable, HookInv, Event, Paid
<1>24. ASSUME NEW h \in Hooks, HookDies(h)
      PROVE  TypeOK'
  BY <1>24 DEF HookDies, HookGoto, Answer, Target, site, remoteState, hooks,
     TypeOK, RequestPc, HookPc, Payable, HookInv, Event, Paid
<1>25. ASSUME NEW h \in Hooks, NEW e \in Event, Deliver(h, e)
      PROVE  TypeOK'
  BY <1>25 DEF Deliver, site, remoteState, hooks, TypeOK, RequestPc, HookPc,
     Payable, Event
<1>26. CASE UNCHANGED vars
  BY <1>26 DEF vars, site, remoteState, hooks, TypeOK, RequestPc, HookPc,
     Payable
<1>27. QED
  BY <1>1, <1>2, <1>3, <1>4, <1>5, <1>6, <1>7, <1>8, <1>9, <1>10, <1>11,
     <1>12, <1>13, <1>14, <1>15, <1>16, <1>17, <1>18, <1>19, <1>20, <1>21,
     <1>22, <1>23, <1>24, <1>25, <1>26 DEF Next, CheckoutStep, HookStep

(* Events keep agreeing with the sessions they came from.                  *)
LEMMA RemoteStep ==
  ASSUME TypeOK, RemoteInv, [Next]_vars
  PROVE  RemoteInv'
<1>1. ASSUME NEW o \in Orders, CheckOwned(o)
      PROVE  RemoteInv'
  BY <1>1 DEF CheckOwned, Goto, site, remoteState, hooks, TypeOK, RequestPc,
     HookPc, Payable, RemoteInv, Event, Owned
<1>2. ASSUME NEW o \in Orders, OwnershipUnreadable(o)
      PROVE  RemoteInv'
  BY <1>2 DEF OwnershipUnreadable, Goto, site, remoteState, hooks, TypeOK,
     RequestPc, HookPc, Payable, RemoteInv, Event
<1>3. ASSUME NEW o \in Orders, CreateOrder(o)
      PROVE  RemoteInv'
  BY <1>3 DEF CreateOrder, Goto, site, remoteState, hooks, TypeOK, RequestPc,
     HookPc, Payable, RemoteInv, Event
<1>4. ASSUME NEW o \in Orders, LinkLead(o)
      PROVE  RemoteInv'
  BY <1>4 DEF LinkLead, Goto, site, remoteState, hooks, TypeOK, RequestPc,
     HookPc, Payable, RemoteInv, Event
<1>5. ASSUME NEW o \in Orders, OpenSession(o)
      PROVE  RemoteInv'
  BY <1>5 DEF OpenSession, Goto, site, remoteState, hooks, TypeOK, RequestPc,
     HookPc, Payable, RemoteInv, Event
<1>6. ASSUME NEW o \in Orders, SessionUnusable(o)
      PROVE  RemoteInv'
  BY <1>6 DEF SessionUnusable, Goto, site, remoteState, hooks, TypeOK,
     RequestPc, HookPc, Payable, RemoteInv, Event
<1>7. ASSUME NEW o \in Orders, RazorpayRefuses(o)
      PROVE  RemoteInv'
  BY <1>7 DEF RazorpayRefuses, Goto, site, remoteState, hooks, TypeOK,
     RequestPc, HookPc, Payable, RemoteInv, Event
<1>8. ASSUME NEW o \in Orders, AttachAndReply(o)
      PROVE  RemoteInv'
  BY <1>8 DEF AttachAndReply, Goto, site, remoteState, hooks, TypeOK,
     RequestPc, HookPc, Payable, RemoteInv, Event
<1>9. ASSUME NEW o \in Orders, AttachThrows(o)
      PROVE  RemoteInv'
  BY <1>9 DEF AttachThrows, Goto, site, remoteState, hooks, TypeOK, RequestPc,
     HookPc, Payable, RemoteInv, Event
<1>10. ASSUME NEW o \in Orders, FailOrder(o)
      PROVE  RemoteInv'
  BY <1>10 DEF FailOrder, Goto, site, remoteState, hooks, TypeOK, RequestPc,
     HookPc, Payable, RemoteInv, Event
<1>11. ASSUME NEW o \in Orders, RequestDies(o)
      PROVE  RemoteInv'
  BY <1>11 DEF RequestDies, Goto, site, remoteState, hooks, TypeOK, RequestPc,
     HookPc, Payable, RemoteInv, Event
<1>12. ASSUME NEW o \in Orders, CompleteUnpaid(o)
      PROVE  RemoteInv'
  BY <1>12 DEF CompleteUnpaid, Emit, site, remoteState, hooks, TypeOK,
     RequestPc, HookPc, Payable, RemoteInv, Event
<1>13. ASSUME NEW o \in Orders, Capture(o)
      PROVE  RemoteInv'
  BY <1>13 DEF Capture, Emit, site, remoteState, hooks, TypeOK, RequestPc,
     HookPc, Payable, RemoteInv, Event
<1>14. ASSUME NEW o \in Orders, CaptureOther(o)
      PROVE  RemoteInv'
  BY <1>14 DEF CaptureOther, Emit, site, remoteState, hooks, TypeOK,
     RequestPc, HookPc, Payable, RemoteInv, Event
<1>15. ASSUME NEW h \in Hooks, HookStep(h) \/ HookDies(h)
      PROVE  RemoteInv'
  BY <1>15, HookFrame DEF RemoteInv
<1>16. ASSUME NEW h \in Hooks, NEW e \in Event, Deliver(h, e)
      PROVE  RemoteInv'
  BY <1>16 DEF Deliver, RemoteInv
<1>17. CASE UNCHANGED vars
  BY <1>17 DEF vars, site, remoteState, hooks, RemoteInv
<1>18. QED
  BY <1>1, <1>2, <1>3, <1>4, <1>5, <1>6, <1>7, <1>8, <1>9, <1>10, <1>11,
     <1>12, <1>13, <1>14, <1>15, <1>16, <1>17 DEF Next, CheckoutStep

(* No step takes a payment back.                                           *)
LEMMA PaidStays ==
  ASSUME IInv, NEW p \in Orders, Paid(p), [Next]_vars
  PROVE  Paid(p)'
<1>1. ASSUME NEW o \in Orders, CheckOwned(o)
      PROVE  Paid(p)'
  BY <1>1 DEF CheckOwned, Goto, site, remoteState, hooks, TypeOK, RequestPc,
     HookPc, Payable, Paid, IInv, OrderInv, Owned
<1>2. ASSUME NEW o \in Orders, OwnershipUnreadable(o)
      PROVE  Paid(p)'
  BY <1>2 DEF OwnershipUnreadable, Goto, site, remoteState, hooks, TypeOK,
     RequestPc, HookPc, Payable, Paid, IInv, OrderInv
<1>3. ASSUME NEW o \in Orders, CreateOrder(o)
      PROVE  Paid(p)'
  BY <1>3 DEF CreateOrder, Goto, site, remoteState, hooks, TypeOK, RequestPc,
     HookPc, Payable, Paid, IInv, OrderInv
<1>4. ASSUME NEW o \in Orders, LinkLead(o)
      PROVE  Paid(p)'
  BY <1>4 DEF LinkLead, Goto, site, remoteState, hooks, TypeOK, RequestPc,
     HookPc, Payable, Paid, IInv, OrderInv
<1>5. ASSUME NEW o \in Orders, OpenSession(o)
      PROVE  Paid(p)'
  BY <1>5 DEF OpenSession, Goto, site, remoteState, hooks, TypeOK, RequestPc,
     HookPc, Payable, Paid, IInv, OrderInv
<1>6. ASSUME NEW o \in Orders, SessionUnusable(o)
      PROVE  Paid(p)'
  BY <1>6 DEF SessionUnusable, Goto, site, remoteState, hooks, TypeOK,
     RequestPc, HookPc, Payable, Paid, IInv, OrderInv
<1>7. ASSUME NEW o \in Orders, RazorpayRefuses(o)
      PROVE  Paid(p)'
  BY <1>7 DEF RazorpayRefuses, Goto, site, remoteState, hooks, TypeOK,
     RequestPc, HookPc, Payable, Paid, IInv, OrderInv
<1>8. ASSUME NEW o \in Orders, AttachAndReply(o)
      PROVE  Paid(p)'
  BY <1>8 DEF AttachAndReply, Goto, site, remoteState, hooks, TypeOK,
     RequestPc, HookPc, Payable, Paid, IInv, OrderInv
<1>9. ASSUME NEW o \in Orders, AttachThrows(o)
      PROVE  Paid(p)'
  BY <1>9 DEF AttachThrows, Goto, site, remoteState, hooks, TypeOK, RequestPc,
     HookPc, Payable, Paid, IInv, OrderInv
<1>10. ASSUME NEW o \in Orders, FailOrder(o)
      PROVE  Paid(p)'
  BY <1>10 DEF FailOrder, Goto, site, remoteState, hooks, TypeOK, RequestPc,
     HookPc, Payable, Paid, IInv, OrderInv
<1>11. ASSUME NEW o \in Orders, RequestDies(o)
      PROVE  Paid(p)'
  BY <1>11 DEF RequestDies, Goto, site, remoteState, hooks, TypeOK, RequestPc,
     HookPc, Payable, Paid, IInv, OrderInv
<1>12. ASSUME NEW o \in Orders, CompleteUnpaid(o) \/ Capture(o) \/ CaptureOther(o)
      PROVE  Paid(p)'
  BY <1>12, ProviderFrame DEF site, Paid
<1>13. ASSUME NEW h \in Hooks, Fulfil(h)
      PROVE  Paid(p)'
  BY <1>13 DEF Fulfil, HookGoto, Answer, Target, TypeOK, IInv, Paid
<1>14. ASSUME NEW h \in Hooks, HookStep(h), ~Fulfil(h)
      PROVE  Paid(p)'
  BY <1>14 DEF Paid, site, HookStep, LookUp, Recheck, ConvertLead, ReadSender,
     MailCustomer, MailRefused, RecordNotified, MailAdmin
<1>15. ASSUME NEW h \in Hooks, HookDies(h)
      PROVE  Paid(p)'
  BY <1>15 DEF Paid, site, HookDies
<1>16. ASSUME NEW h \in Hooks, NEW e \in Event, Deliver(h, e)
      PROVE  Paid(p)'
  BY <1>16 DEF Deliver, site, Paid
<1>17. CASE UNCHANGED vars
  BY <1>17 DEF vars, site, remoteState, hooks, Paid
<1>18. QED
  BY <1>1, <1>2, <1>3, <1>4, <1>5, <1>6, <1>7, <1>8, <1>9, <1>10, <1>11,
     <1>12, <1>13, <1>14, <1>15, <1>16, <1>17 DEF Next, CheckoutStep

(* The rows keep following their requests and sessions.                    *)
LEMMA OrderStep ==
  ASSUME IInv, [Next]_vars
  PROVE  OrderInv'
<1>1. ASSUME NEW o \in Orders, CheckOwned(o)
      PROVE  OrderInv'
  BY <1>1 DEF CheckOwned, Goto, site, remoteState, hooks, TypeOK, RequestPc,
     HookPc, Payable, Paid, IInv, OrderInv, RemoteInv, Owned
<1>2. ASSUME NEW o \in Orders, OwnershipUnreadable(o)
      PROVE  OrderInv'
  BY <1>2 DEF OwnershipUnreadable, Goto, site, remoteState, hooks, TypeOK,
     RequestPc, HookPc, Payable, Paid, IInv, OrderInv, RemoteInv
<1>3. ASSUME NEW o \in Orders, CreateOrder(o)
      PROVE  OrderInv'
  BY <1>3 DEF CreateOrder, Goto, site, remoteState, hooks, TypeOK, RequestPc,
     HookPc, Payable, Paid, IInv, OrderInv, RemoteInv
<1>4. ASSUME NEW o \in Orders, LinkLead(o)
      PROVE  OrderInv'
  BY <1>4 DEF LinkLead, Goto, site, remoteState, hooks, TypeOK, RequestPc,
     HookPc, Payable, Paid, IInv, OrderInv, RemoteInv
<1>5. ASSUME NEW o \in Orders, OpenSession(o)
      PROVE  OrderInv'
  BY <1>5 DEF OpenSession, Goto, site, remoteState, hooks, TypeOK, RequestPc,
     HookPc, Payable, Paid, IInv, OrderInv, RemoteInv
<1>6. ASSUME NEW o \in Orders, SessionUnusable(o)
      PROVE  OrderInv'
  BY <1>6 DEF SessionUnusable, Goto, site, remoteState, hooks, TypeOK,
     RequestPc, HookPc, Payable, Paid, IInv, OrderInv, RemoteInv
<1>7. ASSUME NEW o \in Orders, RazorpayRefuses(o)
      PROVE  OrderInv'
  BY <1>7 DEF RazorpayRefuses, Goto, site, remoteState, hooks, TypeOK,
     RequestPc, HookPc, Payable, Paid, IInv, OrderInv, RemoteInv
<1>8. ASSUME NEW o \in Orders, AttachAndReply(o)
      PROVE  OrderInv'
  BY <1>8 DEF AttachAndReply, Goto, site, remoteState, hooks, TypeOK,
     RequestPc, HookPc, Payable, Paid, IInv, OrderInv, RemoteInv
<1>9. ASSUME NEW o \in Orders, AttachThrows(o)
      PROVE  OrderInv'
  BY <1>9 DEF AttachThrows, Goto, site, remoteState, hooks, TypeOK, RequestPc,
     HookPc, Payable, Paid, IInv, OrderInv, RemoteInv
<1>10. ASSUME NEW o \in Orders, FailOrder(o)
      PROVE  OrderInv'
  BY <1>10 DEF FailOrder, Goto, site, remoteState, hooks, TypeOK, RequestPc,
     HookPc, Payable, Paid, IInv, OrderInv, RemoteInv
<1>11. ASSUME NEW o \in Orders, RequestDies(o)
      PROVE  OrderInv'
  BY <1>11 DEF RequestDies, Goto, site, remoteState, hooks, TypeOK, RequestPc,
     HookPc, Payable, Paid, IInv, OrderInv, RemoteInv
<1>12. ASSUME NEW o \in Orders, CompleteUnpaid(o)
      PROVE  OrderInv'
  BY <1>12 DEF CompleteUnpaid, Emit, site, remoteState, hooks, TypeOK,
     RequestPc, HookPc, Payable, Paid, IInv, OrderInv
<1>13. ASSUME NEW o \in Orders, Capture(o)
      PROVE  OrderInv'
  BY <1>13 DEF Capture, Emit, site, remoteState, hooks, TypeOK, RequestPc,
     HookPc, Payable, Paid, IInv, OrderInv
<1>14. ASSUME NEW o \in Orders, CaptureOther(o)
      PROVE  OrderInv'
  BY <1>14 DEF CaptureOther, Emit, site, remoteState, hooks, TypeOK,
     RequestPc, HookPc, Payable, Paid, IInv, OrderInv
<1>15. ASSUME NEW h \in Hooks, Fulfil(h)
      PROVE  OrderInv'
  BY <1>15, TargetIs DEF Fulfil, HookGoto, Answer, Target, site, remoteState,
     TypeOK, RequestPc, HookPc, Payable, Paid, IInv, OrderInv, RemoteInv,
     HookInv, Winner
<1>16. ASSUME NEW h \in Hooks, ConvertLead(h)
      PROVE  OrderInv'
  BY <1>16, TargetIs DEF ConvertLead, HookGoto, Answer, Target, site,
     remoteState, TypeOK, RequestPc, HookPc, Payable, Paid, IInv, OrderInv,
     RemoteInv, HookInv, Winner
<1>17. ASSUME NEW h \in Hooks, RecordNotified(h)
      PROVE  OrderInv'
  BY <1>17, TargetIs DEF RecordNotified, HookGoto, Answer, Target, site,
     remoteState, TypeOK, RequestPc, HookPc, Payable, Paid, IInv, OrderInv,
     RemoteInv, HookInv, Winner
<1>18. ASSUME NEW h \in Hooks, HookStep(h), ~Fulfil(h), ~ConvertLead(h), ~RecordNotified(h)
      PROVE  OrderInv'
  BY <1>18, HookFrame DEF IInv, OrderInv, Paid, site, HookStep, LookUp,
     Recheck, ReadSender, MailCustomer, MailRefused, MailAdmin
<1>19. ASSUME NEW h \in Hooks, HookDies(h)
      PROVE  OrderInv'
  BY <1>19, HookFrame DEF IInv, OrderInv, Paid, site, HookDies
<1>20. ASSUME NEW h \in Hooks, NEW e \in Event, Deliver(h, e)
      PROVE  OrderInv'
  BY <1>20 DEF IInv, OrderInv, Paid, Deliver, site
<1>21. CASE UNCHANGED vars
  BY <1>21 DEF vars, site, remoteState, hooks, IInv, OrderInv, Paid
<1>22. QED
  BY <1>1, <1>2, <1>3, <1>4, <1>5, <1>6, <1>7, <1>8, <1>9, <1>10, <1>11,
     <1>12, <1>13, <1>14, <1>15, <1>16, <1>17, <1>18, <1>19, <1>20, <1>21 DEF
     Next, CheckoutStep

(* Deliveries keep to exact settlements and to paid orders.                *)
LEMMA HookInvStep ==
  ASSUME IInv, [Next]_vars
  PROVE  HookInv'
<1>1. ASSUME NEW o \in Orders, CheckoutStep(o)
      PROVE  HookInv'
  BY <1>1, RequestFrame, PaidStays DEF IInv, TypeOK, HookInv, Target, Event,
     Winner
<1>2. ASSUME NEW o \in Orders, CompleteUnpaid(o) \/ Capture(o) \/ CaptureOther(o)
      PROVE  HookInv'
  BY <1>2, ProviderFrame, PaidStays DEF IInv, TypeOK, HookInv, Target, Event,
     Winner
<1>3. ASSUME NEW h \in Hooks, LookUp(h)
      PROVE  HookInv'
  BY <1>3 DEF LookUp, HookGoto, Answer, Target, site, remoteState, hooks,
     TypeOK, RequestPc, HookPc, Payable, Paid, IInv, HookInv, Event, Winner,
     Matches, RowFound
<1>4. ASSUME NEW h \in Hooks, Fulfil(h)
      PROVE  HookInv'
  BY <1>4 DEF Fulfil, HookGoto, Answer, Target, site, remoteState, hooks,
     TypeOK, RequestPc, HookPc, Payable, Paid, IInv, HookInv, Event, Winner
<1>5. ASSUME NEW h \in Hooks, Recheck(h)
      PROVE  HookInv'
  BY <1>5 DEF Recheck, HookGoto, Answer, Target, site, remoteState, hooks,
     TypeOK, RequestPc, HookPc, Payable, Paid, IInv, HookInv, Event, Winner
<1>6. ASSUME NEW h \in Hooks, ConvertLead(h)
      PROVE  HookInv'
  BY <1>6 DEF ConvertLead, HookGoto, Answer, Target, site, remoteState, hooks,
     TypeOK, RequestPc, HookPc, Payable, Paid, IInv, HookInv, Event, Winner
<1>7. ASSUME NEW h \in Hooks, ReadSender(h)
      PROVE  HookInv'
  BY <1>7 DEF ReadSender, HookGoto, Answer, Target, site, remoteState, hooks,
     TypeOK, RequestPc, HookPc, Payable, Paid, IInv, HookInv, Event, Winner
<1>8. ASSUME NEW h \in Hooks, MailCustomer(h)
      PROVE  HookInv'
  BY <1>8 DEF MailCustomer, HookGoto, Answer, Target, site, remoteState,
     hooks, TypeOK, RequestPc, HookPc, Payable, Paid, IInv, HookInv, Event,
     Winner
<1>9. ASSUME NEW h \in Hooks, MailRefused(h)
      PROVE  HookInv'
  BY <1>9 DEF MailRefused, HookGoto, Answer, Target, site, remoteState, hooks,
     TypeOK, RequestPc, HookPc, Payable, Paid, IInv, HookInv, Event, Winner
<1>10. ASSUME NEW h \in Hooks, RecordNotified(h)
      PROVE  HookInv'
  BY <1>10 DEF RecordNotified, HookGoto, Answer, Target, site, remoteState,
     hooks, TypeOK, RequestPc, HookPc, Payable, Paid, IInv, HookInv, Event,
     Winner
<1>11. ASSUME NEW h \in Hooks, MailAdmin(h)
      PROVE  HookInv'
  BY <1>11 DEF MailAdmin, HookGoto, Answer, Target, site, remoteState, hooks,
     TypeOK, RequestPc, HookPc, Payable, Paid, IInv, HookInv, Event, Winner
<1>12. ASSUME NEW h \in Hooks, HookDies(h)
      PROVE  HookInv'
  BY <1>12 DEF HookDies, HookGoto, Answer, Target, site, remoteState, hooks,
     TypeOK, RequestPc, HookPc, Payable, Paid, IInv, HookInv, Event, Winner
<1>13. ASSUME NEW h \in Hooks, NEW e \in Event, Deliver(h, e)
      PROVE  HookInv'
  BY <1>13 DEF Deliver, site, remoteState, hooks, TypeOK, RequestPc, HookPc,
     Payable, Paid, IInv, HookInv, Target, Event, Winner
<1>14. CASE UNCHANGED vars
  BY <1>14 DEF vars, site, remoteState, hooks, IInv, HookInv, Target, Paid
<1>15. QED
  BY <1>1, <1>2, <1>3, <1>4, <1>5, <1>6, <1>7, <1>8, <1>9, <1>10, <1>11,
     <1>12, <1>13, <1>14 DEF Next, HookStep

(* A single delivery keeps the right to confirm an order.                  *)
LEMMA MailStep ==
  ASSUME IInv, [Next]_vars
  PROVE  MailInv'
<1>1. ASSUME NEW o \in Orders, CheckoutStep(o)
      PROVE  MailInv'
  BY <1>1, RequestFrame, PaidStays, OrderStep DEF IInv, TypeOK, MailInv,
     OrderInv, Target, Winner, BeforeMail, Paid, CheckoutStep, CheckOwned,
     OwnershipUnreadable, CreateOrder, LinkLead, OpenSession, SessionUnusable,
     RazorpayRefuses, AttachAndReply, AttachThrows, FailOrder, RequestDies,
     Goto, site, remoteState, hooks
<1>2. ASSUME NEW o \in Orders, CompleteUnpaid(o) \/ Capture(o) \/ CaptureOther(o)
      PROVE  MailInv'
  BY <1>2, ProviderFrame, PaidStays DEF IInv, MailInv, Target, Paid, site,
     Winner, BeforeMail
<1>3. ASSUME NEW h \in Hooks, LookUp(h)
      PROVE  MailInv'
  BY <1>3, TargetIs DEF LookUp, HookGoto, Answer, Target, site, remoteState,
     TypeOK, RequestPc, HookPc, Payable, IInv, MailInv, OrderInv, HookInv,
     Winner, BeforeMail, Paid, Matches, RowFound
<1>4. ASSUME NEW h \in Hooks, Fulfil(h)
      PROVE  MailInv'
  BY <1>4, TargetIs DEF Fulfil, HookGoto, Answer, Target, site, remoteState,
     TypeOK, RequestPc, HookPc, Payable, IInv, MailInv, OrderInv, HookInv,
     Winner, BeforeMail, Paid
<1>5. ASSUME NEW h \in Hooks, Recheck(h)
      PROVE  MailInv'
  BY <1>5, TargetIs DEF Recheck, HookGoto, Answer, Target, site, remoteState,
     TypeOK, RequestPc, HookPc, Payable, IInv, MailInv, OrderInv, HookInv,
     Winner, BeforeMail, Paid
<1>6. ASSUME NEW h \in Hooks, ConvertLead(h)
      PROVE  MailInv'
  BY <1>6, TargetIs DEF ConvertLead, HookGoto, Answer, Target, site,
     remoteState, TypeOK, RequestPc, HookPc, Payable, IInv, MailInv, OrderInv,
     HookInv, Winner, BeforeMail, Paid
<1>7. ASSUME NEW h \in Hooks, ReadSender(h)
      PROVE  MailInv'
  BY <1>7, TargetIs DEF ReadSender, HookGoto, Answer, Target, site,
     remoteState, TypeOK, RequestPc, HookPc, Payable, IInv, MailInv, OrderInv,
     HookInv, Winner, BeforeMail, Paid
<1>8. ASSUME NEW h \in Hooks, MailCustomer(h)
      PROVE  MailInv'
  BY <1>8, TargetIs DEF MailCustomer, HookGoto, Answer, Target, site,
     remoteState, TypeOK, RequestPc, HookPc, Payable, IInv, MailInv, OrderInv,
     HookInv, Winner, BeforeMail, Paid
<1>9. ASSUME NEW h \in Hooks, MailRefused(h)
      PROVE  MailInv'
  BY <1>9, TargetIs DEF MailRefused, HookGoto, Answer, Target, site,
     remoteState, TypeOK, RequestPc, HookPc, Payable, IInv, MailInv, OrderInv,
     HookInv, Winner, BeforeMail, Paid
<1>10. ASSUME NEW h \in Hooks, RecordNotified(h)
      PROVE  MailInv'
  BY <1>10, TargetIs DEF RecordNotified, HookGoto, Answer, Target, site,
     remoteState, TypeOK, RequestPc, HookPc, Payable, IInv, MailInv, OrderInv,
     HookInv, Winner, BeforeMail, Paid
<1>11. ASSUME NEW h \in Hooks, MailAdmin(h)
      PROVE  MailInv'
  BY <1>11, TargetIs DEF MailAdmin, HookGoto, Answer, Target, site,
     remoteState, TypeOK, RequestPc, HookPc, Payable, IInv, MailInv, OrderInv,
     HookInv, Winner, BeforeMail, Paid
<1>12. ASSUME NEW h \in Hooks, HookDies(h)
      PROVE  MailInv'
  BY <1>12, TargetIs DEF HookDies, HookGoto, Answer, Target, site,
     remoteState, TypeOK, RequestPc, HookPc, Payable, IInv, MailInv, OrderInv,
     HookInv, Winner, BeforeMail, Paid
<1>13. ASSUME NEW h \in Hooks, NEW e \in Event, Deliver(h, e)
      PROVE  MailInv'
  BY <1>13 DEF Deliver, site, remoteState, hooks, TypeOK, RequestPc, HookPc,
     Payable, IInv, MailInv, OrderInv, HookInv, Winner, BeforeMail, Paid,
     Target
<1>14. CASE UNCHANGED vars
  BY <1>14 DEF vars, site, remoteState, hooks, IInv, MailInv, Target, Paid,
     Winner, BeforeMail
<1>15. QED
  BY <1>1, <1>2, <1>3, <1>4, <1>5, <1>6, <1>7, <1>8, <1>9, <1>10, <1>11,
     <1>12, <1>13, <1>14 DEF Next, HookStep

(* What is acknowledged stays settled.                                     *)
LEMMA AckedStep ==
  ASSUME IInv, [Next]_vars
  PROVE  AckedIsSettled'
<1>1. ASSUME NEW o \in Orders, CheckoutStep(o)
      PROVE  AckedIsSettled'
  BY <1>1, RequestFrame, PaidStays DEF IInv, TypeOK, AckedIsSettled, Event
<1>2. ASSUME NEW o \in Orders, CompleteUnpaid(o) \/ Capture(o) \/ CaptureOther(o)
      PROVE  AckedIsSettled'
  BY <1>2, ProviderFrame, PaidStays DEF IInv, TypeOK, AckedIsSettled, Event
<1>3. ASSUME NEW h \in Hooks, HookStep(h)
      PROVE  AckedIsSettled'
  BY <1>3, PaidStays, TargetIs DEF IInv, TypeOK, HookInv, AckedIsSettled,
     Event, Winner, Target, HookGoto, Answer, remoteState, HookStep, LookUp,
     Fulfil, Recheck, ConvertLead, ReadSender, MailCustomer, MailRefused,
     RecordNotified, MailAdmin, HookDies
<1>4. ASSUME NEW h \in Hooks, HookDies(h)
      PROVE  AckedIsSettled'
  BY <1>4 DEF HookDies, Answer, site, IInv, AckedIsSettled, Paid
<1>5. ASSUME NEW h \in Hooks, NEW e \in Event, Deliver(h, e)
      PROVE  AckedIsSettled'
  BY <1>5 DEF Deliver, site, IInv, AckedIsSettled, Paid
<1>6. CASE UNCHANGED vars
  BY <1>6 DEF vars, site, remoteState, hooks, IInv, AckedIsSettled, Paid
<1>7. QED
  BY <1>1, <1>2, <1>3, <1>4, <1>5, <1>6 DEF Next

(* IInv is an invariant: each of its conjuncts is preserved.               *)
THEOREM Invariance == Spec => []IInv
<1>1. IInv /\ [Next]_vars => IInv'
  <2> SUFFICES ASSUME IInv, [Next]_vars PROVE IInv'
    OBVIOUS
  <2>1. TypeOK'
    BY TypeStep DEF IInv
  <2>2. RemoteInv'
    BY RemoteStep DEF IInv
  <2> QED
    BY <2>1, <2>2, OrderStep, HookInvStep, MailStep, AckedStep DEF IInv
<1> QED
  BY Initially, <1>1, PTL DEF Spec

(* The type invariant of the model.                                        *)
THEOREM TypeCorrect == Spec => []TypeOK
  BY Invariance, PTL DEF IInv

(* An order is paid only after the provider collected its exact price.     *)
THEOREM PaymentsAreReal == Spec => []PaidMeansCharged
<1>1. IInv => PaidMeansCharged
  BY DEF IInv, OrderInv, PaidMeansCharged
<1> QED
  BY <1>1, Invariance, PTL

(* The checkout request never fails an order that a customer can pay.      *)
THEOREM FailuresAreFree == Spec => []FailedNeverCharged
<1>1. IInv => FailedNeverCharged
  BY DEF IInv, OrderInv, FailedNeverCharged
<1> QED
  BY <1>1, Invariance, PTL

(* At most one confirmation per order, and none recorded but not sent.     *)
THEOREM ConfirmedOnce == Spec => []OneConfirmation
<1>1. IInv => OneConfirmation
  BY DEF IInv, MailInv, OneConfirmation
<1> QED
  BY <1>1, Invariance, PTL

(* A settling event is acknowledged only once its order is paid.           *)
THEOREM NoPaymentForgotten == Spec => []AckedIsSettled
  BY Invariance, PTL DEF IInv

-----------------------------------------------------------------------------
(* Neither the session nor the fulfilment of a paid order is taken back.   *)
LEMMA AttachmentStays ==
  ASSUME IInv, NEW p \in Orders, Paid(p), [Next]_vars
  PROVE  p \in attached'
<1>1. ASSUME NEW o \in Orders, CheckoutStep(o)
      PROVE  p \in attached'
  BY <1>1 DEF IInv, OrderInv, RemoteInv, Paid, CheckoutStep, CheckOwned,
     OwnershipUnreadable, CreateOrder, LinkLead, OpenSession, SessionUnusable,
     RazorpayRefuses, AttachAndReply, AttachThrows, FailOrder, RequestDies,
     Goto, site
<1>2. ASSUME NEW o \in Orders, CompleteUnpaid(o) \/ Capture(o) \/ CaptureOther(o)
      PROVE  p \in attached'
  BY <1>2, ProviderFrame DEF IInv, OrderInv, RemoteInv, Paid, site
<1>3. ASSUME NEW h \in Hooks, HookStep(h)
      PROVE  p \in attached'
  BY <1>3 DEF IInv, OrderInv, RemoteInv, Paid, HookStep, LookUp, Fulfil,
     Recheck, ConvertLead, ReadSender, MailCustomer, MailRefused,
     RecordNotified, MailAdmin, site
<1>4. ASSUME NEW h \in Hooks, HookDies(h)
      PROVE  p \in attached'
  BY <1>4 DEF IInv, OrderInv, RemoteInv, Paid, HookDies, site
<1>5. ASSUME NEW h \in Hooks, NEW e \in Event, Deliver(h, e)
      PROVE  p \in attached'
  BY <1>5 DEF Deliver, site, IInv, OrderInv, RemoteInv, Paid
<1>6. CASE UNCHANGED vars
  BY <1>6 DEF vars, site, remoteState, hooks, IInv, OrderInv, RemoteInv, Paid
<1>7. QED
  BY <1>1, <1>2, <1>3, <1>4, <1>5, <1>6 DEF Next

(* Fulfilment of a paid order only ever moves to "notified".               *)
LEMMA FulfilmentStays ==
  ASSUME IInv, NEW p \in Orders, Paid(p), [Next]_vars
  PROVE  fulfilment'[p] = fulfilment[p] \/ fulfilment'[p] = "notified"
<1>1. ASSUME NEW o \in Orders, CheckoutStep(o)
      PROVE  fulfilment'[p] = fulfilment[p] \/ fulfilment'[p] = "notified"
  BY <1>1 DEF TypeOK, IInv, OrderInv, RemoteInv, Paid, CheckoutStep,
     CheckOwned, OwnershipUnreadable, CreateOrder, LinkLead, OpenSession,
     SessionUnusable, RazorpayRefuses, AttachAndReply, AttachThrows,
     FailOrder, RequestDies, Goto, site
<1>2. ASSUME NEW o \in Orders, CompleteUnpaid(o) \/ Capture(o) \/ CaptureOther(o)
      PROVE  fulfilment'[p] = fulfilment[p] \/ fulfilment'[p] = "notified"
  BY <1>2, ProviderFrame DEF site
<1>3. ASSUME NEW h \in Hooks, HookStep(h)
      PROVE  fulfilment'[p] = fulfilment[p] \/ fulfilment'[p] = "notified"
  BY <1>3 DEF TypeOK, Paid, IInv, HookStep, LookUp, Fulfil, Recheck,
     ConvertLead, ReadSender, MailCustomer, MailRefused, RecordNotified,
     MailAdmin, site
<1>4. ASSUME NEW h \in Hooks, HookDies(h)
      PROVE  fulfilment'[p] = fulfilment[p] \/ fulfilment'[p] = "notified"
  BY <1>4 DEF HookDies, site
<1>5. ASSUME NEW h \in Hooks, NEW e \in Event, Deliver(h, e)
      PROVE  fulfilment'[p] = fulfilment[p] \/ fulfilment'[p] = "notified"
  BY <1>5 DEF Deliver, site
<1>6. CASE UNCHANGED vars
  BY <1>6 DEF vars, site, remoteState, hooks, Paid
<1>7. QED
  BY <1>1, <1>2, <1>3, <1>4, <1>5, <1>6 DEF Next

(* A paid order stays paid and attached and is never queued again.         *)
THEOREM PaymentsAreFinal == Spec => SettledForGood
<1> DEFINE P(o) == Paid(o) => /\ payment'[o] = "paid"
                              /\ o \in attached'
                              /\ Rank(fulfilment'[o]) >= Rank(fulfilment[o])
<1>1. ASSUME IInv, [Next]_vars, NEW o \in Orders, Paid(o)
      PROVE  Rank(fulfilment'[o]) >= Rank(fulfilment[o])
  <2>1. fulfilment[o] \in {"queued", "notified"}
    BY <1>1 DEF IInv, OrderInv
  <2>2. fulfilment'[o] = fulfilment[o] \/ fulfilment'[o] = "notified"
    BY <1>1, FulfilmentStays
  <2> QED
    BY <2>1, <2>2 DEF Rank
<1>2. ASSUME IInv, [Next]_vars, NEW o \in Orders PROVE P(o)
  BY <1>1, <1>2, PaidStays, AttachmentStays DEF Paid
<1>3. IInv /\ [Next]_vars => [\A o \in Orders : P(o)]_site
  BY <1>2
<1> QED
  BY <1>3, Invariance, PTL DEF Spec, SettledForGood

-----------------------------------------------------------------------------
(* The site keeps the promise of module Purchase.                          *)

(* Each step is a step of the abstract purchase, or leaves it alone.       *)
LEMMA StepsOfThePromise ==
  ASSUME IInv, [Next]_vars
  PROVE  [Promise!Next]_Promise!vars
<1>1. ASSUME NEW o \in Orders, CheckoutStep(o)
      PROVE  [Promise!Next]_Promise!vars
  BY <1>1, RequestFrame DEF IInv, OrderInv, RemoteInv, Paid, Promise!vars,
     TypeOK, CheckoutStep, CheckOwned, OwnershipUnreadable, CreateOrder,
     LinkLead, OpenSession, SessionUnusable, RazorpayRefuses, AttachAndReply,
     AttachThrows, FailOrder, RequestDies, Goto, site, remoteState, Payable
<1>2. ASSUME NEW o \in Orders, CompleteUnpaid(o) \/ CaptureOther(o)
      PROVE  [Promise!Next]_Promise!vars
  BY <1>2 DEF IInv, OrderInv, RemoteInv, Paid, Promise!vars, TypeOK,
     CompleteUnpaid, CaptureOther, Emit, site, Payable
<1>3. ASSUME NEW o \in Orders, Capture(o)
      PROVE  [Promise!Next]_Promise!vars
  BY <1>3 DEF IInv, OrderInv, RemoteInv, Paid, Promise!Next, Promise!Charge,
     Promise!Grant, Promise!Confirm, Promise!vars, TypeOK, Capture, Emit,
     site, Payable
<1>4. ASSUME NEW h \in Hooks, Fulfil(h)
      PROVE  [Promise!Next]_Promise!vars
  BY <1>4, TargetIs DEF Fulfil, HookGoto, Answer, Target, site, remoteState,
     IInv, TypeOK, OrderInv, HookInv, Paid, Promise!Next, Promise!Charge,
     Promise!Grant, Promise!Confirm, Promise!vars
<1>5. ASSUME NEW h \in Hooks, MailCustomer(h)
      PROVE  [Promise!Next]_Promise!vars
  BY <1>5, TargetIs DEF MailCustomer, HookGoto, Answer, Target, site,
     remoteState, IInv, TypeOK, OrderInv, HookInv, MailInv, BeforeMail,
     Winner, Paid, Promise!Next, Promise!Charge, Promise!Grant,
     Promise!Confirm, Promise!vars
<1>6. ASSUME NEW h \in Hooks, HookStep(h), ~Fulfil(h), ~MailCustomer(h)
      PROVE  [Promise!Next]_Promise!vars
  BY <1>6, HookFrame DEF Promise!vars, Paid, site, HookStep, LookUp, Recheck,
     ConvertLead, ReadSender, MailRefused, RecordNotified, MailAdmin
<1>7. ASSUME NEW h \in Hooks, HookDies(h)
      PROVE  [Promise!Next]_Promise!vars
  BY <1>7, HookFrame DEF Promise!vars, Paid, site, HookDies
<1>8. ASSUME NEW h \in Hooks, NEW e \in Event, Deliver(h, e)
      PROVE  [Promise!Next]_Promise!vars
  BY <1>8 DEF Deliver, site, Promise!vars, Paid
<1>9. CASE UNCHANGED vars
  BY <1>9 DEF vars, site, remoteState, hooks, Promise!vars, Paid
<1>10. QED
  BY <1>1, <1>2, <1>3, <1>4, <1>5, <1>6, <1>7, <1>8, <1>9 DEF Next

(* Every behaviour of the checkout is one of the abstract purchase.        *)
THEOREM PromiseKept == Spec => KeepsPromise
<1>1. Init => Promise!Init
  BY DEF Init, Promise!Init, Paid
<1>2. IInv /\ [Next]_vars => [Promise!Next]_Promise!vars
  BY StepsOfThePromise
<1> QED
  BY <1>1, <1>2, Invariance, PTL DEF Spec, KeepsPromise, Promise!Spec
=============================================================================
