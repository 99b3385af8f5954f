------------------------------ MODULE Purchase ------------------------------
(***************************************************************************)
(* What the shop promises about one order of the full reading, whatever   *)
(* the number of workers, webhook deliveries and crashes: the customer is  *)
(* charged once, the order is granted only after an exact charge and for   *)
(* good, and at most one confirmation leaves the site, after the grant.    *)
(***************************************************************************)
CONSTANT Orders

VARIABLES charged,    \* orders whose exact price the provider has collected
          granted,    \* orders that give access to the reading
          confirmed   \* orders whose confirmation reached the mail provider

vars == <<charged, granted, confirmed>>

Init == charged = {} /\ granted = {} /\ confirmed = {}

Charge(o) ==
  /\ o \notin charged
  /\ charged' = charged \cup {o}
  /\ UNCHANGED <<granted, confirmed>>

Grant(o) ==
  /\ o \in charged \ granted
  /\ granted' = granted \cup {o}
  /\ UNCHANGED <<charged, confirmed>>

Confirm(o) ==
  /\ o \in granted \ confirmed
  /\ confirmed' = confirmed \cup {o}
  /\ UNCHANGED <<charged, granted>>

Next == \E o \in Orders : Charge(o) \/ Grant(o) \/ Confirm(o)

Spec == Init /\ [][Next]_vars
=============================================================================
