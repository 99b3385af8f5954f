----------------------------- MODULE MCCheckout -----------------------------
(* Every request names the same chart, the case in which orders interact.  *)
EXTENDS Checkout, TLC

CONSTANT chart

SameChart == [o \in Orders |-> chart]
NoChart == [o \in Orders |-> NoReading]

Symmetry == Permutations(Orders) \cup Permutations(Hooks)
=============================================================================
