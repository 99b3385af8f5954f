---------------------------- MODULE AssetHistory ----------------------------
(***************************************************************************)
(* What the registry promises about the history of an asset: a revision is *)
(* stored once and never changed, no two revisions of an asset share a     *)
(* number, and a number is new only after the one before it, unless the    *)
(* revision was adopted with its number from another workspace.            *)
(***************************************************************************)
EXTENDS Naturals

CONSTANTS Revisions, assetOf, Adopted

VARIABLE number     \* revision_number, 0 for a revision that is not stored

Init == number = [r \in Revisions |-> 0]

Siblings(r) == {s \in Revisions : assetOf[s] = assetOf[r]}

(* The number of r is the only thing that changes.                         *)
Store(r) ==
  LET n == number'[r]
  IN /\ number[r] = 0
     /\ n \in Nat \ {0}
     /\ \A s \in Siblings(r) : number[s] # n
     /\ r \in Adopted \/ n = 1 \/ \E s \in Siblings(r) : number[s] = n - 1
     /\ number' = [number EXCEPT ![r] = n]

Next == \E r \in Revisions : Store(r)

Spec == Init /\ [][Next]_number
=============================================================================
