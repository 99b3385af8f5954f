-------------------------- MODULE MCAssetRegistry --------------------------
(* Asset a1 has two local revisions, one of them protected, and r3, which  *)
(* an import brings under a number that a local registration may have      *)
(* taken; another import leaves nothing.  Asset a2, where it takes part,   *)
(* wants the alias of a1.                                                  *)
EXTENDS AssetRegistry, TLC

CONSTANTS a1, a2, r1, r2, r3, s1, x

AssetOf == [r \in Revisions |-> IF r = s1 THEN a2 ELSE a1]
AliasesOf == [r \in Revisions |-> IF r = r2 THEN {} ELSE {x}]

Imported == [release |-> 1, assets |-> {[revision |-> r3, number |-> 2, aliases |-> {x}]}]
Emptied == [release |-> 2, assets |-> {}]
Imports == {Imported, Emptied}
NoImports == {}

Register(r, e) == [op |-> "register", revision |-> r, expected |-> e]

OneAssetRequests ==
  {Register(r1, NoRevision), Register(r2, r1),
   [op |-> "describe", asset |-> a1, aliases |-> {}],
   [op |-> "delete", asset |-> a1], [op |-> "restore", asset |-> a1],
   [op |-> "export"], [op |-> "import", snapshot |-> Imported],
   [op |-> "import", snapshot |-> Emptied]}

TwoAssetRequests == {Register(r1, NoRevision), Register(s1, NoRevision)}

Symmetry == Permutations(Procs)
=============================================================================
