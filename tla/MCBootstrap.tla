---------------------------- MODULE MCBootstrap ------------------------------
(* The registry of the build that is deployed has a field and an entry more *)
(* than the build before it; the script sends one target at a time.        *)
EXTENDS Bootstrap, TLC

CONSTANTS older, newer, home, main, pages, title, body, default, edit, p1, p2

MCCollectionOf == home :> pages @@ main :> pages

MCSchema ==
  older :> (pages :> {title}) @@ newer :> (pages :> {title, body})

MCTargets == older :> <<home>> @@ newer :> <<home, main>>

MCDefaults ==
  [b \in Builds |-> [e \in Entries |-> [f \in Fields |->
     IF f \in MCSchema[b][MCCollectionOf[e]] THEN default ELSE Empty]]]

MCEdits == [entry : {home}, field : {body}, text : {edit, Empty}]

Symmetry == Permutations(Procs)
=============================================================================
