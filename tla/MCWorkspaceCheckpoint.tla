----------------------- MODULE MCWorkspaceCheckpoint -----------------------
(* Two requests and an author: content may change to another and back.     *)
EXTENDS WorkspaceCheckpoint, TLC

Symmetry == Permutations(Procs) \cup Permutations(Contents)
=============================================================================
