-------------------------- MODULE MCContentRelease --------------------------
(* The log: entry a is there from the beginning and every kind of mutation *)
(* meets it; b comes with the snapshot, or is created by a request before  *)
(* it.  The studio: one page whose author types two texts of one field,    *)
(* beside a client that publishes another text of the title, or sends an   *)
(* empty one, which is refused.                                            *)
EXTENDS Content, TLC

CONSTANTS a, b, v0, v1, v2
CONSTANTS hero, title, first, second, third

Seeded == (a :> v0) @@ (b :> NoValue)
Release == (a :> v2) @@ (b :> v1)
Bare == [e \in {} |-> v0]
Releases == {Release, Bare}

Ask(o, e, v) == [op |-> o, entry |-> e, value |-> v]

AllRequests ==
  {Ask("change", a, v1), Ask("create", b, v2), Ask("draft", a, v1),
   Ask("publish", a, v2),
   [op |-> "delete", entry |-> b],
   [op |-> "import", snapshot |-> Release],
   [op |-> "import", snapshot |-> Bare], [op |-> "export"]}

HeroTexts == {<<hero, first>>, <<hero, second>>}

Entitled(t) == [f \in {hero, title} |-> IF f = title THEN t ELSE NoText]

TitleCalls ==
  {[changes |-> Entitled(third), publish |-> TRUE],
   [changes |-> Entitled(Empty), publish |-> FALSE]}

Symmetry == Permutations(Procs) \cup Permutations({first, second})
=============================================================================
