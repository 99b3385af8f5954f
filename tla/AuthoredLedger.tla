--------------------------- MODULE AuthoredLedger ---------------------------
(***************************************************************************)
(* What the checkpoint protocol promises about a workspace generation:     *)
(* authors write freely, an observation stamps exactly the content of that *)
(* instant with the next revision, and one envelope at most is ever        *)
(* restored, content and metadata at once.                                 *)
(***************************************************************************)
EXTENDS Naturals

CONSTANTS Contents,   \* every state of the authored domains
          Envelopes,  \* checkpoints that can be imported
          Unseen,     \* content_digest '': never observed
          NoEnvelope  \* imported_envelope_digest NULL

VARIABLES content,    \* the authored rows
          revision,   \* authored_revision
          digest,     \* content_digest, as the content it identifies
          imported    \* imported_envelope_digest

vars == <<content, revision, digest, imported>>

Init ==
  /\ content \in Contents
  /\ revision = 0
  /\ digest = Unseen
  /\ imported = NoEnvelope

Author ==
  /\ content' \in Contents \ {content}
  /\ UNCHANGED <<revision, digest, imported>>

(* The first observation stamps the content without counting it.           *)
Observe ==
  /\ digest # content
  /\ digest' = content
  /\ revision' = IF digest = Unseen THEN revision ELSE revision + 1
  /\ UNCHANGED <<content, imported>>

Restore(e) ==
  /\ imported = NoEnvelope
  /\ content' = e.content
  /\ revision' = e.revision
  /\ digest' = e.content
  /\ imported' = e

Next == Author \/ Observe \/ \E e \in Envelopes : Restore(e)

Spec == Init /\ [][Next]_vars
=============================================================================
