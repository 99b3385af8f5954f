------------------------ MODULE WorkspaceCheckpoint ------------------------
(***************************************************************************)
(* Observing, exporting and importing the authored state of a workspace    *)
(* (server/generated-site/workspace-authored-state.ts).  A request reads   *)
(* every domain and the metadata row in one transaction, verifies blobs,   *)
(* and writes in a second transaction that re-checks all it read; authors  *)
(* and other requests run in between.                                      *)
(*                                                                         *)
(* A SHA-256 digest is represented by what it was computed from.  Requests *)
(* whose input, blobs or schema fail validation end without a write and    *)
(* are the Abandon step.                                                   *)
(***************************************************************************)
EXTENDS Naturals

CONSTANTS Procs,        \* requests served at the same time
          Contents, Unseen, NoEnvelope, NoSnapshot,
          Exports,      \* tells apart two exports of one content (exportedAt)
          MaxRevision   \* bound: no observation begins above this revision

Envelopes == [content : Contents, revision : 0 .. MaxRevision, export : Exports]
Snapshot == [content : Contents, revision : Nat, digest : Contents \cup {Unseen},
             imported : Envelopes \cup {NoEnvelope}]

ASSUME UnseenIsNoContent == Unseen \notin Contents
ASSUME NoEnvelopeIsNone == NoEnvelope \notin Envelopes
ASSUME NoSnapshotIsNone == NoSnapshot \notin Snapshot
ASSUME MaxRevisionIsNat == MaxRevision \in Nat

VARIABLES content, revision, digest, imported,
          pc,        \* where each request is
          attempt,   \* the observation attempt it makes, 0 .. 2
          snap,      \* what its read transaction returned
          envelope,  \* the envelope it imports, or NoEnvelope
          reports,   \* versions answered to callers                  (history)
          restored   \* envelopes whose import was answered as done   (history)

row == <<revision, digest, imported>>
locals == <<pc, attempt, snap, envelope>>
history == <<reports, restored>>
vars == <<content, row, locals, history>>

Version == [epoch : Envelopes \cup {NoEnvelope}, revision : Nat, content : Contents]

TypeOK ==
  /\ content \in Contents
  /\ revision \in Nat
  /\ digest \in Contents \cup {Unseen}
  /\ imported \in Envelopes \cup {NoEnvelope}
  /\ pc \in [Procs -> {"idle", "observe", "stamp", "import", "restore"}]
  /\ attempt \in [Procs -> 0 .. 2]
  /\ snap \in [Procs -> Snapshot \cup {NoSnapshot}]
  /\ envelope \in [Procs -> Envelopes \cup {NoEnvelope}]
  /\ reports \subseteq Version
  /\ restored \subseteq Envelopes

Now == [content |-> content, revision |-> revision, digest |-> digest,
        imported |-> imported]

Init ==
  /\ content \in Contents
  /\ revision = 0
  /\ digest = Unseen
  /\ imported = NoEnvelope
  /\ pc = [p \in Procs |-> "idle"]
  /\ attempt = [p \in Procs |-> 0]
  /\ snap = [p \in Procs |-> NoSnapshot]
  /\ envelope = [p \in Procs |-> NoEnvelope]
  /\ reports = {}
  /\ restored = {}

(* An editor, a migration or any other writer; it never touches the row.   *)
Author ==
  /\ content' \in Contents \ {content}
  /\ UNCHANGED <<row, locals, history>>

-----------------------------------------------------------------------------
(* observe(), called by inspect and the two exports, and by import at its  *)
(* end.  read() is one transaction.                                        *)

Goto(p, from, to) ==
  /\ pc[p] = from
  /\ pc' = [pc EXCEPT ![p] = to]

(* The request ends; what it had read is gone.                             *)
Leave(p, from) ==
  /\ Goto(p, from, "idle")
  /\ attempt' = [attempt EXCEPT ![p] = 0]
  /\ snap' = [snap EXCEPT ![p] = NoSnapshot]
  /\ envelope' = [envelope EXCEPT ![p] = NoEnvelope]

Begin(p) ==
  /\ revision <= MaxRevision
  /\ Goto(p, "idle", "observe")
  /\ UNCHANGED <<content, row, attempt, snap, envelope, history>>

Read(p) ==
  /\ Goto(p, "observe", "stamp")
  /\ snap' = [snap EXCEPT ![p] = Now]
  /\ UNCHANGED <<content, row, attempt, envelope, history>>

Changed(p) == snap[p].content # snap[p].digest

(* The first stamp of a fresh workspace is not counted as an edit.         *)
NextRevisionUncounted(p) == snap[p].revision   \* mutant: edits are not counted

NextRevision(p) ==
  IF Changed(p) /\ snap[p].digest # Unseen THEN snap[p].revision + 1
  ELSE snap[p].revision

(* The guard statements of the second transaction.                         *)
GuardsOfRowOnly(p) ==                          \* mutant: the rows are not compared
  [snap[p] EXCEPT !.content = content] = Now

Guards(p) == snap[p] = Now

Reported(v) == reports' = reports \cup {v}

(* The caller gets the version; an import ends well if it is its own.      *)
Answer(p) ==
  LET e == envelope[p]
      v == [epoch |-> snap[p].imported, revision |-> NextRevision(p),
            content |-> snap[p].content]
  IN /\ Reported(v)
     /\ restored' = IF /\ e # NoEnvelope
                       /\ v.content = e.content
                       /\ v.revision = e.revision
                    THEN restored \cup {e} ELSE restored

ReportUnchanged(p) ==
  /\ Leave(p, "stamp")
  /\ ~Changed(p)
  /\ Answer(p)
  /\ UNCHANGED <<content, row>>

(* The guarded UPDATE.                                                     *)
Stamped(p) ==
  /\ Changed(p)
  /\ Guards(p)
  /\ digest' = snap[p].content
  /\ revision' = NextRevision(p)
  /\ UNCHANGED <<content, imported>>

Stamp(p) ==
  /\ Leave(p, "stamp")
  /\ Stamped(p)
  /\ Answer(p)

(* The transaction commits and its answer is lost.                         *)
StampUnheard(p) ==
  /\ Leave(p, "stamp")
  /\ Stamped(p)
  /\ UNCHANGED history

(* A guard overflows: read again, three times in all.                      *)
Retry(p) ==
  /\ Goto(p, "stamp", "observe")
  /\ Changed(p)
  /\ ~Guards(p)
  /\ attempt[p] < 2
  /\ attempt' = [attempt EXCEPT ![p] = @ + 1]
  /\ snap' = [snap EXCEPT ![p] = NoSnapshot]
  /\ UNCHANGED <<content, row, envelope, history>>

GiveUp(p) ==
  /\ Leave(p, "stamp")
  /\ Changed(p)
  /\ ~Guards(p)
  /\ attempt[p] = 2
  /\ UNCHANGED <<content, row, history>>

-----------------------------------------------------------------------------
(* importWorkspaceAuthoredState()                                          *)

BeginImport(p, e) ==
  /\ Goto(p, "idle", "import")
  /\ envelope' = [envelope EXCEPT ![p] = e]
  /\ UNCHANGED <<content, row, attempt, snap, history>>

(* The envelope is already in place, untouched: answer at once.            *)
AlreadyRestored(p) ==
  LET e == envelope[p]
  IN /\ Leave(p, "import")
     /\ imported = e /\ content = e.content /\ revision = e.revision
     /\ Reported([epoch |-> e, revision |-> revision, content |-> content])
     /\ restored' = restored \cup {e}
     /\ UNCHANGED <<content, row>>

ReadBefore(p) ==
  /\ imported = NoEnvelope
  /\ Goto(p, "import", "restore")
  /\ snap' = [snap EXCEPT ![p] = Now]
  /\ UNCHANGED <<content, row, attempt, envelope, history>>

RestoreUnguarded(p) ==                         \* mutant: guards(before) left out
  LET e == envelope[p]
  IN /\ Goto(p, "restore", "observe")
     /\ snap' = [snap EXCEPT ![p] = NoSnapshot]
     /\ content' = e.content
     /\ revision' = e.revision
     /\ digest' = e.content
     /\ imported' = e
     /\ UNCHANGED <<attempt, envelope, history>>

(* One transaction replaces every authored row and the metadata row; the   *)
(* import then observes the workspace to check what it has become.         *)
Restore(p) ==
  LET e == envelope[p]
  IN /\ Goto(p, "restore", "observe")
     /\ Guards(p)
     /\ snap' = [snap EXCEPT ![p] = NoSnapshot]
     /\ content' = e.content
     /\ revision' = e.revision
     /\ digest' = e.content
     /\ imported' = e
     /\ UNCHANGED <<attempt, envelope, history>>

(* Refusals, failed guards of an import, failed validation, unverified     *)
(* blobs, D1 errors and the end of the worker: the request stops here.     *)
Abandon(p) ==
  /\ pc[p] # "idle"
  /\ Leave(p, pc[p])
  /\ UNCHANGED <<content, row, history>>

Next ==
  \/ Author
  \/ \E p \in Procs :
       \/ Begin(p) \/ Read(p) \/ ReportUnchanged(p) \/ Stamp(p) \/ StampUnheard(p)
       \/ Retry(p) \/ GiveUp(p)
       \/ \E e \in Envelopes : BeginImport(p, e)
       \/ AlreadyRestored(p) \/ ReadBefore(p) \/ Restore(p) \/ Abandon(p)

Spec == Init /\ [][Next]_vars

-----------------------------------------------------------------------------
(* Properties.                                                             *)

(* A fingerprint identifies content: between two restores no revision is   *)
(* ever answered for two contents, however observations interleave.        *)
RevisionIdentifiesContent ==
  \A v, w \in reports :
    v.epoch = w.epoch /\ v.revision = w.revision => v.content = w.content

(* An import answered as done is the one restore of this generation: two   *)
(* concurrent imports never both succeed with different envelopes.         *)
OneRestore == \A e \in restored : imported = e

(* An import replaces only rows it has read: an edit made after its read   *)
(* is never overwritten ("never overwrite newer edits").                   *)
NoEditOverwritten ==
  [][imported' # imported =>
       \E p \in Procs : pc[p] = "restore" /\ snap[p].content = content]_imported

(* The two transactions of an observation and of an import act as one step *)
(* of the abstract ledger.                                                 *)
Ledger == INSTANCE AuthoredLedger
ActsAtomically == Ledger!Spec
=============================================================================
