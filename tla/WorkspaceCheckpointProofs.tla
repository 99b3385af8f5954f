--------------------- MODULE WorkspaceCheckpointProofs ---------------------
(***************************************************************************)
(* Safety of module WorkspaceCheckpoint for any number of requests, any    *)
(* contents and any bound on the revisions.                                *)
(***************************************************************************)
EXTENDS WorkspaceCheckpoint, TLAPS

(* What a request holds at each of its steps.  A request that observes on  *)
(* behalf of an import has made the restore itself.                        *)
RequestInv ==
  \A p \in Procs :
    /\ pc[p] = "idle" => envelope[p] = NoEnvelope
    /\ pc[p] \in {"stamp", "restore"} => snap[p] \in Snapshot
    /\ pc[p] \in {"import", "restore"} => envelope[p] \in Envelopes
    /\ pc[p] = "restore" => snap[p].imported = NoEnvelope
    /\ pc[p] \in {"observe", "stamp"} /\ envelope[p] # NoEnvelope =>
         imported = envelope[p]

(* After a restore the row can only have moved on from what it stamped.    *)
RestoreInv ==
  imported # NoEnvelope =>
    /\ digest # Unseen
    /\ revision >= imported.revision
    /\ revision = imported.revision => digest = imported.content

(* The versions in circulation: those answered, and those a request has    *)
(* read and may still answer.                                              *)
Holds(p) == pc[p] = "stamp" /\ snap[p].digest # Unseen
Held(p) == [epoch |-> snap[p].imported, revision |-> snap[p].revision,
            content |-> snap[p].digest]
RowVersion == [epoch |-> imported, revision |-> revision, content |-> digest]
Known == reports \cup {Held(p) : p \in {q \in Procs : Holds(q)}}

(* No version in circulation is ahead of the row, or beside it.            *)
BehindRow(v) ==
  IF v.epoch = imported
  THEN /\ digest # Unseen
       /\ v.revision <= revision
       /\ v.revision = revision => v.content = digest
  ELSE v.epoch = NoEnvelope

Agree(v, w) == v.epoch = w.epoch /\ v.revision = w.revision => v.content = w.content

KnownInv == /\ Known \subseteq Version
            /\ \A v \in Known : BehindRow(v)
            /\ \A v, w \in Known : Agree(v, w)

IInv == TypeOK /\ RequestInv /\ RestoreInv /\ KnownInv /\ OneRestore

-----------------------------------------------------------------------------
(* A fresh generation satisfies the invariant.                             *)
LEMMA Initially == Init => IInv
  BY
     DEF Init, IInv, TypeOK, RequestInv, RestoreInv, KnownInv, OneRestore, Known,
         Holds, Envelopes

(* What a guarded write knows: the row is what the request had read.       *)
LEMMA GuardsMean ==
  ASSUME NEW p \in Procs, Guards(p)
  PROVE  /\ content = snap[p].content /\ revision = snap[p].revision
         /\ digest = snap[p].digest /\ imported = snap[p].imported
  BY DEF Guards, Now

(* Every step preserves the types.                                         *)
LEMMA TypeStep ==
  ASSUME TypeOK, RequestInv, [Next]_vars
  PROVE  TypeOK'
<1>1. CASE Author
  BY <1>1 DEF Author, TypeOK, RequestInv, Snapshot, Version, Envelopes, Now,
     row, locals, history
<1>2. ASSUME NEW p \in Procs, Begin(p)
      PROVE  TypeOK'
  BY <1>2 DEF Begin, Goto, TypeOK, RequestInv, Snapshot, Version, Envelopes,
     Now, row, locals, history
<1>3. ASSUME NEW p \in Procs, Read(p)
      PROVE  TypeOK'
  BY <1>3 DEF Read, Goto, TypeOK, RequestInv, Snapshot, Version, Envelopes, Now,
     row, locals, history
<1>4. ASSUME NEW p \in Procs, ReportUnchanged(p)
      PROVE  TypeOK'
  BY <1>4 DEF ReportUnchanged, Leave, Goto, Changed, NextRevision, Answer,
     Reported, TypeOK, RequestInv, Snapshot, Version, Envelopes, Now,
     row, locals, history
<1>5. ASSUME NEW p \in Procs, Stamp(p)
      PROVE  TypeOK'
  BY <1>5 DEF Stamp, Leave, Goto, Stamped, Changed, Guards, NextRevision,
     Answer, Reported, TypeOK, RequestInv, Snapshot, Version,
     Envelopes, Now, row, locals, history
<1>6. ASSUME NEW p \in Procs, StampUnheard(p)
      PROVE  TypeOK'
  BY <1>6 DEF StampUnheard, Leave, Goto, Stamped, Changed, Guards, NextRevision,
     TypeOK, RequestInv, Snapshot, Version, Envelopes, Now, row,
     locals, history
<1>7. ASSUME NEW p \in Procs, Retry(p)
      PROVE  TypeOK'
  BY <1>7 DEF Retry, Goto, TypeOK, RequestInv, Snapshot, Version, Envelopes,
     Now, row, locals, history
<1>8. ASSUME NEW p \in Procs, GiveUp(p)
      PROVE  TypeOK'
  BY <1>8 DEF GiveUp, Leave, Goto, TypeOK, RequestInv, Snapshot, Version,
     Envelopes, Now, row, locals, history
<1>9. ASSUME NEW p \in Procs, AlreadyRestored(p)
      PROVE  TypeOK'
  BY <1>9 DEF AlreadyRestored, Leave, Goto, Reported, TypeOK, RequestInv,
     Snapshot, Version, Envelopes, Now, row, locals, history
<1>10. ASSUME NEW p \in Procs, ReadBefore(p)
      PROVE  TypeOK'
  BY <1>10 DEF ReadBefore, Goto, TypeOK, RequestInv, Snapshot, Version,
     Envelopes, Now, row, locals, history
<1>11. ASSUME NEW p \in Procs, Restore(p)
      PROVE  TypeOK'
  BY <1>11 DEF Restore, Goto, Guards, TypeOK, RequestInv, Snapshot, Version,
     Envelopes, Now, row, locals, history
<1>12. ASSUME NEW p \in Procs, Abandon(p)
      PROVE  TypeOK'
  BY <1>12 DEF Abandon, Leave, Goto, TypeOK, RequestInv, Snapshot, Version,
     Envelopes, Now, row, locals, history
<1>13. ASSUME NEW p \in Procs, NEW e \in Envelopes, BeginImport(p, e)
      PROVE  TypeOK'
  BY <1>13 DEF BeginImport, Goto, TypeOK, RequestInv, Snapshot, Version,
     Envelopes, Now, row, locals, history
<1>14. CASE UNCHANGED vars
  BY <1>14 DEF vars, TypeOK, RequestInv, Snapshot, Version, Envelopes, Now, row,
     locals, history
<1> QED
  BY <1>1, <1>2, <1>3, <1>4, <1>5, <1>6, <1>7, <1>8, <1>9, <1>10, <1>11, <1>12, <1>13,
     <1>14 DEF Next

(* Every step preserves what requests hold.                                *)
LEMMA RequestStep ==
  ASSUME IInv, [Next]_vars
  PROVE  RequestInv'
<1> USE DEF IInv
<1>1. CASE Author
  BY <1>1, NoEnvelopeIsNone
     DEF Author, TypeOK, RequestInv, Snapshot, Now, row, locals, history
<1>2. ASSUME NEW p \in Procs, Begin(p)
      PROVE  RequestInv'
  BY <1>2, NoEnvelopeIsNone
     DEF Begin, Goto, TypeOK, RequestInv, Snapshot, Now, row, locals,
     history
<1>3. ASSUME NEW p \in Procs, Read(p)
      PROVE  RequestInv'
  BY <1>3, NoEnvelopeIsNone
     DEF Read, Goto, TypeOK, RequestInv, Snapshot, Now, row, locals,
     history
<1>4. ASSUME NEW p \in Procs, ReportUnchanged(p)
      PROVE  RequestInv'
  BY <1>4, NoEnvelopeIsNone
     DEF ReportUnchanged, Leave, Goto, Changed, NextRevision, Answer,
     Reported, TypeOK, RequestInv, Snapshot, Now, row, locals, history
<1>5. ASSUME NEW p \in Procs, Stamp(p)
      PROVE  RequestInv'
  BY <1>5, NoEnvelopeIsNone
     DEF Stamp, Leave, Goto, Stamped, Changed, Guards, NextRevision,
     Answer, Reported, TypeOK, RequestInv, Snapshot, Now, row, locals,
     history
<1>6. ASSUME NEW p \in Procs, StampUnheard(p)
      PROVE  RequestInv'
  BY <1>6, NoEnvelopeIsNone
     DEF StampUnheard, Leave, Goto, Stamped, Changed, Guards, NextRevision,
     TypeOK, RequestInv, Snapshot, Now, row, locals, history
<1>7. ASSUME NEW p \in Procs, Retry(p)
      PROVE  RequestInv'
  BY <1>7, NoEnvelopeIsNone
     DEF Retry, Goto, TypeOK, RequestInv, Snapshot, Now, row, locals,
     history
<1>8. ASSUME NEW p \in Procs, GiveUp(p)
      PROVE  RequestInv'
  BY <1>8, NoEnvelopeIsNone
     DEF GiveUp, Leave, Goto, TypeOK, RequestInv, Snapshot, Now, row,
     locals, history
<1>9. ASSUME NEW p \in Procs, AlreadyRestored(p)
      PROVE  RequestInv'
  BY <1>9, NoEnvelopeIsNone
     DEF AlreadyRestored, Leave, Goto, Reported, TypeOK, RequestInv,
     Snapshot, Now, row, locals, history
<1>10. ASSUME NEW p \in Procs, ReadBefore(p)
      PROVE  RequestInv'
  BY <1>10, NoEnvelopeIsNone
     DEF ReadBefore, Goto, TypeOK, RequestInv, Snapshot, Now, row, locals,
     history
<1>11. ASSUME NEW p \in Procs, Restore(p)
      PROVE  RequestInv'
  BY <1>11, NoEnvelopeIsNone
     DEF Restore, Goto, Guards, TypeOK, RequestInv, Snapshot, Now, row,
     locals, history
<1>12. ASSUME NEW p \in Procs, Abandon(p)
      PROVE  RequestInv'
  BY <1>12, NoEnvelopeIsNone
     DEF Abandon, Leave, Goto, TypeOK, RequestInv, Snapshot, Now, row,
     locals, history
<1>13. ASSUME NEW p \in Procs, NEW e \in Envelopes, BeginImport(p, e)
      PROVE  RequestInv'
  BY <1>13, NoEnvelopeIsNone
     DEF BeginImport, Goto, TypeOK, RequestInv, Snapshot, Now, row, locals,
     history
<1>14. CASE UNCHANGED vars
  BY <1>14, NoEnvelopeIsNone
     DEF vars, TypeOK, RequestInv, Snapshot, Now, row, locals, history
<1> QED
  BY <1>1, <1>2, <1>3, <1>4, <1>5, <1>6, <1>7, <1>8, <1>9, <1>10, <1>11, <1>12, <1>13,
     <1>14 DEF Next

(* Every step preserves the relation of the row to the restore.            *)
LEMMA RestoreStep ==
  ASSUME IInv, [Next]_vars
  PROVE  RestoreInv'
<1> USE DEF IInv
<1>1. CASE Author
  BY <1>1, UnseenIsNoContent, NoEnvelopeIsNone, GuardsMean
     DEF Author, TypeOK, RequestInv, RestoreInv, Snapshot, Envelopes, row,
     locals, history
<1>2. ASSUME NEW p \in Procs, Begin(p)
      PROVE  RestoreInv'
  BY <1>2, UnseenIsNoContent, NoEnvelopeIsNone, GuardsMean
     DEF Begin, Goto, TypeOK, RequestInv, RestoreInv, Snapshot, Envelopes,
     row, locals, history
<1>3. ASSUME NEW p \in Procs, Read(p)
      PROVE  RestoreInv'
  BY <1>3, UnseenIsNoContent, NoEnvelopeIsNone, GuardsMean
     DEF Read, Goto, TypeOK, RequestInv, RestoreInv, Snapshot, Envelopes,
     row, locals, history
<1>4. ASSUME NEW p \in Procs, ReportUnchanged(p)
      PROVE  RestoreInv'
  BY <1>4, UnseenIsNoContent, NoEnvelopeIsNone, GuardsMean
     DEF ReportUnchanged, Leave, Goto, Changed, NextRevision, Answer,
     Reported, TypeOK, RequestInv, RestoreInv, Snapshot, Envelopes,
     row, locals, history
<1>5. ASSUME NEW p \in Procs, Stamp(p)
      PROVE  RestoreInv'
  BY <1>5, UnseenIsNoContent, NoEnvelopeIsNone, GuardsMean
     DEF Stamp, Leave, Goto, Stamped, Changed, Guards, NextRevision,
     Answer, Reported, TypeOK, RequestInv, RestoreInv, Snapshot,
     Envelopes, row, locals, history
<1>6. ASSUME NEW p \in Procs, StampUnheard(p)
      PROVE  RestoreInv'
  BY <1>6, UnseenIsNoContent, NoEnvelopeIsNone, GuardsMean
     DEF StampUnheard, Leave, Goto, Stamped, Changed, Guards, NextRevision,
     TypeOK, RequestInv, RestoreInv, Snapshot, Envelopes, row, locals,
     history
<1>7. ASSUME NEW p \in Procs, Retry(p)
      PROVE  RestoreInv'
  BY <1>7, UnseenIsNoContent, NoEnvelopeIsNone, GuardsMean
     DEF Retry, Goto, TypeOK, RequestInv, RestoreInv, Snapshot, Envelopes,
     row, locals, history
<1>8. ASSUME NEW p \in Procs, GiveUp(p)
      PROVE  RestoreInv'
  BY <1>8, UnseenIsNoContent, NoEnvelopeIsNone, GuardsMean
     DEF GiveUp, Leave, Goto, TypeOK, RequestInv, RestoreInv, Snapshot,
     Envelopes, row, locals, history
<1>9. ASSUME NEW p \in Procs, AlreadyRestored(p)
      PROVE  RestoreInv'
  BY <1>9, UnseenIsNoContent, NoEnvelopeIsNone, GuardsMean
     DEF AlreadyRestored, Leave, Goto, Reported, TypeOK, RequestInv,
     RestoreInv, Snapshot, Envelopes, row, locals, history
<1>10. ASSUME NEW p \in Procs, ReadBefore(p)
      PROVE  RestoreInv'
  BY <1>10, UnseenIsNoContent, NoEnvelopeIsNone, GuardsMean
     DEF ReadBefore, Goto, TypeOK, RequestInv, RestoreInv, Snapshot,
     Envelopes, row, locals, history
<1>11. ASSUME NEW p \in Procs, Restore(p)
      PROVE  RestoreInv'
  BY <1>11, UnseenIsNoContent, NoEnvelopeIsNone, GuardsMean
     DEF Restore, Goto, Guards, TypeOK, RequestInv, RestoreInv, Snapshot,
     Envelopes, row, locals, history
<1>12. ASSUME NEW p \in Procs, Abandon(p)
      PROVE  RestoreInv'
  BY <1>12, UnseenIsNoContent, NoEnvelopeIsNone, GuardsMean
     DEF Abandon, Leave, Goto, TypeOK, RequestInv, RestoreInv, Snapshot,
     Envelopes, row, locals, history
<1>13. ASSUME NEW p \in Procs, NEW e \in Envelopes, BeginImport(p, e)
      PROVE  RestoreInv'
  BY <1>13, UnseenIsNoContent, NoEnvelopeIsNone, GuardsMean
     DEF BeginImport, Goto, TypeOK, RequestInv, RestoreInv, Snapshot,
     Envelopes, row, locals, history
<1>14. CASE UNCHANGED vars
  BY <1>14, UnseenIsNoContent, NoEnvelopeIsNone, GuardsMean
     DEF vars, TypeOK, RequestInv, RestoreInv, Snapshot, Envelopes, row,
     locals, history
<1> QED
  BY <1>1, <1>2, <1>3, <1>4, <1>5, <1>6, <1>7, <1>8, <1>9, <1>10, <1>11, <1>12, <1>13,
     <1>14 DEF Next

(* Every step preserves that a restore that was answered is the only one.  *)
LEMMA OneRestoreStep ==
  ASSUME IInv, [Next]_vars
  PROVE  OneRestore'
<1> USE DEF IInv
<1>1. CASE Author
  BY <1>1, NoEnvelopeIsNone, GuardsMean
     DEF Author, TypeOK, RequestInv, OneRestore, row, locals, history
<1>2. ASSUME NEW p \in Procs, Begin(p)
      PROVE  OneRestore'
  BY <1>2, NoEnvelopeIsNone, GuardsMean
     DEF Begin, Goto, TypeOK, RequestInv, OneRestore, row, locals, history
<1>3. ASSUME NEW p \in Procs, Read(p)
      PROVE  OneRestore'
  BY <1>3, NoEnvelopeIsNone, GuardsMean
     DEF Read, Goto, TypeOK, RequestInv, OneRestore, row, locals, history
<1>4. ASSUME NEW p \in Procs, ReportUnchanged(p)
      PROVE  OneRestore'
  BY <1>4, NoEnvelopeIsNone, GuardsMean
     DEF ReportUnchanged, Leave, Goto, Changed, NextRevision, Answer,
     Reported, TypeOK, RequestInv, OneRestore, row, locals, history
<1>5. ASSUME NEW p \in Procs, Stamp(p)
      PROVE  OneRestore'
  BY <1>5, NoEnvelopeIsNone, GuardsMean
     DEF Stamp, Leave, Goto, Stamped, Changed, Guards, NextRevision,
     Answer, Reported, TypeOK, RequestInv, OneRestore, row, locals,
     history
<1>6. ASSUME NEW p \in Procs, StampUnheard(p)
      PROVE  OneRestore'
  BY <1>6, NoEnvelopeIsNone, GuardsMean
     DEF StampUnheard, Leave, Goto, Stamped, Changed, Guards, NextRevision,
     TypeOK, RequestInv, OneRestore, row, locals, history
<1>7. ASSUME NEW p \in Procs, Retry(p)
      PROVE  OneRestore'
  BY <1>7, NoEnvelopeIsNone, GuardsMean
     DEF Retry, Goto, TypeOK, RequestInv, OneRestore, row, locals, history
<1>8. ASSUME NEW p \in Procs, GiveUp(p)
      PROVE  OneRestore'
  BY <1>8, NoEnvelopeIsNone, GuardsMean
     DEF GiveUp, Leave, Goto, TypeOK, RequestInv, OneRestore, row, locals,
     history
<1>9. ASSUME NEW p \in Procs, AlreadyRestored(p)
      PROVE  OneRestore'
  BY <1>9, NoEnvelopeIsNone, GuardsMean
     DEF AlreadyRestored, Leave, Goto, Reported, TypeOK, RequestInv,
     OneRestore, row, locals, history
<1>10. ASSUME NEW p \in Procs, ReadBefore(p)
      PROVE  OneRestore'
  BY <1>10, NoEnvelopeIsNone, GuardsMean
     DEF ReadBefore, Goto, TypeOK, RequestInv, OneRestore, row, locals,
     history
<1>11. ASSUME NEW p \in Procs, Restore(p)
      PROVE  OneRestore'
  BY <1>11, NoEnvelopeIsNone, GuardsMean
     DEF Restore, Goto, Guards, TypeOK, RequestInv, OneRestore, row,
     locals, history
<1>12. ASSUME NEW p \in Procs, Abandon(p)
      PROVE  OneRestore'
  BY <1>12, NoEnvelopeIsNone, GuardsMean
     DEF Abandon, Leave, Goto, TypeOK, RequestInv, OneRestore, row, locals,
     history
<1>13. ASSUME NEW p \in Procs, NEW e \in Envelopes, BeginImport(p, e)
      PROVE  OneRestore'
  BY <1>13, NoEnvelopeIsNone, GuardsMean
     DEF BeginImport, Goto, TypeOK, RequestInv, OneRestore, row, locals,
     history
<1>14. CASE UNCHANGED vars
  BY <1>14, NoEnvelopeIsNone, GuardsMean
     DEF vars, TypeOK, RequestInv, OneRestore, row, locals, history
<1> QED
  BY <1>1, <1>2, <1>3, <1>4, <1>5, <1>6, <1>7, <1>8, <1>9, <1>10, <1>11, <1>12, <1>13,
     <1>14 DEF Next

-----------------------------------------------------------------------------
(* The versions in circulation.                                            *)

(* They are versions.                                                      *)
LEMMA HeldIsVersion ==
  ASSUME TypeOK, RequestInv, NEW p \in Procs, Holds(p)
  PROVE  Held(p) \in Version
<1>1. snap[p] \in Snapshot /\ snap[p].digest # Unseen
  BY DEF RequestInv, Holds
<1> QED
  BY <1>1 DEF Held, Version, Snapshot

(* A step of one request that does not end on a fresh read adds at most    *)
(* what it answers.                                                        *)
LEMMA KnownBound ==
  ASSUME TypeOK, NEW p \in Procs, NEW S,
         \A q \in Procs : q # p => pc'[q] = pc[q] /\ snap'[q] = snap[q],
         pc'[p] # "stamp",
         reports' \subseteq Known \cup S
  PROVE  Known' \subseteq Known \cup S
<1> SUFFICES ASSUME NEW v \in Known', v \notin reports'
             PROVE  v \in Known
  OBVIOUS
<1>1. PICK q \in Procs : Holds(q)' /\ v = Held(q)'
  BY DEF Known
<1>2. q # p /\ Holds(q) /\ v = Held(q)
  BY <1>1 DEF Holds, Held
<1> QED
  BY <1>2 DEF Known

(* The invariant survives when at most the row's new version is added and  *)
(* the old ones stay behind the row.                                       *)
LEMMA KnownGrows ==
  ASSUME KnownInv, TypeOK', \A v \in Known : BehindRow(v)',
         \/ Known' \subseteq Known
         \/ digest' # Unseen /\ Known' \subseteq Known \cup {RowVersion'}
  PROVE  KnownInv'
<1>1. digest' # Unseen => /\ RowVersion' \in Version /\ BehindRow(RowVersion)'
                          /\ \A v \in Known : Agree(v, RowVersion') /\ Agree(RowVersion', v)
  BY DEF RowVersion, Version, BehindRow, Agree, TypeOK
<1>2. /\ Known' \subseteq Version
      /\ \A v \in Known' : BehindRow(v)'
  BY <1>1 DEF KnownInv, RowVersion, BehindRow
<1>3. ASSUME NEW v \in Known', NEW w \in Known' PROVE Agree(v, w)
  BY <1>1 DEF KnownInv, Agree, RowVersion
<1> QED
  BY <1>2, <1>3 DEF KnownInv, Agree

(* A row that does not move leaves every version where it was.             *)
LEMMA StillBehind ==
  ASSUME KnownInv, UNCHANGED row
  PROVE  \A v \in Known : BehindRow(v)'
  BY DEF KnownInv, BehindRow, row

(* A stamp moves the row past every version in circulation.                *)
LEMMA StampedAhead ==
  ASSUME IInv, NEW p \in Procs, pc[p] = "stamp", Stamped(p)
  PROVE  /\ \A v \in Known : BehindRow(v)'
         /\ digest' = content /\ digest' # Unseen
         /\ RowVersion' = [epoch |-> snap[p].imported, revision |-> NextRevision(p),
                           content |-> snap[p].content]
<1>1. /\ content = snap[p].content /\ revision = snap[p].revision
      /\ digest = snap[p].digest /\ imported = snap[p].imported
  BY GuardsMean DEF Stamped
<1>2. /\ digest' = content /\ digest # content /\ imported' = imported
      /\ digest' # Unseen
      /\ revision' = IF digest # Unseen THEN revision + 1 ELSE revision
      /\ revision' = NextRevision(p)
  BY <1>1, UnseenIsNoContent DEF Stamped, Changed, NextRevision, IInv, TypeOK
<1>3. ASSUME NEW v \in Known PROVE BehindRow(v)'
  <2>1. v.revision \in Nat /\ revision \in Nat /\ BehindRow(v)
    BY DEF IInv, KnownInv, TypeOK, Version
  <2> QED
    BY <1>2, <2>1 DEF BehindRow
<1> QED
  BY <1>1, <1>2, <1>3 DEF RowVersion

(* Every step preserves that versions in circulation agree.                *)
LEMMA KnownStep ==
  ASSUME IInv, TypeOK', [Next]_vars
  PROVE  KnownInv'
<1> USE DEF IInv
<1>1. CASE Author
  <2>1. Known' = Known
    BY <1>1 DEF Author, Known, Holds, Held, locals, history
  <2> QED
    BY <1>1, <2>1, StillBehind, KnownGrows DEF Author
<1>2. ASSUME NEW p \in Procs,
             Begin(p) \/ Retry(p) \/ GiveUp(p) \/ ReadBefore(p) \/ Abandon(p)
      PROVE  KnownInv'
  <2>1. /\ UNCHANGED <<row, reports>> /\ pc'[p] # "stamp"
        /\ \A q \in Procs : q # p => pc'[q] = pc[q] /\ snap'[q] = snap[q]
    BY <1>2
    DEF Begin, Retry, GiveUp, ReadBefore, Abandon, Leave, Goto, history, TypeOK
  <2>2. Known' \subseteq Known \cup {}
    BY <2>1, KnownBound DEF Known
  <2> QED
    BY <2>1, <2>2, StillBehind, KnownGrows
<1>3. ASSUME NEW p \in Procs, NEW e \in Envelopes, BeginImport(p, e)
      PROVE  KnownInv'
  <2>1. /\ UNCHANGED <<row, reports>> /\ pc'[p] # "stamp"
        /\ \A q \in Procs : q # p => pc'[q] = pc[q] /\ snap'[q] = snap[q]
    BY <1>3 DEF BeginImport, Goto, history, TypeOK
  <2>2. Known' \subseteq Known \cup {}
    BY <2>1, KnownBound DEF Known
  <2> QED
    BY <2>1, <2>2, StillBehind, KnownGrows
<1>4. ASSUME NEW p \in Procs, Read(p)
      PROVE  KnownInv'
  <2>1. /\ UNCHANGED <<row, reports>> /\ snap'[p] = Now /\ pc[p] = "observe"
        /\ \A q \in Procs : q # p => pc'[q] = pc[q] /\ snap'[q] = snap[q]
    BY <1>4 DEF Read, Goto, history, TypeOK
  <2>2. ASSUME NEW q \in Procs, Holds(q)'
        PROVE  Held(q)' \in Known \/ (digest # Unseen /\ Held(q)' = RowVersion')
    <3>1. CASE q # p
      BY <2>1, <2>2, <3>1 DEF Holds, Held, Known
    <3>2. CASE q = p
      BY <2>1, <2>2, <3>2 DEF Holds, Held, Now, RowVersion, row
    <3> QED
      BY <3>1, <3>2
  <2>3. CASE digest = Unseen
    <3>1. Known' \subseteq Known
      BY <2>1, <2>2, <2>3 DEF Known
    <3> QED
      BY <2>1, <3>1, StillBehind, KnownGrows
  <2>4. CASE digest # Unseen
    <3>1. Known' \subseteq Known \cup {RowVersion'}
      BY <2>1, <2>2, <2>4 DEF Known
    <3>2. digest' # Unseen
      BY <2>1, <2>4 DEF row
    <3> QED
      BY <2>1, <3>1, <3>2, StillBehind, KnownGrows
  <2> QED
    BY <2>3, <2>4
<1>5. ASSUME NEW p \in Procs, ReportUnchanged(p)
      PROVE  KnownInv'
  <2>1. /\ UNCHANGED row /\ pc[p] = "stamp" /\ pc'[p] # "stamp"
        /\ \A q \in Procs : q # p => pc'[q] = pc[q] /\ snap'[q] = snap[q]
        /\ snap[p].content = snap[p].digest /\ snap[p].content \in Contents
        /\ NextRevision(p) = snap[p].revision
    BY <1>5 DEF ReportUnchanged, Leave, Goto, Changed, NextRevision, TypeOK,
       RequestInv, Snapshot
  <2>2. Held(p) \in Known
    BY <2>1, UnseenIsNoContent DEF Known, Holds
  <2>3. reports' \subseteq Known
    BY <1>5, <2>1, <2>2 DEF ReportUnchanged, Answer, Reported, Held, Known
  <2>4. Known' \subseteq Known \cup {}
    BY <2>1, <2>3, KnownBound
  <2> QED
    BY <2>1, <2>4, StillBehind, KnownGrows
<1>6. ASSUME NEW p \in Procs, Stamp(p)
      PROVE  KnownInv'
  <2>1. /\ pc[p] = "stamp" /\ pc'[p] # "stamp" /\ Stamped(p)
        /\ \A q \in Procs : q # p => pc'[q] = pc[q] /\ snap'[q] = snap[q]
    BY <1>6 DEF Stamp, Leave, Goto, TypeOK
  <2>2. reports' \subseteq Known \cup {RowVersion'}
    BY <1>6, <2>1, StampedAhead DEF Stamp, Answer, Reported, Known
  <2>3. Known' \subseteq Known \cup {RowVersion'}
    BY <2>1, <2>2, KnownBound
  <2> QED
    BY <2>1, <2>3, StampedAhead, KnownGrows
<1>7. ASSUME NEW p \in Procs, StampUnheard(p)
      PROVE  KnownInv'
  <2>1. /\ pc[p] = "stamp" /\ pc'[p] # "stamp" /\ Stamped(p) /\ UNCHANGED reports
        /\ \A q \in Procs : q # p => pc'[q] = pc[q] /\ snap'[q] = snap[q]
    BY <1>7 DEF StampUnheard, Leave, Goto, TypeOK, history
  <2>2. Known' \subseteq Known \cup {}
    BY <2>1, KnownBound DEF Known
  <2> QED
    BY <2>1, <2>2, StampedAhead, KnownGrows
<1>8. ASSUME NEW p \in Procs, AlreadyRestored(p)
      PROVE  KnownInv'
  <2>1. /\ UNCHANGED row /\ pc'[p] # "stamp" /\ pc[p] = "import"
        /\ \A q \in Procs : q # p => pc'[q] = pc[q] /\ snap'[q] = snap[q]
    BY <1>8 DEF AlreadyRestored, Leave, Goto, TypeOK
  <2>2. /\ imported = envelope[p] /\ imported \in Envelopes
        /\ content = imported.content /\ revision = imported.revision
    BY <1>8, <2>1 DEF AlreadyRestored, RequestInv
  <2>3. digest = content /\ digest # Unseen
    BY <2>2, NoEnvelopeIsNone DEF RestoreInv
  <2>4. reports' = reports \cup {RowVersion}
    BY <1>8, <2>2, <2>3 DEF AlreadyRestored, Reported, RowVersion
  <2>5. Known' \subseteq Known \cup {RowVersion}
    BY <2>1, <2>4, KnownBound DEF Known
  <2>6. RowVersion' = RowVersion /\ digest' # Unseen
    BY <2>1, <2>3 DEF row, RowVersion
  <2> QED
    BY <2>1, <2>5, <2>6, StillBehind, KnownGrows
<1>9. ASSUME NEW p \in Procs, Restore(p)
      PROVE  KnownInv'
  <2>1. /\ pc[p] = "restore" /\ pc'[p] # "stamp" /\ UNCHANGED reports
        /\ \A q \in Procs : q # p => pc'[q] = pc[q] /\ snap'[q] = snap[q]
        /\ imported' = envelope[p]
    BY <1>9 DEF Restore, Goto, TypeOK, history
  <2>2. imported = NoEnvelope /\ imported' \in Envelopes
    BY <1>9, <2>1, GuardsMean DEF Restore, RequestInv
  <2>3. \A v \in Known : BehindRow(v)'
    BY <2>2, NoEnvelopeIsNone DEF KnownInv, BehindRow
  <2>4. Known' \subseteq Known \cup {}
    BY <2>1, KnownBound DEF Known
  <2> QED
    BY <2>3, <2>4, KnownGrows
<1>10. CASE UNCHANGED vars
  <2>1. Known' = Known /\ UNCHANGED row
    BY <1>10 DEF vars, Known, Holds, Held, locals, history
  <2> QED
    BY <2>1, StillBehind, KnownGrows
<1> QED
  BY <1>1, <1>2, <1>3, <1>4, <1>5, <1>6, <1>7, <1>8, <1>9, <1>10 DEF Next

(* The invariant holds in every reachable state.                           *)
THEOREM Invariance == Spec => []IInv
<1>1. IInv /\ [Next]_vars => IInv'
  BY TypeStep, RequestStep, RestoreStep, OneRestoreStep, KnownStep DEF IInv
<1> QED
  BY Initially, <1>1, PTL DEF Spec

-----------------------------------------------------------------------------
(* Every variable keeps its type.                                          *)
THEOREM TypeCorrect == Spec => []TypeOK
  BY Invariance, PTL DEF IInv

(* No two answers give one revision of one epoch to different contents.    *)
THEOREM RevisionsIdentify == Spec => []RevisionIdentifiesContent
<1>1. IInv => RevisionIdentifiesContent
  BY DEF IInv, KnownInv, Known, Agree, RevisionIdentifiesContent
<1> QED
  BY <1>1, Invariance, PTL

(* An import that was answered as done is the only restore there is.       *)
THEOREM RestoredOnce == Spec => []OneRestore
  BY Invariance, PTL DEF IInv

(* A restore replaces content that the import had read.                    *)
THEOREM EditsAreSafe == Spec => NoEditOverwritten
<1> DEFINE A == \E p \in Procs : pc[p] = "restore" /\ snap[p].content = content
<1>1. ASSUME [Next]_vars, imported' # imported
      PROVE  A
  <2>1. PICK p \in Procs : Restore(p)
    BY <1>1 DEF Next, Author, Begin, Read, ReportUnchanged, Stamp, StampUnheard,
       Stamped, Retry, GiveUp, BeginImport, AlreadyRestored, ReadBefore, Abandon,
       row, vars
  <2> QED
    BY <2>1, GuardsMean DEF Restore, Goto
<1>2. [Next]_vars => [imported' # imported => A]_imported
  BY <1>1
<1> QED
  BY <1>2, PTL DEF Spec, NoEditOverwritten

-----------------------------------------------------------------------------
(* Each step is a step of the ledger, or leaves it alone.                  *)
LEMMA StepsOfTheLedger ==
  ASSUME IInv, [Next]_vars
  PROVE  [Ledger!Next]_Ledger!vars
<1> USE DEF IInv
<1>1. CASE Author
  BY <1>1 DEF Author, row, Ledger!Next, Ledger!Author
<1>2. ASSUME NEW p \in Procs, Stamp(p) \/ StampUnheard(p)
      PROVE  Ledger!Observe
  <2>1. pc[p] = "stamp" /\ Stamped(p)
    BY <1>2 DEF Stamp, StampUnheard, Leave, Goto
  <2>2. /\ content = snap[p].content /\ revision = snap[p].revision
        /\ digest = snap[p].digest
    BY <2>1, GuardsMean DEF Stamped
  <2> QED
    BY <2>1, <2>2 DEF Stamped, Changed, NextRevision, Ledger!Observe
<1>3. ASSUME NEW p \in Procs, Restore(p)
      PROVE  Ledger!Next
  <2>1. imported = NoEnvelope /\ envelope[p] \in Envelopes
    BY <1>3, GuardsMean DEF Restore, Goto, RequestInv
  <2>2. Ledger!Restore(envelope[p])
    BY <1>3, <2>1 DEF Restore, Ledger!Restore
  <2> QED
    BY <2>1, <2>2 DEF Ledger!Next
<1>4. ASSUME NEW p \in Procs,
             \/ Begin(p) \/ Read(p) \/ ReportUnchanged(p) \/ Retry(p) \/ GiveUp(p)
             \/ AlreadyRestored(p) \/ ReadBefore(p) \/ Abandon(p)
             \/ \E e \in Envelopes : BeginImport(p, e)
      PROVE  UNCHANGED Ledger!vars
  BY <1>4 DEF Begin, Read, ReportUnchanged, Retry, GiveUp, AlreadyRestored,
     ReadBefore, Abandon, BeginImport, row, Ledger!vars
<1>5. CASE UNCHANGED vars
  BY <1>5 DEF vars, row, Ledger!vars
<1> QED
  BY <1>1, <1>2, <1>3, <1>4, <1>5 DEF Next, Ledger!Next

(* Observations and imports act as single steps of the abstract ledger.    *)
THEOREM Atomic == Spec => ActsAtomically
<1>1. Init => Ledger!Init
  BY DEF Init, Ledger!Init
<1>2. IInv /\ [Next]_vars => [Ledger!Next]_Ledger!vars
  BY StepsOfTheLedger
<1> QED
  BY <1>1, <1>2, Invariance, PTL DEF Spec, ActsAtomically, Ledger!Spec
=============================================================================
