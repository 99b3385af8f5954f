------------------------------ MODULE Bootstrap ------------------------------
(***************************************************************************)
(* The bootstrap of EmDash content (generated-site/emdash-bootstrap.ts):   *)
(* every entry of the builder registry gets a table, metadata and a row    *)
(* with the default texts, one D1 statement or batch after another, and at *)
(* the end a marker says for which registry that was done.  Requests of    *)
(* the studio run it in one piece, the deployment script                   *)
(* (prepare-deployed-emdash.mjs) in batches, while workers of two builds   *)
(* may answer and authors edit the same rows.                              *)
(*                                                                         *)
(* A registry hash is represented by the build whose registry it is of.    *)
(* EmDash, which the authors use, is external.                             *)
(***************************************************************************)
EXTENDS Naturals, Sequences

CONSTANTS
  Builds,       \* deployments whose workers may answer; no two share a registry
  Expected,     \* the one that the script deploys
  NoBuild,
  Entries, Collections, Fields,
  CollectionOf, \* the collection of an entry
  Schema,       \* the fields of a collection in the registry of a build
  Targets,      \* the entries of a build, in order
  Defaults,     \* their default texts
  Text, Empty,
  NoRow, NoDraft,
  Edits,        \* what authors may write: an entry, a field and its text
  Batch,        \* targets in a batch of the script
  Procs,        \* requests that run at the same time
  NoProc

Texts == [Fields -> Text \cup {Empty}]

ASSUME BootstrapIsTyped ==
  /\ Expected \in Builds /\ NoBuild \notin Builds
  /\ CollectionOf \in [Entries -> Collections]
  /\ Schema \in [Builds -> [Collections -> SUBSET Fields]]
  /\ Targets \in [Builds -> Seq(Entries)]
  /\ Defaults \in [Builds -> [Entries -> Texts]]
  /\ Empty \notin Text /\ NoRow \notin Texts /\ NoDraft \notin Texts
  /\ Edits \subseteq [entry : Entries, field : Fields, text : Text \cup {Empty}]
  /\ Batch \in Nat \ {0}
  /\ NoProc \notin Procs

VARIABLES
  tables, columns,    \* content tables and their columns
  known,              \* _emdash_fields, of each collection
  row,                \* the live columns of an entry's row
  published,          \* entries whose row has that status
  draft,              \* the entry's draft revision
  marker,             \* ap_emdash_bootstrap_state
  pc,                 \* where each request is
  build,              \* the build of the worker that serves it
  pos, last,          \* the target in hand, and the last of the batch
  lacks,              \* fields it found empty and has a default for
  script,             \* where the deployment script is
  cursor,             \* targets that it knows to be done
  call,               \* the request whose answer it waits for
  deep,               \* the build that it found deeply ready
  since,              \* auxiliary: fields in lacks that got a text since
  cleared,            \* auxiliary: fields that authors have emptied
  takenDown           \* auxiliary: entries unpublished since the script looked

schema == <<tables, columns, known>>
content == <<row, published, draft>>
locals == <<pc, build, pos, last, lacks>>
deployment == <<script, cursor, call, deep>>
authors == <<cleared, takenDown>>
vars == <<schema, content, marker, locals, deployment, since, authors>>

Pc == {"idle", "marker", "table", "fields", "read", "insert", "fill",
       "state", "answer"}

Script == {"deep", "fast", "post", "wait", "verify", "confirm", "ready", "failed"}

TypeOK ==
  /\ tables \subseteq Collections /\ columns \in [Collections -> SUBSET Fields]
  /\ known \in [Collections -> SUBSET Fields]
  /\ row \in [Entries -> Texts \cup {NoRow}]
  /\ published \subseteq Entries
  /\ draft \in [Entries -> Texts \cup {NoDraft}]
  /\ marker \in Builds \cup {NoBuild}
  /\ pc \in [Procs -> Pc] /\ build \in [Procs -> Builds]
  /\ pos \in [Procs -> Nat] /\ last \in [Procs -> Nat]
  /\ lacks \in [Procs -> SUBSET Fields] /\ since \in [Procs -> SUBSET Fields]
  /\ script \in Script /\ cursor \in Nat
  /\ call \in Procs \cup {NoProc} /\ deep \in Builds \cup {NoBuild}
  /\ cleared \subseteq Entries \X Fields /\ takenDown \subseteq Entries

Init ==
  /\ tables = {} /\ columns = [c \in Collections |-> {}]
  /\ known = [c \in Collections |-> {}]
  /\ row = [e \in Entries |-> NoRow]
  /\ published = {}
  /\ draft = [e \in Entries |-> NoDraft]
  /\ marker = NoBuild
  /\ pc = [p \in Procs |-> "idle"]
  /\ build = [p \in Procs |-> Expected]
  /\ pos = [p \in Procs |-> 0] /\ last = [p \in Procs |-> 0]
  /\ lacks = [p \in Procs |-> {}] /\ since = [p \in Procs |-> {}]
  /\ script = "deep" /\ cursor = 0 /\ call = NoProc /\ deep = NoBuild
  /\ cleared = {} /\ takenDown = {}

-----------------------------------------------------------------------------
(* What a bootstrap aims at.                                               *)

(* contentDataFor: the fields for which the registry has a text.           *)
Filled(b, e) == {f \in Fields : Defaults[b][e][f] # Empty}

Prepared(b, c) == c \in tables /\ Schema[b][c] \subseteq known[c]

(* The entry has what the build asks for, but for what authors removed.    *)
Done(b, e) ==
  /\ Prepared(b, CollectionOf[e])
  /\ row[e] # NoRow
  /\ \A f \in Filled(b, e) : row[e][f] # Empty \/ <<e, f>> \in cleared

DoneUpTo(b, n) == \A i \in 1..n : i <= Len(Targets[b]) => Done(b, Targets[b][i])

Complete(b) == DoneUpTo(b, Len(Targets[b]))

-----------------------------------------------------------------------------
(* bootstrapAstroPagesEmDashContent                                        *)

Target(p) == Targets[build[p]][pos[p]]
TargetCollection(p) == CollectionOf[Target(p)]

(* What follows when target i of build b is next in a batch up to n.       *)
Where(b, i, n) ==
  IF i <= n /\ i <= Len(Targets[b]) THEN "table"
  ELSE IF n >= Len(Targets[b]) THEN "state" ELSE "answer"

Goto(p, from, to) == pc[p] = from /\ pc' = [pc EXCEPT ![p] = to]

Advance(p, from, to) == Goto(p, from, to) /\ UNCHANGED <<build, pos, last, lacks, since>>

(* Leave the target and go on with the one that follows.                   *)
NextTarget(p, from) ==
  /\ Goto(p, from, Where(build[p], pos[p] + 1, last[p]))
  /\ pos' = [pos EXCEPT ![p] = @ + 1]
  /\ lacks' = [lacks EXCEPT ![p] = {}]
  /\ since' = [since EXCEPT ![p] = {}]
  /\ UNCHANGED <<build, last>>

Start(p, b, done, n, at) ==
  /\ Goto(p, "idle", at)
  /\ build' = [build EXCEPT ![p] = b]
  /\ pos' = [pos EXCEPT ![p] = done + 1]
  /\ last' = [last EXCEPT ![p] = n]
  /\ lacks' = [lacks EXCEPT ![p] = {}]
  /\ since' = [since EXCEPT ![p] = {}]

(* A request of the studio bootstraps before it saves: "auto" always, and  *)
(* "full" as a repair.                                                     *)
Begin(p, b, mode) ==
  /\ Start(p, b, 0, Len(Targets[b]),
           IF mode = "auto" THEN "marker" ELSE Where(b, 1, Len(Targets[b])))
  /\ UNCHANGED <<schema, content, marker, deployment, authors>>

(* stateMatchesContract: nothing to do.                                    *)
CheckMarker(p) ==
  /\ Advance(p, "marker",
             IF marker = build[p] THEN "answer" ELSE Where(build[p], pos[p], last[p]))
  /\ UNCHANGED <<schema, content, marker, deployment, authors>>

(* An existing table is never widened.                                     *)
EnsureTable(p) ==
  /\ Advance(p, "table", "fields")
  /\ tables' = tables \cup {TargetCollection(p)}
  /\ columns' = IF TargetCollection(p) \in tables THEN columns
                ELSE [columns EXCEPT ![TargetCollection(p)] =
                        Schema[build[p]][TargetCollection(p)]]
  /\ UNCHANGED <<known, content, marker, deployment, authors>>

(* ensureCollectionMetadata and ensureFieldMetadata: statements that only  *)
(* add what readiness asks for together, in one step.                      *)
EnsureFields(p) ==
  /\ Advance(p, "fields", "read")
  /\ known' = [known EXCEPT ![TargetCollection(p)] =
                 @ \cup Schema[build[p]][TargetCollection(p)]]
  /\ UNCHANGED <<tables, columns, content, marker, deployment, authors>>

(* mutant: every field with a default counts as missing                    *)
AllFields(b, e) == Filled(b, e)

(* mergeMissingContentFields                                               *)
MissingFields(b, e) == {f \in Filled(b, e) : row[e][f] = Empty}

ReadRow(p) ==
  LET missing == MissingFields(build[p], Target(p))
  IN  /\ pc[p] = "read"
      /\ \/ row[Target(p)] = NoRow /\ Advance(p, "read", "insert")
         \/ row[Target(p)] # NoRow /\ missing = {} /\ NextTarget(p, "read")
         \/ /\ row[Target(p)] # NoRow /\ missing # {}
            /\ Goto(p, "read", "fill")
            /\ lacks' = [lacks EXCEPT ![p] = missing]
            /\ UNCHANGED <<build, pos, last, since>>
      /\ UNCHANGED <<schema, content, marker, deployment, authors>>

(* The row is unique for its slug and locale, and its columns must exist.  *)
InsertRow(p) ==
  /\ pc[p] = "insert"
  /\ row[Target(p)] = NoRow
  /\ Filled(build[p], Target(p)) \subseteq columns[TargetCollection(p)]
  /\ NextTarget(p, "insert")
  /\ row' = [row EXCEPT ![Target(p)] = Defaults[build[p]][Target(p)]]
  /\ published' = published \cup {Target(p)}
  /\ UNCHANGED <<schema, draft, marker, deployment, authors>>

(* Others that are about to fill the entry have not seen the new texts.    *)
Noted(e, new) ==
  [q \in Procs |->
     IF pc[q] = "fill" /\ Target(q) = e
     THEN since[q] \cup {f \in lacks[q] : row[e][f] # new[f]} ELSE since[q]]

(* mutant: the draft stays                                                 *)
KeptDraft(e) == draft

DroppedDraft(e) == [draft EXCEPT ![e] = NoDraft]

(* Fills what was empty when the row was read, and drops the draft.        *)
FillRow(p) ==
  LET new == [f \in Fields |->
                IF f \in lacks[p] THEN Defaults[build[p]][Target(p)][f] ELSE row[Target(p)][f]]
  IN  /\ pc[p] = "fill"
      /\ lacks[p] \subseteq columns[TargetCollection(p)]
      /\ Goto(p, "fill", Where(build[p], pos[p] + 1, last[p]))
      /\ pos' = [pos EXCEPT ![p] = @ + 1]
      /\ lacks' = [lacks EXCEPT ![p] = {}]
      /\ since' = [Noted(Target(p), new) EXCEPT ![p] = {}]
      /\ row' = [row EXCEPT ![Target(p)] = new]
      /\ draft' = DroppedDraft(Target(p))
      /\ UNCHANGED <<build, last, schema, published, marker, deployment, authors>>

(* writeBootstrapState                                                     *)
WriteMarker(p) ==
  /\ Advance(p, "state", "answer")
  /\ marker' = build[p]
  /\ UNCHANGED <<schema, content, deployment, authors>>

-----------------------------------------------------------------------------
(* prepare-deployed-emdash.mjs                                             *)

(* mutant: answers of any worker count                                     *)
AnyDeployment(b) == TRUE

IsExpectedDeployment(b) == b = Expected

(* readAstroPagesEmDashBootstrapStatus, which checks tables, metadata and  *)
(* published rows, or the tables and the marker.                           *)
DeepReady(b) ==
  \A i \in 1..Len(Targets[b]) :
    Prepared(b, CollectionOf[Targets[b][i]]) /\ Targets[b][i] \in published

FastReady(b) ==
  /\ \A i \in 1..Len(Targets[b]) : CollectionOf[Targets[b][i]] \in tables
  /\ marker = b

(* bootstrapReadinessIsCurrent, before the batches and after them: other   *)
(* workers are asked again.                                                *)
ReadDeep(b) ==
  /\ script \in {"deep", "verify"} /\ IsExpectedDeployment(b)
  /\ script' = IF script = "deep" THEN "fast" ELSE "confirm"
  /\ deep' = IF DeepReady(b) THEN b ELSE NoBuild
  /\ takenDown' = {}
  /\ UNCHANGED <<cursor, call, schema, content, marker, locals, since, cleared>>

ReadFast(b) ==
  /\ script \in {"fast", "confirm"} /\ IsExpectedDeployment(b)
  /\ script' = IF deep = b /\ FastReady(b) THEN "ready"
               ELSE IF script = "fast" THEN "post" ELSE "failed"
  /\ deep' = NoBuild
  /\ takenDown' = IF script' = "ready" THEN takenDown ELSE {}
  /\ UNCHANGED <<cursor, call, schema, content, marker, locals, since, cleared>>

(* postBootstrapBatch: a worker of any build may take it.                  *)
Post(p, b) ==
  /\ script = "post"
  /\ Start(p, b, cursor, cursor + Batch, Where(b, cursor + 1, cursor + Batch))
  /\ script' = "wait" /\ call' = p
  /\ UNCHANGED <<cursor, deep, schema, content, marker, authors>>

(* mutant: a batch without an answer counts as done                        *)
TimeOutAsDone ==
  /\ script = "wait"
  /\ script' = "post" /\ call' = NoProc /\ cursor' = cursor + Batch
  /\ UNCHANGED <<deep, schema, content, marker, locals, since, authors>>

(* The script stops waiting and sends the same batch again.                *)
TimeOut ==
  /\ script = "wait"
  /\ script' = "post" /\ call' = NoProc
  /\ UNCHANGED <<cursor, deep, schema, content, marker, locals, since, authors>>

(* mutant: a request that ends belongs to no build                         *)
LeaveBuild(p) ==
  /\ pc' = [pc EXCEPT ![p] = "idle"]
  /\ build' = [build EXCEPT ![p] = NoBuild]
  /\ pos' = [pos EXCEPT ![p] = 0]
  /\ last' = [last EXCEPT ![p] = 0]
  /\ lacks' = [lacks EXCEPT ![p] = {}]
  /\ since' = [since EXCEPT ![p] = {}]

Leave(p) ==
  /\ pc' = [pc EXCEPT ![p] = "idle"]
  /\ build' = [build EXCEPT ![p] = Expected]
  /\ pos' = [pos EXCEPT ![p] = 0]
  /\ last' = [last EXCEPT ![p] = 0]
  /\ lacks' = [lacks EXCEPT ![p] = {}]
  /\ since' = [since EXCEPT ![p] = {}]

(* The next cursor, of the build that answered, or the end.                *)
Answer(p) ==
  /\ pc[p] = "answer"
  /\ Leave(p)
  /\ \/ call # p /\ UNCHANGED <<script, cursor, call>>
     \/ /\ call = p /\ ~IsExpectedDeployment(build[p])
        /\ script' = "post" /\ call' = NoProc
        /\ UNCHANGED cursor
     \/ /\ call = p /\ IsExpectedDeployment(build[p])
        /\ IF last[p] < Len(Targets[build[p]])
           THEN script' = "post" /\ cursor' = last[p]
           ELSE script' = "verify" /\ cursor' = 0
        /\ call' = NoProc
  /\ UNCHANGED <<deep, schema, content, marker, authors>>

(* A statement that fails (a row that exists by now, a column that does    *)
(* not) or a worker that stops: the script is told nothing or a 5xx.       *)
Stop(p) ==
  /\ pc[p] # "idle"
  /\ Leave(p)
  /\ IF call = p THEN script' = "post" /\ call' = NoProc ELSE UNCHANGED <<script, call>>
  /\ UNCHANGED <<cursor, deep, schema, content, marker, authors>>

GiveUp ==
  /\ script = "post" /\ script' = "failed" /\ cursor' = 0
  /\ UNCHANGED <<call, deep, schema, content, marker, locals, since, authors>>

Rerun ==
  /\ script \in {"ready", "failed"} /\ script' = "deep"
  /\ takenDown' = {}
  /\ UNCHANGED <<cursor, call, deep, schema, content, marker, locals, since, cleared>>

(* addMissingColumns, or a migration: a column of the deployed registry.   *)
AddColumn(c, f) ==
  /\ c \in tables /\ f \in Schema[Expected][c] \ columns[c]
  /\ columns' = [columns EXCEPT ![c] = @ \cup {f}]
  /\ UNCHANGED <<tables, known, content, marker, locals, deployment, since, authors>>

-----------------------------------------------------------------------------
(* Authors, through EmDash.                                                *)

(* handleContentCreate: a row that is a draft.                             *)
CreateEntry(w) ==
  /\ CollectionOf[w.entry] \in tables /\ w.field \in columns[CollectionOf[w.entry]]
  /\ row[w.entry] = NoRow
  /\ row' = [row EXCEPT ![w.entry] = [f \in Fields |-> IF f = w.field THEN w.text ELSE Empty]]
  /\ cleared' = IF w.text = Empty THEN cleared \cup {<<w.entry, w.field>>} ELSE cleared
  /\ UNCHANGED <<schema, published, draft, marker, locals, deployment, since, takenDown>>

(* handleContentUpdate: the draft is the row with what authors changed.    *)
SaveDraft(w) ==
  LET base == IF draft[w.entry] = NoDraft THEN row[w.entry] ELSE draft[w.entry]
  IN  /\ row[w.entry] # NoRow /\ w.field \in columns[CollectionOf[w.entry]]
      /\ draft' = [draft EXCEPT ![w.entry] = [base EXCEPT ![w.field] = w.text]]
      /\ cleared' = IF w.text = Empty THEN cleared \cup {<<w.entry, w.field>>} ELSE cleared
      /\ UNCHANGED <<schema, row, published, marker, locals, deployment, since, takenDown>>

(* handleContentPublish                                                    *)
Publish(e) ==
  /\ row[e] # NoRow /\ (draft[e] # NoDraft \/ e \notin published)
  /\ published' = published \cup {e}
  /\ draft' = [draft EXCEPT ![e] = NoDraft]
  /\ row' = IF draft[e] = NoDraft THEN row ELSE [row EXCEPT ![e] = draft[e]]
  /\ since' = IF draft[e] = NoDraft THEN since ELSE Noted(e, draft[e])
  /\ UNCHANGED <<schema, marker, locals, deployment, authors>>

(* handleContentUnpublish                                                  *)
Unpublish(e) ==
  /\ e \in published
  /\ published' = published \ {e}
  /\ takenDown' = IF deep # NoBuild \/ script = "ready" THEN takenDown \cup {e} ELSE takenDown
  /\ UNCHANGED <<schema, row, draft, marker, locals, deployment, since, cleared>>

-----------------------------------------------------------------------------
Serve(p) ==
  \/ \E b \in Builds, mode \in {"auto", "full"} : Begin(p, b, mode)
  \/ CheckMarker(p)
  \/ EnsureTable(p) \/ EnsureFields(p)
  \/ ReadRow(p) \/ InsertRow(p) \/ FillRow(p)
  \/ WriteMarker(p) \/ Answer(p) \/ Stop(p)

Deploy ==
  \/ \E b \in Builds : ReadDeep(b) \/ ReadFast(b)
  \/ \E p \in Procs, b \in Builds : Post(p, b)
  \/ TimeOut \/ GiveUp \/ Rerun
  \/ \E c \in Collections, f \in Fields : AddColumn(c, f)

Author ==
  \/ \E w \in Edits : CreateEntry(w) \/ SaveDraft(w)
  \/ \E e \in Entries : Publish(e) \/ Unpublish(e)

Next == (\E p \in Procs : Serve(p)) \/ Deploy \/ Author

Spec == Init /\ [][Next]_vars

-----------------------------------------------------------------------------
(* Properties.                                                             *)

(* The completion record of the deployed build is there only when every    *)
(* target of its registry has its table, its metadata and a row in which   *)
(* every default is filled in, but for what authors have emptied: the      *)
(* studio skips the bootstrap on the strength of this record.              *)
MarkerIsComplete == marker = Expected => Complete(Expected)

(* The script goes on to a batch only when all targets before it are done, *)
(* whichever workers answered, late or twice.                              *)
BatchesAreDone == script \in {"post", "wait"} => DoneUpTo(Expected, cursor)

(* When the script reports ready, the deployed build's content is there    *)
(* and published, but for what authors have emptied or taken down.         *)
ScriptIsRight ==
  script = "ready" =>
    /\ Complete(Expected)
    /\ \A i \in 1..Len(Targets[Expected]) :
         Targets[Expected][i] \in published \cup takenDown

Replaced(e, f) == row[e] # NoRow /\ row[e][f] # Empty /\ row'[e][f] # row[e][f]

(* A text that a row has is replaced only when an author publishes, or by  *)
(* a bootstrap that read the row when that text was not there.             *)
OnlyUnseenIsReplaced ==
  [][\A e \in Entries, f \in Fields : Replaced(e, f) =>
       \/ row'[e] = draft[e]
       \/ \E p \in Procs : pc[p] = "fill" /\ Target(p) = e /\ f \in since[p]]_vars

(* docs/cloudflare-runtime.md:80: the full bootstrap "must not overwrite   *)
(* non-empty edited content".  The code fills what was empty at an earlier *)
(* statement.                                                              *)
NoTextIsOverwritten ==
  [][\A p \in Procs : FillRow(p) => \A f \in Fields : ~Replaced(Target(p), f)]_vars
=============================================================================
