--------------------------- MODULE AssetRegistry ---------------------------
(***************************************************************************)
(* The registry of project assets (generated-site/project-assets.ts):      *)
(* register, describe, delete, restore, export and import.  No operation   *)
(* is a transaction: each step is one D1 statement, other requests run     *)
(* between two of them, and a request may stop at any.                     *)
(*                                                                         *)
(* A registration of a revision always carries the same payload, which is  *)
(* given by constants: its asset, its aliases, whether it is protected     *)
(* and whether it may be replaced.  A hash is represented by the snapshot  *)
(* it was computed from; display names, folders and captions are left out. *)
(***************************************************************************)
EXTENDS Naturals, FiniteSets

CONSTANTS
  Assets, NoAsset, Revisions, NoRevision,
  Aliases,
  assetOf,      \* the asset a revision's storage key names
  aliasesOf,    \* the aliases it is registered with
  Protected,    \* revisions registered as protected
  Fixed,        \* revisions registered as not replaceable
  Snapshots,    \* the snapshots that are imported
  NoSnapshot,
  Requests,     \* the requests that may arrive, each any number of times
  Procs,        \* requests served at the same time
  MaxRelease    \* bound: no request begins once the counter has reached it

Item == [revision : Revisions, number : Nat, aliases : SUBSET Aliases]
Snapshot == [release : Nat, assets : SUBSET Item]

Request ==
  [op : {"register"}, revision : Revisions, expected : Revisions \cup {NoRevision}]
    \cup [op : {"describe"}, asset : Assets, aliases : SUBSET Aliases]
    \cup [op : {"retitle", "delete", "restore"}, asset : Assets]
    \cup [op : {"export"}]
    \cup [op : {"import"}, snapshot : Snapshots]

ASSUME PayloadsAreTyped ==
  /\ assetOf \in [Revisions -> Assets]
  /\ aliasesOf \in [Revisions -> SUBSET Aliases]
  /\ NoRevision \notin Revisions
  /\ NoAsset \notin Assets

(* Snapshots come from exports: assertSnapshot checks only their hash, but *)
(* an export names an asset once, with the number of a stored revision.    *)
ASSUME SnapshotsAreWellFormed ==
  /\ Snapshots \subseteq Snapshot
  /\ NoSnapshot \notin Snapshot
  /\ \A s \in Snapshots : \A i \in s.assets : i.number > 0
  /\ \A s \in Snapshots : \A i, j \in s.assets :
       assetOf[i.revision] = assetOf[j.revision] => i = j

ASSUME RequestsAreTyped == Requests \subseteq Request

VARIABLES
  media,      \* assets with a row in media, whose columns are left out
  current,    \* ap_asset_records.current_revision_id
  deleted,    \* assets with a deleted_at
  number,     \* ap_asset_revisions: revision_number, 0 without a row
  owner,      \* ap_asset_aliases: asset_id
  kept,       \* aliases inserted as protected
  release,    \* ap_asset_release_state.current_revision_number: 0 without a
              \* hash where there is no row
  hash,       \* current_snapshot_hash, with which current_asset_hash is written
  pc,         \* where each request is
  request,    \* what it asks for
  revision,   \* the revision it writes, or found current
  todo,       \* aliases it has still to check or write
  items,      \* snapshot items it has still to write
  count,      \* the number it has read: a revision number, or the counter
  dirty,      \* history, which no statement reads: requests that have changed
              \* what an export reads since the hash was written
  overtaken,  \* history: exports and imports that another request's write has
              \* come in between
  stale       \* history: whether the hash is one that such a request wrote, or
              \* was there when a dirty request ended without replacing it

rows == <<media, current, deleted, number>>
names == <<owner, kept>>
state == <<release, hash>>
locals == <<pc, request, revision, todo, items, count>>
history == <<dirty, overtaken, stale>>
vars == <<rows, names, state, locals, history>>

Nothing == [op |-> "none"]

Pc == {"idle", "check", "maximum", "media", "record", "revision", "finish", "find",
       "recheck", "mark", "export", "rows", "hash", "import", "hide", "unname", "item"}

RegistryOK ==
  /\ media \subseteq Assets
  /\ current \in [Assets -> Revisions \cup {NoRevision}]
  /\ deleted \subseteq Assets
  /\ number \in [Revisions -> Nat]
  /\ owner \in [Aliases -> Assets \cup {NoAsset}]
  /\ kept \subseteq Aliases
  /\ release \in Nat
  /\ hash \in Snapshot \cup {NoSnapshot}
  /\ pc \in [Procs -> Pc]
  /\ request \in [Procs -> Requests \cup {Nothing}]
  /\ revision \in [Procs -> Revisions \cup {NoRevision}]
  /\ todo \in [Procs -> SUBSET Aliases]
  /\ items \in [Procs -> SUBSET Item]
  /\ count \in [Procs -> Nat]

TypeOK ==
  /\ RegistryOK
  /\ dirty \subseteq Procs
  /\ overtaken \subseteq Procs
  /\ stale \in BOOLEAN

Init ==
  /\ media = {}
  /\ current = [a \in Assets |-> NoRevision]
  /\ deleted = {}
  /\ number = [r \in Revisions |-> 0]
  /\ owner = [x \in Aliases |-> NoAsset]
  /\ kept = {}
  /\ release = 0
  /\ hash = NoSnapshot
  /\ pc = [p \in Procs |-> "idle"]
  /\ request = [p \in Procs |-> Nothing]
  /\ revision = [p \in Procs |-> NoRevision]
  /\ todo = [p \in Procs |-> {}]
  /\ items = [p \in Procs |-> {}]
  /\ count = [p \in Procs |-> 0]
  /\ dirty = {}
  /\ overtaken = {}
  /\ stale = FALSE

-----------------------------------------------------------------------------
(* Requests.                                                               *)

Goto(p, from, to) ==
  /\ pc[p] = from
  /\ pc' = [pc EXCEPT ![p] = to]

(* The request is answered, refused or stopped: its locals are gone.       *)
Leave(p, from) ==
  /\ Goto(p, from, "idle")
  /\ request' = [request EXCEPT ![p] = Nothing]
  /\ revision' = [revision EXCEPT ![p] = NoRevision]
  /\ todo' = [todo EXCEPT ![p] = {}]
  /\ items' = [items EXCEPT ![p] = {}]
  /\ count' = [count EXCEPT ![p] = 0]

Advance(p, from, to) ==
  /\ Goto(p, from, to)
  /\ UNCHANGED <<request, revision, todo, items, count>>

Begin(p, q) ==
  /\ release < MaxRelease
  /\ Goto(p, "idle", CASE q.op = "register" -> "check"
                       [] q.op \in {"export", "import"} -> q.op
                       [] OTHER -> "find")
  /\ request' = [request EXCEPT ![p] = q]
  /\ revision' = [revision EXCEPT ![p] =
                     IF q.op = "register" THEN q.revision ELSE NoRevision]
  /\ todo' = [todo EXCEPT ![p] = CASE q.op = "register" -> aliasesOf[q.revision]
                                   [] q.op = "describe" -> q.aliases
                                   [] OTHER -> {}]
  /\ UNCHANGED <<rows, names, state, items, count>>

Stop(p) ==
  /\ pc[p] # "idle"
  /\ Leave(p, pc[p])
  /\ UNCHANGED <<rows, names, state>>

Op(p) == request[p].op

(* The asset a registration or an imported item is about, or the others.   *)
Target(p) ==
  IF Op(p) \in {"register", "import"} THEN assetOf[revision[p]] ELSE request[p].asset

(* assertAliasesAvailable, one alias at a time                             *)
CheckAlias(p) ==
  /\ pc[p] \in {"check", "recheck"}
  /\ \E x \in todo[p] :
       IF owner[x] \in {NoAsset, Target(p)}
       THEN /\ todo' = [todo EXCEPT ![p] = @ \ {x}]
            /\ UNCHANGED <<pc, request, revision, items, count>>
       ELSE Leave(p, pc[p])
  /\ UNCHANGED <<rows, names, state>>

-----------------------------------------------------------------------------
(* registerAssetRevision                                                   *)

(* It is current already, or another one than expected is, or the current  *)
(* one may not be replaced: the request ends.                              *)
MayRegister(p) ==
  LET c == current[Target(p)]
  IN c = NoRevision \/ (c # revision[p] /\ request[p].expected = c /\ c \notin Fixed)

ReadCurrent(p) ==
  /\ pc[p] = "check" /\ todo[p] = {}
  /\ IF MayRegister(p) THEN Advance(p, "check", "maximum") ELSE Leave(p, "check")
  /\ UNCHANGED <<rows, names, state>>

Siblings(r) == {s \in Revisions : assetOf[s] = assetOf[r]}

ReadMaximum(p) ==
  /\ Goto(p, "maximum", "media")
  /\ \E s \in Siblings(revision[p]) :
       /\ \A t \in Siblings(revision[p]) : number[t] <= number[s]
       /\ count' = [count EXCEPT ![p] = number[s] + 1]
  /\ UNCHANGED <<rows, names, state, request, revision, todo, items>>

WriteMedia(p) ==
  /\ Advance(p, "media", "record")
  /\ media' = media \cup {Target(p)}
  /\ UNCHANGED <<current, deleted, number, names, state>>

(* Upsert the record, here and in an import.                               *)
WriteRecord(p) ==
  /\ Advance(p, "record", "revision")
  /\ current' = [current EXCEPT ![Target(p)] = revision[p]]
  /\ deleted' = deleted \ {Target(p)}
  /\ UNCHANGED <<media, number, names, state>>

NumberAnyway(p) == TRUE      \* mutant: the table without its UNIQUE constraint

(* UNIQUE (asset_id, revision_number)                                      *)
NumberFree(p) == \A s \in Siblings(revision[p]) : number[s] # count[p]

NumberStored(p) == number' = [number EXCEPT ![revision[p]] = count[p]]

InsertRevision(p) ==
  /\ pc[p] = "revision" /\ Op(p) = "register"
  /\ IF number[revision[p]] = 0 /\ NumberFree(p)
     THEN /\ Goto(p, "revision", "finish")
          /\ NumberStored(p)
          /\ todo' = [todo EXCEPT ![p] = aliasesOf[revision[p]]]
          /\ UNCHANGED <<request, revision, items, count>>
     ELSE Leave(p, "revision") /\ UNCHANGED number
  /\ UNCHANGED <<media, current, deleted, names, state>>

(* The alias upserts of a registration and of a description.               *)
Link(p) ==
  /\ pc[p] = "finish"
  /\ \E x \in todo[p] :
       /\ owner' = [owner EXCEPT ![x] = Target(p)]
       /\ kept' = IF /\ owner[x] = NoAsset
                      /\ Op(p) = "register" /\ revision[p] \in Protected
                   THEN kept \cup {x} ELSE kept
       /\ todo' = [todo EXCEPT ![p] = @ \ {x}]
  /\ UNCHANGED <<rows, state, pc, request, revision, items, count>>

BumpKeepingHash(p) ==        \* mutant: current_snapshot_hash is not reset
  /\ todo[p] = {}
  /\ Leave(p, "finish")
  /\ release' = IF number[revision[p]] # 0 THEN release + 1 ELSE release
  /\ UNCHANGED <<rows, names, hash>>

(* Record the event, count the change and answer.  The event references    *)
(* the revision's row: without one the request fails here.                 *)
Bump(p) ==
  /\ todo[p] = {}
  /\ Leave(p, "finish")
  /\ IF number[revision[p]] # 0 THEN release' = release + 1 /\ hash' = NoSnapshot
                                ELSE UNCHANGED state
  /\ UNCHANGED <<rows, names>>

-----------------------------------------------------------------------------
(* updateAssetMetadata ("retitle" names no aliases), deleteAsset and       *)
(* restoreAsset                                                            *)

Found(p) ==
  LET a == request[p].asset
  IN /\ current[a] # NoRevision
     /\ a \in deleted <=> Op(p) = "restore"
     /\ Op(p) = "delete" => current[a] \notin Protected

Find(p) ==
  /\ pc[p] = "find"
  /\ IF Found(p)
     THEN /\ Goto(p, "find", CASE Op(p) = "describe" -> "recheck"
                               [] Op(p) = "retitle" -> "finish"
                               [] OTHER -> "mark")
          /\ revision' = [revision EXCEPT ![p] = current[request[p].asset]]
          /\ UNCHANGED <<request, todo, items, count>>
     ELSE Leave(p, "find")
  /\ UNCHANGED <<rows, names, state>>

Mark(p) ==
  /\ Advance(p, "mark", "finish")
  /\ deleted' = IF Op(p) = "delete" THEN deleted \cup {request[p].asset}
                 ELSE deleted \ {request[p].asset}
  /\ UNCHANGED <<media, current, number, names, state>>

Unlink(p) ==
  /\ todo[p] = {}
  /\ Goto(p, "recheck", "finish")
  /\ owner' = [x \in Aliases |-> IF owner[x] = request[p].asset /\ x \notin kept
                                  THEN NoAsset ELSE owner[x]]
  /\ todo' = [todo EXCEPT ![p] = request[p].aliases]
  /\ UNCHANGED <<rows, kept, state, request, revision, items, count>>

-----------------------------------------------------------------------------
(* buildAssetSnapshot                                                      *)

ReadRelease(p) ==
  /\ Goto(p, "export", "rows")
  /\ count' = [count EXCEPT ![p] = release]
  /\ UNCHANGED <<rows, names, state, request, revision, todo, items>>

ItemOf(a) == [revision |-> current[a], number |-> number[current[a]],
              aliases |-> {x \in Aliases : owner[x] = a}]

Visible(a) == /\ a \in media
              /\ current[a] # NoRevision
              /\ number[current[a]] # 0
              /\ a \notin deleted

ReadRows(p) ==
  /\ Goto(p, "rows", "hash")
  /\ items' = [items EXCEPT ![p] = {ItemOf(a) : a \in {b \in Assets : Visible(b)}}]
  /\ UNCHANGED <<rows, names, state, request, revision, todo, count>>

WriteHash(p) ==
  /\ Leave(p, "hash")
  /\ hash' = IF release = 0 /\ hash = NoSnapshot THEN hash
              ELSE [release |-> count[p], assets |-> items[p]]
  /\ UNCHANGED <<rows, names, release>>

-----------------------------------------------------------------------------
(* importAssetSnapshot                                                     *)

Compare(p) ==
  /\ pc[p] = "import"
  /\ IF hash = request[p].snapshot THEN Leave(p, "import") ELSE Advance(p, "import", "hide")
  /\ UNCHANGED <<rows, names, state>>

HideAll(p) ==
  /\ Advance(p, "hide", "unname")
  /\ deleted' = {a \in Assets : current[a] # NoRevision}
  /\ UNCHANGED <<media, current, number, names, state>>

UnnameAll(p) ==
  /\ Goto(p, "unname", "item")
  /\ owner' = [x \in Aliases |-> NoAsset]
  /\ kept' = {}
  /\ items' = [items EXCEPT ![p] = request[p].snapshot.assets]
  /\ UNCHANGED <<rows, state, request, revision, todo, count>>

(* The next item's media row; its record is WriteRecord.                   *)
ImportMedia(p) ==
  /\ todo[p] = {}
  /\ Goto(p, "item", "record")
  /\ \E i \in items[p] :
       /\ media' = media \cup {assetOf[i.revision]}
       /\ revision' = [revision EXCEPT ![p] = i.revision]
       /\ count' = [count EXCEPT ![p] = i.number]
       /\ todo' = [todo EXCEPT ![p] = i.aliases]
       /\ items' = [items EXCEPT ![p] = @ \ {i}]
  /\ UNCHANGED <<current, deleted, number, names, state, request>>

(* ON CONFLICT(revision_id) DO UPDATE SET status: the row stays as it is.  *)
ImportRevision(p) ==
  /\ pc[p] = "revision" /\ Op(p) = "import"
  /\ \/ number[revision[p]] # 0 /\ Advance(p, "revision", "item") /\ UNCHANGED number
     \/ /\ number[revision[p]] = 0
        /\ IF NumberFree(p) THEN NumberStored(p) /\ Advance(p, "revision", "item")
           ELSE Leave(p, "revision") /\ UNCHANGED number
  /\ UNCHANGED <<media, current, deleted, names, state>>

(* A plain INSERT: an alias that exists by now ends the import.            *)
ImportAlias(p) ==
  /\ pc[p] = "item"
  /\ \E x \in todo[p] :
       IF owner[x] = NoAsset
       THEN /\ owner' = [owner EXCEPT ![x] = Target(p)]
            /\ kept' = IF revision[p] \in Protected THEN kept \cup {x} ELSE kept
            /\ todo' = [todo EXCEPT ![p] = @ \ {x}]
            /\ UNCHANGED <<pc, request, revision, items, count>>
       ELSE Leave(p, "item") /\ UNCHANGED names
  /\ UNCHANGED <<rows, state>>

WriteState(p) ==
  /\ todo[p] = {} /\ items[p] = {}
  /\ Leave(p, "item")
  /\ release' = request[p].snapshot.release
  /\ hash' = request[p].snapshot
  /\ UNCHANGED <<rows, names>>

WritesHash(p) == WriteHash(p) \/ WriteState(p)

Serves(p) ==
  \/ CheckAlias(p) \/ ReadCurrent(p) \/ ReadMaximum(p) \/ WriteMedia(p)
  \/ WriteRecord(p) \/ InsertRevision(p) \/ Link(p) \/ Bump(p)
  \/ Find(p) \/ Mark(p) \/ Unlink(p)
  \/ ReadRelease(p) \/ ReadRows(p)
  \/ Compare(p) \/ HideAll(p) \/ UnnameAll(p) \/ ImportMedia(p)
  \/ ImportRevision(p) \/ ImportAlias(p)
  \/ Stop(p)
  \/ \E q \in Requests : Begin(p, q)

-----------------------------------------------------------------------------
(* What the history variables record.                                      *)

(* What an export reads.                                                   *)
contents == <<current, deleted, number, owner>>

(* An export between its first read and its write, an import between its   *)
(* comparison and its write.                                               *)
Exporting(q) == pc[q] \in {"rows", "hash"}
Importing(q) == pc[q] \in {"hide", "unname", "item", "record", "revision"} /\ Op(q) = "import"

(* The step changes what q has read, or is replacing, or compared with.    *)
Overtakes(q) ==
  \/ pc[q] # "hide" /\ <<contents, release>>' # <<contents, release>>
  \/ Importing(q) /\ hash' # hash

Recorded(p, wrong, changing) ==
  /\ overtaken' = {q \in Procs : /\ Exporting(q)' \/ Importing(q)'
                                 /\ q \in overtaken \/ (q # p /\ Overtakes(q))}
  /\ stale' = (wrong /\ hash' # NoSnapshot)
  /\ dirty' = IF stale' \/ hash' = NoSnapshot THEN {} ELSE changing

Next ==
  \E p \in Procs :
    \/ /\ Serves(p)
       /\ Recorded(p, stale \/ (p \in dirty /\ pc'[p] = "idle"),
                   IF contents' = contents THEN dirty ELSE dirty \cup {p})
    \/ WritesHash(p) /\ Recorded(p, p \in overtaken, {})

Spec == Init /\ [][Next]_vars

-----------------------------------------------------------------------------
(* Properties.                                                             *)

Adopted == {i.revision : i \in UNION {s.assets : s \in Snapshots}}

(* Revisions are immutable, their numbers unique and without gaps, although*)
(* the number is read in one statement and inserted in another: the        *)
(* registry implements module AssetHistory.                                *)
History == INSTANCE AssetHistory
KeepsHistory == History!Spec

Brief(i) == [revision |-> i.revision, aliases |-> i.aliases]
Shown == {Brief(ItemOf(a)) : a \in {b \in Assets : Visible(b)}}

(* The stored snapshot hash, by which importAssetSnapshot decides that it  *)
(* has nothing to do.  First: it is the hash of the counter and of the     *)
(* assets that are visible, while no request is between its first change   *)
(* and its end, unless it was there when such a request ended (it stopped, *)
(* or failed) before it replaced the hash, or was written by an export or  *)
(* an import that another request's write had come in between.  Second: an *)
(* import is never taken for done before it is, unless another request has *)
(* written in the meantime.  Numbers are left out of the comparison: an    *)
(* imported revision that is stored already keeps the number it has.       *)
HashTellsTheAssets ==
  /\ hash # NoSnapshot /\ dirty = {} /\ ~stale =>
       hash.release = release /\ Shown = {Brief(i) : i \in hash.assets}
  /\ \A p \in Procs : Importing(p) /\ p \notin overtaken => hash # request[p].snapshot

(* tests/generated-site/project-assets.test.mjs: "an optional alias can    *)
(* never be reassigned to a different asset".                              *)
AliasNeverReassigned ==
  [][\A x \in Aliases : owner[x] # NoAsset => owner'[x] \in {owner[x], NoAsset}]_owner
=============================================================================
