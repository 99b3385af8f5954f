------------------------ MODULE AssetRegistryProofs ------------------------
(***************************************************************************)
(* Safety of module AssetRegistry for any assets, revisions, aliases,      *)
(* snapshots and requests, any number of them served at the same time.     *)
(***************************************************************************)
EXTENDS AssetRegistry, TLAPS

AssetOps == {"describe", "retitle", "delete", "restore"}

Stored(r) == number[r] # 0

(* The number before the one a registration has picked is stored.          *)
Predecessor(p) ==
  count[p] = 1 \/ \E s \in Siblings(revision[p]) : number[s] = count[p] - 1

(* Which request is at which step.                                         *)
Place(p) ==
  /\ pc[p] # "idle" => request[p] \in Requests
  /\ pc[p] \in {"check", "maximum", "media"} =>
       Op(p) = "register" /\ revision[p] \in Revisions
  /\ pc[p] \in {"record", "revision"} =>
       Op(p) \in {"register", "import"} /\ revision[p] \in Revisions
  /\ pc[p] \in {"find", "mark"} => Op(p) \in AssetOps
  /\ pc[p] = "recheck" => Op(p) = "describe"
  /\ pc[p] = "finish" => Op(p) \in AssetOps \cup {"register"}
  /\ pc[p] \in {"mark", "recheck", "finish"} => revision[p] \in Revisions
  /\ pc[p] \in {"import", "hide", "unname", "item"} => Op(p) = "import"
  /\ pc[p] \in {"import", "hide", "unname"} => todo[p] = {}
  /\ pc[p] = "item" /\ todo[p] # {} => revision[p] \in Revisions

(* The number a request is about to store may be stored next.              *)
Numbered(p) ==
  /\ pc[p] \in {"media", "record", "revision"} => count[p] > 0
  /\ pc[p] \in {"media", "record", "revision"} /\ Op(p) = "register" => Predecessor(p)
  /\ pc[p] \in {"record", "revision"} /\ Op(p) = "import" => revision[p] \in Adopted

(* An import has only items of its snapshot to come; a record is written   *)
(* after its media row.                                                    *)
Planned(p) ==
  /\ pc[p] \in {"item", "record", "revision"} /\ Op(p) = "import" =>
       items[p] \subseteq request[p].snapshot.assets
  /\ pc[p] = "record" => assetOf[revision[p]] \in media

Stage(p) == Place(p) /\ Numbered(p) /\ Planned(p)

(* The items an import has begun to write.                                 *)
Copied(p) == request[p].snapshot.assets \ items[p]

(* What is visible is copied, and what is copied, but for the item in      *)
(* hand, is visible.                                                       *)
RowsCopied(p) ==
  /\ \A a \in Assets : current[a] # NoRevision /\ a \notin deleted =>
       \E i \in Copied(p) : assetOf[i.revision] = a
  /\ \A i \in Copied(p) :
       \/ pc[p] \in {"record", "revision"} /\ i.revision = revision[p]
       \/ /\ current[assetOf[i.revision]] = i.revision
          /\ assetOf[i.revision] \notin deleted
          /\ Stored(i.revision)
  /\ pc[p] \in {"record", "revision"} =>
       \E i \in Copied(p) : i.revision = revision[p] /\ todo[p] = i.aliases
  /\ pc[p] = "revision" =>
       /\ current[assetOf[revision[p]]] = revision[p]
       /\ assetOf[revision[p]] \notin deleted
  /\ pc[p] = "item" /\ todo[p] # {} =>
       \E i \in Copied(p) : i.revision = revision[p] /\ todo[p] \subseteq i.aliases

(* The aliases are those of the copied items, but for those still to come. *)
NamesCopied(p) ==
  /\ \A x \in Aliases : owner[x] # NoAsset =>
       \E i \in Copied(p) : assetOf[i.revision] = owner[x]
  /\ \A i \in Copied(p), x \in Aliases :
       owner[x] = assetOf[i.revision] <=>
         x \in i.aliases /\ ~(i.revision = revision[p] /\ x \in todo[p])

ExportFaithful(p) ==
  /\ pc[p] \in {"rows", "hash"} => count[p] = release
  /\ pc[p] = "hash" =>
       items[p] = {ItemOf(a) : a \in {b \in Assets : Visible(b)}}

ImportFaithful(p) ==
  Importing(p) =>
    /\ hash # request[p].snapshot
    /\ pc[p] = "unname" => \A a \in Assets : current[a] = NoRevision \/ a \in deleted
    /\ pc[p] \in {"item", "record", "revision"} => RowsCopied(p) /\ NamesCopied(p)

(* What an export or an import that nothing has come in between has read   *)
(* is there still, and what it has written.                                *)
Faithful(p) == p \in overtaken \/ (ExportFaithful(p) /\ ImportFaithful(p))

(* The hash tells what there is.                                           *)
Accurate == hash.release = release /\ Shown = {Brief(i) : i \in hash.assets}
Told == hash # NoSnapshot /\ dirty = {} /\ ~stale => Accurate

Filed == \A a \in Assets : current[a] # NoRevision => a \in media

IInv == TypeOK /\ Filed /\ (\A p \in Procs : Stage(p) /\ Faithful(p)) /\ Told

(* One step of a request, and what the history records of it.              *)
Step(p) == Serves(p) \/ WritesHash(p)

Noted(p) ==
  \/ /\ Serves(p)
     /\ Recorded(p, stale \/ (p \in dirty /\ pc'[p] = "idle"),
                 IF contents' = contents THEN dirty ELSE dirty \cup {p})
  \/ WritesHash(p) /\ Recorded(p, p \in overtaken, {})

-----------------------------------------------------------------------------
(* What each kind of request carries.                                      *)
LEMMA Carries ==
  ASSUME NEW q \in Requests
  PROVE  /\ q.op \in AssetOps \cup {"register", "export", "import"}
         /\ q.op = "register" => q.revision \in Revisions
         /\ q.op \in AssetOps => q.asset \in Assets
         /\ q.op = "describe" => q.aliases \subseteq Aliases
         /\ q.op = "import" => q.snapshot \in Snapshots
  BY RequestsAreTyped DEF Request, AssetOps

(* The asset a request writes is an asset.                                 *)
LEMMA TargetIsAsset ==
  ASSUME RegistryOK, NEW p \in Procs, Place(p), pc[p] # "idle",
         \/ Op(p) \in AssetOps
         \/ Op(p) \in {"register", "import"} /\ revision[p] \in Revisions
  PROVE  Target(p) \in Assets
<1>1. request[p] \in Requests BY DEF Place
<1>2. CASE Op(p) \in AssetOps BY <1>1, <1>2, Carries DEF Target, Op, AssetOps
<1>3. CASE Op(p) \in {"register", "import"} /\ revision[p] \in Revisions
  BY <1>3, PayloadsAreTyped DEF Target
<1> QED BY <1>2, <1>3

(* The empty registry satisfies the invariant.                             *)
LEMMA Initially == Init => IInv
<1> SUFFICES ASSUME Init PROVE IInv OBVIOUS
<1>1. TypeOK /\ Filed BY DEF Init, TypeOK, RegistryOK, Filed, Pc
<1>2. ASSUME NEW p \in Procs PROVE Stage(p) /\ Faithful(p)
  BY DEF Init, Stage, Place, Numbered, Planned, Faithful, ExportFaithful, ImportFaithful,
     Importing
<1>3. Told BY DEF Init, Told
<1> QED BY <1>1, <1>2, <1>3 DEF IInv

-----------------------------------------------------------------------------
(* Types.                                                                  *)

(* A request that leaves or moves on keeps the types of its locals.        *)
LEMMA LocalsTyped ==
  ASSUME RegistryOK, NEW p \in Procs, NEW f \in Pc, NEW t \in Pc,
         Leave(p, f) \/ Advance(p, f, t)
  PROVE  /\ pc' \in [Procs -> Pc]
         /\ request' \in [Procs -> Requests \cup {Nothing}]
         /\ revision' \in [Procs -> Revisions \cup {NoRevision}]
         /\ todo' \in [Procs -> SUBSET Aliases]
         /\ items' \in [Procs -> SUBSET Item]
         /\ count' \in [Procs -> Nat]
  BY DEF RegistryOK, Leave, Advance, Goto, Pc

(* A registration keeps the types.                                         *)
LEMMA RegisterTyped ==
  ASSUME RegistryOK, NEW p \in Procs, Place(p),
         \/ CheckAlias(p) \/ ReadCurrent(p) \/ ReadMaximum(p) \/ WriteMedia(p)
         \/ WriteRecord(p) \/ InsertRevision(p) \/ Link(p) \/ Bump(p)
  PROVE  RegistryOK'
<1>1. CASE CheckAlias(p)
  <2>1. ASSUME NEW x \in todo[p], todo' = [todo EXCEPT ![p] = @ \ {x}],
               UNCHANGED <<pc, request, revision, items, count>>
        PROVE  RegistryOK'
    BY <1>1, <2>1 DEF CheckAlias, RegistryOK, rows, names, state
  <2>2. CASE Leave(p, pc[p])
    <3>1. pc[p] \in Pc BY DEF RegistryOK
    <3> QED BY <1>1, <2>2, <3>1, LocalsTyped DEF CheckAlias, RegistryOK, rows, names, state
  <2> QED BY <1>1, <2>1, <2>2 DEF CheckAlias
<1>2. CASE ReadCurrent(p)
  <2>1. "check" \in Pc /\ "maximum" \in Pc BY DEF Pc
  <2> QED BY <1>2, <2>1, LocalsTyped DEF ReadCurrent, RegistryOK, rows, names, state
<1>3. CASE ReadMaximum(p)
  <2>1. PICK s \in Siblings(revision[p]) : count' = [count EXCEPT ![p] = number[s] + 1]
    BY <1>3 DEF ReadMaximum
  <2>2. number[s] \in Nat BY <2>1 DEF Siblings, RegistryOK
  <2> QED BY <1>3, <2>1, <2>2 DEF ReadMaximum, Goto, RegistryOK, Pc, rows, names, state
<1>4. CASE WriteMedia(p)
  <2>1. Target(p) \in Assets BY <1>4, TargetIsAsset DEF WriteMedia, Advance, Goto, Place
  <2>2. "media" \in Pc /\ "record" \in Pc BY DEF Pc
  <2> QED BY <1>4, <2>1, <2>2, LocalsTyped DEF WriteMedia, RegistryOK, names, state
<1>5. CASE WriteRecord(p)
  <2>1. Target(p) \in Assets BY <1>5, TargetIsAsset DEF WriteRecord, Advance, Goto, Place
  <2>2. "record" \in Pc /\ "revision" \in Pc BY DEF Pc
  <2> QED BY <1>5, <2>1, <2>2, LocalsTyped DEF WriteRecord, RegistryOK, names, state
<1>6. CASE InsertRevision(p)
  <2>1. revision[p] \in Revisions BY <1>6 DEF InsertRevision, Place
  <2>2. CASE Leave(p, "revision") /\ UNCHANGED number
    <3>1. "revision" \in Pc BY DEF Pc
    <3> QED BY <1>6, <2>2, <3>1, LocalsTyped DEF InsertRevision, RegistryOK, names, state
  <2>3. CASE /\ Goto(p, "revision", "finish") /\ NumberStored(p)
             /\ todo' = [todo EXCEPT ![p] = aliasesOf[revision[p]]]
             /\ UNCHANGED <<request, revision, items, count>>
    BY <1>6, <2>1, <2>3, PayloadsAreTyped
       DEF InsertRevision, Goto, NumberStored, RegistryOK, Pc, names, state
  <2> QED BY <1>6, <2>2, <2>3 DEF InsertRevision
<1>7. CASE Link(p)
  <2>1. Target(p) \in Assets BY <1>7, TargetIsAsset DEF Link, Place
  <2> QED BY <1>7, <2>1 DEF Link, RegistryOK, rows, state
<1>8. CASE Bump(p)
  <2>1. "finish" \in Pc BY DEF Pc
  <2>2. release' \in Nat /\ hash' \in Snapshot \cup {NoSnapshot}
    BY <1>8 DEF Bump, RegistryOK, state
  <2> QED BY <1>8, <2>1, <2>2, LocalsTyped DEF Bump, RegistryOK, rows, names
<1> QED BY <1>1, <1>2, <1>3, <1>4, <1>5, <1>6, <1>7, <1>8

(* The other operations, the arrival and the stop of a request keep them.  *)
LEMMA OthersTyped ==
  ASSUME RegistryOK, NEW p \in Procs, Place(p), Numbered(p), Planned(p),
         \/ Find(p) \/ Mark(p) \/ Unlink(p)
         \/ ReadRelease(p) \/ ReadRows(p) \/ WriteHash(p)
         \/ Compare(p) \/ HideAll(p) \/ UnnameAll(p) \/ ImportMedia(p)
         \/ ImportRevision(p) \/ ImportAlias(p) \/ WriteState(p)
         \/ Stop(p) \/ \E q \in Requests : Begin(p, q)
  PROVE  RegistryOK'
<1> USE DEF rows, names, state
<1>0. {"find", "mark", "finish", "recheck", "hash", "import", "hide",
                  "unname", "item", "revision"} \subseteq Pc
  BY DEF Pc
<1>1. CASE Find(p)
  <2>1. CASE Leave(p, "find") BY <1>0, <1>1, <2>1, LocalsTyped DEF Find, RegistryOK
  <2>2. CASE ~Leave(p, "find")
    <3>1. Op(p) \in AssetOps /\ request[p] \in Requests BY <1>1 DEF Find, Place
    <3>2. current[request[p].asset] \in Revisions
      BY <1>1, <2>2, <3>1, Carries DEF Find, Found, Op, RegistryOK
    <3> QED BY <1>0, <1>1, <2>2, <3>2 DEF Find, Goto, RegistryOK
  <2> QED BY <2>1, <2>2
<1>2. CASE Mark(p)
  <2>1. request[p].asset \in Assets
    BY <1>2, Carries DEF Mark, Advance, Goto, Place, Op
  <2> QED BY <1>0, <1>2, <2>1, LocalsTyped DEF Mark, RegistryOK
<1>3. CASE Unlink(p)
  <2>1. request[p].aliases \subseteq Aliases
    BY <1>3, Carries DEF Unlink, Goto, Place, Op
  <2> QED BY <1>0, <1>3, <2>1 DEF Unlink, Goto, RegistryOK
<1>4. CASE ReadRelease(p) BY <1>4 DEF ReadRelease, Goto, RegistryOK, Pc
<1>5. CASE ReadRows(p)
  <2>1. \A a \in Assets : Visible(a) => ItemOf(a) \in Item
    BY DEF Visible, ItemOf, Item, RegistryOK
  <2> QED BY <1>0, <1>5, <2>1 DEF ReadRows, Goto, RegistryOK
<1>6. CASE WriteHash(p)
  <2>1. [release |-> count[p], assets |-> items[p]] \in Snapshot
    BY DEF Snapshot, RegistryOK
  <2> QED BY <1>0, <1>6, <2>1, LocalsTyped DEF WriteHash, RegistryOK
<1>7. CASE Compare(p) BY <1>0, <1>7, LocalsTyped DEF Compare, RegistryOK
<1>8. CASE HideAll(p) BY <1>0, <1>8, LocalsTyped DEF HideAll, RegistryOK
<1>9. CASE UnnameAll(p)
  <2>1. request[p].snapshot \in Snapshots
    BY <1>9, Carries DEF UnnameAll, Goto, Place, Op
  <2>2. request[p].snapshot.assets \subseteq Item
    BY <2>1, SnapshotsAreWellFormed DEF Snapshot
  <2> QED BY <1>0, <1>9, <2>2 DEF UnnameAll, Goto, RegistryOK
<1>10. CASE ImportMedia(p)
  <2>1. PICK i \in items[p] :
          /\ media' = media \cup {assetOf[i.revision]}
          /\ revision' = [revision EXCEPT ![p] = i.revision]
          /\ count' = [count EXCEPT ![p] = i.number]
          /\ todo' = [todo EXCEPT ![p] = i.aliases]
          /\ items' = [items EXCEPT ![p] = @ \ {i}]
    BY <1>10 DEF ImportMedia
  <2>2. i \in Item /\ items[p] \subseteq Item BY DEF RegistryOK
  <2>3. i.revision \in Revisions /\ i.number \in Nat /\ i.aliases \subseteq Aliases
    BY <2>2 DEF Item
  <2> QED BY <1>10, <2>1, <2>2, <2>3, PayloadsAreTyped DEF ImportMedia, Goto, RegistryOK, Pc
<1>11. CASE ImportRevision(p)
  <2>1. revision[p] \in Revisions BY <1>11 DEF ImportRevision, Place
  <2>2. number' \in [Revisions -> Nat]
    BY <1>11, <2>1 DEF ImportRevision, NumberStored, RegistryOK
  <2> QED BY <1>0, <1>11, <2>2, LocalsTyped DEF ImportRevision, RegistryOK
<1>12. CASE ImportAlias(p)
  <2>1. PICK x \in todo[p] :
          \/ /\ owner' = [owner EXCEPT ![x] = Target(p)]
             /\ kept' = IF revision[p] \in Protected THEN kept \cup {x} ELSE kept
             /\ todo' = [todo EXCEPT ![p] = @ \ {x}]
             /\ UNCHANGED <<pc, request, revision, items, count>>
          \/ Leave(p, "item") /\ UNCHANGED names
    BY <1>12 DEF ImportAlias
  <2>2. Target(p) \in Assets BY <1>12, <2>1, TargetIsAsset DEF ImportAlias, Place
  <2>3. CASE Leave(p, "item") /\ UNCHANGED names
    BY <1>0, <1>12, <2>3, LocalsTyped DEF ImportAlias, RegistryOK
  <2>4. CASE ~(Leave(p, "item") /\ UNCHANGED names)
    BY <1>12, <2>1, <2>2, <2>4 DEF ImportAlias, RegistryOK
  <2> QED BY <2>3, <2>4
<1>13. CASE WriteState(p)
  <2>1. request[p].snapshot \in Snapshots
    BY <1>13, Carries DEF WriteState, Leave, Goto, Place, Op
  <2>2. request[p].snapshot \in Snapshot /\ request[p].snapshot.release \in Nat
    BY <2>1, SnapshotsAreWellFormed DEF Snapshot
  <2> QED BY <1>0, <1>13, <2>2, LocalsTyped DEF WriteState, RegistryOK
<1>14. CASE Stop(p)
  <2>1. pc[p] \in Pc BY DEF RegistryOK
  <2> QED BY <1>14, <2>1, LocalsTyped DEF Stop, RegistryOK
<1>15. ASSUME NEW q \in Requests, Begin(p, q) PROVE RegistryOK'
  <2>1. (CASE q.op = "register" -> "check" [] q.op \in {"export", "import"} -> q.op
           [] OTHER -> "find") \in Pc
    BY DEF Pc
  <2>2. (IF q.op = "register" THEN q.revision ELSE NoRevision) \in Revisions \cup {NoRevision}
    BY Carries
  <2>3. (CASE q.op = "register" -> aliasesOf[q.revision] [] q.op = "describe" -> q.aliases
           [] OTHER -> {}) \subseteq Aliases
    BY Carries, PayloadsAreTyped
  <2> QED BY <1>15, <2>1, <2>2, <2>3 DEF Begin, Goto, RegistryOK
<1> QED BY <1>1, <1>2, <1>3, <1>4, <1>5, <1>6, <1>7, <1>8, <1>9, <1>10, <1>11, <1>12,
           <1>13, <1>14, <1>15

-----------------------------------------------------------------------------
(* What one request's step does to the others.                             *)

Same(q) ==
  /\ pc'[q] = pc[q] /\ request'[q] = request[q] /\ revision'[q] = revision[q]
  /\ todo'[q] = todo[q] /\ items'[q] = items[q] /\ count'[q] = count[q]

(* No step touches the locals of another request.                          *)
LEMMA OthersSame ==
  ASSUME RegistryOK, NEW p \in Procs, Step(p),
         NEW q \in Procs, q # p
  PROVE  Same(q)
  BY DEF Step, Serves, WritesHash, Same, RegistryOK, locals, Leave, Advance, Goto, Begin, CheckAlias, ReadCurrent,
     ReadMaximum, WriteMedia, WriteRecord, InsertRevision, Link, Bump, Find, Mark,
     Unlink, ReadRelease, ReadRows, WriteHash, Compare, HideAll, UnnameAll, ImportMedia,
     ImportRevision, ImportAlias, WriteState, Stop

(* A number is written only by the two inserts, and only once.             *)
LEMMA NumbersKept ==
  ASSUME RegistryOK, NEW p \in Procs, Place(p), Step(p)
  PROVE  \/ UNCHANGED number
         \/ /\ pc[p] = "revision" /\ number[revision[p]] = 0
            /\ NumberFree(p) /\ NumberStored(p)
  BY DEF Step, Serves, WritesHash, rows, Begin, CheckAlias, ReadCurrent,
     ReadMaximum, WriteMedia, WriteRecord, InsertRevision, Link, Bump, Find, Mark,
     Unlink, ReadRelease, ReadRows, WriteHash, Compare, HideAll, UnnameAll, ImportMedia,
     ImportRevision, ImportAlias, WriteState, Stop

(* So a stored number stays.                                               *)
LEMMA StoredStays ==
  ASSUME RegistryOK, NEW p \in Procs, Place(p), Step(p),
         NEW r \in Revisions, Stored(r)
  PROVE  number'[r] = number[r] /\ Stored(r)'
<1>1. CASE UNCHANGED number BY <1>1 DEF Stored
<1>2. CASE /\ pc[p] = "revision" /\ number[revision[p]] = 0 /\ NumberStored(p)
  BY <1>2 DEF Stored, NumberStored, RegistryOK
<1> QED BY <1>1, <1>2, NumbersKept

(* Media rows are only added.                                              *)
LEMMA MediaGrows ==
  ASSUME NEW p \in Procs, Step(p)
  PROVE  media \subseteq media'
  BY DEF Step, Serves, WritesHash, rows, Begin, CheckAlias, ReadCurrent,
     ReadMaximum, WriteMedia, WriteRecord, InsertRevision, Link, Bump, Find, Mark,
     Unlink, ReadRelease, ReadRows, WriteHash, Compare, HideAll, UnnameAll, ImportMedia,
     ImportRevision, ImportAlias, WriteState, Stop

(* A request that another one's step leaves alone stays at a sound stage.  *)
LEMMA OthersStage ==
  ASSUME RegistryOK, NEW p \in Procs, Place(p), Step(p),
         NEW q \in Procs, q # p, Stage(q)
  PROVE  Stage(q)'
<1>1. Same(q) BY OthersSame
<1>2. \A r \in Revisions : Stored(r) => number'[r] = number[r] /\ Stored(r)'
  BY StoredStays
<1>3. Place(q)' BY <1>1 DEF Stage, Place, Same, Op
<1>4. Numbered(q)'
  <2>1. ASSUME Predecessor(q) PROVE Predecessor(q)'
    <3>1. CASE count[q] = 1 BY <1>1, <3>1 DEF Predecessor, Same
    <3>2. CASE count[q] # 1
      <4>1. PICK s \in Siblings(revision[q]) : number[s] = count[q] - 1
        BY <2>1, <3>2 DEF Predecessor
      <4>2. s \in Revisions /\ count[q] \in Nat BY <4>1 DEF Siblings, RegistryOK
      <4>3. Stored(s) BY <3>2, <4>1, <4>2 DEF Stored
      <4>4. number'[s] = count'[q] - 1 BY <1>1, <1>2, <4>1, <4>2, <4>3 DEF Same
      <4> QED BY <1>1, <4>1, <4>4 DEF Predecessor, Same, Siblings
    <3> QED BY <3>1, <3>2
  <2> QED BY <1>1, <2>1 DEF Stage, Numbered, Same, Op
<1>5. Planned(q)'
  <2>1. media \subseteq media' BY MediaGrows
  <2> QED BY <1>1, <2>1 DEF Stage, Planned, Same, Op
<1> QED BY <1>3, <1>4, <1>5 DEF Stage

-----------------------------------------------------------------------------
(* The request that takes the step.                                        *)

(* It arrives, is answered, refused or stopped.                            *)
LEMMA IdleStage ==
  ASSUME RegistryOK, NEW p \in Procs, NEW f, Leave(p, f)
  PROVE  Stage(p)'
<1>1. pc'[p] = "idle" /\ todo'[p] = {} BY DEF Leave, Goto, RegistryOK
<1> QED BY <1>1 DEF Stage, Place, Numbered, Planned

LEMMA ArrivalStage ==
  ASSUME RegistryOK, NEW p \in Procs, NEW q \in Requests, Begin(p, q)
  PROVE  Stage(p)'
<1>1. request'[p] = q BY DEF Begin, RegistryOK
<1>2. q.op \in AssetOps \cup {"register", "export", "import"}
      /\ (q.op = "register" => q.revision \in Revisions)
  BY Carries
<1>3. /\ q.op = "register" => pc'[p] = "check" /\ revision'[p] = q.revision
      /\ q.op \in {"export", "import"} => pc'[p] = q.op
      /\ q.op \in AssetOps => pc'[p] = "find"
      /\ q.op = "import" => todo'[p] = {}
  BY <1>2 DEF Begin, Goto, RegistryOK, AssetOps
<1> QED BY <1>1, <1>2, <1>3 DEF Stage, Place, Numbered, Planned, Op, AssetOps

(* A registration moves from one sound stage to the next.                  *)
LEMMA RegisterStage ==
  ASSUME RegistryOK, NEW p \in Procs, Stage(p),
         \/ CheckAlias(p) \/ ReadCurrent(p) \/ ReadMaximum(p) \/ WriteMedia(p)
         \/ InsertRevision(p) \/ Link(p) \/ Bump(p)
  PROVE  Stage(p)'
<1> USE DEF Stage
<1>1. CASE CheckAlias(p)
  <2>1. CASE Leave(p, pc[p]) BY <2>1, IdleStage
  <2>2. CASE UNCHANGED <<pc, request, revision, items, count>>
    BY <1>1, <2>2 DEF CheckAlias, Place, Numbered, Planned, Op
  <2> QED BY <1>1, <2>1, <2>2 DEF CheckAlias
<1>2. CASE ReadCurrent(p)
  <2>1. CASE Leave(p, "check") BY <2>1, IdleStage
  <2>2. CASE Advance(p, "check", "maximum")
    <3>1. pc'[p] = "maximum" /\ UNCHANGED <<request, revision, todo, items, count>>
      BY <2>2 DEF Advance, Goto, RegistryOK
    <3> QED BY <1>2, <3>1 DEF ReadCurrent, Place, Numbered, Planned, Op
  <2> QED BY <1>2, <2>1, <2>2 DEF ReadCurrent
<1>3. CASE ReadMaximum(p)
  <2>1. /\ pc[p] = "maximum" /\ pc'[p] = "media"
        /\ UNCHANGED <<request, revision, number>>
    BY <1>3 DEF ReadMaximum, Goto, RegistryOK, rows
  <2>2. PICK s \in Siblings(revision[p]) : count'[p] = number[s] + 1
    BY <1>3 DEF ReadMaximum, RegistryOK
  <2>3. number[s] \in Nat BY <2>2 DEF Siblings, RegistryOK
  <2>4. count'[p] > 0 /\ Predecessor(p)'
    BY <2>1, <2>2, <2>3 DEF Predecessor, Siblings
  <2> QED BY <2>1, <2>4 DEF Place, Numbered, Planned, Op
<1>4. CASE WriteMedia(p)
  <2>1. /\ pc[p] = "media" /\ pc'[p] = "record"
        /\ UNCHANGED <<request, revision, todo, items, count, number>>
        /\ media' = media \cup {Target(p)}
    BY <1>4 DEF WriteMedia, Advance, Goto, RegistryOK
  <2>2. Target(p) = assetOf[revision[p]] BY <2>1 DEF Place, Target
  <2> QED BY <2>1, <2>2 DEF Place, Numbered, Planned, Op, Predecessor, Siblings
<1>5. CASE InsertRevision(p)
  <2>1. CASE Leave(p, "revision") BY <2>1, IdleStage
  <2>2. CASE Goto(p, "revision", "finish") /\ UNCHANGED <<request, revision, items, count>>
    <3>1. pc'[p] = "finish" BY <2>2 DEF Goto, RegistryOK
    <3> QED BY <1>5, <2>2, <3>1 DEF InsertRevision, Place, Numbered, Planned, Op
  <2> QED BY <1>5, <2>1, <2>2 DEF InsertRevision
<1>6. CASE Link(p)
  BY <1>6 DEF Link, Place, Numbered, Planned, Op
<1>7. CASE Bump(p) BY <1>7, IdleStage DEF Bump
<1> QED BY <1>1, <1>2, <1>3, <1>4, <1>5, <1>6, <1>7

(* So do a description, a deletion, a restoration and an export.           *)
LEMMA AssetStage ==
  ASSUME RegistryOK, NEW p \in Procs, Stage(p),
         \/ Find(p) \/ Mark(p) \/ Unlink(p)
         \/ ReadRelease(p) \/ ReadRows(p) \/ WriteHash(p) \/ Stop(p)
  PROVE  Stage(p)'
<1> USE DEF Stage
<1>1. CASE Find(p)
  <2>1. CASE Leave(p, "find") BY <2>1, IdleStage
  <2>2. CASE ~Leave(p, "find")
    <3>1. /\ pc[p] = "find" /\ UNCHANGED <<request, todo, items, count>>
          /\ revision'[p] = current[request[p].asset]
          /\ pc'[p] = CASE Op(p) = "describe" -> "recheck" [] Op(p) = "retitle" -> "finish"
                        [] OTHER -> "mark"
      BY <1>1, <2>2 DEF Find, Goto, RegistryOK
    <3>2. Op(p) \in AssetOps BY <3>1 DEF Place
    <3>3. current[request[p].asset] \in Revisions
      BY <1>1, <2>2, <3>1, <3>2, Carries DEF Find, Found, Place, Op, RegistryOK
    <3> QED BY <3>1, <3>2, <3>3 DEF Place, Numbered, Planned, Op
  <2> QED BY <2>1, <2>2
<1>2. CASE Mark(p)
  <2>1. /\ pc[p] = "mark" /\ pc'[p] = "finish"
        /\ UNCHANGED <<request, revision, todo, items, count>>
    BY <1>2 DEF Mark, Advance, Goto, RegistryOK
  <2> QED BY <2>1 DEF Place, Numbered, Planned, Op
<1>3. CASE Unlink(p)
  <2>1. pc[p] = "recheck" /\ pc'[p] = "finish" /\ UNCHANGED <<request, revision>>
    BY <1>3 DEF Unlink, Goto, RegistryOK
  <2> QED BY <2>1 DEF Place, Numbered, Planned, Op, AssetOps
<1>4. CASE ReadRelease(p)
  <2>1. pc[p] = "export" /\ pc'[p] = "rows" /\ UNCHANGED request
    BY <1>4 DEF ReadRelease, Goto, RegistryOK
  <2> QED BY <2>1 DEF Place, Numbered, Planned
<1>5. CASE ReadRows(p)
  <2>1. pc[p] = "rows" /\ pc'[p] = "hash" /\ UNCHANGED <<request, number>>
    BY <1>5 DEF ReadRows, Goto, RegistryOK, rows
  <2> QED BY <2>1 DEF Place, Numbered, Planned
<1>6. CASE WriteHash(p) BY <1>6, IdleStage DEF WriteHash
<1>7. CASE Stop(p) BY <1>7, IdleStage DEF Stop
<1> QED BY <1>1, <1>2, <1>3, <1>4, <1>5, <1>6, <1>7

(* The record upsert, which registrations and imports share.               *)
LEMMA RecordStage ==
  ASSUME RegistryOK, NEW p \in Procs, Stage(p), WriteRecord(p)
  PROVE  Stage(p)'
<1>1. /\ pc[p] = "record" /\ pc'[p] = "revision"
      /\ UNCHANGED <<request, revision, todo, items, count, number>>
  BY DEF WriteRecord, Advance, Goto, RegistryOK
<1> QED BY <1>1 DEF Stage, Place, Numbered, Planned, Op, Predecessor, Siblings, Stored

(* An import goes through its items without losing one.                    *)
LEMMA ImportStage ==
  ASSUME RegistryOK, NEW p \in Procs, Stage(p),
         \/ Compare(p) \/ HideAll(p) \/ UnnameAll(p) \/ ImportMedia(p)
         \/ ImportRevision(p) \/ ImportAlias(p) \/ WriteState(p)
  PROVE  Stage(p)'
<1> USE DEF Stage
<1>1. CASE Compare(p)
  <2>1. CASE Leave(p, "import") BY <2>1, IdleStage
  <2>2. CASE Advance(p, "import", "hide")
    <3>1. pc[p] = "import" /\ pc'[p] = "hide" /\ UNCHANGED <<request, todo>>
      BY <2>2 DEF Advance, Goto, RegistryOK
    <3> QED BY <3>1 DEF Place, Numbered, Planned, Op
  <2> QED BY <1>1, <2>1, <2>2 DEF Compare
<1>2. CASE HideAll(p)
  <2>1. pc[p] = "hide" /\ pc'[p] = "unname" /\ UNCHANGED <<request, todo>>
    BY <1>2 DEF HideAll, Advance, Goto, RegistryOK
  <2> QED BY <2>1 DEF Place, Numbered, Planned, Op
<1>3. CASE UnnameAll(p)
  <2>1. /\ pc[p] = "unname" /\ pc'[p] = "item" /\ UNCHANGED <<request, revision, todo>>
        /\ items'[p] = request[p].snapshot.assets
    BY <1>3 DEF UnnameAll, Goto, RegistryOK
  <2>2. todo[p] = {} BY <2>1 DEF Place
  <2> QED BY <2>1, <2>2 DEF Place, Numbered, Planned, Op
<1>4. CASE ImportMedia(p)
  <2>1. PICK i \in items[p] :
          /\ media' = media \cup {assetOf[i.revision]}
          /\ revision' = [revision EXCEPT ![p] = i.revision]
          /\ count' = [count EXCEPT ![p] = i.number]
          /\ todo' = [todo EXCEPT ![p] = i.aliases]
          /\ items' = [items EXCEPT ![p] = @ \ {i}]
    BY <1>4 DEF ImportMedia
  <2>2. /\ pc[p] = "item" /\ pc'[p] = "record" /\ UNCHANGED <<request, number>>
        /\ revision'[p] = i.revision /\ count'[p] = i.number /\ items'[p] = items[p] \ {i}
    BY <1>4, <2>1 DEF ImportMedia, Goto, RegistryOK
  <2>3. Op(p) = "import" /\ request[p] \in Requests /\ request[p].snapshot \in Snapshots
    BY <2>2, Carries DEF Place, Op
  <2>4. i \in request[p].snapshot.assets BY <2>2, <2>3 DEF Planned
  <2>5. i.number > 0 /\ i.revision \in Adopted
    BY <2>3, <2>4, SnapshotsAreWellFormed DEF Adopted
  <2>6. i.revision \in Revisions BY <2>1 DEF RegistryOK, Item
  <2>7. Place(p)' BY <2>2, <2>3, <2>6 DEF Place, Op
  <2>8. Numbered(p)' BY <2>2, <2>3, <2>5 DEF Numbered, Op
  <2>9. Planned(p)' BY <2>1, <2>2, <2>3, <2>4 DEF Planned, Op
  <2> QED BY <2>7, <2>8, <2>9
<1>5. CASE ImportRevision(p)
  <2>1. CASE Leave(p, "revision") BY <2>1, IdleStage
  <2>2. CASE Advance(p, "revision", "item")
    <3>1. /\ pc[p] = "revision" /\ Op(p) = "import" /\ pc'[p] = "item"
          /\ UNCHANGED <<request, revision, todo, items, count>>
      BY <1>5, <2>2 DEF ImportRevision, Advance, Goto, RegistryOK
    <3> QED BY <3>1 DEF Place, Numbered, Planned, Op
  <2> QED BY <1>5, <2>1, <2>2 DEF ImportRevision
<1>6. CASE ImportAlias(p)
  <2>1. CASE Leave(p, "item") BY <2>1, IdleStage
  <2>2. CASE UNCHANGED <<pc, request, revision, items, count>>
    BY <1>6, <2>2 DEF ImportAlias, Place, Numbered, Planned, Op, rows, Stored
  <2> QED BY <1>6, <2>1, <2>2 DEF ImportAlias
<1>7. CASE WriteState(p) BY <1>7, IdleStage DEF WriteState
<1> QED BY <1>1, <1>2, <1>3, <1>4, <1>5, <1>6, <1>7

-----------------------------------------------------------------------------
(* What exports and imports have read and written.                         *)

(* A record has its media row.                                             *)
LEMMA FiledKept ==
  ASSUME RegistryOK, Filed, NEW p \in Procs, Stage(p), Step(p)
  PROVE  Filed'
<1>1. media \subseteq media' BY MediaGrows
<1>2. CASE WriteRecord(p)
  <2>1. pc[p] = "record" /\ current' = [current EXCEPT ![Target(p)] = revision[p]]
    BY <1>2 DEF WriteRecord, Advance, Goto
  <2>2. Target(p) \in media BY <2>1 DEF Stage, Place, Planned, Target
  <2> QED BY <1>1, <2>1, <2>2 DEF Filed, RegistryOK
<1>3. UNCHANGED current \/ WriteRecord(p)
  BY DEF Step, Serves, WritesHash, rows, Begin, CheckAlias, ReadCurrent,
     ReadMaximum, WriteMedia, InsertRevision, Link, Bump, Find, Mark,
     Unlink, ReadRelease, ReadRows, WriteHash, Compare, HideAll, UnnameAll, ImportMedia,
     ImportRevision, ImportAlias, WriteState, Stop
<1> QED BY <1>1, <1>2, <1>3 DEF Filed

(* The items of an import are well-formed and about different assets.      *)
LEMMA ItemsDiffer ==
  ASSUME RegistryOK, NEW p \in Procs, Stage(p), Importing(p)
  PROVE  /\ request[p].snapshot \in Snapshot
         /\ request[p].snapshot.assets \subseteq Item
         /\ \A i \in request[p].snapshot.assets :
              /\ i.revision \in Revisions /\ i.aliases \subseteq Aliases
              /\ assetOf[i.revision] \in Assets /\ assetOf[i.revision] # NoAsset
         /\ \A i, j \in request[p].snapshot.assets :
              assetOf[i.revision] = assetOf[j.revision] => i = j
<1>1. request[p] \in Requests BY DEF Importing, Stage, Place
<1>2. request[p].snapshot \in Snapshots BY <1>1, Carries DEF Importing, Op
<1>3. request[p].snapshot \in Snapshot /\ request[p].snapshot.assets \subseteq Item
  BY <1>2, SnapshotsAreWellFormed DEF Snapshot
<1>4. ASSUME NEW i \in request[p].snapshot.assets
      PROVE  /\ i.revision \in Revisions /\ i.aliases \subseteq Aliases
             /\ assetOf[i.revision] \in Assets /\ assetOf[i.revision] # NoAsset
  <2>1. i \in Item BY <1>3
  <2>2. i.revision \in Revisions /\ i.aliases \subseteq Aliases BY <2>1 DEF Item
  <2> QED BY <2>2, PayloadsAreTyped
<1>5. \A i, j \in request[p].snapshot.assets :
        assetOf[i.revision] = assetOf[j.revision] => i = j
  BY <1>2, SnapshotsAreWellFormed
<1> QED BY <1>3, <1>4, <1>5

(* A step that does not come in between another request's reads and writes *)
(* leaves what it has read and written.                                    *)
LEMMA OthersFaithful ==
  ASSUME RegistryOK, Filed, NEW p \in Procs, Stage(p), Noted(p), Step(p),
         NEW q \in Procs, q # p, Stage(q), Faithful(q)
  PROVE  Faithful(q)'
<1> SUFFICES ASSUME q \notin overtaken'
             PROVE  ExportFaithful(q)' /\ ImportFaithful(q)'
  BY DEF Faithful
<1>1. Same(q) BY OthersSame
<1>2. Exporting(q)' = Exporting(q) /\ Importing(q)' = Importing(q)
  BY <1>1 DEF Exporting, Importing, Same, Op
<1>3. CASE ~Exporting(q) /\ ~Importing(q)
  BY <1>2, <1>3 DEF ExportFaithful, ImportFaithful, Exporting
<1>4. CASE Exporting(q) \/ Importing(q)
  <2>1. q \notin overtaken /\ ~Overtakes(q)
    BY <1>2, <1>4 DEF Noted, Recorded
  <2>2. ExportFaithful(q) /\ ImportFaithful(q) BY <2>1 DEF Faithful
  <2>3. pc[q] # "hide" => UNCHANGED <<current, deleted, number, owner, release>>
    BY <2>1 DEF Overtakes, contents
  <2>4. Importing(q) => UNCHANGED hash BY <2>1 DEF Overtakes
  <2>5. ExportFaithful(q)'
    <3>1. CASE pc[q] \notin {"rows", "hash"} BY <1>1, <3>1 DEF ExportFaithful, Same
    <3>2. CASE pc[q] \in {"rows", "hash"}
      <4>1. \A a \in Assets : Visible(a)' = Visible(a)
        <5>1. media \subseteq media' BY MediaGrows
        <5>2. UNCHANGED <<current, deleted, number>> BY <2>3, <3>2
        <5> QED BY <5>1, <5>2 DEF Visible, Filed
      <4>2. \A a \in Assets : ItemOf(a)' = ItemOf(a) BY <2>3, <3>2 DEF ItemOf
      <4>3. {ItemOf(a) : a \in {b \in Assets : Visible(b)}}'
              = {ItemOf(a) : a \in {b \in Assets : Visible(b)}}
        BY <4>1, <4>2
      <4> QED BY <1>1, <2>2, <2>3, <3>2, <4>3 DEF ExportFaithful, Same
    <3> QED BY <3>1, <3>2
  <2>6. ImportFaithful(q)'
    <3>1. Copied(q)' = Copied(q) BY <1>1 DEF Copied, Same
    <3>2. pc[q] \in {"item", "record", "revision"} /\ Importing(q) =>
            RowsCopied(q)' /\ NamesCopied(q)'
      <4> SUFFICES ASSUME pc[q] \in {"item", "record", "revision"}, Importing(q)
                   PROVE  RowsCopied(q)' /\ NamesCopied(q)'
        OBVIOUS
      <4>1. RowsCopied(q) /\ NamesCopied(q) BY <2>2 DEF ImportFaithful
      <4>2. UNCHANGED <<current, deleted, number, owner>> BY <2>3
      <4> QED BY <1>1, <3>1, <4>1, <4>2 DEF RowsCopied, NamesCopied, Same, Stored
    <3> QED BY <1>1, <1>2, <2>2, <2>3, <2>4, <3>2 DEF ImportFaithful, Same
  <2> QED BY <2>5, <2>6
<1> QED BY <1>3, <1>4

(* An export reads the counter, then the rows.                             *)
LEMMA ExportReads ==
  ASSUME RegistryOK, NEW p \in Procs, Stage(p), ReadRelease(p) \/ ReadRows(p),
         ~Exporting(p) \/ ExportFaithful(p)
  PROVE  ExportFaithful(p)' /\ ImportFaithful(p)'
<1>1. CASE ReadRelease(p)
  <2>1. pc'[p] = "rows" /\ count'[p] = release /\ release' = release
    BY <1>1 DEF ReadRelease, Goto, RegistryOK, state
  <2> QED BY <2>1 DEF ExportFaithful, ImportFaithful, Importing
<1>2. CASE ReadRows(p)
  <2>1. /\ pc[p] = "rows" /\ pc'[p] = "hash"
        /\ UNCHANGED <<current, deleted, number, media, owner, release, count>>
        /\ items'[p] = {ItemOf(a) : a \in {b \in Assets : Visible(b)}}
    BY <1>2 DEF ReadRows, Goto, RegistryOK, rows, names, state
  <2>2. {ItemOf(a) : a \in {b \in Assets : Visible(b)}}'
          = {ItemOf(a) : a \in {b \in Assets : Visible(b)}}
    BY <2>1 DEF ItemOf, Visible
  <2>3. count[p] = release BY <2>1 DEF ExportFaithful, Exporting
  <2> QED BY <2>1, <2>2, <2>3 DEF ExportFaithful, ImportFaithful, Importing
<1> QED BY <1>1, <1>2

(* An import compares, hides what there is and deletes its aliases.        *)
LEMMA ImportClears ==
  ASSUME RegistryOK, NEW p \in Procs, Stage(p),
         \/ Compare(p) /\ ~Leave(p, "import")
         \/ HideAll(p) \/ UnnameAll(p),
         Importing(p) => ImportFaithful(p)
  PROVE  ExportFaithful(p)' /\ ImportFaithful(p)'
<1>1. CASE Compare(p) /\ ~Leave(p, "import")
  <2>1. pc'[p] = "hide" /\ hash # request[p].snapshot /\ UNCHANGED <<hash, request>>
    BY <1>1 DEF Compare, Advance, Goto, RegistryOK, state
  <2> QED BY <2>1 DEF ExportFaithful, ImportFaithful
<1>2. CASE HideAll(p)
  <2>1. /\ pc[p] = "hide" /\ pc'[p] = "unname"
        /\ UNCHANGED <<hash, request, current>>
        /\ deleted' = {a \in Assets : current[a] # NoRevision}
    BY <1>2 DEF HideAll, Advance, Goto, RegistryOK, state
  <2>2. Importing(p) BY <2>1 DEF Importing, Stage, Place
  <2>3. hash # request[p].snapshot BY <2>2 DEF ImportFaithful
  <2> QED BY <2>1, <2>3 DEF ExportFaithful, ImportFaithful
<1>3. CASE UnnameAll(p)
  <2>1. /\ pc[p] = "unname" /\ pc'[p] = "item"
        /\ UNCHANGED <<hash, request, current, deleted, todo>>
        /\ owner' = [x \in Aliases |-> NoAsset]
        /\ items'[p] = request[p].snapshot.assets
    BY <1>3 DEF UnnameAll, Goto, RegistryOK, state, rows
  <2>2. Importing(p) /\ todo[p] = {} BY <2>1 DEF Importing, Stage, Place
  <2>3. /\ hash # request[p].snapshot
        /\ \A a \in Assets : current[a] = NoRevision \/ a \in deleted
    BY <2>1, <2>2 DEF ImportFaithful
  <2>4. Copied(p)' = {} BY <2>1 DEF Copied
  <2>5. RowsCopied(p)' BY <2>1, <2>2, <2>3, <2>4 DEF RowsCopied
  <2>6. NamesCopied(p)' BY <2>1, <2>4 DEF NamesCopied
  <2> QED BY <2>1, <2>3, <2>5, <2>6 DEF ExportFaithful, ImportFaithful
<1> QED BY <1>1, <1>2, <1>3

(* It goes on to the next item, none of which is copied yet.               *)
LEMMA ImportNext ==
  ASSUME RegistryOK, NEW p \in Procs, Stage(p), ImportMedia(p),
         Importing(p), ImportFaithful(p)
  PROVE  ExportFaithful(p)' /\ ImportFaithful(p)'
<1>1. PICK i \in items[p] :
        /\ revision' = [revision EXCEPT ![p] = i.revision]
        /\ todo' = [todo EXCEPT ![p] = i.aliases]
        /\ items' = [items EXCEPT ![p] = @ \ {i}]
  BY DEF ImportMedia
<1>2. /\ pc[p] = "item" /\ pc'[p] = "record" /\ todo[p] = {}
      /\ UNCHANGED <<hash, request, current, deleted, number, owner>>
      /\ revision'[p] = i.revision /\ todo'[p] = i.aliases /\ items'[p] = items[p] \ {i}
  BY <1>1 DEF ImportMedia, Goto, RegistryOK, state, names
<1>3. hash # request[p].snapshot /\ RowsCopied(p) /\ NamesCopied(p)
  BY <1>2 DEF ImportFaithful
<1>4. i \in request[p].snapshot.assets /\ i \notin Copied(p)
  BY <1>2 DEF Stage, Planned, Importing, Copied
<1>5. Copied(p)' = Copied(p) \cup {i} BY <1>2, <1>4 DEF Copied
<1>6. \A j \in Copied(p) : assetOf[j.revision] # assetOf[i.revision]
  BY <1>4, ItemsDiffer DEF Copied
<1>7. RowsCopied(p)' BY <1>2, <1>3, <1>5 DEF RowsCopied, Stored
<1>8. ASSUME NEW j \in Copied(p)', NEW x \in Aliases
      PROVE  owner[x] = assetOf[j.revision] <=>
               x \in j.aliases /\ ~(j.revision = i.revision /\ x \in i.aliases)
  <2>1. CASE j = i
    <3>1. assetOf[i.revision] # NoAsset BY <1>4, ItemsDiffer
    <3>2. owner[x] # assetOf[i.revision] BY <1>3, <1>6, <3>1 DEF NamesCopied
    <3> QED BY <2>1, <3>2
  <2>2. CASE j # i
    <3>1. j \in Copied(p) /\ j.revision # i.revision BY <1>5, <1>6, <2>2
    <3> QED BY <1>2, <1>3, <3>1 DEF NamesCopied
  <2> QED BY <2>1, <2>2
<1>9. NamesCopied(p)'
  BY <1>2, <1>3, <1>5, <1>8 DEF NamesCopied
<1> QED BY <1>2, <1>3, <1>7, <1>9 DEF ExportFaithful, ImportFaithful

(* It writes the item's record and its revision.                           *)
LEMMA ImportRows ==
  ASSUME RegistryOK, NEW p \in Procs, Stage(p), Importing(p), ImportFaithful(p),
         WriteRecord(p) \/ (ImportRevision(p) /\ ~Leave(p, "revision"))
  PROVE  ExportFaithful(p)' /\ ImportFaithful(p)'
<1>1. /\ UNCHANGED <<hash, request, revision, todo, items, owner>>
      /\ pc[p] \in {"record", "revision"}
  BY DEF WriteRecord, ImportRevision, Advance, Goto, state, names
<1>2. hash # request[p].snapshot /\ RowsCopied(p) /\ NamesCopied(p)
  BY <1>1 DEF ImportFaithful
<1>3. Copied(p)' = Copied(p) BY <1>1 DEF Copied
<1>4. NamesCopied(p)' BY <1>1, <1>2, <1>3 DEF NamesCopied
<1>5. PICK h \in Copied(p) : h.revision = revision[p] /\ todo[p] = h.aliases
  BY <1>1, <1>2 DEF RowsCopied
<1>6. Target(p) = assetOf[revision[p]] /\ revision[p] \in Revisions
      /\ assetOf[revision[p]] \in Assets
  BY <1>1, PayloadsAreTyped DEF Target, Importing, Stage, Place
<1>7. \A j \in Copied(p) : /\ j.revision # revision[p] => assetOf[j.revision] # assetOf[revision[p]]
                           /\ j.revision \in Revisions /\ assetOf[j.revision] \in Assets
  BY <1>5, ItemsDiffer DEF Copied
<1>8. CASE WriteRecord(p)
  <2>1. /\ pc[p] = "record" /\ pc'[p] = "revision" /\ UNCHANGED number
        /\ current' = [current EXCEPT ![assetOf[revision[p]]] = revision[p]]
        /\ deleted' = deleted \ {assetOf[revision[p]]}
    BY <1>6, <1>8 DEF WriteRecord, Advance, Goto, RegistryOK
  <2>2. /\ current'[assetOf[revision[p]]] = revision[p]
        /\ \A a \in Assets : a # assetOf[revision[p]] =>
             current'[a] = current[a] /\ (a \in deleted' <=> a \in deleted)
    BY <1>6, <2>1 DEF RegistryOK
  <2>3. \A a \in Assets : current'[a] # NoRevision /\ a \notin deleted' =>
          \E i \in Copied(p) : assetOf[i.revision] = a
    BY <1>2, <1>5, <2>2 DEF RowsCopied
  <2>4. \A i \in Copied(p) :
          \/ i.revision = revision[p]
          \/ /\ current'[assetOf[i.revision]] = i.revision
             /\ assetOf[i.revision] \notin deleted'
             /\ Stored(i.revision)'
    BY <1>2, <1>7, <2>1, <2>2 DEF RowsCopied, Stored
  <2>5. RowsCopied(p)' BY <1>1, <1>3, <1>5, <2>1, <2>2, <2>3, <2>4 DEF RowsCopied
  <2> QED BY <1>1, <1>2, <1>4, <2>1, <2>5 DEF ExportFaithful, ImportFaithful
<1>9. CASE ImportRevision(p) /\ ~Leave(p, "revision")
  <2>1. /\ pc[p] = "revision" /\ pc'[p] = "item"
        /\ UNCHANGED <<current, deleted>>
        /\ number[revision[p]] # 0 \/ NumberStored(p)
        /\ number' = number \/ NumberStored(p)
    BY <1>9 DEF ImportRevision, Advance, Goto, RegistryOK
  <2>2. count[p] > 0 /\ count[p] \in Nat BY <2>1 DEF Stage, Numbered, RegistryOK
  <2>3. Stored(revision[p])'
    BY <1>1, <1>6, <2>1, <2>2 DEF NumberStored, Stored, RegistryOK
  <2>4. \A r \in Revisions : Stored(r) => Stored(r)'
    BY <1>6, <2>1, <2>2 DEF NumberStored, Stored, RegistryOK
  <2>5. \A i \in Copied(p) : /\ current[assetOf[i.revision]] = i.revision
                             /\ assetOf[i.revision] \notin deleted
                             /\ Stored(i.revision)'
    BY <1>1, <1>2, <1>7, <2>1, <2>3, <2>4 DEF RowsCopied, Stored
  <2>6. RowsCopied(p)' BY <1>1, <1>2, <1>3, <1>5, <2>1, <2>5 DEF RowsCopied
  <2> QED BY <1>1, <1>2, <1>4, <2>1, <2>6 DEF ExportFaithful, ImportFaithful
<1> QED BY <1>8, <1>9

(* It writes the item's aliases, one at a time.                            *)
LEMMA ImportNames ==
  ASSUME RegistryOK, NEW p \in Procs, Stage(p), Importing(p), ImportFaithful(p),
         ImportAlias(p), pc'[p] # "idle"
  PROVE  ExportFaithful(p)' /\ ImportFaithful(p)'
<1>1. PICK x \in todo[p] : /\ owner[x] = NoAsset
                           /\ owner' = [owner EXCEPT ![x] = Target(p)]
                           /\ todo' = [todo EXCEPT ![p] = @ \ {x}]
                           /\ UNCHANGED <<pc, request, revision, items, count>>
  BY DEF ImportAlias, Leave, Goto, RegistryOK
<1>2. /\ pc[p] = "item" /\ UNCHANGED <<current, deleted, number, hash>>
      /\ todo'[p] = todo[p] \ {x} /\ x \in Aliases
      /\ owner'[x] = assetOf[revision[p]]
      /\ \A y \in Aliases : y # x => owner'[y] = owner[y]
  BY <1>1 DEF ImportAlias, RegistryOK, rows, state, Target, Importing
<1>3. hash # request[p].snapshot /\ RowsCopied(p) /\ NamesCopied(p)
  BY <1>2 DEF ImportFaithful
<1>4. Copied(p)' = Copied(p) BY <1>1 DEF Copied
<1>5. PICK h \in Copied(p) : h.revision = revision[p] /\ todo[p] \subseteq h.aliases
  BY <1>1, <1>2, <1>3 DEF RowsCopied
<1>6. \A j \in Copied(p) : /\ j.revision = revision[p] => j = h
                           /\ j # h => assetOf[j.revision] # assetOf[revision[p]]
                           /\ assetOf[j.revision] # NoAsset
  BY <1>5, ItemsDiffer DEF Copied
<1>7. RowsCopied(p)' BY <1>1, <1>2, <1>3, <1>4, <1>5 DEF RowsCopied, Stored
<1>8. ASSUME NEW j \in Copied(p), NEW y \in Aliases
      PROVE  owner'[y] = assetOf[j.revision] <=>
               y \in j.aliases /\ ~(j.revision = revision[p] /\ y \in todo'[p])
  <2>0. owner[y] = assetOf[j.revision] <=>
          y \in j.aliases /\ ~(j.revision = revision[p] /\ y \in todo[p])
    BY <1>3 DEF NamesCopied
  <2>1. CASE y # x BY <1>2, <2>0, <2>1
  <2>2. CASE y = x /\ j = h BY <1>1, <1>2, <1>5, <2>2
  <2>3. CASE y = x /\ j # h BY <1>1, <1>2, <1>6, <2>0, <2>3
  <2> QED BY <2>1, <2>2, <2>3
<1>9. \A y \in Aliases : owner'[y] # NoAsset =>
        \E i \in Copied(p) : assetOf[i.revision] = owner'[y]
  BY <1>2, <1>3, <1>5 DEF NamesCopied
<1>10. NamesCopied(p)' BY <1>1, <1>4, <1>8, <1>9 DEF NamesCopied
<1> QED BY <1>1, <1>2, <1>3, <1>7, <1>10 DEF ExportFaithful, ImportFaithful

(* The request that takes the step stays faithful, unless it was overtaken.*)
LEMMA OwnFaithful ==
  ASSUME RegistryOK, NEW p \in Procs, Stage(p), Step(p), Noted(p), Faithful(p)
  PROVE  Faithful(p)'
<1> SUFFICES ASSUME p \notin overtaken', Exporting(p)' \/ Importing(p)'
             PROVE  ExportFaithful(p)' /\ ImportFaithful(p)'
  BY DEF Faithful, ExportFaithful, ImportFaithful, Exporting
<1>1. p \notin overtaken BY DEF Noted, Recorded
<1>2. ExportFaithful(p) /\ ImportFaithful(p) BY <1>1 DEF Faithful
<1>3. pc'[p] \in {"rows", "hash", "hide", "unname", "item", "record", "revision"}
  BY DEF Exporting, Importing
<1>4. \/ ReadRelease(p) \/ ReadRows(p)
      \/ Compare(p) /\ ~Leave(p, "import")
      \/ HideAll(p) \/ UnnameAll(p)
      \/ Importing(p) /\ \/ ImportMedia(p) \/ WriteRecord(p)
                         \/ ImportRevision(p) /\ ~Leave(p, "revision")
                         \/ ImportAlias(p)
  <2>1. ASSUME NEW f, Leave(p, f) PROVE FALSE
    BY <1>3, <2>1 DEF Leave, Goto, RegistryOK
  <2>2. CASE \/ CheckAlias(p) \/ ReadCurrent(p) \/ ReadMaximum(p) \/ InsertRevision(p)
             \/ Link(p) \/ Bump(p) \/ Find(p) \/ Mark(p) \/ Unlink(p)
             \/ WriteHash(p) \/ WriteState(p) \/ Stop(p)
             \/ \E q \in Requests : Begin(p, q)
    <3>1. CASE CheckAlias(p) BY <1>3, <2>1, <3>1 DEF CheckAlias
    <3>2. CASE ReadCurrent(p) BY <1>3, <2>1, <3>2 DEF ReadCurrent, Advance, Goto, RegistryOK
    <3>3. CASE ReadMaximum(p) BY <1>3, <3>3 DEF ReadMaximum, Goto, RegistryOK
    <3>4. CASE InsertRevision(p) BY <1>3, <2>1, <3>4 DEF InsertRevision, Goto, RegistryOK
    <3>5. CASE Link(p) BY <1>3, <3>5 DEF Link
    <3>6. CASE Bump(p) BY <2>1, <3>6 DEF Bump
    <3>7. CASE Find(p) BY <1>3, <2>1, <3>7 DEF Find, Goto, RegistryOK
    <3>8. CASE Mark(p) BY <1>3, <3>8 DEF Mark, Advance, Goto, RegistryOK
    <3>9. CASE Unlink(p) BY <1>3, <3>9 DEF Unlink, Goto, RegistryOK
    <3>10. CASE WriteHash(p) \/ WriteState(p) BY <2>1, <3>10 DEF WriteHash, WriteState
    <3>11. CASE Stop(p) BY <2>1, <3>11 DEF Stop
    <3>12. ASSUME NEW q \in Requests, Begin(p, q) PROVE FALSE
      <4>1. q.op \in AssetOps \cup {"register", "export", "import"} BY Carries
      <4>2. pc'[p] \in {"check", "export", "import", "find"}
        BY <3>12, <4>1 DEF Begin, Goto, RegistryOK, AssetOps
      <4> QED BY <1>3, <4>2
    <3> QED BY <2>2, <3>1, <3>2, <3>3, <3>4, <3>5, <3>6, <3>7, <3>8, <3>9, <3>10, <3>11, <3>12
  <2>3. CASE WriteMedia(p) \/ WriteRecord(p)
    <3>1. UNCHANGED request /\ pc[p] \in {"media", "record"} /\ pc'[p] \in {"record", "revision"}
      BY <2>3 DEF WriteMedia, WriteRecord, Advance, Goto, RegistryOK
    <3>2. Op(p) = "import" BY <3>1 DEF Exporting, Importing, Op
    <3>3. pc[p] = "record" /\ Importing(p)
      BY <3>1, <3>2 DEF Importing, Stage, Place
    <3> QED BY <2>3, <3>3 DEF WriteMedia, Advance, Goto
  <2>4. CASE \/ ReadRelease(p) \/ ReadRows(p) \/ Compare(p) \/ HideAll(p) \/ UnnameAll(p)
             \/ ImportMedia(p) \/ ImportRevision(p) \/ ImportAlias(p)
    <3>1. ImportMedia(p) \/ ImportRevision(p) \/ ImportAlias(p) => Importing(p)
      BY DEF ImportMedia, ImportRevision, ImportAlias, Goto, Importing, Stage, Place
    <3> QED BY <2>1, <2>4, <3>1
  <2> QED BY <2>2, <2>3, <2>4 DEF Step, Serves, WritesHash
<1>5. pc'[p] # "idle" BY <1>3
<1> QED BY <1>2, <1>4, <1>5, ExportReads, ImportClears, ImportNext, ImportRows, ImportNames

-----------------------------------------------------------------------------
(* The hash.                                                               *)

(* What an import that was not overtaken has written when it is done.      *)
LEMMA ImportedIsShown ==
  ASSUME RegistryOK, Filed, NEW p \in Procs, Stage(p), ImportFaithful(p), WriteState(p)
  PROVE  Accurate'
<1>1. /\ pc[p] = "item" /\ todo[p] = {} /\ items[p] = {}
      /\ UNCHANGED <<current, deleted, number, media, owner>>
      /\ hash' = request[p].snapshot /\ release' = request[p].snapshot.release
  BY DEF WriteState, Leave, Goto, rows, names
<1>2. Importing(p) BY <1>1 DEF Importing, Stage, Place
<1>3. RowsCopied(p) /\ NamesCopied(p) BY <1>1, <1>2 DEF ImportFaithful
<1> DEFINE S == request[p].snapshot.assets
<1>4. Copied(p) = S BY <1>1 DEF Copied
<1>5. \A i \in S : i.revision \in Revisions /\ i.aliases \subseteq Aliases
                   /\ assetOf[i.revision] \in Assets
  BY <1>2, ItemsDiffer
<1>6. ASSUME NEW i \in S
      PROVE  /\ Visible(assetOf[i.revision])
             /\ Brief(ItemOf(assetOf[i.revision])) = Brief(i)
  <2>1. current[assetOf[i.revision]] = i.revision /\ assetOf[i.revision] \notin deleted
        /\ Stored(i.revision)
    BY <1>1, <1>3, <1>4 DEF RowsCopied
  <2>2. assetOf[i.revision] \in Assets /\ i.revision # NoRevision
    BY <1>5, PayloadsAreTyped
  <2>3. Visible(assetOf[i.revision]) BY <2>1, <2>2 DEF Visible, Filed, Stored
  <2>4. {x \in Aliases : owner[x] = assetOf[i.revision]} = i.aliases
    BY <1>1, <1>3, <1>4, <1>5 DEF NamesCopied
  <2> QED BY <2>1, <2>3, <2>4 DEF Brief, ItemOf
<1>7. \A a \in Assets : Visible(a) => \E i \in S : assetOf[i.revision] = a
  BY <1>3, <1>4 DEF RowsCopied, Visible
<1>8. Shown = {Brief(i) : i \in S}
  <2>1. ASSUME NEW b \in Shown PROVE b \in {Brief(i) : i \in S}
    <3>1. PICK a \in Assets : Visible(a) /\ b = Brief(ItemOf(a)) BY <2>1 DEF Shown
    <3> QED BY <1>6, <1>7, <3>1
  <2>2. ASSUME NEW i \in S PROVE Brief(i) \in Shown
    BY <1>5, <1>6 DEF Shown
  <2> QED BY <2>1, <2>2
<1>9. Shown' = Shown BY <1>1 DEF Shown, Brief, ItemOf, Visible
<1> QED BY <1>1, <1>8, <1>9 DEF Accurate

(* What an export that was not overtaken writes.                           *)
LEMMA ExportedIsShown ==
  ASSUME RegistryOK, NEW p \in Procs, ExportFaithful(p), WriteHash(p), hash' # NoSnapshot
  PROVE  Accurate'
<1>1. /\ pc[p] = "hash" /\ UNCHANGED <<current, deleted, number, media, owner, release>>
      /\ hash' = [release |-> count[p], assets |-> items[p]]
  BY DEF WriteHash, Leave, Goto, rows, names
<1>2. /\ count[p] = release
      /\ items[p] = {ItemOf(a) : a \in {b \in Assets : Visible(b)}}
  BY <1>1 DEF ExportFaithful
<1>3. Shown = {Brief(i) : i \in items[p]} BY <1>2 DEF Shown
<1>4. Shown' = Shown BY <1>1 DEF Shown, Brief, ItemOf, Visible
<1> QED BY <1>1, <1>2, <1>3, <1>4 DEF Accurate

(* A request that ends leaves the hash, or takes it away.                  *)
LEMMA ToldKept ==
  ASSUME RegistryOK, Filed, NEW p \in Procs, Stage(p), Faithful(p), Told,
         Step(p), Noted(p)
  PROVE  Told'
<1> SUFFICES ASSUME hash' # NoSnapshot, dirty' = {}, ~stale' PROVE Accurate'
  BY DEF Told
<1>1. CASE WritesHash(p) /\ Recorded(p, p \in overtaken, {})
  <2>1. p \notin overtaken BY <1>1 DEF Recorded
  <2> QED BY <1>1, <2>1, ExportedIsShown, ImportedIsShown DEF WritesHash, Faithful
<1>2. CASE /\ Serves(p)
           /\ Recorded(p, stale \/ (p \in dirty /\ pc'[p] = "idle"),
                       IF contents' = contents THEN dirty ELSE dirty \cup {p})
  <2>1. ~stale /\ contents' = contents /\ dirty = {} BY <1>2 DEF Recorded
  <2>2. UNCHANGED <<hash, release>> \/ hash' = NoSnapshot
    BY <1>2 DEF Serves, state, Begin, CheckAlias, ReadCurrent, Bump,
     ReadMaximum, WriteMedia, WriteRecord, InsertRevision, Link, Find, Mark,
     Unlink, ReadRelease, ReadRows, Compare, HideAll, UnnameAll, ImportMedia,
     ImportRevision, ImportAlias, Stop
  <2>3. Accurate BY <2>1, <2>2 DEF Told
  <2>4. media \subseteq media' BY MediaGrows
  <2>5. UNCHANGED <<current, deleted, number, owner>> BY <2>1 DEF contents
  <2>6. \A a \in Assets : Visible(a)' = Visible(a) BY <2>4, <2>5 DEF Visible, Filed
  <2>7. \A a \in Assets : ItemOf(a)' = ItemOf(a) BY <2>5 DEF ItemOf
  <2>8. Shown' = Shown BY <2>6, <2>7 DEF Shown, Brief
  <2> QED BY <2>2, <2>3, <2>8 DEF Accurate
<1> QED BY <1>1, <1>2 DEF Noted

-----------------------------------------------------------------------------
(* Every step keeps the invariant.                                         *)
LEMMA NextIsStep ==
  ASSUME Next
  PROVE  \E p \in Procs : Step(p) /\ Noted(p)
  BY DEF Next, Step, Noted

LEMMA Kept == IInv /\ [Next]_vars => IInv'
<1> SUFFICES ASSUME IInv, [Next]_vars PROVE IInv' OBVIOUS
<1>1. CASE UNCHANGED vars
  <2>1. TypeOK' /\ Filed' /\ \A p \in Procs : Stage(p)'
    BY <1>1 DEF vars, rows, names, state, locals, history, IInv, TypeOK, RegistryOK, Filed,
       Stage, Place, Numbered, Planned, Op, Predecessor, Siblings
  <2>2. \A p \in Procs : Faithful(p)'
    BY <1>1 DEF vars, rows, names, state, locals, history, IInv, Faithful, ExportFaithful,
       ImportFaithful, Importing, Op, RowsCopied, NamesCopied, Copied, Stored, ItemOf, Visible
  <2>3. Told'
    BY <1>1 DEF vars, rows, names, state, locals, history, IInv, Told, Accurate, Shown,
       Brief, ItemOf, Visible
  <2> QED BY <2>1, <2>2, <2>3 DEF IInv
<1>2. ASSUME NEW p \in Procs, Step(p), Noted(p) PROVE IInv'
  <2>1. Stage(p) /\ Place(p) /\ Numbered(p) /\ Planned(p) /\ RegistryOK /\ Filed /\ Faithful(p)
    BY DEF IInv, Stage, TypeOK
  <2>2. RegistryOK' BY <1>2, <2>1, RegisterTyped, OthersTyped DEF Step, Serves, WritesHash
  <2>3. TypeOK' BY <1>2, <2>2 DEF TypeOK, IInv, Noted, Recorded
  <2>4. Stage(p)'
    BY <1>2, <2>1, RegisterStage, AssetStage, RecordStage, ImportStage, ArrivalStage
       DEF Step, Serves, WritesHash
  <2>5. \A q \in Procs : q # p => Stage(q)' /\ Faithful(q)'
    BY <1>2, <2>1, OthersStage, OthersFaithful DEF IInv
  <2>6. Filed' /\ Faithful(p)' /\ Told'
    BY <1>2, <2>1, FiledKept, OwnFaithful, ToldKept DEF IInv
  <2> QED BY <2>3, <2>4, <2>5, <2>6 DEF IInv
<1> QED BY <1>1, <1>2, NextIsStep

(* The invariant holds in every reachable state.                           *)
THEOREM Invariance == Spec => []IInv
  BY Initially, Kept, PTL DEF Spec

(* Every variable of the registry keeps its type.                          *)
THEOREM TypeCorrect == Spec => []TypeOK
<1>1. IInv => TypeOK BY DEF IInv
<1> QED BY <1>1, Invariance, PTL

(* The hash that importAssetSnapshot compares with is that of what is      *)
(* visible, and no import is taken for done before it is, but for requests *)
(* that ended half-way and for reads and writes another request's write    *)
(* came in between.                                                        *)
THEOREM HashIsTrue == Spec => []HashTellsTheAssets
<1>1. IInv => HashTellsTheAssets
  BY DEF IInv, Told, Accurate, HashTellsTheAssets, Faithful, ImportFaithful
<1> QED BY <1>1, Invariance, PTL

(* The read of the maximum and the insert that uses it, with the UNIQUE    *)
(* constraint between them, store revisions as module AssetHistory says:   *)
(* once, for ever, under distinct numbers without gaps.                    *)
THEOREM HistoryKept == Spec => KeepsHistory
<1>1. Init => History!Init BY DEF Init, History!Init
<1>2. IInv /\ [Next]_vars => [History!Next]_number
  <2> SUFFICES ASSUME IInv, [Next]_vars, number' # number PROVE History!Next OBVIOUS
  <2>1. PICK p \in Procs : Step(p)
    BY NextIsStep DEF vars, rows
  <2>2. RegistryOK /\ Place(p) /\ Numbered(p) BY DEF IInv, Stage, TypeOK
  <2>3. /\ pc[p] = "revision" /\ number[revision[p]] = 0
        /\ NumberFree(p) /\ NumberStored(p)
    BY <2>1, <2>2, NumbersKept
  <2>4. revision[p] \in Revisions /\ Op(p) \in {"register", "import"} BY <2>2, <2>3 DEF Place
  <2>5. /\ count[p] \in Nat \ {0}
        /\ number'[revision[p]] = count[p]
        /\ number' = [number EXCEPT ![revision[p]] = count[p]]
    BY <2>2, <2>3, <2>4 DEF Numbered, NumberStored, RegistryOK
  <2>6. revision[p] \in Adopted \/ Predecessor(p) BY <2>2, <2>3, <2>4 DEF Numbered
  <2>7. History!Store(revision[p])
    BY <2>3, <2>4, <2>5, <2>6
       DEF History!Store, History!Siblings, Siblings, NumberFree, Predecessor
  <2> QED BY <2>4, <2>7 DEF History!Next
<1> QED BY <1>1, <1>2, Invariance, PTL DEF Spec, KeepsHistory, History!Spec
=============================================================================
