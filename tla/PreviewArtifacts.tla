-------------------------- MODULE PreviewArtifacts --------------------------
(***************************************************************************)
(* Preview artifacts (scripts/preview-artifacts.mjs): one commit's worker  *)
(* bundle, base workspace database and seed assets are built twice, signed *)
(* and written to a fresh directory; whoever holds the trusted keys later  *)
(* verifies what arrives.                                                  *)
(*                                                                         *)
(* SHA-256 is without collisions: the digest of bytes is the bytes.  Only  *)
(* the holder of a key signs with it.  Sizes, the runtime tuple and the    *)
(* template's own key are the same for every build and are left out.       *)
(***************************************************************************)
EXTENDS Naturals, FiniteSets

CONSTANTS
  Producers,    \* runs of produce-preview-artifacts.mjs
  Directories,  \* output directories their requests name
  Jobs,         \* the commits and signing keys of those requests
  TrustedKeys,  \* the trust roots of the verifier
  Trees,        \* what astro build may leave in dist, as sets of files
  LeftOut,      \* source maps, and files of server that are no module
  Forbidden,    \* hidden files, wrangler configuration, key material, host paths
  Required,     \* server/entry.mjs and the native static assets
  Entries,      \* localized entries of the base workspace
  SourceOf,     \* the entry each of them translates, or itself
  Ids,          \* values createId may draw
  Times,        \* values of the clock
  Epoch,        \* 2000-01-01T00:00:00.000Z
  Assets,       \* the files of astropages/assets.manifest.json
  AssetBytes,   \* what each of them holds
  Garbage,      \* bytes damaged on the way
  Absent        \* no index, nothing yet

ASSUME ArtifactInputs ==
  /\ \A j \in Jobs : DOMAIN j = {"commit", "key"}
  /\ SourceOf \in [Entries -> Entries]
  /\ Assets # {} /\ IsFiniteSet(Assets)
  /\ {"worker", "base", "manifest"} \cap Assets = {}
  /\ Epoch \notin Times

VARIABLES
  producer,   \* where each run is, its job and what it holds in memory
  candidate,  \* each directory: made or not, its files, its candidate.json
  accepted    \* what the verifier took, as descriptors with their bytes

artifactVars == <<producer, candidate, accepted>>

-----------------------------------------------------------------------------
(* The base workspace                                                      *)

(* A fresh bootstrap: an entry and its live revision have new identities,  *)
(* a translation shares the group of its source.                           *)
Bootstrapped(entryId, revisionId, now) ==
  [id     |-> entryId,
   group  |-> [e \in Entries |-> entryId[SourceOf[e]]],
   live   |-> revisionId,
   owner  |-> [e \in Entries |-> entryId[e]],     \* revisions.entry_id
   stamp  |-> [e \in Entries |-> now],
   author |-> [e \in Entries |-> "astropages-bootstrap"],
   digest |-> Absent]                             \* of the authored state

NewId(db, old) ==
  IF \E e \in Entries : db.id[e] = old
  THEN <<"entry", CHOOSE e \in Entries : db.id[e] = old>>
  ELSE IF \E e \in Entries : db.live[e] = old
  THEN <<"revision", CHOOSE e \in Entries : db.live[e] = old>>
  ELSE old

(* Identities come from semantic keys, generated times are the epoch, and  *)
(* the bootstrap is no author.                                             *)
Canonical(db) ==
  [db EXCEPT !.id     = [e \in Entries |-> NewId(db, db.id[e])],
             !.group  = [e \in Entries |-> NewId(db, db.group[e])],
             !.live   = [e \in Entries |-> NewId(db, db.live[e])],
             !.owner  = [e \in Entries |-> NewId(db, db.owner[e])],
             !.stamp  = [e \in Entries |-> Epoch],
             !.author = [e \in Entries |-> Absent]]

(* The export that verifyBaseWorkspace makes writes the digest of what it  *)
(* saw into the state row.                                                 *)
Observed(db) == [db EXCEPT !.digest = [db EXCEPT !.digest = Absent]]

Passes(db) == \A e \in Entries : db.author[e] = Absent

(* Mutant: canonical only when it is written, after the digest was taken.  *)
BuiltOnce(entryId, revisionId, now) ==
  Canonical(Observed(Bootstrapped(entryId, revisionId, now)))

BaseWorkspace(entryId, revisionId, now) ==
  Canonical(Observed(Canonical(Bootstrapped(entryId, revisionId, now))))

Distinct(entryId, revisionId) ==
  /\ \A d, e \in Entries :
       entryId[d] = entryId[e] \/ revisionId[d] = revisionId[e] => d = e
  /\ \A d, e \in Entries : entryId[d] # revisionId[e]

Draws == {d \in [entry : [Entries -> Ids], revision : [Entries -> Ids]] :
            Distinct(d.entry, d.revision)}

-----------------------------------------------------------------------------
(* The worker bundle and the seed assets                                   *)

Collected(tree) == tree \ LeftOut
Collectable(tree) ==
  Collected(tree) \cap Forbidden = {} /\ Required \subseteq tree

(* Gzip of the files sorted by path: one value for one set of files.       *)
Bundle(files) == [files |-> files]

(* One asset for each content                                              *)
DistinctAssets ==
  {a \in Assets : a = CHOOSE b \in Assets : AssetBytes[b] = AssetBytes[a]}

SeedObject(a) == [asset |-> AssetBytes[a]]

-----------------------------------------------------------------------------
(* Signing and verifying.  A list of objects is a function of their names. *)

Kind(name) == IF name \in {"worker", "base", "manifest"} THEN name ELSE "seed"

Object(job, kind, bytes) ==
  LET d == [kind |-> kind, commit |-> job.commit, digest |-> bytes]
  IN [descriptor |-> d, keyId |-> job.key, signed |-> d, bytes |-> bytes]

Payloads(job, worker, base) ==
  [n \in {"worker", "base"} \cup DistinctAssets |->
     Object(job, Kind(n), CASE n = "worker" -> worker
                            [] n = "base" -> base
                            [] OTHER -> SeedObject(n))]

(* signArtifactSet: the manifest names every other descriptor              *)
SignedSet(job, worker, base) ==
  LET objects == Payloads(job, worker, base)
      manifest == [commit |-> job.commit,
                   artifacts |-> [n \in DOMAIN objects |-> objects[n].descriptor]]
  IN [n \in DOMAIN objects \cup {"manifest"} |->
        IF n = "manifest" THEN Object(job, "manifest", manifest) ELSE objects[n]]

OfKind(list, kind) == {n \in DOMAIN list : list[n].descriptor.kind = kind}
PayloadsOf(list) == DOMAIN list \ OfKind(list, "manifest")

Genuine(object) ==
  /\ object.descriptor.digest = object.bytes
  /\ object.keyId \in TrustedKeys
  /\ object.signed = object.descriptor

NoneTwice(list) ==
  \A m, n \in DOMAIN list :
    /\ list[m].descriptor.kind = list[n].descriptor.kind
    /\ list[m].descriptor.digest = list[n].descriptor.digest
    => m = n

One(S) == \E x \in S : S = {x}
ManifestOf(list) == list[CHOOSE n \in OfKind(list, "manifest") : TRUE].bytes

(* Mutant: a payload must be named, but not every named one must be there. *)
NamesAtLeast(manifest, list) ==
  \A n \in PayloadsOf(list) :
    One({a \in DOMAIN manifest.artifacts :
           manifest.artifacts[a] = list[n].descriptor})

NamesExactly(manifest, list) ==
  /\ Cardinality(DOMAIN manifest.artifacts) = Cardinality(PayloadsOf(list))
  /\ \A n \in PayloadsOf(list) :
       One({a \in DOMAIN manifest.artifacts :
              manifest.artifacts[a] = list[n].descriptor})

(* verifyArtifactSet                                                       *)
Verifies(list) ==
  /\ \A kind \in {"worker", "base", "manifest"} : One(OfKind(list, kind))
  /\ OfKind(list, "seed") # {}
  /\ \A n \in DOMAIN list : Genuine(list[n])
  /\ NoneTwice(list)
  /\ NamesExactly(ManifestOf(list), list)
  /\ \A n \in DOMAIN list : list[n].descriptor.commit = ManifestOf(list).commit

-----------------------------------------------------------------------------
(* A run of the producer                                                   *)

Starting == [pc |-> "collect", job |-> Absent, at |-> Absent, worker |-> Absent,
             base |-> Absent, objects |-> Absent, written |-> {}]
NoCandidate == [made |-> FALSE, files |-> {}, index |-> Absent]

ArtifactInit ==
  /\ producer = [p \in Producers |-> Starting]
  /\ candidate = [d \in Directories |-> NoCandidate]
  /\ accepted = {}

ArtifactTypeOK ==
  /\ \A p \in Producers :
       /\ producer[p].pc \in {"collect", "build", "rebuild", "sign", "directory",
                              "write", "done", "stopped", "differs"}
       /\ producer[p].job \in Jobs \cup {Absent}
       /\ producer[p].at \in Directories \cup {Absent}
  /\ \A d \in Directories : candidate[d].made \in BOOLEAN

Stage(p, pc) == producer[p].pc = pc

(* Two worker builds of two trees, byte for byte the same                  *)
CollectWorkers(p) ==
  /\ Stage(p, "collect")
  /\ \E job \in Jobs, d \in Directories, first, second \in Trees :
       /\ Collectable(first) /\ Collectable(second)
       /\ Collected(first) = Collected(second)
       /\ producer' = [producer EXCEPT ![p] =
            [Starting EXCEPT !.pc = "build", !.job = job, !.at = d,
                             !.worker = Bundle(Collected(first))]]
  /\ UNCHANGED <<candidate, accepted>>

BuildBase(p) ==
  /\ Stage(p, "build")
  /\ \E drawn \in Draws, now \in Times :
       LET db == BaseWorkspace(drawn.entry, drawn.revision, now)
       IN /\ Passes(db)
          /\ producer' = [producer EXCEPT ![p].pc = "rebuild", ![p].base = db]
  /\ UNCHANGED <<candidate, accepted>>

RebuildBase(p) ==
  /\ Stage(p, "rebuild")
  /\ \E drawn \in Draws, now \in Times :
       LET db == BaseWorkspace(drawn.entry, drawn.revision, now)
       IN producer' = [producer EXCEPT ![p].pc =
                         IF db = producer[p].base THEN "sign" ELSE "differs"]
  /\ UNCHANGED <<candidate, accepted>>

Sign(p) ==
  /\ Stage(p, "sign")
  /\ producer' = [producer EXCEPT ![p].pc = "directory", ![p].objects =
       SignedSet(producer[p].job, producer[p].worker, producer[p].base)]
  /\ UNCHANGED <<candidate, accepted>>

(* mkdirSync without recursive: an existing directory is an error.         *)
MakeDirectory(p) ==
  /\ Stage(p, "directory")
  /\ ~candidate[producer[p].at].made
  /\ candidate' = [candidate EXCEPT ![producer[p].at].made = TRUE]
  /\ producer' = [producer EXCEPT ![p].pc = "write"]
  /\ UNCHANGED accepted

BytesOf(p, n) == producer[p].objects[n].bytes
FilesAt(p) == candidate[producer[p].at].files

(* signArtifactSet sorts by kind and digest, the manifest comes last.      *)
Rank == [seed |-> 1, worker |-> 2, base |-> 3, manifest |-> 4]
NextToWrite(p) ==
  LET left == DOMAIN producer[p].objects \ producer[p].written
  IN {n \in left : \A m \in left : Rank[Kind(n)] <= Rank[Kind(m)]}

(* The flag wx refuses a file that exists: two objects with the same bytes *)
(* end the run.                                                            *)
WriteObject(p) ==
  /\ Stage(p, "write")
  /\ \E n \in NextToWrite(p) :
       /\ BytesOf(p, n) \notin FilesAt(p)
       /\ candidate' = [candidate EXCEPT ![producer[p].at].files =
                          @ \cup {BytesOf(p, n)}]
       /\ producer' = [producer EXCEPT ![p].written = @ \cup {n}]
  /\ UNCHANGED accepted

(* candidate.json holds the objects without their bytes, which objectKey   *)
(* names; here they stay with it.                                          *)
WriteIndex(p) ==
  /\ Stage(p, "write")
  /\ producer[p].written = DOMAIN producer[p].objects
  /\ candidate' = [candidate EXCEPT ![producer[p].at].index = producer[p].objects]
  /\ producer' = [producer EXCEPT ![p].pc = "done"]
  /\ UNCHANGED accepted

(* An error, or the end of the process; what is on disk stays.             *)
Abort(p) ==
  /\ ~Stage(p, "done") /\ ~Stage(p, "stopped")
  /\ producer' = [producer EXCEPT ![p] = [Starting EXCEPT !.pc = "stopped"]]
  /\ UNCHANGED <<candidate, accepted>>

-----------------------------------------------------------------------------
(* Whoever uses a candidate: any of the objects of any of the directories, *)
(* one of them perhaps damaged.                                            *)

Indexed == {d \in Directories : candidate[d].index # Absent}
OnOffer == UNION {{d} \X DOMAIN candidate[d].index : d \in Indexed}
Offered(o) == candidate[o[1]].index[o[2]]

Accept ==
  /\ \E taken \in SUBSET OnOffer : \E lost \in taken \cup {Absent} :
       LET list == [o \in taken |->
                      IF o = lost THEN [Offered(o) EXCEPT !.bytes = Garbage]
                      ELSE Offered(o)]
       IN /\ Verifies(list)
          /\ accepted' = {<<list[o].descriptor, list[o].bytes>> : o \in taken}
  /\ UNCHANGED <<producer, candidate>>

ArtifactNext ==
  \/ \E p \in Producers :
       \/ CollectWorkers(p) \/ BuildBase(p) \/ RebuildBase(p) \/ Sign(p)
       \/ MakeDirectory(p) \/ WriteObject(p) \/ WriteIndex(p) \/ Abort(p)
  \/ Accept

ArtifactSpec == ArtifactInit /\ [][ArtifactNext]_artifactVars

-----------------------------------------------------------------------------
(* Properties                                                              *)

(* A directory with a candidate.json is a whole candidate that verifies    *)
(* under its key, wherever the run that wrote it, or another one into the  *)
(* same directory, stopped; and no run finds its own rebuild different.    *)
CandidateVerifies ==
  /\ \A d \in Directories :
       LET index == candidate[d].index
       IN index # Absent =>
            /\ \A n \in DOMAIN index : index[n].bytes \in candidate[d].files
            /\ index["manifest"].keyId \in TrustedKeys => Verifies(index)
  /\ \A p \in Producers : ~Stage(p, "differs")

(* What verifies is all of one signing, never a part of one or a mixture   *)
(* of two, whichever objects of however many candidates arrive.            *)
AcceptedIsOneSigning ==
  accepted # {} =>
    \E d \in Indexed :
      accepted = {<<candidate[d].index[n].descriptor, candidate[d].index[n].bytes>> :
                    n \in DOMAIN candidate[d].index}
=============================================================================
