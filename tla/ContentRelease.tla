--------------------------- MODULE ContentRelease ---------------------------
(***************************************************************************)
(* The release log of edited content (generated-site/content-release.ts)   *)
(* and the middleware that writes it (content-release-middleware.ts): each *)
(* EmDash mutation is compared with the item as it was before and recorded *)
(* afterwards, in statements of their own.  Snapshots are exported from    *)
(* the content the log names, and imported past the middleware.            *)
(*                                                                         *)
(* An entry is a page in one locale, its value all its builder fields.  A  *)
(* hash is represented by what it is computed from: the content hash of a  *)
(* mutation by the value, both hashes of a snapshot by the snapshot, which *)
(* is a function from entries to values: those the import does not skip,   *)
(* which may be none.  EmDash is external.                                 *)
(***************************************************************************)
EXTENDS Naturals, FiniteSets

CONSTANTS
  Entries, Values,
  NoValue,      \* no content row, or no draft
  Initial,      \* the content before anything is recorded
  Snapshots,    \* the snapshots that are imported
  NoHash,
  Requests,     \* the requests that may arrive, each any number of times
  Procs,        \* requests served at the same time
  MaxNumber     \* bound: no writing request begins once the log has this number

Optional == Values \cup {NoValue}

Mutations == {"create", "change", "draft", "publish", "delete"}

Request ==
  [op : {"create", "change"}, entry : Entries, value : Values]
    \cup [op : {"draft", "publish"}, entry : Entries, value : Optional]
    \cup [op : {"delete"}, entry : Entries]
    \cup [op : {"import"}, snapshot : Snapshots]
    \cup [op : {"export"}]

ASSUME ContentIsTyped ==
  /\ NoValue \notin Values
  /\ Initial \in [Entries -> Optional]
  /\ \A s \in Snapshots : \E D \in SUBSET Entries : s \in [D -> Values]
  /\ NoHash \notin Snapshots
  /\ Requests \subseteq Request

Row == [number : Nat \ {0}, entry : Entries, hash : Optional \cup Snapshots]

Statements == Entries \X {"row", "log"}

VARIABLES
  live,       \* the columns of the entry's content row
  draft,      \* its draft revision
  trashed,    \* entries whose row has a deleted_at
  log,        \* ap_content_revision_log
  revision, published, imported,  \* ap_content_environment_state: number and hashes
  pc,         \* where each request is
  request,    \* what it asks for
  before,     \* the item a mutation found
  after,      \* the item it left
  number,     \* the revision number a request has picked
  read,       \* the entries that an import found, or an export will read
  todo,       \* statements an import has still to write
  due,        \* auxiliary: entries that an export must not miss
  lost        \* auxiliary: entries that were written by a request that stopped
              \* before it had recorded them

content == <<live, draft, trashed>>
state == <<revision, published, imported>>
locals == <<pc, request, before, after, number, read, todo, due>>
vars == <<content, log, state, locals, lost>>

Nothing == [op |-> "none"]

Pc == {"idle", "prepare", "before", "apply", "reread", "import", "ids", "number",
       "insert", "batch", "state", "export", "content"}

TypeOK ==
  /\ live \in [Entries -> Optional] /\ draft \in [Entries -> Optional]
  /\ trashed \subseteq Entries
  /\ log \subseteq Row
  /\ revision \in Nat
  /\ published \in Optional \cup Snapshots \cup {NoHash}
  /\ imported \in Snapshots \cup {NoHash}
  /\ pc \in [Procs -> Pc]
  /\ request \in [Procs -> Requests \cup {Nothing}]
  /\ before \in [Procs -> Optional] /\ after \in [Procs -> Optional]
  /\ number \in [Procs -> Nat]
  /\ read \in [Procs -> SUBSET Entries]
  /\ todo \in [Procs -> SUBSET Statements]
  /\ due \in [Procs -> SUBSET Entries]
  /\ lost \subseteq Entries

Init ==
  /\ live = Initial
  /\ draft = [e \in Entries |-> NoValue]
  /\ trashed = {}
  /\ log = {}
  /\ revision = 0 /\ published = NoHash /\ imported = NoHash
  /\ pc = [p \in Procs |-> "idle"]
  /\ request = [p \in Procs |-> Nothing]
  /\ before = [p \in Procs |-> NoValue]
  /\ after = [p \in Procs |-> NoValue]
  /\ number = [p \in Procs |-> 0]
  /\ read = [p \in Procs |-> {}]
  /\ todo = [p \in Procs |-> {}]
  /\ due = [p \in Procs |-> {}]
  /\ lost = {}

-----------------------------------------------------------------------------
(* Requests.                                                               *)

Op(p) == request[p].op
Entry(p) == request[p].entry
Snap(p) == request[p].snapshot

Goto(p, from, to) == pc[p] = from /\ pc' = [pc EXCEPT ![p] = to]

(* The request is answered or fails: its locals are gone.                  *)
Leave(p, from) ==
  /\ Goto(p, from, "idle")
  /\ request' = [request EXCEPT ![p] = Nothing]
  /\ before' = [before EXCEPT ![p] = NoValue]
  /\ after' = [after EXCEPT ![p] = NoValue]
  /\ number' = [number EXCEPT ![p] = 0]
  /\ read' = [read EXCEPT ![p] = {}]
  /\ todo' = [todo EXCEPT ![p] = {}]
  /\ due' = [due EXCEPT ![p] = {}]

Advance(p, from, to) ==
  /\ Goto(p, from, to)
  /\ UNCHANGED <<request, before, after, number, read, todo, due>>

(* Entries that the request has written and not yet recorded.              *)
InFlight(p) ==
  CASE pc[p] \in {"number", "insert"} /\ Op(p) \in Mutations -> {Entry(p)}
    [] pc[p] = "batch" -> {e \in Entries : <<e, "row">> \notin todo[p] /\ <<e, "log">> \in todo[p]}
    [] OTHER -> {}

(* Entries with content of their own and no request about to record it.    *)
Settled ==
  {e \in Entries : live[e] \notin {NoValue, Initial[e]}}
    \ (lost \cup UNION {InFlight(p) : p \in Procs})

Start(q) ==
  CASE q.op \in {"import", "export"} -> q.op
    [] q.op = "create" -> "apply"
    [] q.op = "publish" /\ q.value # NoValue -> "prepare"
    [] OTHER -> "before"

(* A create has no item before it.                                         *)
Begin(p, q) ==
  /\ q.op = "export" \/ \A r \in log : r.number < MaxNumber
  /\ Goto(p, "idle", Start(q))
  /\ request' = [request EXCEPT ![p] = q]
  /\ before' = [before EXCEPT ![p] = NoValue]
  /\ due' = [due EXCEPT ![p] = IF q.op = "export" THEN Settled ELSE {}]
  /\ UNCHANGED <<content, log, state, lost, after, number, read, todo>>

(* A thrown error or a stopped worker.                                     *)
Stop(p) ==
  /\ pc[p] # "idle"
  /\ Leave(p, pc[p])
  /\ lost' = lost \cup InFlight(p)
  /\ UNCHANGED <<content, log, state>>

-----------------------------------------------------------------------------
(* wrapMutation                                                            *)

(* The studio publishes changes by an update, which is not recorded.       *)
Prepare(p) ==
  /\ Advance(p, "prepare", "before")
  /\ live[Entry(p)] # NoValue
  /\ draft' = [draft EXCEPT ![Entry(p)] = request[p].value]
  /\ UNCHANGED <<live, trashed, log, state, lost>>

ReadBefore(p) ==
  /\ Goto(p, "before", "apply")
  /\ before' = [before EXCEPT ![p] = live[Entry(p)]]
  /\ UNCHANGED <<content, log, state, lost, request, after, number, read, todo, due>>

(* mutant: the exemption of publishing is inverted                         *)
CompareButNotPublish(p, from, v) ==
  /\ pc[p] = from
  /\ IF Op(p) = "publish" \/ before[p] = v
     THEN Leave(p, from)
     ELSE /\ Goto(p, from, "number")
          /\ after' = [after EXCEPT ![p] = v]
          /\ UNCHANGED <<request, before, number, read, todo, due>>

(* No field differs and it is no publish: answer.  Otherwise record it.    *)
Compare(p, from, v) ==
  /\ pc[p] = from
  /\ IF Op(p) # "publish" /\ before[p] = v
     THEN Leave(p, from)
     ELSE /\ Goto(p, from, "number")
          /\ after' = [after EXCEPT ![p] = v]
          /\ UNCHANGED <<request, before, number, read, todo, due>>

Write(p) ==
  /\ Compare(p, "apply", request[p].value)
  /\ live' = [live EXCEPT ![Entry(p)] = request[p].value]
  /\ UNCHANGED <<draft, trashed, log, state, lost>>

(* A deleted row still holds its slug.                                     *)
Create(p) ==
  /\ Op(p) = "create" /\ live[Entry(p)] = NoValue /\ Entry(p) \notin trashed
  /\ Write(p)

(* An update or a restored revision that goes live at once.                *)
Change(p) ==
  /\ Op(p) = "change" /\ live[Entry(p)] # NoValue
  /\ Write(p)

(* The draft is saved or discarded: what is compared are the live columns. *)

SaveDraft(p) ==
  /\ Op(p) = "draft" /\ live[Entry(p)] # NoValue
  /\ Compare(p, "apply", live[Entry(p)])
  /\ draft' = [draft EXCEPT ![Entry(p)] = request[p].value]
  /\ UNCHANGED <<live, trashed, log, state, lost>>

Publish(p) ==
  LET e == Entry(p)
      v == IF draft[e] = NoValue THEN live[e] ELSE draft[e]
  IN /\ Op(p) = "publish" /\ live[e] # NoValue
     /\ Compare(p, "apply", v)
     /\ live' = [live EXCEPT ![e] = v]
     /\ draft' = [draft EXCEPT ![e] = NoValue]
     /\ UNCHANGED <<trashed, log, state, lost>>

Delete(p) ==
  /\ Op(p) = "delete" /\ live[Entry(p)] # NoValue
  /\ Advance(p, "apply", "reread")
  /\ live' = [live EXCEPT ![Entry(p)] = NoValue]
  /\ draft' = [draft EXCEPT ![Entry(p)] = NoValue]
  /\ trashed' = trashed \cup {Entry(p)}
  /\ UNCHANGED <<log, state, lost>>

(* The handler reports a failure and changes nothing.  A refused create    *)
(* has no slug to read an item by.                                         *)
Refuse(p) ==
  /\ IF Op(p) = "create" THEN Leave(p, "apply") ELSE Advance(p, "apply", "reread")
  /\ UNCHANGED <<content, log, state, lost>>

(* The result carries no item: it is read again.                           *)
Reread(p) ==
  /\ Compare(p, "reread", live[Entry(p)])
  /\ UNCHANGED <<content, log, state, lost>>

-----------------------------------------------------------------------------
(* recordContentRevision                                                   *)

CountRows(p) ==              \* mutant: COUNT( * ) + 1 instead of MAX + 1
  /\ Goto(p, "number", IF Op(p) = "import" THEN "batch" ELSE "insert")
  /\ number' = [number EXCEPT ![p] = Cardinality(log) + 1]
  /\ UNCHANGED <<content, log, state, lost, request, before, after, read, todo, due>>

ReadLast(p) ==               \* mutant: MAX without + 1
  /\ Goto(p, "number", IF Op(p) = "import" THEN "batch" ELSE "insert")
  /\ \E m \in {0} \cup {r.number : r \in log} :
       /\ \A r \in log : r.number <= m
       /\ number' = [number EXCEPT ![p] = m]
  /\ UNCHANGED <<content, log, state, lost, request, before, after, read, todo, due>>

(* nextRevisionNumber, for a mutation and for an import                    *)
NextNumber(p) ==
  /\ Goto(p, "number", IF Op(p) = "import" THEN "batch" ELSE "insert")
  /\ \E m \in {0} \cup {r.number : r \in log} :
       /\ \A r \in log : r.number <= m
       /\ number' = [number EXCEPT ![p] = m + 1]
  /\ UNCHANGED <<content, log, state, lost, request, before, after, read, todo, due>>

InsertRow(p) ==
  /\ Advance(p, "insert", "state")
  /\ log' = log \cup {[number |-> number[p], entry |-> Entry(p), hash |-> after[p]]}
  /\ UNCHANGED <<content, state, lost>>

(* updateEnvironmentState of a mutation: it has no snapshot hash.          *)
WriteState(p) ==
  /\ Op(p) \in Mutations
  /\ Leave(p, "state")
  /\ revision' = number[p]
  /\ published' = after[p]
  /\ UNCHANGED <<content, log, imported, lost>>

-----------------------------------------------------------------------------
(* importContentReleaseSnapshot                                            *)

CompareHashes(p) ==
  /\ pc[p] = "import"
  /\ IF imported = Snap(p) /\ published = Snap(p)
     THEN Leave(p, "import")
     ELSE Advance(p, "import", "ids")
  /\ UNCHANGED <<content, log, state, lost>>

(* The reads of the collections are taken together.                        *)
FindRows(p) ==
  /\ Goto(p, "ids", "number")
  /\ read' = [read EXCEPT ![p] = {e \in DOMAIN Snap(p) : live[e] # NoValue}]
  /\ todo' = [todo EXCEPT ![p] = (DOMAIN Snap(p)) \X {"row", "log"}]
  /\ UNCHANGED <<content, log, state, lost, request, before, after, number, due>>

(* A chunk is cut from the statements in their order: an entry's content   *)
(* row before its log row.  Where the cut falls depends on the snapshot's  *)
(* size, so it may fall anywhere.                                          *)
Chunks(p) ==
  {c \in SUBSET todo[p] \ {{}} :
     \A e \in Entries : <<e, "log">> \in c => <<e, "row">> \in c \cup (Statements \ todo[p])}

(* The entries whose INSERT meets the row of another writer, or a row that *)
(* was deleted.                                                            *)
Taken(p, c) ==
  {e \in Entries \ read[p] : <<e, "row">> \in c /\ (live[e] # NoValue \/ e \in trashed)}

Chunk(p) ==
  /\ pc[p] = "batch"
  /\ \E c \in Chunks(p) :
       /\ Taken(p, c) = {}
       /\ live' = [e \in Entries |-> IF <<e, "row">> \in c /\ e \notin trashed
                                     THEN Snap(p)[e] ELSE live[e]]
       /\ draft' = [e \in Entries |-> IF <<e, "row">> \in c THEN NoValue ELSE draft[e]]
       /\ log' = log \cup {[number |-> number[p], entry |-> e, hash |-> Snap(p)] :
                             e \in {f \in Entries : <<f, "log">> \in c}}
       /\ todo' = [todo EXCEPT ![p] = @ \ c]
  /\ UNCHANGED <<trashed, state, lost, pc, request, before, after, number, read, due>>

ChunkFails(p) ==
  /\ pc[p] = "batch"
  /\ \E c \in Chunks(p) : Taken(p, c) # {}
  /\ Leave(p, "batch")
  /\ lost' = lost \cup InFlight(p)
  /\ UNCHANGED <<content, log, state>>

NotAwaited(p) == TRUE        \* mutant: the batches are not awaited

Written(p) == todo[p] = {}

WriteImportState(p) ==
  /\ Written(p)
  /\ Leave(p, "batch")
  /\ revision' = number[p]
  /\ published' = Snap(p)
  /\ imported' = Snap(p)
  /\ UNCHANGED <<content, log, lost>>

-----------------------------------------------------------------------------
(* buildContentReleaseSnapshot                                             *)

LastRowsOnly(p) ==           \* mutant: only the rows of the last revision
  /\ Goto(p, "export", "content")
  /\ read' = [read EXCEPT ![p] =
       IF log = {} THEN Entries
       ELSE {r.entry : r \in {s \in log : \A t \in log : t.number <= s.number}}]
  /\ UNCHANGED <<content, log, state, lost, request, before, after, number, todo, due>>

(* Every entry the log names, or all of them while it is empty.            *)
ReadRows(p) ==
  /\ Goto(p, "export", "content")
  /\ read' = [read EXCEPT ![p] = IF log = {} THEN Entries ELSE {r.entry : r \in log}]
  /\ UNCHANGED <<content, log, state, lost, request, before, after, number, todo, due>>

(* The content of these entries and the last number are read and answered. *)
Export(p) ==
  /\ Leave(p, "content")
  /\ UNCHANGED <<content, log, state, lost>>

Step(p) ==
  \/ Prepare(p) \/ ReadBefore(p)
  \/ Create(p) \/ Change(p) \/ SaveDraft(p) \/ Publish(p) \/ Delete(p) \/ Refuse(p) \/ Reread(p)
  \/ NextNumber(p) \/ InsertRow(p) \/ WriteState(p)
  \/ CompareHashes(p) \/ FindRows(p) \/ Chunk(p) \/ ChunkFails(p) \/ WriteImportState(p)
  \/ ReadRows(p) \/ Export(p)
  \/ Stop(p)

Next == \E p \in Procs : Step(p) \/ \E q \in Requests : Begin(p, q)

Spec == Init /\ [][Next]_vars

-----------------------------------------------------------------------------
(* Properties.                                                             *)

Recorded(e, v) ==
  \E r \in log : /\ r.entry = e
                 /\ \/ r.hash = v
                    \/ r.hash \in {s \in Snapshots : e \in DOMAIN s /\ s[e] = v}

(* The request p has written v to e and is going to record it.             *)
Pending(p, e, v) ==
  /\ e \in InFlight(p)
  /\ IF Op(p) = "import" THEN Snap(p)[e] = v ELSE after[p] = v

(* What an entry holds, unless it is what the site began with, is in the   *)
(* log, or its writer is about to record it, or has stopped on the way:    *)
(* a mutation that compared with a stale item and was not recorded has     *)
(* left nothing that another one did not record.                           *)
ContentIsRecorded ==
  \A e \in Entries :
    live[e] \notin {NoValue, Initial[e]} =>
      Recorded(e, live[e]) \/ e \in lost \/ \E p \in Procs : Pending(p, e, live[e])

(* Revision numbers are used without gaps, also by requests that picked    *)
(* the same one, and the state row names a revision of the log with the    *)
(* hash it was recorded with, whoever wrote it last.  The exception is an  *)
(* import without entries: it writes the next number, and no row.          *)
NumbersAreSound ==
  LET numbers == {r.number : r \in log}
  IN /\ \A n \in numbers : n = 1 \/ n - 1 \in numbers
     /\ \/ revision = 0
        \/ \E r \in log : r.number = revision /\ r.hash = published
        \/ /\ published \in Snapshots /\ DOMAIN published = {}
           /\ revision - 1 \in numbers \cup {0}

(* A snapshot hash in the state row means that the whole snapshot is in    *)
(* the log: a retry is skipped only when there is nothing left to import.  *)
ImportIsComplete ==
  imported # NoHash =>
    \A e \in DOMAIN imported : \E r \in log : r.entry = e /\ r.hash = imported

(* An export covers every entry that had been changed and recorded before  *)
(* it began.                                                               *)
ExportIsComplete ==
  \A p \in Procs : pc[p] = "content" => due[p] \subseteq read[p]
=============================================================================
