--------------------------- MODULE ContentProofs ----------------------------
(***************************************************************************)
(* Safety of module Content: of the release log, for any entries, values,  *)
(* snapshots and requests, any number of them served at the same time; and *)
(* of the studio, for any pages, posts, fields and texts.                  *)
(***************************************************************************)
EXTENDS Content, TLAPS

-----------------------------------------------------------------------------
(* The release log.                                                        *)

Used(n) == \E r \in log : r.number = n

Logged(n, h) == \E r \in log : r.number = n /\ r.hash = h

(* v is no content, the site's first content, or accounted for.            *)
Known(e, v) ==
  \/ v = NoValue \/ v = Initial[e]
  \/ Recorded(e, v) \/ e \in lost \/ \E p \in Procs : Pending(p, e, v)

(* Which request is at which step.                                         *)
Place(p) ==
  /\ pc[p] # "idle" => request[p] \in Requests
  /\ pc[p] = "prepare" => Op(p) = "publish" /\ request[p].value # NoValue
  /\ pc[p] \in {"before", "apply", "reread", "insert", "state"} => Op(p) \in Mutations
  /\ pc[p] = "number" => Op(p) \in Mutations \cup {"import"}
  /\ pc[p] \in {"import", "ids", "batch"} => Op(p) = "import"
  /\ pc[p] \in {"export", "content"} => Op(p) = "export"

(* The number a request holds is the first, or follows one of the log; a   *)
(* mutation that is about to write the state row has its row there.        *)
Numbered(p) ==
  /\ pc[p] \in {"insert", "batch", "state"} =>
       number[p] > 0 /\ (number[p] = 1 \/ Used(number[p] - 1))
  /\ pc[p] = "state" => Logged(number[p], after[p])

(* Each log row of an import is written or to come, after its content row. *)
Imported(p) ==
  /\ pc[p] = "number" /\ Op(p) = "import" =>
       todo[p] = (DOMAIN Snap(p)) \X {"row", "log"}
  /\ pc[p] = "batch" =>
       /\ todo[p] \subseteq (DOMAIN Snap(p)) \X {"row", "log"}
       /\ \A e \in DOMAIN Snap(p) :
            /\ \/ <<e, "log">> \in todo[p]
               \/ [number |-> number[p], entry |-> e, hash |-> Snap(p)] \in log
            /\ <<e, "row">> \in todo[p] => <<e, "log">> \in todo[p]

(* What a mutation compares with is accounted for.                         *)
Compared(p) ==
  pc[p] \in {"apply", "reread"} =>
    \A e \in Entries, v \in Optional : e = Entry(p) /\ v = before[p] => Known(e, v)

(* What an export owes is in the log, and then in hand.                    *)
Exported(p) ==
  /\ pc[p] = "export" => \A e \in due[p] : \E r \in log : r.entry = e
  /\ pc[p] = "content" => due[p] \subseteq read[p]

Stage(p) == Place(p) /\ Numbered(p) /\ Imported(p) /\ Compared(p) /\ Exported(p)

LiveIsKnown == \A e \in Entries, v \in Optional : live[e] = v => Known(e, v)

IInv ==
  /\ TypeOK
  /\ \A p \in Procs : Stage(p)
  /\ LiveIsKnown /\ NumbersAreSound /\ ImportIsComplete

-----------------------------------------------------------------------------
(* What each kind of request carries.                                      *)
LEMMA Carries ==
  ASSUME NEW q \in Requests
  PROVE  /\ q.op \in Mutations \cup {"import", "export"}
         /\ q.op \in Mutations => q.entry \in Entries
         /\ q.op \in {"create", "change"} => q.value \in Values
         /\ q.op \in {"draft", "publish"} => q.value \in Optional
         /\ q.op = "import" => q.snapshot \in Snapshots
  BY ContentIsTyped DEF Request, Mutations

(* A snapshot covers entries, with values.                                 *)
LEMMA SnapshotTyped ==
  ASSUME NEW s \in Snapshots
  PROVE  /\ DOMAIN s \subseteq Entries
         /\ \A e \in DOMAIN s : s[e] \in Values
  BY ContentIsTyped

(* The first state satisfies the invariant.                                *)
LEMMA Initially == Init => IInv
<1> SUFFICES ASSUME Init PROVE IInv
  OBVIOUS
<1>1. TypeOK BY ContentIsTyped DEF Init, TypeOK, Optional, Pc
<1>2. \A p \in Procs : Stage(p)
  BY DEF Init, Stage, Place, Numbered, Imported, Compared, Exported
<1>3. LiveIsKnown BY DEF Init, LiveIsKnown, Known
<1>4. NumbersAreSound /\ ImportIsComplete
  BY DEF Init, NumbersAreSound, ImportIsComplete
<1> QED BY <1>1, <1>2, <1>3, <1>4 DEF IInv

-----------------------------------------------------------------------------
(* Types.                                                                  *)

Locals ==
  /\ pc \in [Procs -> Pc]
  /\ request \in [Procs -> Requests \cup {Nothing}]
  /\ before \in [Procs -> Optional] /\ after \in [Procs -> Optional]
  /\ number \in [Procs -> Nat]
  /\ read \in [Procs -> SUBSET Entries]
  /\ todo \in [Procs -> SUBSET Statements]
  /\ due \in [Procs -> SUBSET Entries]

(* A request that leaves, moves on or compares keeps the types of locals.  *)
LEMMA LocalsTyped ==
  ASSUME TypeOK, NEW p \in Procs, NEW f \in Pc, NEW t \in Pc, NEW v \in Optional,
         Leave(p, f) \/ Advance(p, f, t) \/ Compare(p, f, v)
  PROVE  Locals'
<1>1. "idle" \in Pc /\ "number" \in Pc BY DEF Pc
<1>2. NoValue \in Optional BY DEF Optional
<1> QED BY <1>1, <1>2 DEF TypeOK, Locals, Leave, Advance, Compare, Goto

(* The entry of a mutation is an entry, the snapshot of an import is one.  *)
LEMMA Targets ==
  ASSUME NEW p \in Procs, Place(p), pc[p] # "idle"
  PROVE  /\ Op(p) \in Mutations => Entry(p) \in Entries
         /\ Op(p) \in {"create", "change"} => request[p].value \in Values
         /\ Op(p) \in {"draft", "publish"} => request[p].value \in Optional
         /\ Op(p) = "import" => Snap(p) \in Snapshots
  BY Carries DEF Place, Op, Entry, Snap

(* A mutation keeps the types.                                             *)
LEMMA MutationTyped ==
  ASSUME TypeOK, NEW p \in Procs, Place(p),
         \/ Prepare(p) \/ ReadBefore(p) \/ Create(p) \/ Change(p) \/ SaveDraft(p) \/ Publish(p)
         \/ Delete(p) \/ Refuse(p) \/ Reread(p)
  PROVE  TypeOK'
<1> USE DEF content, state
<1>0. {"prepare", "before", "apply", "reread", "number"} \subseteq Pc BY DEF Pc
<1>1. Values \subseteq Optional /\ NoValue \in Optional BY DEF Optional
<1>2. CASE Prepare(p)
  <2>1. Entry(p) \in Entries /\ request[p].value \in Optional
    BY <1>2, Targets DEF Prepare, Advance, Goto, Place, Mutations
  <2> QED BY <1>0, <1>1, <1>2, <2>1, LocalsTyped DEF Prepare, TypeOK, Locals
<1>3. CASE ReadBefore(p)
  <2>1. Entry(p) \in Entries BY <1>3, Targets DEF ReadBefore, Goto, Place
  <2> QED BY <1>0, <1>3, <2>1 DEF ReadBefore, Goto, TypeOK
<1>4. CASE Create(p) \/ Change(p)
  <2>1. Entry(p) \in Entries /\ request[p].value \in Optional
    BY <1>1, <1>4, Targets DEF Create, Change, Write, Compare, Place, Mutations
  <2> QED BY <1>0, <1>4, <2>1, LocalsTyped DEF Create, Change, Write, TypeOK, Locals
<1>5. CASE SaveDraft(p)
  <2>1. Entry(p) \in Entries /\ request[p].value \in Optional
    BY <1>1, <1>5, Targets DEF SaveDraft, Compare, Place, Mutations
  <2> QED BY <1>0, <1>5, <2>1, LocalsTyped DEF SaveDraft, TypeOK, Locals
<1>6. CASE Publish(p)
  <2> DEFINE e == Entry(p)
             v == IF draft[e] = NoValue THEN live[e] ELSE draft[e]
  <2>1. e \in Entries BY <1>6, Targets DEF Publish, Compare, Place, Mutations
  <2>2. v \in Optional BY <2>1 DEF TypeOK
  <2>3. /\ Compare(p, "apply", v)
        /\ live' = [live EXCEPT ![e] = v] /\ draft' = [draft EXCEPT ![e] = NoValue]
        /\ UNCHANGED <<trashed, log, state, lost>>
    BY <1>6 DEF Publish
  <2> HIDE DEF v
  <2> QED BY <1>0, <1>1, <2>1, <2>2, <2>3, LocalsTyped DEF TypeOK, Locals
<1>7. CASE Delete(p)
  <2>1. Entry(p) \in Entries
    BY <1>7, Targets DEF Delete, Advance, Goto, Place, Mutations
  <2> QED BY <1>0, <1>1, <1>7, <2>1, LocalsTyped DEF Delete, TypeOK, Locals
<1>8. CASE Refuse(p) BY <1>0, <1>1, <1>8, LocalsTyped DEF Refuse, TypeOK, Locals
<1>9. CASE Reread(p)
  <2>1. live[Entry(p)] \in Optional
    BY <1>9, Targets DEF Reread, Compare, Place, TypeOK
  <2> QED BY <1>0, <1>9, <2>1, LocalsTyped DEF Reread, TypeOK, Locals
<1> QED BY <1>2, <1>3, <1>4, <1>5, <1>6, <1>7, <1>8, <1>9

(* Only entries are in flight.                                             *)
LEMMA InFlightTyped ==
  ASSUME NEW p \in Procs, Place(p), pc[p] # "idle"
  PROVE  InFlight(p) \subseteq Entries
BY Targets DEF InFlight

(* A chunk of an import keeps the types.                                   *)
LEMMA ChunkTyped ==
  ASSUME TypeOK, NEW p \in Procs, Chunk(p), Snap(p) \in Snapshots,
         number[p] \in Nat \ {0}, Imported(p)
  PROVE  TypeOK'
<1>1. PICK c \in Chunks(p) :
        /\ live' = [e \in Entries |-> IF <<e, "row">> \in c /\ e \notin trashed
                                      THEN Snap(p)[e] ELSE live[e]]
        /\ draft' = [e \in Entries |-> IF <<e, "row">> \in c THEN NoValue ELSE draft[e]]
        /\ log' = log \cup {[number |-> number[p], entry |-> e, hash |-> Snap(p)] :
                              e \in {f \in Entries : <<f, "log">> \in c}}
        /\ todo' = [todo EXCEPT ![p] = @ \ c]
  BY DEF Chunk
<1>2. c \subseteq todo[p] /\ todo[p] \subseteq (DOMAIN Snap(p)) \X {"row", "log"}
  BY <1>1 DEF Chunks, Chunk, Imported
<1>3. \A e \in Entries : <<e, "row">> \in c => Snap(p)[e] \in Optional
  BY <1>2, SnapshotTyped DEF Optional
<1>4. live' \in [Entries -> Optional] BY <1>1, <1>3 DEF TypeOK
<1>5. draft' \in [Entries -> Optional] BY <1>1 DEF TypeOK, Optional
<1>6. log' \subseteq Row
  <2>1. \A e \in Entries : [number |-> number[p], entry |-> e, hash |-> Snap(p)] \in Row
    BY DEF Row
  <2> QED BY <1>1, <2>1 DEF TypeOK
<1> QED BY <1>1, <1>4, <1>5, <1>6 DEF Chunk, TypeOK, state

(* Recording, importing, exporting, arriving and stopping keep the types.  *)
LEMMA OthersTyped ==
  ASSUME TypeOK, NEW p \in Procs, Place(p), Numbered(p), Imported(p),
         \/ NextNumber(p) \/ InsertRow(p) \/ WriteState(p)
         \/ CompareHashes(p) \/ FindRows(p) \/ Chunk(p) \/ ChunkFails(p)
         \/ WriteImportState(p) \/ ReadRows(p) \/ Export(p)
         \/ Stop(p) \/ \E q \in Requests : Begin(p, q)
  PROVE  TypeOK'
<1> USE DEF content, state
<1>0. {"idle", "import", "ids", "number", "insert", "state", "export", "content",
                  "batch"} \subseteq Pc
  BY DEF Pc
<1>1. NoValue \in Optional BY DEF Optional
<1>2. CASE NextNumber(p)
  <2>1. PICK m \in {0} \cup {r.number : r \in log} : number' = [number EXCEPT ![p] = m + 1]
    BY <1>2 DEF NextNumber
  <2>2. m \in Nat BY <2>1 DEF TypeOK, Row
  <2> QED BY <1>0, <1>2, <2>1, <2>2 DEF NextNumber, Goto, TypeOK
<1>3. CASE InsertRow(p)
  <2>1. Entry(p) \in Entries BY <1>3, Targets DEF InsertRow, Advance, Goto, Place
  <2>2. number[p] \in Nat \ {0}
    BY <1>3 DEF InsertRow, Advance, Goto, Numbered, TypeOK
  <2>3. [number |-> number[p], entry |-> Entry(p), hash |-> after[p]] \in Row
    BY <2>1, <2>2 DEF Row, TypeOK
  <2> QED BY <1>0, <1>1, <1>3, <2>3, LocalsTyped DEF InsertRow, TypeOK, Locals
<1>4. CASE WriteState(p)
  BY <1>0, <1>1, <1>4, LocalsTyped DEF WriteState, TypeOK, Locals
<1>5. CASE CompareHashes(p)
  BY <1>0, <1>1, <1>5, LocalsTyped DEF CompareHashes, TypeOK, Locals
<1>6. CASE FindRows(p)
  <2>1. Snap(p) \in Snapshots BY <1>6, Targets DEF FindRows, Goto, Place
  <2>2. DOMAIN Snap(p) \subseteq Entries BY <2>1, SnapshotTyped
  <2>3. (DOMAIN Snap(p)) \X {"row", "log"} \subseteq Statements
    BY <2>2 DEF Statements
  <2>4. {e \in DOMAIN Snap(p) : live[e] # NoValue} \subseteq Entries BY <2>2
  <2> QED BY <1>0, <1>6, <2>3, <2>4 DEF FindRows, Goto, TypeOK
<1>7. CASE Chunk(p)
  <2>0. pc[p] = "batch" BY <1>7 DEF Chunk
  <2>1. Snap(p) \in Snapshots BY <2>0, Targets DEF Place
  <2>2. number[p] \in Nat \ {0} BY <2>0 DEF Numbered, TypeOK
  <2> QED BY <1>7, <2>1, <2>2, ChunkTyped
<1>8. CASE ChunkFails(p)
  BY <1>0, <1>1, <1>8, LocalsTyped, InFlightTyped DEF ChunkFails, TypeOK, Locals
<1>9. CASE WriteImportState(p)
  <2>1. Snap(p) \in Snapshots
    BY <1>9, Targets DEF WriteImportState, Leave, Goto, Place
  <2> QED BY <1>0, <1>1, <1>9, <2>1, LocalsTyped DEF WriteImportState, TypeOK, Locals
<1>10. CASE ReadRows(p)
  <2>1. {r.entry : r \in log} \subseteq Entries BY DEF TypeOK, Row
  <2> QED BY <1>0, <1>10, <2>1 DEF ReadRows, Goto, TypeOK
<1>11. CASE Export(p) BY <1>0, <1>1, <1>11, LocalsTyped DEF Export, TypeOK, Locals
<1>12. CASE Stop(p)
  <2>1. pc[p] \in Pc BY DEF TypeOK
  <2> QED BY <1>0, <1>1, <1>12, <2>1, LocalsTyped, InFlightTyped DEF Stop, TypeOK, Locals
<1>13. ASSUME NEW q \in Requests, Begin(p, q) PROVE TypeOK'
  <2>1. Start(q) \in Pc BY Carries DEF Start, Pc
  <2>2. (IF q.op = "export" THEN Settled ELSE {}) \subseteq Entries BY DEF Settled
  <2> HIDE DEF Settled
  <2> QED BY <1>1, <1>13, <2>1, <2>2 DEF Begin, Goto, TypeOK
<1> QED BY <1>2, <1>3, <1>4, <1>5, <1>6, <1>7, <1>8, <1>9, <1>10, <1>11, <1>12, <1>13

-----------------------------------------------------------------------------
(* What a step does to the log and to the other requests.                  *)

Same(q) ==
  /\ pc'[q] = pc[q] /\ request'[q] = request[q]
  /\ before'[q] = before[q] /\ after'[q] = after[q] /\ number'[q] = number[q]
  /\ read'[q] = read[q] /\ todo'[q] = todo[q] /\ due'[q] = due[q]

(* No step touches the locals of another request.                          *)
LEMMA OthersSame ==
  ASSUME TypeOK, NEW p \in Procs, Step(p) \/ \E r \in Requests : Begin(p, r),
         NEW q \in Procs, q # p
  PROVE  Same(q)
  BY DEF Step, Same, TypeOK, Leave, Advance, Goto, Compare, Begin, Prepare, ReadBefore,
     Create, Change, Write, SaveDraft, Publish, Delete, Refuse, Reread, NextNumber, InsertRow, WriteState,
     CompareHashes, FindRows, Chunk, ChunkFails, WriteImportState, ReadRows, Export, Stop

(* The log only grows, by rows with the number of the request.             *)
LEMMA LogGrows ==
  ASSUME NEW p \in Procs, Step(p) \/ \E r \in Requests : Begin(p, r)
  PROVE  /\ lost \subseteq lost'
         /\ log \subseteq log'
         /\ \/ log' = log
            \/ pc[p] \in {"insert", "batch"} /\ \A r \in log' \ log : r.number = number[p]
<1>1. CASE InsertRow(p) BY <1>1 DEF InsertRow, Advance, Goto
<1>2. CASE Chunk(p)
  <2>1. PICK c \in Chunks(p) :
          log' = log \cup {[number |-> number[p], entry |-> e, hash |-> Snap(p)] :
                             e \in {f \in Entries : <<f, "log">> \in c}}
    BY <1>2 DEF Chunk
  <2>2. ASSUME NEW r \in log' \ log PROVE r.number = number[p]
    <3>1. PICK e : r = [number |-> number[p], entry |-> e, hash |-> Snap(p)] BY <2>1
    <3> QED BY <3>1
  <2>3. log \subseteq log' BY <2>1
  <2> QED BY <1>2, <2>2, <2>3 DEF Chunk
<1>3. CASE ~InsertRow(p) /\ ~Chunk(p)
  BY <1>3 DEF Step, Begin, Prepare, ReadBefore, Create, Change, Write, SaveDraft, Publish, Delete, Refuse,
     Reread, NextNumber, WriteState, CompareHashes, FindRows, ChunkFails, WriteImportState,
     ReadRows, Export, Stop
<1> QED BY <1>1, <1>2, <1>3

(* What a chunk writes, and what it leaves.                                *)
LEMMA ChunkEffect ==
  ASSUME TypeOK, NEW p \in Procs, Chunk(p), Place(p), Imported(p)
  PROVE  /\ todo'[p] \subseteq todo[p]
         /\ pc'[p] = "batch" /\ request'[p] = request[p] /\ number'[p] = number[p]
         /\ \A e \in Entries :
              /\ live'[e] # live[e] =>
                   /\ e \in DOMAIN Snap(p) /\ live'[e] = Snap(p)[e]
                   /\ <<e, "row">> \in todo[p] /\ <<e, "row">> \notin todo'[p]
              /\ <<e, "log">> \in todo[p] \ todo'[p] =>
                   [number |-> number[p], entry |-> e, hash |-> Snap(p)] \in log'
              /\ <<e, "row">> \in todo'[p] => <<e, "log">> \in todo'[p]
<1>1. PICK c \in Chunks(p) :
        /\ live' = [e \in Entries |-> IF <<e, "row">> \in c /\ e \notin trashed
                                      THEN Snap(p)[e] ELSE live[e]]
        /\ log' = log \cup {[number |-> number[p], entry |-> e, hash |-> Snap(p)] :
                              e \in {f \in Entries : <<f, "log">> \in c}}
        /\ todo' = [todo EXCEPT ![p] = @ \ c]
  BY DEF Chunk
<1>2. pc[p] = "batch" /\ Snap(p) \in Snapshots BY Targets DEF Chunk, Place
<1>3. todo'[p] = todo[p] \ c /\ c \subseteq todo[p] BY <1>1 DEF Chunks, TypeOK
<1>4. /\ todo[p] \subseteq (DOMAIN Snap(p)) \X {"row", "log"}
      /\ \A e \in DOMAIN Snap(p) : <<e, "row">> \in todo[p] => <<e, "log">> \in todo[p]
  BY <1>2 DEF Imported
<1>5. \A e \in Entries : <<e, "log">> \in c => <<e, "row">> \in c \/ <<e, "row">> \notin todo[p]
  BY <1>1 DEF Chunks
<1>6. ASSUME NEW e \in Entries, live'[e] # live[e]
      PROVE  /\ e \in DOMAIN Snap(p) /\ live'[e] = Snap(p)[e]
             /\ <<e, "row">> \in todo[p] /\ <<e, "row">> \notin todo'[p]
  BY <1>1, <1>3, <1>4, <1>6
<1>7. ASSUME NEW e \in Entries, <<e, "log">> \in todo[p] \ todo'[p]
      PROVE  [number |-> number[p], entry |-> e, hash |-> Snap(p)] \in log'
  BY <1>1, <1>3, <1>7
<1>8. ASSUME NEW e \in Entries, <<e, "row">> \in todo'[p] PROVE <<e, "log">> \in todo'[p]
  <2>1. e \in DOMAIN Snap(p) BY <1>3, <1>4, <1>8
  <2> QED BY <1>3, <1>4, <1>5, <1>8, <2>1
<1> QED BY <1>2, <1>3, <1>6, <1>7, <1>8 DEF Chunk

(* A value that a request is about to record stays so, until it is in the  *)
(* log or the request has stopped.                                         *)
LEMMA PendingStays ==
  ASSUME TypeOK, NEW p \in Procs, Place(p), Imported(p),
         Step(p) \/ \E r \in Requests : Begin(p, r),
         NEW e \in Entries, NEW v \in Optional, Pending(p, e, v)
  PROVE  Pending(p, e, v)' \/ Recorded(e, v)' \/ e \in lost'
<1>1. CASE pc[p] = "number"
  <2>1. Op(p) \in Mutations /\ Entry(p) = e /\ after[p] = v
    BY <1>1 DEF Pending, InFlight, Mutations
  <2>2. CASE NextNumber(p)
    <3>1. /\ pc'[p] = "insert" /\ after'[p] = v
          /\ request'[p] = request[p]
      BY <2>1, <2>2 DEF NextNumber, Goto, TypeOK, Mutations
    <3> QED BY <2>1, <3>1 DEF Pending, InFlight, Op, Entry, Mutations
  <2>3. CASE Stop(p) BY <2>3 DEF Stop, Pending
  <2> QED BY <1>1, <2>2, <2>3
       DEF Step, Begin, Prepare, ReadBefore, Create, Change, Write, SaveDraft, Publish, Delete, Refuse,
       Reread, InsertRow, WriteState, CompareHashes, FindRows, Chunk, ChunkFails,
       WriteImportState, ReadRows, Export, Leave, Advance, Goto, Compare
<1>2. CASE pc[p] = "insert"
  <2>1. Op(p) \in Mutations /\ Entry(p) = e /\ after[p] = v
    BY <1>2, Targets DEF Pending, InFlight, Place, Mutations
  <2>2. CASE InsertRow(p)
    <3> DEFINE row == [number |-> number[p], entry |-> e, hash |-> v]
    <3>1. row \in log' BY <2>1, <2>2 DEF InsertRow
    <3>2. row.entry = e /\ row.hash = v OBVIOUS
    <3> HIDE DEF row
    <3> QED BY <3>1, <3>2 DEF Recorded
  <2>3. CASE Stop(p) BY <2>3 DEF Stop, Pending
  <2> QED BY <1>2, <2>2, <2>3
       DEF Step, Begin, Prepare, ReadBefore, Create, Change, Write, SaveDraft, Publish, Delete, Refuse,
       Reread, NextNumber, WriteState, CompareHashes, FindRows, Chunk, ChunkFails,
       WriteImportState, ReadRows, Export, Leave, Advance, Goto, Compare
<1>3. CASE pc[p] = "batch"
  <2>1. /\ <<e, "row">> \notin todo[p] /\ <<e, "log">> \in todo[p]
        /\ Op(p) = "import" /\ Snap(p)[e] = v /\ Snap(p) \in Snapshots
    BY <1>3, Targets DEF Pending, InFlight, Place, Mutations
  <2>2. CASE Chunk(p)
    <3>1. CASE <<e, "log">> \in todo'[p]
      <4>1. /\ pc'[p] = "batch" /\ request'[p] = request[p]
            /\ <<e, "row">> \notin todo'[p]
        BY <2>1, <2>2, ChunkEffect
      <4> QED BY <2>1, <3>1, <4>1 DEF Pending, InFlight, Op, Snap
    <3>2. CASE <<e, "log">> \notin todo'[p]
      <4>1. [number |-> number[p], entry |-> e, hash |-> Snap(p)] \in log'
        BY <2>1, <2>2, <3>2, ChunkEffect
      <4>2. e \in DOMAIN Snap(p) BY <1>3, <2>1 DEF Imported
      <4> QED BY <2>1, <4>1, <4>2 DEF Recorded
    <3> QED BY <3>1, <3>2
  <2>3. CASE Stop(p) \/ ChunkFails(p) BY <2>3 DEF Stop, ChunkFails, Pending
  <2>4. CASE WriteImportState(p) BY <2>1, <2>4 DEF WriteImportState, Written
  <2> QED BY <1>3, <2>2, <2>3, <2>4
       DEF Step, Begin, Prepare, ReadBefore, Create, Change, Write, SaveDraft, Publish, Delete, Refuse,
       Reread, NextNumber, InsertRow, WriteState, CompareHashes, FindRows,
       ReadRows, Export, Leave, Advance, Goto, Compare
<1> QED BY <1>1, <1>2, <1>3 DEF Pending, InFlight

(* What is accounted for stays accounted for.                              *)
LEMMA KnownStays ==
  ASSUME TypeOK, NEW p \in Procs, Place(p), Imported(p),
         Step(p) \/ \E r \in Requests : Begin(p, r),
         NEW e \in Entries, NEW v \in Optional, Known(e, v)
  PROVE  Known(e, v)'
<1>1. log \subseteq log' /\ lost \subseteq lost' BY LogGrows
<1>2. CASE Recorded(e, v) BY <1>1, <1>2 DEF Recorded, Known
<1>3. ASSUME NEW q \in Procs, Pending(q, e, v) PROVE Known(e, v)'
  <2>1. CASE q = p BY <1>3, <2>1, PendingStays DEF Known
  <2>2. CASE q # p
    <3>1. Same(q) BY <2>2, OthersSame
    <3>2. Pending(q, e, v)'
      BY <1>3, <3>1 DEF Same, Pending, InFlight, Op, Entry, Snap
    <3> QED BY <3>2 DEF Known
  <2> QED BY <2>1, <2>2
<1> QED BY <1>1, <1>2, <1>3 DEF Known

(* A request that another one's step leaves alone stays at a sound stage.  *)
LEMMA OthersStage ==
  ASSUME TypeOK, NEW p \in Procs, Place(p), Imported(p),
         Step(p) \/ \E r \in Requests : Begin(p, r),
         NEW q \in Procs, q # p, Stage(q)
  PROVE  Stage(q)'
<1>1. Same(q) BY OthersSame
<1>2. log \subseteq log' BY LogGrows
<1>3. Place(q)' BY <1>1 DEF Stage, Place, Same, Op
<1>4. Numbered(q)' BY <1>1, <1>2 DEF Stage, Numbered, Same, Used, Logged
<1>5. Imported(q)' BY <1>1, <1>2 DEF Stage, Imported, Same, Op, Snap
<1>6. Compared(q)'
  <2>1. ASSUME NEW e \in Entries, NEW v \in Optional,
               pc'[q] \in {"apply", "reread"}, e = Entry(q)', v = before'[q]
        PROVE  Known(e, v)'
    <3>1. Known(e, v) BY <1>1, <2>1 DEF Stage, Compared, Same, Entry
    <3> QED BY <3>1, KnownStays
  <2> QED BY <2>1 DEF Compared
<1>7. Exported(q)' BY <1>1, <1>2 DEF Stage, Exported, Same
<1> QED BY <1>3, <1>4, <1>5, <1>6, <1>7 DEF Stage

-----------------------------------------------------------------------------
(* The request that takes the step.                                        *)

(* It is answered, refused or stopped.                                     *)
LEMMA IdleStage ==
  ASSUME TypeOK, NEW p \in Procs, NEW f, Leave(p, f)
  PROVE  Stage(p)'
<1>1. pc'[p] = "idle" BY DEF Leave, Goto, TypeOK
<1> QED BY <1>1 DEF Stage, Place, Numbered, Imported, Compared, Exported

(* It arrives: an export owes what is settled, and that is in the log.     *)
LEMMA ArrivalStage ==
  ASSUME TypeOK, LiveIsKnown, NEW p \in Procs, NEW q \in Requests, Begin(p, q)
  PROVE  Stage(p)'
<1>1. /\ pc'[p] = Start(q) /\ request'[p] = q /\ log' = log
      /\ before'[p] = NoValue /\ due'[p] = IF q.op = "export" THEN Settled ELSE {}
  BY DEF Begin, Goto, TypeOK
<1>2. Start(q) \in {"import", "export", "apply", "prepare", "before"}
  BY Carries DEF Start
<1>3. Place(p)' BY <1>1, <1>2, Carries DEF Place, Op, Start, Mutations
<1>4. ASSUME NEW e \in Settled PROVE \E r \in log : r.entry = e
  <2>1. e \in Entries /\ live[e] \in Optional BY DEF Settled, TypeOK
  <2>2. Known(e, live[e]) BY <2>1 DEF LiveIsKnown
  <2>3. Recorded(e, live[e]) BY <2>2 DEF Known, Settled, Pending
  <2> QED BY <2>3 DEF Recorded
<1>5. Exported(p)' BY <1>1, <1>2, <1>4, Carries DEF Exported, Start, Mutations
<1>6. Compared(p)' BY <1>1 DEF Compared, Known
<1> QED BY <1>1, <1>2, <1>3, <1>5, <1>6 DEF Stage, Numbered, Imported

(* A mutation compares, or moves on.                                       *)
LEMMA MutationStage ==
  ASSUME TypeOK, LiveIsKnown, NEW p \in Procs, Stage(p), Step(p),
         \/ Prepare(p) \/ ReadBefore(p) \/ Create(p) \/ Change(p) \/ SaveDraft(p) \/ Publish(p)
         \/ Delete(p) \/ Refuse(p) \/ Reread(p)
  PROVE  Stage(p)'
<1>0. Place(p) /\ Imported(p) BY DEF Stage
<1>1. ASSUME NEW f, NEW v, Compare(p, f, v), f \in {"apply", "reread"} PROVE Stage(p)'
  <2>1. CASE Leave(p, f) BY <2>1, IdleStage
  <2>2. CASE ~Leave(p, f)
    <3>1. pc'[p] = "number" /\ request'[p] = request[p] /\ Op(p) \in Mutations
      BY <1>0, <1>1, <2>2 DEF Compare, Goto, TypeOK, Place
    <3>2. request[p] \in Requests BY <1>0, <1>1 DEF Place, Compare
    <3> QED BY <3>1, <3>2
         DEF Stage, Place, Numbered, Imported, Compared, Exported, Op, Mutations
  <2> QED BY <2>1, <2>2
<1>2. CASE Prepare(p)
  <2>1. pc'[p] = "before" /\ request'[p] = request[p] /\ pc[p] = "prepare"
    BY <1>2 DEF Prepare, Advance, Goto, TypeOK
  <2> QED BY <1>0, <2>1
       DEF Stage, Place, Numbered, Imported, Compared, Exported, Op, Mutations
<1>3. CASE ReadBefore(p)
  <2>1. /\ pc'[p] = "apply" /\ request'[p] = request[p] /\ pc[p] = "before"
        /\ before'[p] = live[Entry(p)]
    BY <1>3 DEF ReadBefore, Goto, TypeOK
  <2>2. ASSUME NEW e \in Entries, NEW v \in Optional, e = Entry(p)', v = before'[p]
        PROVE  Known(e, v)'
    <3>1. Known(e, v) BY <2>1, <2>2 DEF LiveIsKnown, Entry
    <3> QED BY <1>0, <3>1, KnownStays
  <2>3. Compared(p)' BY <2>2 DEF Compared
  <2> QED BY <1>0, <2>1, <2>3
       DEF Stage, Place, Numbered, Imported, Exported, Op, Mutations
<1>4. CASE (Delete(p) \/ Refuse(p)) /\ Advance(p, "apply", "reread")
  <2>1. /\ pc'[p] = "reread" /\ request'[p] = request[p] /\ pc[p] = "apply"
        /\ before'[p] = before[p]
    BY <1>4 DEF Advance, Goto, TypeOK
  <2>2. ASSUME NEW e \in Entries, NEW v \in Optional, e = Entry(p)', v = before'[p]
        PROVE  Known(e, v)'
    <3>1. Known(e, v) BY <2>1, <2>2 DEF Stage, Compared, Entry
    <3> QED BY <1>0, <3>1, KnownStays
  <2>3. Compared(p)' BY <2>2 DEF Compared
  <2> QED BY <1>0, <2>1, <2>3
       DEF Stage, Place, Numbered, Imported, Exported, Op, Mutations
<1>5. CASE Create(p) \/ Change(p) BY <1>1, <1>5 DEF Create, Change, Write
<1>6. CASE SaveDraft(p) BY <1>1, <1>6 DEF SaveDraft
<1>7. CASE Publish(p) BY <1>1, <1>7 DEF Publish
<1>8. CASE Reread(p) BY <1>1, <1>8 DEF Reread
<1>9. CASE Refuse(p) /\ Leave(p, "apply") BY <1>9, IdleStage
<1> QED BY <1>2, <1>3, <1>4, <1>5, <1>6, <1>7, <1>8, <1>9 DEF Delete, Refuse

(* A request takes a number, writes its rows, or reads for an export.      *)
LEMMA RecordStage ==
  ASSUME TypeOK, NEW p \in Procs, Stage(p), Step(p),
         \/ NextNumber(p) \/ InsertRow(p) \/ CompareHashes(p) \/ FindRows(p)
         \/ Chunk(p) \/ ReadRows(p)
  PROVE  Stage(p)'
<1>0. Place(p) /\ Imported(p) /\ Numbered(p) BY DEF Stage
<1>1. CASE NextNumber(p)
  <2>1. PICK m \in {0} \cup {r.number : r \in log} : number' = [number EXCEPT ![p] = m + 1]
    BY <1>1 DEF NextNumber
  <2>2. m \in Nat /\ number'[p] = m + 1 BY <2>1 DEF TypeOK, Row
  <2>3. number'[p] > 0 /\ number'[p] - 1 = m BY <2>2
  <2>4. /\ pc[p] = "number" /\ request'[p] = request[p] /\ log' = log /\ todo' = todo
        /\ pc'[p] = IF Op(p) = "import" THEN "batch" ELSE "insert"
    BY <1>1 DEF NextNumber, Goto, TypeOK
  <2>5. m = 0 \/ Used(m)
    BY <2>1 DEF Used
  <2>6. Numbered(p)' BY <2>2, <2>3, <2>4, <2>5 DEF Numbered, Used
  <2>7. Place(p)' BY <1>0, <2>4 DEF Place, Op
  <2>8. Imported(p)'
    <3>1. CASE Op(p) = "import"
      <4>1. todo[p] = (DOMAIN Snap(p)) \X {"row", "log"}
        BY <1>0, <2>4, <3>1 DEF Imported
      <4>2. \A e \in DOMAIN Snap(p) : <<e, "log">> \in todo[p] BY <4>1
      <4>3. Snap(p)' = Snap(p) /\ todo'[p] = todo[p] /\ pc'[p] = "batch"
        BY <2>4, <3>1 DEF Snap
      <4> QED BY <4>1, <4>2, <4>3 DEF Imported
    <3>2. CASE Op(p) # "import" BY <2>4, <3>2 DEF Imported
    <3> QED BY <3>1, <3>2
  <2> QED BY <2>4, <2>6, <2>7, <2>8 DEF Stage, Compared, Exported
<1>2. CASE InsertRow(p)
  <2>1. /\ pc[p] = "insert" /\ pc'[p] = "state" /\ request'[p] = request[p]
        /\ number'[p] = number[p] /\ after'[p] = after[p]
    BY <1>2 DEF InsertRow, Advance, Goto, TypeOK
  <2>2. Logged(number[p], after[p])'
    <3> DEFINE row == [number |-> number[p], entry |-> Entry(p), hash |-> after[p]]
    <3>1. row \in log' BY <1>2 DEF InsertRow
    <3>2. row.number = number'[p] /\ row.hash = after'[p] BY <2>1
    <3> HIDE DEF row
    <3> QED BY <3>1, <3>2 DEF Logged
  <2>3. log \subseteq log' BY LogGrows
  <2>4. Numbered(p)' BY <1>0, <2>1, <2>2, <2>3 DEF Numbered, Used
  <2> QED BY <1>0, <2>1, <2>4 DEF Stage, Place, Imported, Compared, Exported, Op
<1>3. CASE CompareHashes(p)
  <2>1. CASE Leave(p, "import") BY <2>1, IdleStage
  <2>2. CASE Advance(p, "import", "ids")
    <3>1. pc[p] = "import" /\ pc'[p] = "ids" /\ request'[p] = request[p]
      BY <2>2 DEF Advance, Goto, TypeOK
    <3> QED BY <1>0, <3>1 DEF Stage, Place, Numbered, Imported, Compared, Exported, Op
  <2> QED BY <1>3, <2>1, <2>2 DEF CompareHashes
<1>4. CASE FindRows(p)
  <2>1. /\ pc[p] = "ids" /\ pc'[p] = "number" /\ request'[p] = request[p]
        /\ todo'[p] = (DOMAIN Snap(p)) \X {"row", "log"}
    BY <1>4 DEF FindRows, Goto, TypeOK
  <2> QED BY <1>0, <2>1
       DEF Stage, Place, Numbered, Imported, Compared, Exported, Op, Snap
<1>5. CASE Chunk(p)
  <2>1. /\ todo'[p] \subseteq todo[p] /\ pc[p] = "batch"
        /\ pc'[p] = "batch" /\ request'[p] = request[p] /\ number'[p] = number[p]
    BY <1>0, <1>5, ChunkEffect DEF Chunk
  <2>2. log \subseteq log' BY LogGrows
  <2>3. Place(p)' BY <1>0, <2>1 DEF Place, Op
  <2>4. Numbered(p)' BY <1>0, <2>1, <2>2 DEF Numbered, Used
  <2>5. DOMAIN Snap(p) \subseteq Entries BY <1>0, <2>1, Targets, SnapshotTyped DEF Place
  <2>6. ASSUME NEW e \in DOMAIN Snap(p)
        PROVE  /\ \/ <<e, "log">> \in todo'[p]
                  \/ [number |-> number[p], entry |-> e, hash |-> Snap(p)] \in log'
               /\ <<e, "row">> \in todo'[p] => <<e, "log">> \in todo'[p]
    BY <1>0, <1>5, <2>1, <2>2, <2>5, ChunkEffect DEF Imported
  <2>7. Imported(p)' BY <1>0, <2>1, <2>6 DEF Imported, Snap
  <2> QED BY <2>1, <2>3, <2>4, <2>7 DEF Stage, Compared, Exported
<1>6. CASE ReadRows(p)
  <2>1. /\ pc[p] = "export" /\ pc'[p] = "content" /\ request'[p] = request[p]
        /\ due'[p] = due[p]
        /\ read'[p] = IF log = {} THEN Entries ELSE {r.entry : r \in log}
    BY <1>6 DEF ReadRows, Goto, TypeOK
  <2>2. \A e \in due[p] : \E r \in log : r.entry = e
    BY <2>1 DEF Stage, Exported
  <2>3. Exported(p)' BY <2>1, <2>2 DEF Exported, TypeOK
  <2> QED BY <1>0, <2>1, <2>3 DEF Stage, Place, Numbered, Imported, Compared, Op
<1> QED BY <1>1, <1>2, <1>3, <1>4, <1>5, <1>6

-----------------------------------------------------------------------------
(* The content.                                                            *)

(* An entry is written by a request that has it recorded next.             *)
LEMMA WritesArePending ==
  ASSUME TypeOK, NEW p \in Procs, NEW e \in Entries, NEW v, NEW f \in {"apply", "reread"},
         Compare(p, f, v), ~Leave(p, f), Op(p) \in Mutations, e = Entry(p)
  PROVE  Pending(p, e, v)'
<1>1. pc'[p] = "number" /\ request'[p] = request[p] /\ after'[p] = v
  BY DEF Compare, Goto, TypeOK
<1> QED BY <1>1 DEF Pending, InFlight, Op, Entry, Mutations

(* What an entry holds stays accounted for: a mutation that is not         *)
(* recorded has written what it had read before, which was.                *)
LEMMA LiveStaysKnown ==
  ASSUME TypeOK, LiveIsKnown, NEW p \in Procs, Stage(p),
         Step(p) \/ \E r \in Requests : Begin(p, r)
  PROVE  LiveIsKnown'
<1>0. Place(p) /\ Imported(p) /\ Compared(p) BY DEF Stage
<1>1. SUFFICES ASSUME NEW e \in Entries, NEW v \in Optional, live'[e] = v
               PROVE  Known(e, v)'
  BY DEF LiveIsKnown
<1>2. CASE live[e] = v
  <2>1. Known(e, v) BY <1>2 DEF LiveIsKnown
  <2> QED BY <1>0, <2>1, KnownStays
<1>3. CASE live[e] # v
  <2>1. CASE Create(p) \/ Change(p) \/ Publish(p)
    <3>1. /\ pc[p] = "apply" /\ e = Entry(p) /\ Op(p) \in Mutations
          /\ Compare(p, "apply", v)
      BY <1>1, <1>3, <2>1 DEF Create, Change, Write, Publish, Compare, Mutations, TypeOK
    <3>2. CASE Leave(p, "apply")
      <4>1. before[p] = v BY <3>1, <3>2 DEF Compare, Leave, Goto, TypeOK
      <4>2. Known(e, v) BY <1>0, <3>1, <4>1 DEF Compared
      <4> QED BY <1>0, <4>2, KnownStays
    <3>3. CASE ~Leave(p, "apply")
      BY <3>1, <3>3, WritesArePending DEF Known
    <3> QED BY <3>2, <3>3
  <2>2. CASE Delete(p) BY <1>1, <1>3, <2>2 DEF Delete, Known, TypeOK
  <2>3. CASE Chunk(p)
    <3>1. Op(p) = "import" /\ Snap(p) \in Snapshots /\ pc[p] = "batch"
      BY <1>0, <2>3, Targets DEF Chunk, Place
    <3>2. /\ pc'[p] = "batch" /\ request'[p] = request[p]
          /\ e \in DOMAIN Snap(p) /\ Snap(p)[e] = v
          /\ <<e, "row">> \in todo[p] /\ <<e, "row">> \notin todo'[p]
      BY <1>0, <1>1, <1>3, <2>3, ChunkEffect
    <3>3. <<e, "log">> \in todo[p] BY <1>0, <3>1, <3>2 DEF Imported
    <3>4. CASE <<e, "log">> \in todo'[p]
      <4>1. Pending(p, e, v)' BY <3>1, <3>2, <3>4 DEF Pending, InFlight, Op, Snap
      <4> QED BY <4>1 DEF Known
    <3>5. CASE <<e, "log">> \notin todo'[p]
      <4>1. [number |-> number[p], entry |-> e, hash |-> Snap(p)] \in log'
        BY <1>0, <2>3, <3>3, <3>5, ChunkEffect
      <4> QED BY <3>1, <3>2, <4>1 DEF Recorded, Known
    <3> QED BY <3>4, <3>5
  <2>4. CASE UNCHANGED live BY <1>1, <1>3, <2>4
  <2> QED BY <2>1, <2>2, <2>3, <2>4
       DEF Step, content, Begin, Prepare, ReadBefore, SaveDraft, Refuse, Reread, NextNumber,
       InsertRow, WriteState, CompareHashes, FindRows, ChunkFails, WriteImportState,
       ReadRows, Export, Stop
<1> QED BY <1>2, <1>3

-----------------------------------------------------------------------------
(* The numbers and the state row.                                          *)

(* When an import writes its hash, each of its rows is in the log, under   *)
(* its number.                                                             *)
LEMMA AllLogged ==
  ASSUME NEW p \in Procs, Place(p), Imported(p), WriteImportState(p)
  PROVE  /\ Snap(p) \in Snapshots
         /\ DOMAIN Snap(p) = {} \/ Logged(number[p], Snap(p))
         /\ \A e \in DOMAIN Snap(p) : \E r \in log : r.entry = e /\ r.hash = Snap(p)
<1>1. pc[p] = "batch" /\ todo[p] = {} BY DEF WriteImportState, Written, Leave, Goto
<1>2. Snap(p) \in Snapshots BY <1>1, Targets DEF Place
<1>3. \A e \in DOMAIN Snap(p) :
        [number |-> number[p], entry |-> e, hash |-> Snap(p)] \in log
  BY <1>1 DEF Imported
<1>4. ASSUME NEW e \in DOMAIN Snap(p) PROVE Logged(number[p], Snap(p))
  <2> DEFINE row == [number |-> number[p], entry |-> e, hash |-> Snap(p)]
  <2>1. row \in log BY <1>3
  <2>2. row.number = number[p] /\ row.hash = Snap(p) OBVIOUS
  <2> HIDE DEF row
  <2> QED BY <2>1, <2>2 DEF Logged
<1>5. DOMAIN Snap(p) = {} \/ Logged(number[p], Snap(p)) BY <1>4
<1>6. ASSUME NEW d \in DOMAIN Snap(p)
      PROVE  \E r \in log : r.entry = d /\ r.hash = Snap(p)
  <2> DEFINE row == [number |-> number[p], entry |-> d, hash |-> Snap(p)]
  <2>1. row \in log BY <1>3
  <2>2. row.entry = d /\ row.hash = Snap(p) OBVIOUS
  <2> HIDE DEF row
  <2> QED BY <2>1, <2>2
<1> QED BY <1>2, <1>5, <1>6

(* An import without entries wrote the state row, with the number after    *)
(* the last one it saw.                                                    *)
Bare == /\ published \in Snapshots /\ DOMAIN published = {}
        /\ revision > 0 /\ (revision = 1 \/ Used(revision - 1))

(* Numbers in the log are without gaps, and the state row names one with   *)
(* its hash, unless an import without entries wrote it.                    *)
LEMMA NumbersStaySound ==
  ASSUME TypeOK, TypeOK', NumbersAreSound, NEW p \in Procs, Stage(p),
         Step(p) \/ \E r \in Requests : Begin(p, r)
  PROVE  NumbersAreSound'
<1>0. Place(p) /\ Imported(p) /\ Numbered(p) BY DEF Stage
<1>1. /\ \A n : Used(n) => n = 1 \/ Used(n - 1)
      /\ revision = 0 \/ Logged(revision, published) \/ Bare
  <2>1. \A n \in {r.number : r \in log} : n = 1 \/ n - 1 \in {r.number : r \in log}
    BY DEF NumbersAreSound
  <2>2. \A n : Used(n) => n = 1 \/ Used(n - 1) BY <2>1 DEF Used
  <2>3. revision \in Nat /\ \A r \in log : r.number \in Nat \ {0} BY DEF TypeOK, Row
  <2>4. ASSUME revision # 0, ~Logged(revision, published) PROVE Bare
    <3>1. /\ published \in Snapshots /\ DOMAIN published = {}
          /\ revision - 1 \in {r.number : r \in log} \cup {0}
      BY <2>4 DEF NumbersAreSound, Logged
    <3> QED BY <2>3, <2>4, <3>1 DEF Bare, Used
  <2> QED BY <2>2, <2>4
<1>2. \A n : Used(n) => Used(n)' BY LogGrows DEF Used
<1>3. ASSUME NEW n, Used(n)', ~Used(n) PROVE n = 1 \/ Used(n - 1)'
  <2>1. pc[p] \in {"insert", "batch"} /\ n = number[p] BY <1>3, LogGrows DEF Used
  <2>2. n = 1 \/ Used(n - 1) BY <1>0, <2>1 DEF Numbered
  <2> QED BY <1>2, <2>2
<1>4. \A n : Used(n)' => n = 1 \/ Used(n - 1)' BY <1>1, <1>2, <1>3
<1>5. revision' = 0 \/ Logged(revision, published)' \/ Bare'
  <2>1. CASE WriteState(p)
    <3>1. revision' = number[p] /\ published' = after[p] /\ Logged(number[p], after[p])
      BY <1>0, <2>1 DEF WriteState, Leave, Goto, Numbered
    <3>2. \E r \in log' : r.number = number[p] /\ r.hash = after[p] BY <3>1, LogGrows DEF Logged
    <3> QED BY <3>1, <3>2 DEF Logged
  <2>2. CASE WriteImportState(p)
    <3>1. /\ revision' = number[p] /\ published' = Snap(p) /\ Snap(p) \in Snapshots
          /\ DOMAIN Snap(p) = {} \/ Logged(number[p], Snap(p))
      BY <1>0, <2>2, AllLogged DEF WriteImportState
    <3>2. number[p] > 0 /\ (number[p] = 1 \/ Used(number[p] - 1))
      BY <1>0, <2>2 DEF WriteImportState, Leave, Goto, Numbered
    <3>3. CASE Logged(number[p], Snap(p))
      <4>1. \E r \in log' : r.number = number[p] /\ r.hash = Snap(p)
        BY <3>3, LogGrows DEF Logged
      <4> QED BY <3>1, <4>1 DEF Logged
    <3>4. CASE DOMAIN Snap(p) = {}
      <4>1. number[p] = 1 \/ \E r \in log' : r.number = number[p] - 1
        BY <3>2, LogGrows DEF Used
      <4> QED BY <3>1, <3>2, <3>4, <4>1 DEF Bare, Used
    <3> QED BY <3>1, <3>3, <3>4
  <2>3. CASE UNCHANGED <<revision, published>>
    <3>1. CASE Logged(revision, published) BY <2>3, <3>1, LogGrows DEF Logged
    <3>2. CASE Bare BY <2>3, <3>2, LogGrows DEF Bare, Used
    <3> QED BY <1>1, <2>3, <3>1, <3>2
  <2> QED BY <2>1, <2>2, <2>3
       DEF Step, state, Begin, Prepare, ReadBefore, Create, Change, Write, SaveDraft, Publish, Delete,
       Refuse, Reread, NextNumber, InsertRow, CompareHashes, FindRows, Chunk, ChunkFails,
       ReadRows, Export, Stop
<1>6. revision' \in Nat /\ \A r \in log' : r.number \in Nat \ {0} BY DEF TypeOK, Row
<1>7. Bare' => revision' - 1 \in {r.number : r \in log'} \cup {0}
  BY <1>6 DEF Bare, Used
<1>8. \A n \in {r.number : r \in log'} : n = 1 \/ n - 1 \in {r.number : r \in log'}
  BY <1>4 DEF Used
<1> QED BY <1>5, <1>7, <1>8 DEF NumbersAreSound, Logged, Bare

(* A snapshot hash in the state row stays backed by the log.               *)
LEMMA ImportStaysComplete ==
  ASSUME TypeOK, ImportIsComplete, NEW p \in Procs, Stage(p),
         Step(p) \/ \E r \in Requests : Begin(p, r)
  PROVE  ImportIsComplete'
<1>0. Place(p) /\ Imported(p) /\ log \subseteq log' BY LogGrows DEF Stage
<1>1. CASE WriteImportState(p)
  <2>1. imported' = Snap(p) BY <1>1 DEF WriteImportState
  <2>2. \A e \in DOMAIN Snap(p) : \E r \in log : r.entry = e /\ r.hash = Snap(p)
    BY <1>0, <1>1, AllLogged
  <2> QED BY <1>0, <2>1, <2>2 DEF ImportIsComplete
<1>2. CASE UNCHANGED imported BY <1>0, <1>2 DEF ImportIsComplete
<1> QED BY <1>1, <1>2
     DEF Step, state, Begin, Prepare, ReadBefore, Create, Change, Write, SaveDraft, Publish, Delete, Refuse,
     Reread, NextNumber, InsertRow, WriteState, CompareHashes, FindRows, Chunk, ChunkFails,
     ReadRows, Export, Stop

-----------------------------------------------------------------------------
(* The invariant is kept by every step.                                    *)
LEMMA Preserved == IInv /\ [Next]_vars => IInv'
<1>1. ASSUME IInv, NEW p \in Procs, Step(p) \/ \E q \in Requests : Begin(p, q)
      PROVE  IInv'
  <2>0. /\ TypeOK /\ LiveIsKnown /\ NumbersAreSound /\ ImportIsComplete
        /\ Stage(p) /\ Place(p) /\ Numbered(p) /\ Imported(p)
        /\ \A q \in Procs : Stage(q)
    BY <1>1 DEF IInv, Stage
  <2>1. TypeOK' BY <1>1, <2>0, MutationTyped, OthersTyped DEF Step
  <2>2. Stage(p)'
    <3>1. CASE WriteState(p) \/ ChunkFails(p) \/ WriteImportState(p) \/ Export(p) \/ Stop(p)
      <4>1. PICK f : Leave(p, f)
        BY <3>1 DEF WriteState, ChunkFails, WriteImportState, Export, Stop
      <4> QED BY <2>0, <4>1, IdleStage
    <3>2. ASSUME NEW q \in Requests, Begin(p, q) PROVE Stage(p)'
      BY <2>0, <3>2, ArrivalStage
    <3> QED BY <1>1, <2>0, <3>1, <3>2, MutationStage, RecordStage DEF Step
  <2>3. \A q \in Procs : Stage(q)' BY <1>1, <2>0, <2>2, OthersStage
  <2>4. LiveIsKnown' BY <1>1, <2>0, LiveStaysKnown
  <2>5. NumbersAreSound' BY <1>1, <2>0, <2>1, NumbersStaySound
  <2>6. ImportIsComplete' BY <1>1, <2>0, ImportStaysComplete
  <2> QED BY <2>1, <2>3, <2>4, <2>5, <2>6 DEF IInv
<1>2. ASSUME IInv, UNCHANGED vars PROVE IInv'
  <2>1. TypeOK' BY <1>2 DEF IInv, TypeOK, vars, content, state, locals
  <2>2. \A e, v : Known(e, v)' <=> Known(e, v)
    BY <1>2 DEF Known, Recorded, Pending, InFlight, Op, Entry, Snap, vars, content, locals
  <2>3. \A q \in Procs : Stage(q)'
    BY <1>2, <2>2 DEF IInv, Stage, Place, Numbered, Imported, Compared, Exported, Used, Logged,
       Op, Entry, Snap, vars, content, locals
  <2>4. LiveIsKnown' BY <1>2, <2>2 DEF IInv, LiveIsKnown, vars, content
  <2>5. NumbersAreSound' /\ ImportIsComplete'
    BY <1>2 DEF IInv, NumbersAreSound, ImportIsComplete, vars, state
  <2> QED BY <2>1, <2>3, <2>4, <2>5 DEF IInv
<1> QED BY <1>1, <1>2 DEF Next

-----------------------------------------------------------------------------
(* The studio.                                                             *)

(* The request r carries the field, and is served or awaited.              *)
Open(r, f) == Names(r, f) /\ (post[r].heard \/ post[r].pc \in Serving)

(* What is typed in the field that is being edited is pending.             *)
Typing(p, f) ==
  page[p].editing = f /\ Shown(p, f) # page[p].before =>
    Unsaved(p, f) = Shown(p, f) /\ ~UnderWay(p, f)

(* The saves of the page that carry the field carry the text it shows.     *)
Carried(p, f) ==
  \A r \in Posts : Saves(r, p) /\ Open(r, f) =>
    /\ Shown(p, f) \in {NoText, post[r].changes[f]}
    /\ \A q \in Posts : Saves(q, p) /\ Open(q, f) => post[q].changes[f] = post[r].changes[f]

(* A save that the page awaits carries what is pending, and was written    *)
(* when it went well.                                                      *)
Awaited(p, f) ==
  \A r \in Posts : Saves(r, p) /\ post[r].heard =>
    /\ Unsaved(p, f) # NoText => post[r].changes[f] = Unsaved(p, f)
    /\ IsPost(r, "ready") /\ Names(r, f) => written[p][f] = post[r].changes[f]

TextKept(p, f) == Shown(p, f) # NoText => Shown(p, f) \in {Unsaved(p, f), written[p][f]}

Sound(p, f) == TextKept(p, f) /\ Typing(p, f) /\ Carried(p, f) /\ Awaited(p, f)

AsShown(p, f) == Unsaved(p, f) # NoText => Unsaved(p, f) = Shown(p, f)

PostsAreSound ==
  \A r \in Posts :
    /\ post[r].page # NoPage /\ post[r].publish => post[r].changes = NoChange
    /\ IsPost(r, "publish") => post[r].publish

EditorIInv ==
  /\ EditorTypeOK
  /\ \A p \in Pages, f \in Fields : AsShown(p, f) /\ (f \in risky[p] \/ Sound(p, f))
  /\ PostsAreSound

(* r asks nothing of the page p that it did not ask before. *)
Calmer(r, p) ==
  Saves(r, p)' =>
    /\ Saves(r, p) /\ post'[r].changes = post[r].changes
    /\ post'[r].heard => post[r].heard
    /\ post'[r].pc \in Serving => post[r].pc \in Serving
    /\ post'[r].pc = "ready" => post[r].pc = "ready"

Editing(p, f) == page[p].editing = f /\ Shown(p, f) # page[p].before

(* A request that is over asks nothing of any page.                        *)
Gone(s) == s.page = NoPage /\ s.pc = "over" /\ ~s.heard

LEMMA Ends ==
  ASSUME NEW s \in PostState
  PROVE  Ended(s) \in PostState /\ (Ended(s) = s \/ Gone(Ended(s)))
<1> DEFINE n == [NoPost EXCEPT !.pc = "over"]
<1>1. NoChange \in Typed BY DEF NoChange, Typed
<1>2. n \in PostState /\ Gone(n) BY <1>1 DEF NoPost, PostState, Gone
<1>3. Ended(s) = s \/ Ended(s) = n BY DEF Ended
<1> QED BY <1>2, <1>3

LEMMA Moved ==
  ASSUME EditorIInv, NEW r \in Posts, NEW s \in PostState, Moves(r, s)
  PROVE  /\ post' \in [Posts -> PostState] /\ post'[r] = Ended(s)
         /\ post'[r] = s \/ Gone(post'[r])
         /\ \A x \in Posts : x # r => post'[x] = post[x]
<1>1. post \in [Posts -> PostState] BY DEF EditorIInv, EditorTypeOK
<1>2. Ended(s) \in PostState /\ (Ended(s) = s \/ Gone(Ended(s))) BY Ends
<1>3. post' = [post EXCEPT ![r] = Ended(s)] BY DEF Moves
<1> QED BY <1>1, <1>2, <1>3

(* What is left of a request that the page does not await any more.        *)
LEMMA Forsaken ==
  ASSUME NEW s \in PostState, NEW n, n = Ended([s EXCEPT !.heard = FALSE])
  PROVE  /\ n \in PostState /\ ~n.heard
         /\ \/ Gone(n)
            \/ /\ n.page = s.page /\ n.changes = s.changes
               /\ n.publish = s.publish /\ n.pc = s.pc
<1> DEFINE m == [s EXCEPT !.heard = FALSE]
<1>1. /\ m \in PostState /\ ~m.heard
      /\ m.page = s.page /\ m.changes = s.changes /\ m.publish = s.publish /\ m.pc = s.pc
  BY DEF PostState
<1>2. n \in PostState /\ (n = m \/ Gone(n)) BY <1>1, Ends
<1> QED BY <1>1, <1>2 DEF Gone

LEMMA NoChangeTyped == NoChange \in Typed /\ \A f \in Fields : NoChange[f] = NoText
  BY DEF NoChange, Typed

LEMMA Stays ==
  ASSUME NEW p \in Pages, NEW f \in Fields, Sound(p, f),
         \A r \in Posts : Calmer(r, p),
         written'[p][f] = written[p][f],
         Shown(p, f)' \in {Shown(p, f), NoText},
         \/ Unsaved(p, f)' = Unsaved(p, f)
         \/ Unsaved(p, f)' = NoText /\ Shown(p, f)' \in {NoText, written[p][f]},
         Editing(p, f)' => Editing(p, f) /\ Shown(p, f)' = Shown(p, f) /\ Unsaved(p, f)' = Unsaved(p, f)
  PROVE  Sound(p, f)'
<1>1. TextKept(p, f)' BY DEF Sound, TextKept
<1>2. \A r \in Posts : Saves(r, p)' /\ Open(r, f)' => Saves(r, p) /\ Open(r, f)
  BY DEF Calmer, Open, Names
<1>3. UnderWay(p, f)' => UnderWay(p, f) BY DEF Calmer, UnderWay, Names
<1>4. Typing(p, f)' BY <1>3 DEF Sound, Typing, Editing
<1>5. Carried(p, f)'
  BY <1>2 DEF Sound, Carried, Calmer
<1>6. Awaited(p, f)'
  BY DEF Sound, Awaited, Calmer, IsPost, Names
<1> QED BY <1>1, <1>4, <1>5, <1>6 DEF Sound

LEMMA Afresh ==
  ASSUME NEW p \in Pages, NEW f \in Fields, ~UnderWay(p, f)', TextKept(p, f)',
         Editing(p, f)' => Unsaved(p, f)' = Shown(p, f)'
  PROVE  Sound(p, f)'
<1>1. Typing(p, f)' BY DEF Typing, Editing
<1>2. Carried(p, f)' BY DEF Carried, UnderWay, Open
<1>3. Awaited(p, f)' BY DEF Awaited, UnderWay
<1> QED BY <1>1, <1>2, <1>3 DEF Sound

LEMMA Turned ==
  ASSUME EditorTypeOK, NEW p \in Pages, NEW s \in PageState, Becomes(p, s)
  PROVE  /\ page'[p] = s /\ page' \in [Pages -> PageState]
         /\ \A q \in Pages \ {p} : page'[q] = page[q]
  BY DEF EditorTypeOK, Becomes

(* An action of the page leaves the requests as they are.                  *)
LEMMA CalmWhenUnchanged ==
  ASSUME UNCHANGED post
  PROVE  \A p \in Pages, r \in Posts : Calmer(r, p)
  BY DEF Calmer, Saves

(* One page changes, and no other is asked more than before: it is enough  *)
(* to look at the texts of that page.                                      *)
LEMMA Turns ==
  ASSUME EditorIInv, NEW p \in Pages, NEW s \in PageState, Becomes(p, s),
         UNCHANGED <<entryVars, written>>,
         post' \in [Posts -> PostState], PostsAreSound',
         \A q \in Pages \ {p}, r \in Posts : Calmer(r, q),
         risky' \in [Pages -> SUBSET Fields],
         \A q \in Pages \ {p} : risky'[q] = risky[q],
         \A f \in Fields : AsShown(p, f)' /\ (f \in risky'[p] \/ Sound(p, f)')
  PROVE  EditorIInv'
<1>1. /\ page'[p] = s /\ page' \in [Pages -> PageState]
      /\ \A q \in Pages \ {p} : page'[q] = page[q]
  BY Turned DEF EditorIInv
<1>2. EditorTypeOK' BY <1>1 DEF EditorIInv, EditorTypeOK, entryVars
<1>3. \A q \in Pages, f \in Fields : AsShown(q, f)' /\ (f \in risky'[q] \/ Sound(q, f)')
  <2> SUFFICES ASSUME NEW q \in Pages, NEW f \in Fields, q # p
               PROVE  AsShown(q, f)' /\ (f \in risky'[q] \/ Sound(q, f)')
    OBVIOUS
  <2>1. page'[q] = page[q] /\ risky'[q] = risky[q] BY <1>1
  <2>2. AsShown(q, f) /\ (f \in risky[q] \/ Sound(q, f)) BY DEF EditorIInv
  <2>3. Shown(q, f)' = Shown(q, f) /\ Unsaved(q, f)' = Unsaved(q, f) BY <2>1 DEF Shown, Unsaved
  <2>4. Editing(q, f)' => Editing(q, f) BY <2>1, <2>3 DEF Editing
  <2>5. \A r \in Posts : Calmer(r, q) OBVIOUS
  <2>6. written'[q][f] = written[q][f] OBVIOUS
  <2>7. Sound(q, f) => Sound(q, f)' BY <2>3, <2>4, <2>5, <2>6, Stays
  <2> QED BY <2>1, <2>2, <2>3, <2>7 DEF AsShown
<1> QED BY <1>2, <1>3 DEF EditorIInv

LEMMA PageTurns ==
  ASSUME EditorIInv, NEW p \in Pages, NEW s \in PageState, Becomes(p, s),
         UNCHANGED <<entryVars, post, written>>,
         risky' \in [Pages -> SUBSET Fields],
         \A q \in Pages \ {p} : risky'[q] = risky[q],
         \A f \in Fields : AsShown(p, f)' /\ (f \in risky'[p] \/ Sound(p, f)')
  PROVE  EditorIInv'
<1>1. \A q \in Pages \ {p}, r \in Posts : Calmer(r, q) BY CalmWhenUnchanged
<1>2. post' \in [Posts -> PostState] /\ PostsAreSound'
  BY DEF EditorIInv, EditorTypeOK, PostsAreSound, IsPost
<1>3. UNCHANGED <<entryVars, written>> OBVIOUS
<1> QED BY <1>1, <1>2, <1>3, Turns

LEMMA EditKeeps ==
  ASSUME EditorIInv, NEW p \in Pages, NEW g \in Fields, Edit(p, g)
  PROVE  EditorIInv'
<1> DEFINE s == [page[p] EXCEPT !.editing = g, !.before = Shown(p, g)]
<1>0. page[p] \in PageState BY DEF EditorIInv, EditorTypeOK
<1>1. s \in PageState BY <1>0 DEF PageState, Shown, Typed
<1>2. Becomes(p, s) BY DEF Edit
<1>3. page'[p] = s BY <1>1, <1>2, Turned DEF EditorIInv
<1>4. \A f \in Fields : AsShown(p, f)' /\ (f \in risky'[p] \/ Sound(p, f)')
  <2> TAKE f \in Fields
  <2>1. /\ s.shown = page[p].shown /\ s.pending = page[p].pending
        /\ s.editing = g /\ s.before = page[p].shown[g]
    BY DEF EditorIInv, EditorTypeOK, PageState, Shown
  <2>2. Shown(p, f)' = Shown(p, f) /\ Unsaved(p, f)' = Unsaved(p, f) /\ ~Editing(p, f)'
    BY <1>3, <2>1 DEF Shown, Unsaved, Editing
  <2>3. AsShown(p, f) /\ (f \in risky[p] \/ Sound(p, f)) BY DEF EditorIInv
  <2>4. risky' = risky /\ written' = written /\ post' = post BY DEF Edit
  <2>5. \A r \in Posts : Calmer(r, p) BY <2>4, CalmWhenUnchanged
  <2>6. Sound(p, f) => Sound(p, f)' BY <2>2, <2>4, <2>5, Stays
  <2> QED BY <2>2, <2>3, <2>4, <2>6 DEF AsShown
<1>5. UNCHANGED <<entryVars, post, written, risky>> BY DEF Edit
<1>6. risky' \in [Pages -> SUBSET Fields] BY <1>5 DEF EditorIInv, EditorTypeOK
<1> QED BY <1>1, <1>2, <1>4, <1>5, <1>6, PageTurns

LEMMA TypeKeeps ==
  ASSUME EditorIInv, NEW p \in Pages, NEW t \in Text \cup {Empty}, Type(p, t)
  PROVE  EditorIInv'
<1> DEFINE g == page[p].editing
<1> DEFINE s == [page[p] EXCEPT !.shown = [@ EXCEPT ![g] = t],
                   !.pending = [@ EXCEPT ![g] = t], !.status = "unsaved"]
<1>1. g \in Fields BY EditorIsTyped DEF Type
<1>2. page[p] \in PageState BY DEF EditorIInv, EditorTypeOK
<1>3. /\ s.shown = [page[p].shown EXCEPT ![g] = t]
      /\ s.pending = [page[p].pending EXCEPT ![g] = t]
      /\ s.editing = g /\ s.before = page[p].before
  BY <1>2 DEF PageState
<1>4. s.shown \in Typed /\ s.pending \in Typed BY <1>1, <1>2, <1>3 DEF PageState, Typed
<1>5. s \in PageState BY <1>2, <1>3, <1>4 DEF PageState, Status
<1>6. Becomes(p, s) BY DEF Type
<1>7. page'[p] = s BY <1>5, <1>6, Turned DEF EditorIInv
<1>8. UNCHANGED <<entryVars, post, written>> BY DEF Type
<1>9. risky \in [Pages -> SUBSET Fields] BY DEF EditorIInv, EditorTypeOK
<1>10. risky' = [risky EXCEPT ![p] = IF UnderWay(p, g) THEN @ \cup {g} ELSE @ \ {g}] BY DEF Type
<1>11. risky' \in [Pages -> SUBSET Fields] BY <1>1, <1>9, <1>10
<1>12. \A q \in Pages \ {p} : risky'[q] = risky[q] BY <1>9, <1>10
<1>13. \A f \in Fields : AsShown(p, f)' /\ (f \in risky'[p] \/ Sound(p, f)')
  <2> TAKE f \in Fields
  <2>1. AsShown(p, f) /\ (f \in risky[p] \/ Sound(p, f)) BY DEF EditorIInv
  <2>2. CASE f = g
    <3>1. Shown(p, f)' = t /\ Unsaved(p, f)' = t
      BY <1>2, <1>3, <1>7, <2>2 DEF Shown, Unsaved, PageState, Typed
    <3>2. AsShown(p, f)' BY <3>1 DEF AsShown
    <3>3. CASE UnderWay(p, g) BY <1>9, <1>10, <2>2, <3>2, <3>3
    <3>4. CASE ~UnderWay(p, g)
      <4>1. ~UnderWay(p, f)' BY <1>8, <2>2, <3>4 DEF UnderWay, Saves, Names
      <4>2. TextKept(p, f)' BY <3>1 DEF TextKept
      <4>3. Sound(p, f)' BY <3>1, <4>1, <4>2, Afresh
      <4> QED BY <3>2, <4>3
    <3> QED BY <3>3, <3>4
  <2>3. CASE f # g
    <3>1. Shown(p, f)' = Shown(p, f) /\ Unsaved(p, f)' = Unsaved(p, f)
      BY <1>2, <1>3, <1>7, <2>3 DEF Shown, Unsaved, PageState, Typed
    <3>2. ~Editing(p, f)' BY <1>3, <1>7, <2>3 DEF Editing
    <3>3. AsShown(p, f)' BY <2>1, <3>1 DEF AsShown
    <3>4. f \in risky[p] => f \in risky'[p] BY <1>9, <1>10, <2>3
    <3>5. \A r \in Posts : Calmer(r, p) BY <1>8, CalmWhenUnchanged
    <3>6. written'[p][f] = written[p][f] BY <1>8
    <3>7. Sound(p, f) => Sound(p, f)' BY <3>1, <3>2, <3>5, <3>6, Stays
    <3> QED BY <2>1, <3>3, <3>4, <3>7
  <2> QED BY <2>2, <2>3
<1> QED BY <1>5, <1>6, <1>8, <1>11, <1>12, <1>13, PageTurns

(* The actions of a page that leave its fields' texts as they are.         *)
LEMMA SameTexts ==
  ASSUME EditorIInv, NEW p \in Pages, NEW s \in PageState, Becomes(p, s),
         UNCHANGED <<entryVars, post, written, risky>>,
         s.shown = page[p].shown, s.pending = page[p].pending,
         \/ s.editing = NoField
         \/ s.editing = page[p].editing /\ s.before = page[p].before
  PROVE  EditorIInv'
<1>1. page'[p] = s BY Turned DEF EditorIInv
<1>2. \A f \in Fields : AsShown(p, f)' /\ (f \in risky'[p] \/ Sound(p, f)')
  <2> TAKE f \in Fields
  <2>1. AsShown(p, f) /\ (f \in risky[p] \/ Sound(p, f)) BY DEF EditorIInv
  <2>2. Shown(p, f)' = Shown(p, f) /\ Unsaved(p, f)' = Unsaved(p, f)
    BY <1>1 DEF Shown, Unsaved
  <2>3. Editing(p, f)' => Editing(p, f) BY <1>1, <2>2, EditorIsTyped DEF Editing
  <2>4. \A r \in Posts : Calmer(r, p) BY CalmWhenUnchanged
  <2>5. Sound(p, f) => Sound(p, f)' BY <2>2, <2>3, <2>4, Stays
  <2> QED BY <2>1, <2>2, <2>5 DEF AsShown
<1>3. risky' \in [Pages -> SUBSET Fields] BY DEF EditorIInv, EditorTypeOK
<1> QED BY <1>2, <1>3, PageTurns

LEMMA FinishKeeps ==
  ASSUME EditorIInv, NEW p \in Pages, FinishEditing(p)
  PROVE  EditorIInv'
<1> DEFINE s == [page[p] EXCEPT
       !.status = IF page[p].pending = NoChange THEN "settled" ELSE "unsaved"]
<1>1. page[p] \in PageState BY DEF EditorIInv, EditorTypeOK
<1>2. s \in PageState BY <1>1 DEF PageState, Status
<1>3. /\ s.shown = page[p].shown /\ s.pending = page[p].pending
      /\ s.editing = page[p].editing /\ s.before = page[p].before
  BY <1>1 DEF PageState
<1>4. Becomes(p, s) /\ UNCHANGED <<entryVars, post, written, risky>> BY DEF FinishEditing
<1> QED BY <1>2, <1>3, <1>4, SameTexts

LEMMA ReviewKeeps ==
  ASSUME EditorIInv, NEW p \in Pages, Review(p)
  PROVE  EditorIInv'
<1> DEFINE s == [page[p] EXCEPT !.saved = Unpublished]
<1>1. page[p] \in PageState BY DEF EditorIInv, EditorTypeOK
<1>2. Unpublished \in BOOLEAN BY DEF Unpublished
<1>3. s \in PageState BY <1>1, <1>2 DEF PageState
<1>4. /\ s.shown = page[p].shown /\ s.pending = page[p].pending
      /\ s.editing = page[p].editing /\ s.before = page[p].before
  BY <1>1 DEF PageState
<1>5. Becomes(p, s) /\ UNCHANGED <<entryVars, post, written, risky>> BY DEF Review
<1> QED BY <1>3, <1>4, <1>5, SameTexts

(* What the end of an edit commits.                                        *)
LEMMA Commits ==
  ASSUME EditorIInv, NEW p \in Pages
  PROVE  /\ Committed(p) \in Typed
         /\ \A f \in Fields :
              /\ Committed(p)[f] = Unsaved(p, f) \/ Committed(p)[f] = Shown(p, f)
              /\ Committed(p)[f] # NoText => Committed(p)[f] = Shown(p, f)
              /\ Committed(p)[f] # Unsaved(p, f) => f \in risky[p]
<1> DEFINE g == page[p].editing
<1>1. page[p] \in PageState BY DEF EditorIInv, EditorTypeOK
<1>2. g \in Fields \cup {NoField} /\ page[p].pending \in Typed /\ page[p].shown \in Typed
  BY <1>1 DEF PageState
<1>3. Committed(p) \in Typed BY <1>2 DEF Committed, Typed, Shown
<1>4. ASSUME NEW f \in Fields
      PROVE  /\ Committed(p)[f] = Unsaved(p, f) \/ Committed(p)[f] = Shown(p, f)
             /\ Committed(p)[f] # NoText => Committed(p)[f] = Shown(p, f)
             /\ Committed(p)[f] # Unsaved(p, f) => f \in risky[p]
  <2>1. AsShown(p, f) /\ (f \in risky[p] \/ Sound(p, f)) BY DEF EditorIInv
  <2>2. CASE f = g /\ Shown(p, g) # page[p].before
    <3>1. Committed(p)[f] = Shown(p, f) BY <1>2, <2>2, EditorIsTyped DEF Committed, Typed
    <3>2. f \in risky[p] \/ Unsaved(p, f) = Shown(p, f) BY <2>1, <2>2 DEF Sound, Typing
    <3> QED BY <3>1, <3>2
  <2>3. CASE ~(f = g /\ Shown(p, g) # page[p].before)
    <3>1. Committed(p)[f] = Unsaved(p, f) BY <1>2, <2>3 DEF Committed, Typed, Unsaved
    <3> QED BY <2>1, <3>1 DEF AsShown
  <2> QED BY <2>2, <2>3
<1> QED BY <1>3, <1>4

LEMMA BlurKeeps ==
  ASSUME EditorIInv, NEW p \in Pages, Blur(p)
  PROVE  EditorIInv'
<1> DEFINE s == [page[p] EXCEPT
       !.editing = NoField, !.before = NoText, !.pending = Committed(p),
       !.status = IF Shown(p, page[p].editing) # page[p].before THEN "unsaved" ELSE @]
<1>1. page[p] \in PageState BY DEF EditorIInv, EditorTypeOK
<1>2. s \in PageState BY <1>1, Commits DEF PageState, Status
<1>3. s.shown = page[p].shown /\ s.pending = Committed(p) /\ s.editing = NoField
  BY <1>1 DEF PageState
<1>4. Becomes(p, s) /\ UNCHANGED <<entryVars, post, written, risky>> BY DEF Blur
<1>5. page'[p] = s BY <1>2, <1>4, Turned DEF EditorIInv
<1>6. \A f \in Fields : AsShown(p, f)' /\ (f \in risky'[p] \/ Sound(p, f)')
  <2> TAKE f \in Fields
  <2>1. AsShown(p, f) /\ (f \in risky[p] \/ Sound(p, f)) BY DEF EditorIInv
  <2>2. Shown(p, f)' = Shown(p, f) /\ Unsaved(p, f)' = Committed(p)[f] /\ ~Editing(p, f)'
    BY <1>3, <1>5, EditorIsTyped DEF Shown, Unsaved, Editing
  <2>3. AsShown(p, f)' BY <2>2, Commits DEF AsShown
  <2>4. f \notin risky[p] => Unsaved(p, f)' = Unsaved(p, f) BY <2>2, Commits
  <2>5. \A r \in Posts : Calmer(r, p) BY <1>4, CalmWhenUnchanged
  <2>6. written'[p][f] = written[p][f] BY <1>4
  <2>7. Sound(p, f) /\ f \notin risky[p] => Sound(p, f)' BY <2>2, <2>4, <2>5, <2>6, Stays
  <2> QED BY <1>4, <2>1, <2>3, <2>7
<1>7. risky' \in [Pages -> SUBSET Fields] BY <1>4 DEF EditorIInv, EditorTypeOK
<1> QED BY <1>2, <1>4, <1>6, <1>7, PageTurns

LEMMA HydrateKeeps ==
  ASSUME EditorIInv, NEW p \in Pages, Hydrate(p)
  PROVE  EditorIInv'
<1> DEFINE s == [page[p] EXCEPT !.fresh = "no", !.saved = @ \/ Unpublished,
       !.status = IF page[p].fresh = "bare" /\ (page[p].saved \/ Unpublished)
                  THEN "settled" ELSE @,
       !.shown = [f \in Fields |->
         IF Unsaved(p, f) = NoText /\ page[p].editing # f THEN NoText ELSE Shown(p, f)]]
<1>1. page[p] \in PageState BY DEF EditorIInv, EditorTypeOK
<1>2. s.shown \in Typed BY <1>1 DEF PageState, Typed, Shown
<1>3. s.saved \in BOOLEAN /\ s.status \in Status BY <1>1 DEF PageState, Status
<1>4. s \in PageState BY <1>1, <1>2, <1>3 DEF PageState
<1>5. Becomes(p, s) /\ UNCHANGED <<entryVars, post, written, risky>> BY DEF Hydrate
<1>6. page'[p] = s BY <1>4, <1>5, Turned DEF EditorIInv
<1>7. \A f \in Fields : AsShown(p, f)' /\ (f \in risky'[p] \/ Sound(p, f)')
  <2> TAKE f \in Fields
  <2>1. AsShown(p, f) /\ (f \in risky[p] \/ Sound(p, f)) BY DEF EditorIInv
  <2>2. Shown(p, f)' = IF Unsaved(p, f) = NoText /\ page[p].editing # f THEN NoText ELSE Shown(p, f)
    BY <1>1, <1>6 DEF Shown, PageState
  <2>3. /\ Unsaved(p, f)' = Unsaved(p, f)
        /\ page'[p].editing = page[p].editing /\ page'[p].before = page[p].before
    BY <1>1, <1>6 DEF Unsaved, PageState
  <2>4. AsShown(p, f)' BY <2>1, <2>2, <2>3 DEF AsShown
  <2>5. Editing(p, f)' => Editing(p, f) /\ Shown(p, f)' = Shown(p, f)
    BY <2>2, <2>3 DEF Editing
  <2>6. \A r \in Posts : Calmer(r, p) BY <1>5, CalmWhenUnchanged
  <2>7. written'[p][f] = written[p][f] BY <1>5
  <2>8. Shown(p, f)' \in {Shown(p, f), NoText} BY <2>2
  <2>9. Sound(p, f) => Sound(p, f)' BY <2>3, <2>5, <2>6, <2>7, <2>8, Stays
  <2> QED BY <1>5, <2>1, <2>4, <2>9
<1>8. risky' \in [Pages -> SUBSET Fields] BY <1>5 DEF EditorIInv, EditorTypeOK
<1> QED BY <1>4, <1>5, <1>7, <1>8, PageTurns

LEMMA PutBackKeeps ==
  ASSUME EditorIInv, NEW p \in Pages, NEW escape \in BOOLEAN, PutBack(p, escape)
  PROVE  EditorIInv'
<1> DEFINE g == page[p].editing
<1> DEFINE rest == [page[p].pending EXCEPT ![g] = NoText]
<1> DEFINE s == [page[p] EXCEPT
           !.shown = [@ EXCEPT ![g] = page[p].before], !.pending = rest,
           !.editing = IF escape THEN NoField ELSE g,
           !.before = IF escape THEN NoText ELSE @,
           !.status = IF Unsaved(p, g) = NoText THEN @
                      ELSE IF rest = NoChange THEN "settled" ELSE "unsaved"]
<1>1. page[p] \in PageState BY DEF EditorIInv, EditorTypeOK
<1>2. g \in Fields BY <1>1 DEF PutBack, PageState
<1>3. /\ s.shown = [page[p].shown EXCEPT ![g] = page[p].before]
      /\ s.pending = [page[p].pending EXCEPT ![g] = NoText]
      /\ s.editing = IF escape THEN NoField ELSE g
      /\ s.before = IF escape THEN NoText ELSE page[p].before
  BY <1>1 DEF PageState
<1>4. s.shown \in Typed /\ s.pending \in Typed BY <1>1, <1>2, <1>3 DEF PageState, Typed
<1>5. s \in PageState BY <1>1, <1>2, <1>3, <1>4 DEF PageState, Status
<1>6. Becomes(p, s) /\ UNCHANGED <<entryVars, post, written>> BY DEF PutBack
<1>7. page'[p] = s BY <1>5, <1>6, Turned DEF EditorIInv
<1>8. risky \in [Pages -> SUBSET Fields] BY DEF EditorIInv, EditorTypeOK
<1>9. risky' = [risky EXCEPT ![p] =
                  IF page[p].before \in {NoText, written[p][g]} THEN @ ELSE @ \cup {g}]
  BY DEF PutBack
<1>10. risky' \in [Pages -> SUBSET Fields] BY <1>2, <1>8, <1>9
<1>11. \A q \in Pages \ {p} : risky'[q] = risky[q] BY <1>8, <1>9
<1>12. \A f \in Fields : AsShown(p, f)' /\ (f \in risky'[p] \/ Sound(p, f)')
  <2> TAKE f \in Fields
  <2>1. AsShown(p, f) /\ (f \in risky[p] \/ Sound(p, f)) BY DEF EditorIInv
  <2>2. f \in risky[p] => f \in risky'[p] BY <1>8, <1>9
  <2>3. \A r \in Posts : Calmer(r, p) BY <1>6, CalmWhenUnchanged
  <2>4. written'[p][f] = written[p][f] BY <1>6
  <2>5. CASE f = g
    <3>1. Shown(p, f)' = page[p].before /\ Unsaved(p, f)' = NoText
      BY <1>1, <1>2, <1>3, <1>7, <2>5 DEF Shown, Unsaved, PageState, Typed
    <3>2. AsShown(p, f)' BY <3>1 DEF AsShown
    <3>3. ~Editing(p, f)' BY <1>3, <1>7, <2>5, <3>1, EditorIsTyped DEF Editing
    <3>4. f \in risky'[p] \/ page[p].before \in {NoText, written[p][f]}
      BY <1>8, <1>9, <2>5
    <3>5. CASE f \notin risky'[p] /\ Shown(p, f) = page[p].before
      <4>1. Sound(p, f) BY <2>1, <2>2, <3>5
      <4>2. Shown(p, f)' \in {NoText, written[p][f]} /\ Shown(p, f)' \in {Shown(p, f), NoText}
        BY <3>1, <3>4, <3>5
      <4>3. Sound(p, f)' BY <2>3, <2>4, <3>1, <3>3, <4>1, <4>2, Stays
      <4> QED BY <3>2, <4>3
    <3>6. CASE f \notin risky'[p] /\ Shown(p, f) # page[p].before
      <4>1. ~UnderWay(p, f) BY <2>1, <2>2, <2>5, <3>6 DEF Sound, Typing
      <4>2. ~UnderWay(p, f)' BY <1>6, <4>1 DEF UnderWay, Saves, Names
      <4>3. TextKept(p, f)' BY <2>4, <3>1, <3>4, <3>6 DEF TextKept
      <4>4. Sound(p, f)' BY <3>3, <4>2, <4>3, Afresh
      <4> QED BY <3>2, <4>4
    <3> QED BY <3>2, <3>5, <3>6
  <2>6. CASE f # g
    <3>1. Shown(p, f)' = Shown(p, f) /\ Unsaved(p, f)' = Unsaved(p, f)
      BY <1>1, <1>3, <1>7, <2>6 DEF Shown, Unsaved, PageState, Typed
    <3>2. ~Editing(p, f)' BY <1>3, <1>7, <2>6, EditorIsTyped DEF Editing
    <3>3. AsShown(p, f)' BY <2>1, <3>1 DEF AsShown
    <3>4. Sound(p, f) => Sound(p, f)' BY <2>3, <2>4, <3>1, <3>2, Stays
    <3> QED BY <2>1, <2>2, <3>3, <3>4
  <2> QED BY <2>5, <2>6
<1> QED BY <1>5, <1>6, <1>10, <1>11, <1>12, PageTurns

(* Steps that leave the texts of a page and the written ones as they are,  *)
(* and ask nothing more of any page.                                       *)
LEMMA CalmKeeps ==
  ASSUME EditorIInv, EditorTypeOK', PostsAreSound', UNCHANGED <<page, written, risky>>,
         \A p \in Pages, r \in Posts : Calmer(r, p)
  PROVE  EditorIInv'
<1>1. ASSUME NEW p \in Pages, NEW f \in Fields
      PROVE  AsShown(p, f)' /\ (f \in risky'[p] \/ Sound(p, f)')
  <2>1. AsShown(p, f) /\ (f \in risky[p] \/ Sound(p, f)) BY DEF EditorIInv
  <2>2. Shown(p, f)' = Shown(p, f) /\ Unsaved(p, f)' = Unsaved(p, f) BY DEF Shown, Unsaved
  <2>3. Editing(p, f)' => Editing(p, f) BY <2>2 DEF Editing
  <2>4. \A r \in Posts : Calmer(r, p) OBVIOUS
  <2>5. Sound(p, f) => Sound(p, f)' BY <2>2, <2>3, <2>4, Stays
  <2> QED BY <2>1, <2>2, <2>5 DEF AsShown
<1> QED BY <1>1 DEF EditorIInv

LEMMA ReloadKeeps ==
  ASSUME EditorIInv, NEW p \in Pages, Reload(p)
  PROVE  EditorIInv'
<1>1. PICK saved \in {Unpublished, exists} :
        Becomes(p,
         [shown |-> Committed(p), pending |-> Committed(p), editing |-> NoField,
          before |-> NoText, saved |-> saved,
          fresh |-> IF Committed(p) = NoChange THEN "bare" ELSE "restored",
          status |-> IF Committed(p) = NoChange THEN "settled" ELSE "unsaved"])
  BY DEF Reload
<1> DEFINE s == [shown |-> Committed(p), pending |-> Committed(p), editing |-> NoField,
          before |-> NoText, saved |-> saved,
          fresh |-> IF Committed(p) = NoChange THEN "bare" ELSE "restored",
          status |-> IF Committed(p) = NoChange THEN "settled" ELSE "unsaved"]
<1>2. saved \in BOOLEAN BY <1>1 DEF Unpublished, EditorIInv, EditorTypeOK
<1>3. s \in PageState BY <1>2, Commits DEF PageState, Status
<1>4. page'[p] = s BY <1>1, <1>3, Turned DEF EditorIInv
<1>5. UNCHANGED <<entryVars, written, risky>> BY DEF Reload
<1>6. /\ post \in [Posts -> PostState]
      /\ post' = [r \in Posts |-> IF post[r].page = p
                                  THEN Ended([post[r] EXCEPT !.heard = FALSE]) ELSE post[r]]
  BY DEF EditorIInv, EditorTypeOK, Reload
<1>7. ASSUME NEW r \in Posts
      PROVE  /\ post'[r] \in PostState
             /\ \/ post'[r] = post[r] \/ Gone(post'[r])
                \/ /\ post'[r].page = post[r].page /\ post'[r].changes = post[r].changes
                   /\ post'[r].publish = post[r].publish /\ post'[r].pc = post[r].pc
                   /\ ~post'[r].heard
  <2>1. post[r] \in PostState BY <1>6
  <2>2. CASE post[r].page = p
    <3>1. post'[r] = Ended([post[r] EXCEPT !.heard = FALSE]) BY <1>6, <2>2
    <3> QED BY <2>1, <3>1, Forsaken
  <2>3. CASE post[r].page # p BY <1>6, <2>1, <2>3
  <2> QED BY <2>2, <2>3
<1>8. \A r \in Posts, q \in Pages : Calmer(r, q) BY <1>7, EditorIsTyped DEF Calmer, Saves, Gone
<1>9. post' \in [Posts -> PostState] BY <1>6, <1>7
<1>10. PostsAreSound' BY <1>7 DEF EditorIInv, PostsAreSound, IsPost, Gone
<1>11. \A f \in Fields : AsShown(p, f)' /\ (f \in risky'[p] \/ Sound(p, f)')
  <2> TAKE f \in Fields
  <2>1. AsShown(p, f) /\ (f \in risky[p] \/ Sound(p, f)) BY DEF EditorIInv
  <2>2. \A r \in Posts : Calmer(r, p) BY <1>8
  <2>3. written'[p][f] = written[p][f] BY <1>5
  <2>4. Shown(p, f)' = Committed(p)[f] /\ Unsaved(p, f)' = Committed(p)[f] /\ ~Editing(p, f)'
    BY <1>4, EditorIsTyped DEF Shown, Unsaved, Editing
  <2>5. AsShown(p, f)' BY <2>4 DEF AsShown
  <2>6. ASSUME f \notin risky[p] PROVE Sound(p, f)'
    <3>1. Committed(p)[f] = Unsaved(p, f) /\ Committed(p)[f] \in {Shown(p, f), NoText}
      BY <2>6, Commits
    <3>2. Sound(p, f) BY <2>1, <2>6
    <3>3. Unsaved(p, f)' = Unsaved(p, f) /\ Shown(p, f)' \in {Shown(p, f), NoText}
      BY <2>4, <3>1
    <3> QED BY <2>2, <2>3, <2>4, <3>2, <3>3, Stays
  <2> QED BY <1>5, <2>5, <2>6
<1>12. risky' \in [Pages -> SUBSET Fields] BY <1>5 DEF EditorIInv, EditorTypeOK
<1> QED BY <1>1, <1>3, <1>5, <1>8, <1>9, <1>10, <1>11, <1>12, Turns

(* What a request that has just been sent is.                              *)
LEMMA Sends ==
  ASSUME EditorIInv, NEW r \in Posts, NEW p \in Pages \cup {NoPage}, NEW changes \in Typed,
         NEW publish \in BOOLEAN, Send(r, p, changes, publish)
  PROVE  /\ post' \in [Posts -> PostState]
         /\ post'[r].page = p /\ post'[r].pc \in {"auto", "failed", "over"}
         /\ p # NoPage => /\ post'[r].changes = changes /\ post'[r].publish = publish
                         /\ post'[r].pc \in {"auto", "failed"}
         /\ \A q \in Posts \ {r} : post'[q] = post[q]
         /\ UNCHANGED <<entryVars, written, risky>>
<1> DEFINE n == [pc |-> IF Acceptable(changes) THEN "auto" ELSE "failed", page |-> p,
                 changes |-> changes, publish |-> publish, fill |-> {},
                 found |-> FALSE, heard |-> p # NoPage]
<1>1. n \in PostState BY DEF PostState, Serving
<1>2. Moves(r, n) BY DEF Send
<1>3. /\ post' \in [Posts -> PostState] /\ post'[r] = Ended(n)
      /\ post'[r] = n \/ Gone(post'[r])
      /\ \A q \in Posts : q # r => post'[q] = post[q]
  BY <1>1, <1>2, Moved
<1>4. /\ n.page = p /\ n.changes = changes /\ n.publish = publish
      /\ n.pc \in {"auto", "failed"} /\ n.heard = (p # NoPage)
  OBVIOUS
<1>5. CASE p # NoPage
  <2>1. post'[r] = n BY <1>3, <1>4, <1>5 DEF Ended
  <2> QED BY <1>3, <1>4, <2>1 DEF Send
<1>6. CASE p = NoPage BY <1>3, <1>4, <1>6 DEF Gone, Send
<1> QED BY <1>5, <1>6

LEMMA CallKeeps ==
  ASSUME EditorIInv, NEW r \in Posts, NEW w \in Calls, Call(r, w)
  PROVE  EditorIInv'
<1>1. w.changes \in Typed /\ w.publish \in BOOLEAN BY EditorIsTyped
<1>2. Send(r, NoPage, w.changes, w.publish) /\ UNCHANGED page BY DEF Call
<1>3. /\ post' \in [Posts -> PostState] /\ post'[r].page = NoPage
      /\ post'[r].pc \in {"auto", "failed", "over"}
      /\ \A q \in Posts \ {r} : post'[q] = post[q]
      /\ UNCHANGED <<entryVars, written, risky>>
  BY <1>1, <1>2, Sends
<1>4. EditorTypeOK' BY <1>2, <1>3 DEF EditorIInv, EditorTypeOK, entryVars
<1>5. PostsAreSound' BY <1>3 DEF EditorIInv, PostsAreSound, IsPost
<1>6. \A p \in Pages, q \in Posts : Calmer(q, p) BY <1>3, EditorIsTyped DEF Calmer, Saves
<1> QED BY <1>2, <1>3, <1>4, <1>5, <1>6, CalmKeeps

LEMMA PublishPageKeeps ==
  ASSUME EditorIInv, NEW p \in Pages, NEW r \in Posts, PublishPage(p, r)
  PROVE  EditorIInv'
<1> DEFINE s == [page[p] EXCEPT !.editing = NoField, !.before = NoText, !.status = "busy"]
<1>1. page[p] \in PageState BY DEF EditorIInv, EditorTypeOK
<1>2. s \in PageState BY <1>1 DEF PageState, Status
<1>3. s.shown = page[p].shown /\ s.pending = page[p].pending /\ s.editing = NoField
  BY <1>1 DEF PageState
<1>0. p \in Pages \cup {NoPage} /\ p # NoPage BY EditorIsTyped
<1>4. Becomes(p, s) /\ Send(r, p, NoChange, TRUE) BY DEF PublishPage
<1>5. page'[p] = s BY <1>2, <1>4, Turned DEF EditorIInv
<1>6. /\ post' \in [Posts -> PostState] /\ post'[r].changes = NoChange /\ post'[r].publish = TRUE
      /\ post'[r].pc \in {"auto", "failed"}
      /\ \A q \in Posts \ {r} : post'[q] = post[q]
      /\ UNCHANGED <<entryVars, written, risky>>
  BY <1>0, <1>4, Sends, NoChangeTyped
<1>7. PostsAreSound' BY <1>6 DEF EditorIInv, PostsAreSound, IsPost
<1>8. \A q \in Pages, x \in Posts : Calmer(x, q) BY <1>6 DEF Calmer, Saves
<1>9. \A f \in Fields : AsShown(p, f)' /\ (f \in risky'[p] \/ Sound(p, f)')
  <2> TAKE f \in Fields
  <2>1. AsShown(p, f) /\ (f \in risky[p] \/ Sound(p, f)) BY DEF EditorIInv
  <2>2. Shown(p, f)' = Shown(p, f) /\ Unsaved(p, f)' = Unsaved(p, f)
    BY <1>3, <1>5 DEF Shown, Unsaved
  <2>3. ~Editing(p, f)' BY <1>3, <1>5, EditorIsTyped DEF Editing
  <2>4. \A x \in Posts : Calmer(x, p) BY <1>8
  <2>5. written'[p][f] = written[p][f] BY <1>6
  <2>6. Sound(p, f) => Sound(p, f)' BY <2>2, <2>3, <2>4, <2>5, Stays
  <2> QED BY <1>6, <2>1, <2>2, <2>6 DEF AsShown
<1>10. risky' \in [Pages -> SUBSET Fields] BY <1>6 DEF EditorIInv, EditorTypeOK
<1> QED BY <1>2, <1>4, <1>6, <1>7, <1>8, <1>9, <1>10, Turns

(* What is sent is what is pending, of the fields that are not at risk, so *)
(* that all saves under way agree.                                         *)
LEMMA SaveKeeps ==
  ASSUME EditorIInv, NEW p \in Pages, NEW r \in Posts, Save(p, r)
  PROVE  EditorIInv'
<1> DEFINE c == Committed(p)
<1> DEFINE s == [page[p] EXCEPT !.editing = NoField, !.before = NoText,
                                !.pending = Committed(p), !.status = "busy"]
<1>1. page[p] \in PageState BY DEF EditorIInv, EditorTypeOK
<1>2. s \in PageState BY <1>1, Commits DEF PageState, Status
<1>3. s.shown = page[p].shown /\ s.pending = c /\ s.editing = NoField
  BY <1>1 DEF PageState
<1>0. p \in Pages \cup {NoPage} /\ p # NoPage BY EditorIsTyped
<1>4. Becomes(p, s) /\ Send(r, p, c, FALSE) BY DEF Save
<1>5. page'[p] = s BY <1>2, <1>4, Turned DEF EditorIInv
<1>6. /\ post' \in [Posts -> PostState]
      /\ post'[r].page = p /\ post'[r].changes = c /\ post'[r].publish = FALSE
      /\ post'[r].pc \in {"auto", "failed"}
      /\ \A q \in Posts \ {r} : post'[q] = post[q]
      /\ UNCHANGED <<entryVars, written, risky>>
  BY <1>0, <1>4, Commits, Sends
<1>7. PostsAreSound' BY <1>6 DEF EditorIInv, PostsAreSound, IsPost
<1>8. \A q \in Pages \ {p}, x \in Posts : Calmer(x, q) BY <1>6 DEF Calmer, Saves
<1>9. \A f \in Fields : AsShown(p, f)' /\ (f \in risky'[p] \/ Sound(p, f)')
  <2> TAKE f \in Fields
  <2>1. AsShown(p, f) /\ (f \in risky[p] \/ Sound(p, f)) BY DEF EditorIInv
  <2>2. Shown(p, f)' = Shown(p, f) /\ Unsaved(p, f)' = c[f] /\ page'[p].editing # f
    BY <1>3, <1>5, EditorIsTyped DEF Shown, Unsaved
  <2>3. AsShown(p, f)' BY <2>2, Commits DEF AsShown
  <2>4. ASSUME f \notin risky[p] PROVE Sound(p, f)'
    <3>1. c[f] = Unsaved(p, f) /\ (c[f] # NoText => c[f] = Shown(p, f)) BY <2>4, Commits
    <3>2. Sound(p, f) BY <2>1, <2>4
    <3>3. written'[p][f] = written[p][f] BY <1>6
    <3>4. TextKept(p, f)' BY <2>2, <3>1, <3>2, <3>3 DEF Sound, TextKept
    <3>5. Typing(p, f)' BY <2>2 DEF Typing
    <3>6. \A x \in Posts : Saves(x, p)' /\ Open(x, f)' =>
            post'[x].changes[f] # NoText /\ (x = r \/ (Saves(x, p) /\ Open(x, f)))
      <4> SUFFICES ASSUME NEW x \in Posts, Saves(x, p)', Open(x, f)'
                   PROVE  /\ post'[x].changes[f] # NoText
                          /\ x = r \/ (Saves(x, p) /\ Open(x, f))
        OBVIOUS
      <4>1. post'[x].changes[f] # NoText BY DEF Open, Names
      <4>2. CASE x # r
        <5>1. post'[x] = post[x] BY <1>6, <4>2
        <5>2. Saves(x, p) BY <5>1 DEF Saves
        <5>3. Open(x, f) BY <5>1 DEF Open, Names
        <5> QED BY <4>1, <5>2, <5>3
      <4> QED BY <4>1, <4>2
    <3>7. ASSUME NEW x \in Posts, Saves(x, p)', Open(x, f)'
          PROVE  Shown(p, f) \in {NoText, post'[x].changes[f]}
      <4>1. CASE x = r BY <1>6, <3>1, <3>6, <3>7, <4>1
      <4>2. CASE x # r BY <1>6, <3>2, <3>6, <3>7, <4>2 DEF Sound, Carried
      <4> QED BY <4>1, <4>2
    <3>8. ASSUME NEW x \in Posts, Saves(x, p)', Open(x, f)',
                 NEW y \in Posts, Saves(y, p)', Open(y, f)'
          PROVE  post'[y].changes[f] = post'[x].changes[f]
      <4>1. CASE x = r \/ y = r
        <5>1. c[f] # NoText /\ Shown(p, f) = c[f] BY <1>6, <3>1, <3>6, <3>8, <4>1
        <5> QED BY <3>7, <3>8, <5>1
      <4>2. CASE x # r /\ y # r
        <5>1. post[y].changes[f] = post[x].changes[f] BY <3>2, <3>6, <3>8, <4>2 DEF Sound, Carried
        <5> QED BY <1>6, <4>2, <5>1
      <4> QED BY <4>1, <4>2
    <3>9. Carried(p, f)' BY <2>2, <3>7, <3>8 DEF Carried
    <3>10. Awaited(p, f)'
      <4> SUFFICES ASSUME NEW x \in Posts, Saves(x, p)', post'[x].heard
                   PROVE  /\ Unsaved(p, f)' # NoText => post'[x].changes[f] = Unsaved(p, f)'
                          /\ IsPost(x, "ready")' /\ Names(x, f)' =>
                               written'[p][f] = post'[x].changes[f]
        BY DEF Awaited
      <4>1. CASE x = r BY <1>6, <2>2, <4>1 DEF IsPost
      <4>2. CASE x # r
        BY <1>6, <2>2, <3>1, <3>2, <3>3, <4>2 DEF Sound, Awaited, Saves, IsPost, Names
      <4> QED BY <4>1, <4>2
    <3> QED BY <3>4, <3>5, <3>9, <3>10 DEF Sound
  <2> QED BY <1>6, <2>3, <2>4
<1>10. risky' \in [Pages -> SUBSET Fields] BY <1>6 DEF EditorIInv, EditorTypeOK
<1> QED BY <1>2, <1>4, <1>6, <1>7, <1>8, <1>9, <1>10, Turns

LEMMA NoSuchPage ==
  ASSUME EditorTypeOK, NEW p, NEW s, p \notin Pages, Becomes(p, s)
  PROVE  UNCHANGED page
  BY DEF EditorTypeOK, Becomes

LEMMA HearKeeps ==
  ASSUME EditorIInv, NEW r \in Posts, Hear(r)
  PROVE  EditorIInv'
<1>0. PICK p : p = post[r].page OBVIOUS
<1> DEFINE n == [NoPost EXCEPT !.pc = "over"]
<1>1. post \in [Posts -> PostState] /\ page \in [Pages -> PageState]
  BY DEF EditorIInv, EditorTypeOK
<1>2. /\ n \in PostState /\ n.page = NoPage /\ n.pc = "over"
  BY NoChangeTyped DEF NoPost, PostState
<1> DEFINE m == [post[r] EXCEPT !.heard = FALSE]
<1>3. m \in PostState /\ ~m.heard /\ m.pc = post[r].pc BY <1>1 DEF PostState
<1>11. Moves(r, m) BY DEF Hear
<1>12. Ended(m) = n BY <1>3 DEF Hear, Ended
<1>4. /\ post' \in [Posts -> PostState] /\ post'[r] = n
      /\ \A q \in Posts \ {r} : post'[q] = post[q]
  BY <1>3, <1>11, <1>12, Moved
<1>5. PostsAreSound' BY <1>2, <1>4 DEF EditorIInv, PostsAreSound, IsPost
<1>6. \A q \in Pages, x \in Posts : Calmer(x, q)
  BY <1>2, <1>4, EditorIsTyped DEF Calmer, Saves
<1>7. UNCHANGED <<entryVars, written, risky>> BY DEF Hear
<1>8. CASE UNCHANGED page
  <2>1. EditorTypeOK' BY <1>4, <1>7, <1>8 DEF EditorIInv, EditorTypeOK, entryVars
  <2> QED BY <1>5, <1>6, <1>7, <1>8, <2>1, CalmKeeps
<1>9. CASE p \notin Pages
  <2>1. PICK s : Becomes(p, s) BY <1>0 DEF Hear
  <2>2. UNCHANGED page BY <1>9, <2>1, NoSuchPage DEF EditorIInv
  <2> QED BY <1>8, <2>2
<1>10. CASE p \in Pages
  <2> DEFINE s == [page[p] EXCEPT
                !.pending = StillPending(p, r),
                !.status = IF IsPost(r, "ready") THEN "settled" ELSE "error",
                !.saved = IF IsPost(r, "ready") THEN ~post[r].publish ELSE @]
  <2>1. page[p] \in PageState BY <1>1, <1>10
  <2>2. /\ s.shown = page[p].shown /\ s.pending = StillPending(p, r)
        /\ s.editing = page[p].editing /\ s.before = page[p].before
    BY <2>1 DEF PageState
  <2>3. StillPending(p, r) \in Typed BY <2>1, NoChangeTyped DEF StillPending, PageState
  <2>4. (IF IsPost(r, "ready") THEN ~post[r].publish ELSE page[p].saved) \in BOOLEAN
    BY <1>1, <2>1 DEF PageState, PostState
  <2>5. s \in PageState BY <2>1, <2>3, <2>4 DEF PageState, Status
  <2>6. Becomes(p, s) BY <1>0 DEF Hear
  <2>7. page'[p] = s BY <1>10, <2>5, <2>6, Turned DEF EditorIInv
  <2>8. \A f \in Fields : AsShown(p, f)' /\ (f \in risky'[p] \/ Sound(p, f)')
    <3> TAKE f \in Fields
    <3>1. AsShown(p, f) /\ (f \in risky[p] \/ Sound(p, f)) BY <1>10 DEF EditorIInv
    <3>2. Shown(p, f)' = Shown(p, f) /\ Unsaved(p, f)' = StillPending(p, r)[f]
      BY <2>2, <2>7 DEF Shown, Unsaved
    <3>3. Editing(p, f)' => Editing(p, f) BY <2>2, <2>7, <3>2 DEF Editing
    <3>4. \A x \in Posts : Calmer(x, p) BY <1>6, <1>10
    <3>5. written'[p][f] = written[p][f] BY <1>7
    <3>6. CASE ~(IsPost(r, "ready") /\ ~post[r].publish)
      <4>1. Unsaved(p, f)' = Unsaved(p, f) BY <3>2, <3>6 DEF StillPending, Unsaved
      <4>2. AsShown(p, f)' BY <3>1, <3>2, <4>1 DEF AsShown
      <4>3. Sound(p, f) => Sound(p, f)' BY <1>10, <3>2, <3>3, <3>4, <3>5, <4>1, Stays
      <4> QED BY <1>7, <3>1, <4>2, <4>3
    <3>7. CASE IsPost(r, "ready") /\ ~post[r].publish
      <4>1. Unsaved(p, f)' = NoText BY <3>2, <3>7, NoChangeTyped DEF StillPending
      <4>2. AsShown(p, f)' BY <4>1 DEF AsShown
      <4>3. Saves(r, p) /\ post[r].heard BY <1>0, <3>7 DEF Saves, Hear
      <4>4. ASSUME Sound(p, f) PROVE Sound(p, f)'
        <5>1. ~Editing(p, f) BY <4>3, <4>4 DEF Sound, Typing, Editing, UnderWay
        <5>2. Unsaved(p, f) # NoText =>
                /\ Shown(p, f) = Unsaved(p, f) /\ post[r].changes[f] = Unsaved(p, f)
                /\ written[p][f] = post[r].changes[f]
          BY <3>1, <3>7, <4>3, <4>4 DEF AsShown, Sound, Awaited, Names
        <5>3. Shown(p, f)' \in {NoText, written[p][f]}
          BY <3>2, <4>4, <5>2 DEF Sound, TextKept
        <5>4. Shown(p, f)' \in {Shown(p, f), NoText} BY <3>2
        <5> QED BY <1>10, <3>3, <3>4, <3>5, <4>1, <4>4, <5>1, <5>3, <5>4, Stays
      <4> QED BY <1>7, <3>1, <4>2, <4>4
    <3> QED BY <3>6, <3>7
  <2>9. risky' \in [Pages -> SUBSET Fields] BY <1>7 DEF EditorIInv, EditorTypeOK
  <2>10. \A q \in Pages \ {p}, x \in Posts : Calmer(x, q) BY <1>6
  <2>11. p \in Pages BY <1>10
  <2> QED BY <1>4, <1>5, <1>7, <2>5, <2>6, <2>8, <2>9, <2>10, <2>11, Turns
<1> QED BY <1>9, <1>10

LEMMA LoseTouchKeeps ==
  ASSUME EditorIInv, NEW r \in Posts, LoseTouch(r)
  PROVE  EditorIInv'
<1>0. PICK p : p = post[r].page OBVIOUS
<1>1. post \in [Posts -> PostState] /\ page \in [Pages -> PageState]
  BY DEF EditorIInv, EditorTypeOK
<1> DEFINE m == [post[r] EXCEPT !.heard = FALSE]
<1>2. m \in PostState /\ Moves(r, m) BY <1>1 DEF LoseTouch, PostState
<1>3. /\ post' \in [Posts -> PostState] /\ post'[r] = Ended(m)
      /\ \A x \in Posts : x # r => post'[x] = post[x]
  BY <1>2, Moved
<1>4. \/ Gone(post'[r])
      \/ /\ post'[r].page = post[r].page /\ post'[r].changes = post[r].changes
         /\ post'[r].publish = post[r].publish /\ post'[r].pc = post[r].pc
         /\ ~post'[r].heard
  BY <1>1, <1>3, Forsaken
<1>5. PostsAreSound' BY <1>3, <1>4 DEF EditorIInv, PostsAreSound, IsPost, Gone
<1>6. \A q \in Pages, x \in Posts : Calmer(x, q)
  BY <1>3, <1>4, EditorIsTyped DEF Calmer, Saves, Gone
<1>7. UNCHANGED <<entryVars, written, risky>> BY DEF LoseTouch
<1>8. CASE p \notin Pages
  <2>3. PICK s : Becomes(p, s) BY <1>0 DEF LoseTouch
  <2>1. UNCHANGED page BY <1>8, <2>3, NoSuchPage DEF EditorIInv
  <2>2. EditorTypeOK' BY <1>3, <1>7, <2>1 DEF EditorIInv, EditorTypeOK, entryVars
  <2> QED BY <1>5, <1>6, <1>7, <2>1, <2>2, CalmKeeps
<1>9. CASE p \in Pages
  <2> DEFINE s == [page[p] EXCEPT !.status = "error"]
  <2>1. page[p] \in PageState BY <1>1, <1>9
  <2>2. s \in PageState BY <2>1 DEF PageState, Status
  <2>3. /\ s.shown = page[p].shown /\ s.pending = page[p].pending
        /\ s.editing = page[p].editing /\ s.before = page[p].before
    BY <2>1 DEF PageState
  <2>4. Becomes(p, s) BY <1>0 DEF LoseTouch
  <2>5. page'[p] = s BY <1>9, <2>2, <2>4, Turned DEF EditorIInv
  <2>6. \A f \in Fields : AsShown(p, f)' /\ (f \in risky'[p] \/ Sound(p, f)')
    <3> TAKE f \in Fields
    <3>1. AsShown(p, f) /\ (f \in risky[p] \/ Sound(p, f)) BY <1>9 DEF EditorIInv
    <3>2. Shown(p, f)' = Shown(p, f) /\ Unsaved(p, f)' = Unsaved(p, f)
      BY <2>3, <2>5 DEF Shown, Unsaved
    <3>3. Editing(p, f)' => Editing(p, f) BY <2>3, <2>5, <3>2 DEF Editing
    <3>4. \A x \in Posts : Calmer(x, p) BY <1>6, <1>9
    <3>5. written'[p][f] = written[p][f] BY <1>7
    <3>6. Sound(p, f) => Sound(p, f)' BY <1>9, <3>2, <3>3, <3>4, <3>5, Stays
    <3> QED BY <1>7, <3>1, <3>2, <3>6 DEF AsShown
  <2>7. risky' \in [Pages -> SUBSET Fields] BY <1>7 DEF EditorIInv, EditorTypeOK
  <2>8. \A q \in Pages \ {p}, x \in Posts : Calmer(x, q) BY <1>6
  <2> QED BY <1>3, <1>5, <1>7, <1>9, <2>2, <2>4, <2>6, <2>7, <2>8, Turns
<1> QED BY <1>8, <1>9

(* A step of the route that leaves the entry's texts to the others: the    *)
(* request goes on, or fails.                                              *)
MovesTo(r, to) ==
  \E found \in BOOLEAN, fill \in SUBSET Fields :
    Moves(r, [post[r] EXCEPT !.found = found, !.fill = fill, !.pc = to])

Onward(r, to) ==
  /\ post[r].pc \in Serving /\ to \in {"ready", "failed"} \cup Serving
  /\ to = "ready" \/ to = "publish" => post[r].publish
  /\ UNCHANGED <<page, risky>> /\ MovesTo(r, to)

LEMMA Steps ==
  ASSUME EditorIInv, NEW r \in Posts, NEW to \in {"ready", "failed"} \cup Serving, MovesTo(r, to)
  PROVE  /\ post' \in [Posts -> PostState]
         /\ \A x \in Posts : x # r => post'[x] = post[x]
         /\ \/ Gone(post'[r])
            \/ /\ post'[r].pc = to /\ post'[r].page = post[r].page
               /\ post'[r].changes = post[r].changes
               /\ post'[r].publish = post[r].publish /\ post'[r].heard = post[r].heard
<1>1. post \in [Posts -> PostState] BY DEF EditorIInv, EditorTypeOK
<1>0. PICK found \in BOOLEAN, fill \in SUBSET Fields :
        Moves(r, [post[r] EXCEPT !.found = found, !.fill = fill, !.pc = to])
  BY DEF MovesTo
<1> DEFINE n == [post[r] EXCEPT !.found = found, !.fill = fill, !.pc = to]
<1>2. post[r] \in PostState BY <1>1
<1>3. n \in PostState BY <1>2 DEF PostState
<1>4. /\ n.pc = to /\ n.page = post[r].page /\ n.changes = post[r].changes
      /\ n.publish = post[r].publish /\ n.heard = post[r].heard
  BY <1>2 DEF PostState
<1>5. /\ post' \in [Posts -> PostState] /\ (post'[r] = n \/ Gone(post'[r]))
      /\ \A x \in Posts : x # r => post'[x] = post[x]
  BY <1>0, <1>3, Moved
<1> QED BY <1>4, <1>5

(* Goes keeps what the request has found.                                  *)
LEMMA GoesSteps ==
  ASSUME EditorIInv, NEW r \in Posts, NEW from \in Serving, NEW to, Goes(r, from, to)
  PROVE  /\ IsPost(r, from) /\ UNCHANGED <<page, risky>>
         /\ MovesTo(r, to)
<1>1. post \in [Posts -> PostState] BY DEF EditorIInv, EditorTypeOK
<1>2. post[r] \in PostState /\ post[r].found \in BOOLEAN BY <1>1 DEF PostState
<1>3. Moves(r, [post[r] EXCEPT !.pc = to, !.fill = {}]) BY DEF Goes
<1>4. [post[r] EXCEPT !.pc = to, !.fill = {}]
        = [post[r] EXCEPT !.found = post[r].found, !.fill = {}, !.pc = to]
  BY <1>2 DEF PostState
<1>5. Moves(r, [post[r] EXCEPT !.found = post[r].found, !.fill = {}, !.pc = to]) BY <1>3, <1>4
<1> QED BY <1>2, <1>5 DEF Goes, MovesTo

LEMMA OnwardKeeps ==
  ASSUME EditorIInv, NEW r \in Posts, NEW to, Onward(r, to), UNCHANGED written,
         exists' \in BOOLEAN, liveText' \in Site, draftText' \in Site
  PROVE  EditorIInv'
<1>1. MovesTo(r, to) BY DEF Onward
<1>2. to \in {"ready", "failed"} \cup Serving BY DEF Onward
<1>3. /\ post' \in [Posts -> PostState]
      /\ \A x \in Posts : x # r => post'[x] = post[x]
      /\ \/ Gone(post'[r])
         \/ /\ post'[r].pc = to /\ post'[r].page = post[r].page
            /\ post'[r].changes = post[r].changes
            /\ post'[r].publish = post[r].publish /\ post'[r].heard = post[r].heard
  BY <1>1, <1>2, Steps
<1>4. EditorTypeOK' BY <1>3 DEF Onward, EditorIInv, EditorTypeOK
<1>5. PostsAreSound' BY <1>3 DEF Onward, EditorIInv, PostsAreSound, IsPost, Gone
<1>6. ASSUME NEW p \in Pages, NEW x \in Posts PROVE Calmer(x, p)
  <2>1. CASE x # r BY <1>3, <2>1 DEF Calmer, Saves
  <2>2. CASE x = r BY <1>3, <2>2, EditorIsTyped DEF Calmer, Saves, Onward, Gone
  <2> QED BY <2>1, <2>2
<1> QED BY <1>4, <1>5, <1>6, CalmKeeps DEF Onward

(* The bootstrap leaves texts where there were texts.                      *)
LEMMA BootstrapTyped ==
  ASSUME EditorIInv, NEW r \in Posts, Bootstrapped(r)
  PROVE  exists' \in BOOLEAN /\ liveText' \in Site /\ draftText' \in Site /\ UNCHANGED written
<1>1. exists \in BOOLEAN /\ liveText \in Site /\ draftText \in Site
  BY DEF EditorIInv, EditorTypeOK
<1>2. CASE UNCHANGED entryVars BY <1>1, <1>2 DEF entryVars, Bootstrapped
<1>3. CASE exists' = TRUE /\ liveText' = [f \in Fields |-> Default] /\ draftText' = liveText'
  BY <1>3 DEF Site, Bootstrapped
<1>4. CASE /\ liveText' = [f \in Fields |-> IF f \in post[r].fill THEN Default ELSE liveText[f]]
           /\ draftText' = liveText' /\ UNCHANGED exists
  BY <1>1, <1>4 DEF Site, Bootstrapped
<1> QED BY <1>2, <1>3, <1>4 DEF Bootstrapped

LEMMA MergedTyped ==
  ASSUME EditorIInv, NEW r \in Posts, NEW base \in Site
  PROVE  Merged(r, base) \in Site
<1>1. post[r].changes \in Typed BY DEF EditorIInv, EditorTypeOK, PostState
<1> QED BY <1>1, EditorIsTyped DEF Merged, Names, Typed, Site

(* A write of the draft: what a page's posts have written are the texts    *)
(* that its other saves under way carry.                                   *)
LEMMA WriteKeeps ==
  ASSUME EditorIInv, NEW r \in Posts, NEW from \in Serving,
         NEW to \in {"ready", "failed"} \cup Serving, to = "publish" => post[r].publish,
         Goes(r, from, to), Noting(r),
         exists' \in BOOLEAN, liveText' \in Site, draftText' \in Site
  PROVE  EditorIInv'
<1>1. /\ IsPost(r, from) /\ UNCHANGED <<page, risky>> /\ MovesTo(r, to)
  BY GoesSteps
<1>2. /\ post' \in [Posts -> PostState]
      /\ \A x \in Posts : x # r => post'[x] = post[x]
      /\ \/ Gone(post'[r])
         \/ /\ post'[r].pc = to /\ post'[r].page = post[r].page
            /\ post'[r].changes = post[r].changes
            /\ post'[r].publish = post[r].publish /\ post'[r].heard = post[r].heard
  BY <1>1, Steps
<1>3. /\ written \in [Pages -> Typed] /\ \A x \in Posts : post[x].changes \in Typed
      /\ page \in [Pages -> PageState] /\ risky \in [Pages -> SUBSET Fields]
  BY DEF EditorIInv, EditorTypeOK, PostState
<1>4. written' \in [Pages -> Typed] BY <1>3 DEF Noting, Typed
<1>5. EditorTypeOK' BY <1>1, <1>2, <1>3, <1>4 DEF EditorTypeOK
<1>6. PostsAreSound' BY <1>2 DEF EditorIInv, PostsAreSound, IsPost, Gone
<1>7. ASSUME NEW p \in Pages, NEW f \in Fields
      PROVE  AsShown(p, f)' /\ (f \in risky'[p] \/ Sound(p, f)')
  <2>1. AsShown(p, f) /\ (f \in risky[p] \/ Sound(p, f)) BY DEF EditorIInv
  <2>2. Shown(p, f)' = Shown(p, f) /\ Unsaved(p, f)' = Unsaved(p, f)
    BY <1>1 DEF Shown, Unsaved
  <2>3. AsShown(p, f)' BY <2>1, <2>2 DEF AsShown
  <2>4. post[r].pc \in Serving BY <1>1 DEF IsPost
  <2>5. written'[p][f] = IF post[r].page = p /\ Names(r, f) THEN post[r].changes[f]
                         ELSE written[p][f]
    BY DEF Noting
  <2>6. post[r].page = p /\ Names(r, f) => Saves(r, p) /\ Open(r, f)
    <3> SUFFICES ASSUME post[r].page = p, Names(r, f) PROVE Saves(r, p) /\ Open(r, f)
      OBVIOUS
    <3>1. post[r].changes # NoChange BY NoChangeTyped DEF Names
    <3>2. ~post[r].publish BY <3>1, EditorIsTyped DEF EditorIInv, PostsAreSound
    <3> QED BY <2>4, <3>2 DEF Saves, Open
  <2>7. ASSUME NEW x \in Posts, Saves(x, p)'
        PROVE  /\ Saves(x, p) /\ post'[x].changes = post[x].changes
               /\ post'[x].heard = post[x].heard
               /\ x # r => post'[x].pc = post[x].pc
    <3>1. CASE x = r BY <1>2, <2>7, <3>1, EditorIsTyped DEF Saves, Gone
    <3>2. CASE x # r BY <1>2, <2>7, <3>2 DEF Saves
    <3> QED BY <3>1, <3>2
  <2>8. \A x \in Posts : Saves(x, p)' /\ Open(x, f)' => Open(x, f)
    <3> SUFFICES ASSUME NEW x \in Posts, Saves(x, p)', Open(x, f)' PROVE Open(x, f)
      OBVIOUS
    <3>1. CASE x = r BY <2>4, <2>7, <3>1 DEF Open, Names
    <3>2. CASE x # r BY <2>7, <3>2 DEF Open, Names
    <3> QED BY <3>1, <3>2
  <2>9. ASSUME Sound(p, f) PROVE Sound(p, f)'
    <3>1. TextKept(p, f)'
      BY <2>2, <2>5, <2>6, <2>9 DEF Sound, TextKept, Carried
    <3>2. UnderWay(p, f)' => UnderWay(p, f)
      <4> SUFFICES ASSUME NEW x \in Posts, Saves(x, p)',
                          post'[x].heard \/ (post'[x].pc \in Serving /\ Names(x, f)')
                   PROVE  Saves(x, p) /\ (post[x].heard \/ (post[x].pc \in Serving /\ Names(x, f)))
        BY DEF UnderWay
      <4>1. CASE x = r BY <2>4, <2>7, <4>1 DEF Names
      <4>2. CASE x # r BY <2>7, <4>2 DEF Names
      <4> QED BY <4>1, <4>2
    <3>3. Typing(p, f)' BY <1>1, <2>2, <2>9, <3>2 DEF Sound, Typing
    <3>4. Carried(p, f)' BY <2>2, <2>7, <2>8, <2>9 DEF Sound, Carried
    <3>5. Awaited(p, f)'
      <4> SUFFICES ASSUME NEW x \in Posts, Saves(x, p)', post'[x].heard
                   PROVE  /\ Unsaved(p, f)' # NoText => post'[x].changes[f] = Unsaved(p, f)'
                          /\ IsPost(x, "ready")' /\ Names(x, f)' =>
                               written'[p][f] = post'[x].changes[f]
        BY DEF Awaited
      <4>1. Saves(x, p) /\ post[x].heard /\ post'[x].changes = post[x].changes BY <2>7
      <4>2. Unsaved(p, f)' # NoText => post'[x].changes[f] = Unsaved(p, f)'
        BY <2>2, <2>9, <4>1 DEF Sound, Awaited
      <4>3. ASSUME IsPost(x, "ready")', Names(x, f)'
            PROVE  written'[p][f] = post'[x].changes[f]
        <5>1. Names(x, f) BY <4>1, <4>3 DEF Names
        <5>2. Open(x, f) BY <4>1, <5>1 DEF Open
        <5>3. CASE post[r].page = p /\ Names(r, f)
          <6>1. post[x].changes[f] = post[r].changes[f]
            BY <2>6, <2>9, <4>1, <5>2, <5>3 DEF Sound, Carried
          <6> QED BY <2>5, <4>1, <5>3, <6>1
        <5>4. CASE ~(post[r].page = p /\ Names(r, f))
          <6>1. x # r BY <4>1, <5>1, <5>4 DEF Saves
          <6>2. IsPost(x, "ready") BY <2>7, <4>3, <6>1 DEF IsPost
          <6> QED BY <2>5, <2>9, <4>1, <5>1, <5>4, <6>2 DEF Sound, Awaited
        <5> QED BY <5>3, <5>4
      <4> QED BY <4>2, <4>3
    <3> QED BY <3>1, <3>3, <3>4, <3>5 DEF Sound
  <2> QED BY <1>1, <2>1, <2>3, <2>9
<1> QED BY <1>5, <1>6, <1>7 DEF EditorIInv

(* The steps of the route.                                                 *)
LEMMA LooksKeeps ==
  ASSUME EditorIInv, NEW r \in Posts, NEW at \in Serving, NEW found \in BOOLEAN,
         NEW to \in {"failed"} \cup Serving, to = "publish" => post[r].publish,
         Looks(r, at, found, to)
  PROVE  EditorIInv'
<1>0. /\ post[r].pc \in Serving /\ to \in {"ready", "failed"} \cup Serving
      /\ to = "ready" \/ to = "publish" => post[r].publish
      /\ UNCHANGED <<page, risky>>
  BY DEF Looks, IsPost, Serving
<1>2. post[r] \in PostState /\ post[r].fill \in SUBSET Fields
  BY DEF EditorIInv, EditorTypeOK, PostState
<1>3. [post[r] EXCEPT !.found = found, !.pc = to]
        = [post[r] EXCEPT !.found = found, !.fill = post[r].fill, !.pc = to]
  BY <1>2 DEF PostState
<1>4. Moves(r, [post[r] EXCEPT !.found = found, !.fill = post[r].fill, !.pc = to])
  BY <1>3 DEF Looks
<1>5. MovesTo(r, to) BY <1>2, <1>4 DEF MovesTo
<1>1. Onward(r, to) BY <1>0, <1>5 DEF Onward
<1>6. UNCHANGED written /\ exists' \in BOOLEAN /\ liveText' \in Site /\ draftText' \in Site
  BY DEF Looks, entryVars, EditorIInv, EditorTypeOK
<1> QED BY <1>1, <1>6, OnwardKeeps

LEMMA FindEmptyKeeps ==
  ASSUME EditorIInv, NEW r \in Posts, FindEmpty(r)
  PROVE  EditorIInv'
<1> DEFINE empty == {f \in Fields : liveText[f] = Empty}
           at == post[r].pc
<1>1. /\ at \in {"auto", "full", "repair"} /\ UNCHANGED <<entryVars, page, written, risky>>
      /\ Moves(r, [post[r] EXCEPT !.fill = empty])
  BY DEF FindEmpty
<1>2. post[r] \in PostState /\ post[r].found \in BOOLEAN
  BY DEF EditorIInv, EditorTypeOK, PostState
<1>3. [post[r] EXCEPT !.fill = empty]
        = [post[r] EXCEPT !.found = post[r].found, !.fill = empty, !.pc = at]
  BY <1>2 DEF PostState
<1>4. Moves(r, [post[r] EXCEPT !.found = post[r].found, !.fill = empty, !.pc = at])
  BY <1>1, <1>3
<1>5. empty \in SUBSET Fields OBVIOUS
<1>6. MovesTo(r, at) BY <1>2, <1>4, <1>5 DEF MovesTo
<1>7. Onward(r, at) BY <1>1, <1>6 DEF Onward, Serving
<1>8. UNCHANGED written /\ exists' \in BOOLEAN /\ liveText' \in Site /\ draftText' \in Site
  BY <1>1 DEF entryVars, EditorIInv, EditorTypeOK
<1> QED BY <1>7, <1>8, OnwardKeeps

LEMMA GoesKeeps ==
  ASSUME EditorIInv, NEW r \in Posts, NEW from \in Serving,
         NEW to \in {"ready", "failed"} \cup Serving,
         to = "ready" \/ to = "publish" => post[r].publish,
         Goes(r, from, to), UNCHANGED written,
         exists' \in BOOLEAN, liveText' \in Site, draftText' \in Site
  PROVE  EditorIInv'
<1>1. /\ IsPost(r, from) /\ UNCHANGED <<page, risky>> /\ MovesTo(r, to)
  BY GoesSteps
<1>2. Onward(r, to) BY <1>1 DEF Onward, IsPost
<1> QED BY <1>2, OnwardKeeps

LEMMA BootstrappedKeeps ==
  ASSUME EditorIInv, NEW r \in Posts, NEW from \in Serving,
         NEW to \in {"failed"} \cup Serving, to # "publish",
         Bootstrapped(r), Goes(r, from, to)
  PROVE  EditorIInv'
<1>1. exists' \in BOOLEAN /\ liveText' \in Site /\ draftText' \in Site /\ UNCHANGED written
  BY BootstrapTyped
<1>2. to \in {"ready", "failed"} \cup Serving /\ (to = "ready" \/ to = "publish" => post[r].publish)
  BY DEF Serving
<1> QED BY <1>1, <1>2, GoesKeeps

LEMMA FailingKeeps ==
  ASSUME EditorIInv, NEW r \in Posts, NEW from \in Serving,
         NEW to \in {"failed"} \cup Serving, to # "publish",
         UNCHANGED <<entryVars, written>>, Goes(r, from, to)
  PROVE  EditorIInv'
<1>1. exists' \in BOOLEAN /\ liveText' \in Site /\ draftText' \in Site /\ UNCHANGED written
  BY DEF entryVars, EditorIInv, EditorTypeOK
<1>2. to \in {"ready", "failed"} \cup Serving /\ (to = "ready" \/ to = "publish" => post[r].publish)
  BY DEF Serving
<1> QED BY <1>1, <1>2, GoesKeeps

LEMMA WriteDraftKeeps ==
  ASSUME EditorIInv, NEW r \in Posts, NEW from \in Serving,
         NEW to \in {"ready", "failed"} \cup Serving, to = "publish" => post[r].publish,
         WriteDraft(r, from, to)
  PROVE  EditorIInv'
<1>1. exists \in BOOLEAN /\ liveText \in Site /\ draftText \in Site
  BY DEF EditorIInv, EditorTypeOK
<1>2. exists' \in BOOLEAN /\ liveText' \in Site /\ draftText' \in Site
  BY <1>1, MergedTyped DEF WriteDraft
<1>3. Goes(r, from, to) /\ Noting(r) BY DEF WriteDraft
<1> QED BY <1>2, <1>3, WriteKeeps

LEMMA CreateKeeps ==
  ASSUME EditorIInv, NEW r \in Posts, CreateItem(r)
  PROVE  EditorIInv'
<1>0. "create" \in Serving /\ "update" \in Serving BY DEF Serving
<1>1. CASE /\ Goes(r, "create", "update") /\ exists' = TRUE
           /\ liveText' = Merged(r, [f \in Fields |-> Empty]) /\ draftText' = liveText'
           /\ Noting(r)
  <2>1. [f \in Fields |-> Empty] \in Site BY DEF Site
  <2>2. exists' \in BOOLEAN /\ liveText' \in Site /\ draftText' \in Site
    BY <1>1, <2>1, MergedTyped
  <2>3. "update" # "publish" OBVIOUS
  <2> QED BY <1>0, <1>1, <2>2, <2>3, WriteKeeps
<1>2. CASE Goes(r, "create", "failed") /\ UNCHANGED <<entryVars, written>>
  BY <1>0, <1>2, FailingKeeps
<1> QED BY <1>1, <1>2 DEF CreateItem

LEMMA UpdateKeeps ==
  ASSUME EditorIInv, NEW r \in Posts, UpdateItem(r) \/ RetryUpdate(r)
  PROVE  EditorIInv'
<1>0. "update" \in Serving /\ "repair" \in Serving /\ "again" \in Serving BY DEF Serving
<1>1. AfterSave(r) \in {"ready", "failed"} \cup Serving /\ (AfterSave(r) = "publish" => post[r].publish)
  BY DEF AfterSave, Serving
<1>2. CASE WriteDraft(r, "update", AfterSave(r)) BY <1>0, <1>1, <1>2, WriteDraftKeeps
<1>3. CASE WriteDraft(r, "again", AfterSave(r)) BY <1>0, <1>1, <1>3, WriteDraftKeeps
<1>4. CASE WriteDraft(r, "update", "repair") BY <1>0, <1>4, WriteDraftKeeps
<1>5. CASE WriteDraft(r, "again", "failed") BY <1>0, <1>5, WriteDraftKeeps
<1>6. CASE Goes(r, "update", "repair") /\ UNCHANGED <<entryVars, written>>
  BY <1>0, <1>6, FailingKeeps
<1>7. CASE Goes(r, "again", "failed") /\ UNCHANGED <<entryVars, written>>
  BY <1>0, <1>7, FailingKeeps
<1> QED BY <1>2, <1>3, <1>4, <1>5, <1>6, <1>7 DEF UpdateItem, RetryUpdate

LEMMA ReadKeeps ==
  ASSUME EditorIInv, NEW r \in Posts, ReadItem(r) \/ RereadItem(r)
  PROVE  EditorIInv'
<1>0. {"read", "reread", "update", "full", "create", "publish"} \subseteq Serving BY DEF Serving
<1>1. CASE PublishOnly(r) /\ Looks(r, "read", TRUE, "publish")
  BY <1>0, <1>1, LooksKeeps DEF PublishOnly
<1>2. CASE Looks(r, "read", FALSE, "failed") BY <1>0, <1>2, LooksKeeps
<1>3. CASE Looks(r, "read", TRUE, "update") BY <1>0, <1>3, LooksKeeps
<1>4. CASE Looks(r, "read", FALSE, "full") BY <1>0, <1>4, LooksKeeps
<1>5. CASE Looks(r, "reread", TRUE, "update") BY <1>0, <1>5, LooksKeeps
<1>6. CASE Looks(r, "reread", FALSE, "create") BY <1>0, <1>6, LooksKeeps
<1> QED BY <1>1, <1>2, <1>3, <1>4, <1>5, <1>6 DEF ReadItem, RereadItem

LEMMA PublishDraftKeeps ==
  ASSUME EditorIInv, NEW r \in Posts, PublishDraft(r)
  PROVE  EditorIInv'
<1>0. "publish" \in Serving BY DEF Serving
<1>1. exists \in BOOLEAN /\ liveText \in Site /\ draftText \in Site
  BY DEF EditorIInv, EditorTypeOK
<1>2. exists' \in BOOLEAN /\ liveText' \in Site /\ draftText' \in Site /\ UNCHANGED written
  BY <1>1 DEF PublishDraft
<1>3. PICK to \in {"ready", "failed"} : Goes(r, "publish", to) BY DEF PublishDraft
<1>4. post[r].publish BY <1>3 DEF Goes, EditorIInv, PostsAreSound
<1> QED BY <1>0, <1>2, <1>3, <1>4, GoesKeeps

LEMMA EditorBegins == EditorInit => EditorIInv
<1> SUFFICES ASSUME EditorInit PROVE EditorIInv OBVIOUS
<1>1. NoChange \in Typed /\ \A f \in Fields : NoChange[f] = NoText BY NoChangeTyped
<1>2. liveText \in Site /\ draftText \in Site BY DEF EditorInit, Site
<1>3. page \in [Pages -> PageState] BY <1>1 DEF EditorInit, PageState, Status
<1>4. NoPost \in PostState BY <1>1 DEF NoPost, PostState
<1>5. EditorTypeOK BY <1>1, <1>2, <1>3, <1>4 DEF EditorInit, EditorTypeOK
<1>6. \A r \in Posts : ~post[r].heard /\ post[r].pc = "idle" /\ ~post[r].publish
  BY DEF EditorInit, NoPost
<1>7. \A p \in Pages : /\ page[p].shown = NoChange /\ page[p].pending = NoChange
                       /\ page[p].editing = NoField
  BY DEF EditorInit
<1>8. PostsAreSound BY <1>6 DEF PostsAreSound, IsPost
<1>9. ASSUME NEW p \in Pages, NEW f \in Fields PROVE AsShown(p, f) /\ Sound(p, f)
  <2>1. Shown(p, f) = NoText /\ Unsaved(p, f) = NoText BY <1>1, <1>7 DEF Shown, Unsaved
  <2>2. page[p].editing # f BY <1>7, EditorIsTyped
  <2>3. \A r \in Posts : ~Open(r, f) BY <1>6 DEF Open, Serving
  <2>4. TextKept(p, f) /\ Typing(p, f) /\ Carried(p, f) /\ Awaited(p, f)
    BY <1>6, <2>1, <2>2, <2>3 DEF TextKept, Typing, Carried, Awaited
  <2> QED BY <2>1, <2>4 DEF AsShown, Sound
<1> QED BY <1>5, <1>8, <1>9 DEF EditorIInv

LEMMA EditorRests ==
  ASSUME EditorIInv, UNCHANGED editorVars
  PROVE  EditorIInv'
<1>1. UNCHANGED <<exists, liveText, draftText, page, post, written, risky>>
  BY DEF editorVars, entryVars
<1>2. EditorTypeOK' BY <1>1 DEF EditorIInv, EditorTypeOK
<1>3. PostsAreSound' BY <1>1 DEF EditorIInv, PostsAreSound, IsPost
<1>4. ASSUME NEW p \in Pages, NEW f \in Fields
      PROVE  AsShown(p, f)' /\ (f \in risky'[p] \/ Sound(p, f)')
  <2>1. AsShown(p, f) /\ (f \in risky[p] \/ Sound(p, f)) BY DEF EditorIInv
  <2>2. Shown(p, f)' = Shown(p, f) /\ Unsaved(p, f)' = Unsaved(p, f)
    BY <1>1 DEF Shown, Unsaved
  <2>3. Editing(p, f)' => Editing(p, f) BY <1>1, <2>2 DEF Editing
  <2>4. \A r \in Posts : Calmer(r, p) BY <1>1, CalmWhenUnchanged
  <2>5. written'[p][f] = written[p][f] BY <1>1
  <2>6. Sound(p, f) => Sound(p, f)' BY <2>2, <2>3, <2>4, <2>5, Stays
  <2> QED BY <1>1, <2>1, <2>2, <2>6 DEF AsShown
<1> QED BY <1>2, <1>3, <1>4 DEF EditorIInv

LEMMA EditorKept == EditorIInv /\ [EditorNext]_editorVars => EditorIInv'
<1> SUFFICES ASSUME EditorIInv, [EditorNext]_editorVars PROVE EditorIInv' OBVIOUS
<1>0. /\ {"auto", "full", "repair", "read", "create", "reread", "again"} \subseteq Serving
      /\ "failed" \in {"failed"} \cup Serving
  BY DEF Serving
<1>1. ASSUME NEW p \in Pages, OnPage(p) PROVE EditorIInv'
  <2>1. ASSUME NEW e \in Edits, Edit(p, e[1]) PROVE EditorIInv'
    <3>1. e[1] \in Fields BY EditorIsTyped
    <3> QED BY <2>1, <3>1, EditKeeps
  <2>2. ASSUME NEW t \in Text \cup {Empty}, Type(p, t) PROVE EditorIInv' BY <2>2, TypeKeeps
  <2>3. ASSUME NEW escape \in BOOLEAN, PutBack(p, escape) PROVE EditorIInv' BY <2>3, PutBackKeeps
  <2>4. CASE Blur(p) BY <2>4, BlurKeeps
  <2>5. CASE FinishEditing(p) BY <2>5, FinishKeeps
  <2>6. CASE Review(p) BY <2>6, ReviewKeeps
  <2>7. CASE Reload(p) BY <2>7, ReloadKeeps
  <2>8. CASE Hydrate(p) BY <2>8, HydrateKeeps
  <2>9. ASSUME NEW r \in Posts, Save(p, r) PROVE EditorIInv' BY <2>9, SaveKeeps
  <2>10. ASSUME NEW r \in Posts, PublishPage(p, r) PROVE EditorIInv' BY <2>10, PublishPageKeeps
  <2> QED BY <1>1, <2>1, <2>2, <2>3, <2>4, <2>5, <2>6, <2>7, <2>8, <2>9, <2>10 DEF OnPage
<1>2. ASSUME NEW r \in Posts, OnPost(r) PROVE EditorIInv'
  <2>1. ASSUME NEW w \in Calls, Call(r, w) PROVE EditorIInv' BY <2>1, CallKeeps
  <2>2. CASE Hear(r) BY <2>2, HearKeeps
  <2>3. CASE LoseTouch(r) BY <2>3, LoseTouchKeeps
  <2>4. CASE Dies(r) BY <1>0, <2>4, FailingKeeps DEF Dies
  <2>5. CASE AutoBootstrap(r) BY <1>0, <2>5, BootstrappedKeeps DEF AutoBootstrap
  <2>6. CASE ReadItem(r) \/ RereadItem(r) BY <2>6, ReadKeeps
  <2>7. CASE FullBootstrap(r)
    <3>1. PICK to \in {"reread", "create"} : Goes(r, "full", to) BY <2>7 DEF FullBootstrap
    <3>2. Bootstrapped(r) BY <2>7 DEF FullBootstrap
    <3> QED BY <1>0, <3>1, <3>2, BootstrappedKeeps
  <2>8. CASE CreateItem(r) BY <2>8, CreateKeeps
  <2>9. CASE UpdateItem(r) \/ RetryUpdate(r) BY <2>9, UpdateKeeps
  <2>10. CASE RepairItem(r)
    <3>1. PICK to \in {"again", "failed"} : Goes(r, "repair", to) BY <2>10 DEF RepairItem
    <3>2. Bootstrapped(r) BY <2>10 DEF RepairItem
    <3> QED BY <1>0, <3>1, <3>2, BootstrappedKeeps
  <2>11. CASE PublishDraft(r) BY <2>11, PublishDraftKeeps
  <2>12. CASE FindEmpty(r) BY <2>12, FindEmptyKeeps
  <2> QED BY <1>2, <2>1, <2>2, <2>3, <2>4, <2>5, <2>6, <2>7, <2>8, <2>9, <2>10, <2>11, <2>12
       DEF OnPost
<1>3. CASE UNCHANGED editorVars BY <1>3, EditorRests
<1> QED BY <1>1, <1>2, <1>3 DEF EditorNext

LEMMA KeptByInvariant == EditorIInv => EditsAreKept
<1> SUFFICES ASSUME EditorIInv, NEW p \in Pages, NEW f \in Fields \ risky[p], Shown(p, f) # NoText
             PROVE  Shown(p, f) \in {Unsaved(p, f), written[p][f]}
  BY DEF EditsAreKept
<1>1. Sound(p, f) BY DEF EditorIInv
<1> QED BY <1>1 DEF Sound, TextKept

(* What a step may do to the draft of an entry that is there.              *)
OthersKept ==
  \A f \in Fields : exists /\ draftText'[f] # draftText[f] =>
     \/ \E r \in Posts : WritesDraft(r) /\ Names(r, f)
     \/ f = Title /\ \E r \in Posts : WritesDraft(r) /\ ~post[r].found
     \/ \E r \in Posts : Refills(r)

LEMMA WriteNames ==
  ASSUME EditorIInv, NEW r \in Posts, NEW from \in {"update", "again"},
         NEW to \in {"ready", "failed", "publish", "repair"}, WriteDraft(r, from, to)
  PROVE  OthersKept
<1>1. post \in [Posts -> PostState] BY DEF EditorIInv, EditorTypeOK
<1> DEFINE m == [post[r] EXCEPT !.pc = to, !.fill = {}]
<1>2. IsPost(r, from) /\ Moves(r, m) BY DEF WriteDraft, Goes
<1>3. m \in PostState /\ m.pc = to BY <1>1 DEF PostState, Serving
<1>6. post'[r].pc \in {to, "over"} BY <1>2, <1>3, Moved DEF Gone
<1>4. WritesDraft(r) BY <1>2, <1>6 DEF WritesDraft, IsPost
<1>5. ASSUME NEW f \in Fields, draftText'[f] # draftText[f]
      PROVE  Names(r, f) \/ (f = Title /\ ~post[r].found)
  BY <1>5 DEF WriteDraft, Merged
<1> QED BY <1>4, <1>5 DEF OthersKept

LEMMA DraftRests ==
  ASSUME UNCHANGED draftText \/ ~exists PROVE OthersKept
  BY DEF OthersKept

LEMMA BootstrapNames ==
  ASSUME EditorIInv, NEW r \in Posts, NEW from \in Serving,
         NEW to \in {"failed"} \cup Serving, Goes(r, from, to), Bootstrapped(r)
  PROVE  OthersKept
<1> DEFINE m == [post[r] EXCEPT !.pc = to, !.fill = {}]
<1>1. post[r] \in PostState BY DEF EditorIInv, EditorTypeOK
<1>2. m \in PostState /\ m.fill = {} BY <1>1 DEF PostState
<1>3. Ended(m).fill = {}
  <2>1. NoPost.fill = {} /\ [NoPost EXCEPT !.pc = "over"].fill = {} BY DEF NoPost
  <2> QED BY <1>2, <2>1 DEF Ended
<1>4. post'[r].fill = {} BY <1>2, <1>3, Moved DEF Goes
<1>5. CASE /\ post[r].fill # {}
           /\ liveText' = [f \in Fields |-> IF f \in post[r].fill THEN Default ELSE liveText[f]]
           /\ draftText' = liveText'
  <2>1. \A f \in Fields \ post[r].fill : liveText'[f] = liveText[f] BY <1>5
  <2>2. Refills(r) BY <1>4, <1>5, <2>1 DEF Refills
  <2> QED BY <2>2 DEF OthersKept
<1>6. CASE UNCHANGED draftText \/ ~exists BY <1>6, DraftRests
<1> QED BY <1>5, <1>6 DEF Bootstrapped, entryVars

LEMMA OthersAreKept == EditorIInv /\ [EditorNext]_editorVars => OthersKept
<1> SUFFICES ASSUME EditorIInv, [EditorNext]_editorVars PROVE OthersKept OBVIOUS
<1>0. {"auto", "full", "repair", "read", "reread", "create", "again"} \subseteq Serving
  BY DEF Serving
<1>1. ASSUME NEW p \in Pages, OnPage(p) PROVE OthersKept
  <2>1. UNCHANGED entryVars
    BY <1>1 DEF OnPage, Edit, Type, PutBack, Blur, FinishEditing, Review, Reload, Hydrate,
                Save, PublishPage, Send
  <2> QED BY <2>1, DraftRests DEF entryVars
<1>2. ASSUME NEW r \in Posts, OnPost(r) PROVE OthersKept
  <2>1. ASSUME NEW w \in Calls, Call(r, w) PROVE OthersKept
    BY <2>1, DraftRests DEF Call, Send, entryVars
  <2>2. CASE Hear(r) \/ LoseTouch(r) \/ Dies(r)
    BY <2>2, DraftRests DEF Hear, LoseTouch, Dies, entryVars
  <2>3. CASE AutoBootstrap(r) \/ FullBootstrap(r) \/ RepairItem(r)
    <3>1. PICK from \in Serving, to \in {"failed"} \cup Serving : Goes(r, from, to) /\ Bootstrapped(r)
      BY <1>0, <2>3 DEF AutoBootstrap, FullBootstrap, RepairItem
    <3> QED BY <3>1, BootstrapNames
  <2>4. CASE ReadItem(r) \/ RereadItem(r) \/ FindEmpty(r)
    BY <2>4, DraftRests DEF ReadItem, RereadItem, FindEmpty, Looks, entryVars
  <2>5. CASE CreateItem(r) BY <2>5, DraftRests DEF CreateItem, entryVars
  <2>6. CASE UpdateItem(r) \/ RetryUpdate(r)
    <3>1. AfterSave(r) \in {"ready", "failed", "publish", "repair"} BY DEF AfterSave
    <3>2. CASE WriteDraft(r, "update", AfterSave(r)) BY <3>1, <3>2, WriteNames
    <3>3. CASE WriteDraft(r, "again", AfterSave(r)) BY <3>1, <3>3, WriteNames
    <3>4. CASE WriteDraft(r, "update", "repair") BY <3>4, WriteNames
    <3>5. CASE WriteDraft(r, "again", "failed") BY <3>5, WriteNames
    <3>6. CASE UNCHANGED entryVars BY <3>6, DraftRests DEF entryVars
    <3> QED BY <2>6, <3>2, <3>3, <3>4, <3>5, <3>6 DEF UpdateItem, RetryUpdate
  <2>7. CASE PublishDraft(r) BY <2>7, DraftRests DEF PublishDraft
  <2> QED BY <1>2, <2>1, <2>2, <2>3, <2>4, <2>5, <2>6, <2>7 DEF OnPost
<1>3. CASE UNCHANGED editorVars BY <1>3, DraftRests DEF editorVars, entryVars
<1> QED BY <1>1, <1>2, <1>3 DEF EditorNext

-----------------------------------------------------------------------------
(* The theorems.                                                           *)

(* The log's own steps keep its invariant, whatever side is told.          *)
THEOREM Invariance == Spec => []IInv
  BY Initially, Preserved, PTL DEF Spec

ContentIInv == side \in {"log", "studio"} /\ IInv /\ EditorIInv

LEMMA ContentBegins == ContentInit => ContentIInv
  BY Initially, EditorBegins DEF ContentInit, ContentIInv

LEMMA ContentKept == ContentIInv /\ [ContentNext]_contentVars => ContentIInv'
<1> SUFFICES ASSUME ContentIInv, [ContentNext]_contentVars PROVE ContentIInv' OBVIOUS
<1>1. [Next]_vars /\ [EditorNext]_editorVars /\ UNCHANGED side
  BY DEF ContentNext, contentVars
<1>2. IInv' BY <1>1, Preserved DEF ContentIInv
<1>3. EditorIInv' BY <1>1, EditorKept DEF ContentIInv
<1> QED BY <1>1, <1>2, <1>3 DEF ContentIInv

(* Every state either side reaches satisfies both invariants.              *)
THEOREM ContentInvariance == ContentSpec => []ContentIInv
  BY ContentBegins, ContentKept, PTL DEF ContentSpec

(* The log, the state row, the locals of its requests, the entry, the      *)
(* pages and the posts have their types.                                   *)
THEOREM TypeCorrect == ContentSpec => []ContentTypeOK
<1>1. ContentIInv => ContentTypeOK BY DEF ContentIInv, ContentTypeOK, IInv, EditorIInv
<1> QED BY <1>1, ContentInvariance, PTL

(* Whatever requests overlap and wherever they stop, what an entry holds   *)
(* is in the log, unless its writer is on the way there or has stopped:    *)
(* comparing with a stale item never leaves a change out of the log.       *)
THEOREM ContentRecorded == ContentSpec => []ContentIsRecorded
<1>1. ContentIInv => ContentIsRecorded
  <2> SUFFICES ASSUME IInv, NEW e \in Entries, live[e] \notin {NoValue, Initial[e]}
               PROVE  \/ Recorded(e, live[e]) \/ e \in lost
                      \/ \E p \in Procs : Pending(p, e, live[e])
    BY DEF ContentIsRecorded, ContentIInv
  <2>1. live[e] \in Optional BY DEF IInv, TypeOK
  <2>2. Known(e, live[e]) BY <2>1 DEF IInv, LiveIsKnown
  <2> QED BY <2>2 DEF Known
<1> QED BY <1>1, ContentInvariance, PTL

(* Requests that pick the same number never leave a gap in the log, and    *)
(* the state row has the number and the hash of one of its rows, unless an *)
(* import without entries wrote it.                                        *)
THEOREM NumbersSound == ContentSpec => []NumbersAreSound
<1>1. ContentIInv => NumbersAreSound BY DEF ContentIInv, IInv
<1> QED BY <1>1, ContentInvariance, PTL

(* An import that failed or stopped between two batches is not taken for   *)
(* done when it is repeated.                                               *)
THEOREM ImportComplete == ContentSpec => []ImportIsComplete
<1>1. ContentIInv => ImportIsComplete BY DEF ContentIInv, IInv
<1> QED BY <1>1, ContentInvariance, PTL

(* An export reads every entry that was changed and recorded before it     *)
(* began, whatever is recorded meanwhile.                                  *)
THEOREM ExportComplete == ContentSpec => []ExportIsComplete
<1>1. ContentIInv => ExportIsComplete
  BY DEF ContentIInv, IInv, Stage, Exported, ExportIsComplete
<1> QED BY <1>1, ContentInvariance, PTL

(* Whichever saves fail, are served unheard or twice, and however often    *)
(* the page is reloaded, a text the author typed is unsaved or was written *)
(* to the draft, but for the texts the page is known to risk.              *)
THEOREM EditsKept == ContentSpec => []EditsAreKept
<1>1. ContentIInv => EditsAreKept BY KeptByInvariant DEF ContentIInv
<1> QED BY <1>1, ContentInvariance, PTL

(* Authors of different fields do not undo each other's drafts, but for    *)
(* the title of a new entry, and a bootstrap that drops the draft since it *)
(* had found a live field empty, though it may have been filled meanwhile. *)
THEOREM OthersFieldsKept == ContentSpec => OnlyNamedFieldsChange
<1>1. ContentIInv /\ [ContentNext]_contentVars => [OthersKept]_editorVars
  <2> SUFFICES ASSUME ContentIInv, [ContentNext]_contentVars PROVE OthersKept OBVIOUS
  <2>1. [EditorNext]_editorVars BY DEF ContentNext, contentVars
  <2> QED BY <2>1, OthersAreKept DEF ContentIInv
<1> QED BY <1>1, ContentInvariance, PTL DEF ContentSpec, OnlyNamedFieldsChange, OthersKept
=============================================================================
