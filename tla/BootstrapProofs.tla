--------------------------- MODULE BootstrapProofs ---------------------------
(***************************************************************************)
(* Safety of module Bootstrap for any builds, registries, entries, texts,  *)
(* batch size and number of requests at the same time.                     *)
(***************************************************************************)
EXTENDS Bootstrap, Integers, TLAPS

AtTarget == {"table", "fields", "read", "insert", "fill"}

(* A request at a target has one of its build in hand, and has prepared it *)
(* as far as it has come.                                                  *)
Placed(p) ==
  /\ pc[p] # "idle" => pos[p] > 0
  /\ pc[p] \in AtTarget => pos[p] <= Len(Targets[build[p]])
  /\ pc[p] \in {"fields", "read", "insert", "fill"} => TargetCollection(p) \in tables
  /\ pc[p] \in {"read", "insert", "fill"} => Prepared(build[p], TargetCollection(p))

(* What it leaves behind is done.                                          *)
Progressed(p) ==
  build[p] = Expected =>
    /\ pc[p] \in {"marker"} \cup AtTarget => DoneUpTo(Expected, pos[p] - 1)
    /\ pc[p] = "state" => Complete(Expected)
    /\ pc[p] = "answer" => DoneUpTo(Expected, last[p])

(* A field that is to be filled was empty, or has got a text since; one    *)
(* that is not needs nothing.                                              *)
Filling(p) ==
  pc[p] = "fill" =>
    /\ row[Target(p)] # NoRow
    /\ lacks[p] \subseteq Filled(build[p], Target(p))
    /\ \A f \in lacks[p] : row[Target(p)][f] # Empty => f \in since[p]
    /\ \A f \in Filled(build[p], Target(p)) \ lacks[p] :
         row[Target(p)][f] # Empty \/ <<Target(p), f>> \in cleared

Stage(p) == Placed(p) /\ Progressed(p) /\ Filling(p)

(* Publishing a draft empties only what its author has emptied.            *)
DraftsAreFull ==
  \A e \in Entries : draft[e] # NoDraft =>
    /\ row[e] # NoRow
    /\ \A f \in Fields :
         draft[e][f] # Empty \/ row[e][f] = Empty \/ <<e, f>> \in cleared

(* Where the script is, and what it has seen.                              *)
Deployment ==
  /\ call # NoProc => script = "wait"
  /\ script \notin {"post", "wait"} => cursor = 0
  /\ deep # NoBuild =>
       /\ deep = Expected /\ script \in {"fast", "confirm"}
       /\ \A i \in 1..Len(Targets[Expected]) :
            Targets[Expected][i] \in published \cup takenDown

IInv ==
  /\ TypeOK
  /\ \A p \in Procs : Stage(p)
  /\ DraftsAreFull /\ Deployment
  /\ MarkerIsComplete /\ BatchesAreDone /\ ScriptIsRight

-----------------------------------------------------------------------------
(* What the registry is made of.                                           *)
LEMMA Registry ==
  /\ \A b \in Builds : /\ Targets[b] \in Seq(Entries) /\ Len(Targets[b]) \in Nat
                       /\ \A i \in 1..Len(Targets[b]) : Targets[b][i] \in Entries
  /\ \A e \in Entries : CollectionOf[e] \in Collections
  /\ \A b \in Builds, c \in Collections : Schema[b][c] \subseteq Fields
  /\ \A b \in Builds, e \in Entries : Defaults[b][e] \in Texts /\ Filled(b, e) \subseteq Fields
  BY BootstrapIsTyped DEF Filled

(* The first state satisfies the invariant.                                *)
LEMMA Initially == Init => IInv
<1> SUFFICES ASSUME Init PROVE IInv
  OBVIOUS
<1>1. TypeOK BY BootstrapIsTyped DEF Init, TypeOK, Pc, Script
<1>2. \A p \in Procs : Stage(p)
  BY DEF Init, Stage, Placed, Progressed, Filling, AtTarget
<1>3. DraftsAreFull /\ Deployment BY DEF Init, DraftsAreFull, Deployment
<1>4. MarkerIsComplete /\ BatchesAreDone /\ ScriptIsRight
  BY BootstrapIsTyped DEF Init, MarkerIsComplete, BatchesAreDone, ScriptIsRight
<1> QED BY <1>1, <1>2, <1>3, <1>4 DEF IInv

-----------------------------------------------------------------------------
(* Types.                                                                  *)

(* The target in hand and its collection.                                  *)
LEMMA InHand ==
  ASSUME TypeOK, NEW p \in Procs, Placed(p), pc[p] \in AtTarget
  PROVE  Target(p) \in Entries /\ TargetCollection(p) \in Collections
<1>1. pc[p] # "idle" BY DEF AtTarget
<1>2. pos[p] \in 1..Len(Targets[build[p]]) /\ build[p] \in Builds
  BY <1>1, Registry DEF TypeOK, Placed
<1> QED BY <1>2, Registry DEF Target, TargetCollection

(* Where a request may be sent to.                                         *)
LEMMA Whereabouts ==
  ASSUME NEW b \in Builds, NEW i \in Nat, NEW n \in Nat
  PROVE  /\ Where(b, i, n) \in {"table", "state", "answer"}
         /\ Where(b, i, n) = "table" => i <= Len(Targets[b])
         /\ Where(b, i, n) = "state" => i > Len(Targets[b])
         /\ Where(b, i, n) = "answer" => i > n
<1>1. Len(Targets[b]) \in Nat BY Registry
<1> QED BY <1>1 DEF Where

(* They are steps.                                                         *)
LEMMA WhereTyped ==
  ASSUME NEW b \in Builds, NEW i \in Nat, NEW n \in Nat
  PROVE  Where(b, i, n) \in Pc
  BY Whereabouts DEF Pc

Locals ==
  /\ pc \in [Procs -> Pc] /\ build \in [Procs -> Builds]
  /\ pos \in [Procs -> Nat] /\ last \in [Procs -> Nat]
  /\ lacks \in [Procs -> SUBSET Fields] /\ since \in [Procs -> SUBSET Fields]

(* The locals of requests keep their types when one starts, moves or ends. *)
LEMMA LocalsTyped ==
  ASSUME TypeOK, NEW p \in Procs, NEW f \in Pc, NEW t \in Pc,
         NEW b \in Builds, NEW d \in Nat, NEW n \in Nat,
         Start(p, b, d, n, t) \/ Advance(p, f, t) \/ NextTarget(p, f) \/ Leave(p)
  PROVE  Locals'
<1>1. "idle" \in Pc /\ Expected \in Builds BY BootstrapIsTyped DEF Pc
<1>2. Where(build[p], pos[p] + 1, last[p]) \in Pc BY WhereTyped DEF TypeOK
<1> QED BY <1>1, <1>2 DEF TypeOK, Locals, Start, Advance, NextTarget, Leave, Goto

(* Notes are fields.                                                       *)
LEMMA NotedTyped ==
  ASSUME TypeOK, NEW e, NEW new
  PROVE  Noted(e, new) \in [Procs -> SUBSET Fields]
  BY DEF TypeOK, Noted

(* A step of a request keeps the types.                                    *)
LEMMA ServeTyped ==
  ASSUME TypeOK, NEW p \in Procs, Placed(p), Filling(p), Serve(p)
  PROVE  TypeOK'
<1> USE DEF schema, content, deployment, authors
<1>0. Pc = {"idle", "marker", "table", "fields", "read", "insert", "fill", "state", "answer"}
  BY DEF Pc
<1>1. ASSUME NEW b \in Builds, NEW mode \in {"auto", "full"}, Begin(p, b, mode) PROVE TypeOK'
  <2>1. Len(Targets[b]) \in Nat BY Registry
  <2>2. Where(b, 1, Len(Targets[b])) \in Pc BY <2>1, WhereTyped
  <2>3. (IF mode = "auto" THEN "marker" ELSE Where(b, 1, Len(Targets[b]))) \in Pc
    BY <1>0, <2>2
  <2>4. Locals' BY <1>0, <1>1, <2>1, <2>3, LocalsTyped DEF Begin
  <2> QED BY <1>1, <2>4 DEF Begin, TypeOK, Locals
<1>2. CASE CheckMarker(p)
  <2>1. (IF marker = build[p] THEN "answer" ELSE Where(build[p], pos[p], last[p])) \in Pc
    BY <1>0, WhereTyped DEF TypeOK
  <2>2. Locals' BY <1>0, <1>2, <2>1, LocalsTyped, BootstrapIsTyped DEF CheckMarker
  <2> QED BY <1>2, <2>2 DEF CheckMarker, TypeOK, Locals
<1>3. CASE EnsureTable(p) \/ EnsureFields(p)
  <2>1. build[p] \in Builds /\ TargetCollection(p) \in Collections
    BY <1>3, InHand DEF TypeOK, EnsureTable, EnsureFields, Advance, Goto, AtTarget
  <2>2. Locals' BY <1>0, <1>3, LocalsTyped, BootstrapIsTyped DEF EnsureTable, EnsureFields
  <2>3. Schema[build[p]][TargetCollection(p)] \subseteq Fields BY <2>1, Registry
  <2> QED BY <1>3, <2>1, <2>2, <2>3 DEF EnsureTable, EnsureFields, TypeOK, Locals
<1>4. CASE ReadRow(p)
  <2>1. Target(p) \in Entries /\ build[p] \in Builds
    BY <1>4, InHand DEF TypeOK, ReadRow, AtTarget
  <2>2. MissingFields(build[p], Target(p)) \subseteq Fields BY <2>1, Registry DEF MissingFields
  <2>3. Locals'
    <3>1. CASE Advance(p, "read", "insert") \/ NextTarget(p, "read")
      BY <1>0, <3>1, LocalsTyped, BootstrapIsTyped
    <3>2. CASE /\ Goto(p, "read", "fill")
               /\ lacks' = [lacks EXCEPT ![p] = MissingFields(build[p], Target(p))]
               /\ UNCHANGED <<build, pos, last, since>>
      BY <1>0, <2>2, <3>2 DEF TypeOK, Locals, Goto
    <3> QED BY <1>4, <3>1, <3>2 DEF ReadRow
  <2> QED BY <1>4, <2>3 DEF ReadRow, TypeOK, Locals
<1>5. CASE InsertRow(p)
  <2>1. Target(p) \in Entries /\ build[p] \in Builds
    BY <1>5, InHand DEF TypeOK, InsertRow, AtTarget
  <2>2. Defaults[build[p]][Target(p)] \in Texts BY <2>1, Registry
  <2>3. Locals' BY <1>0, <1>5, LocalsTyped, BootstrapIsTyped DEF InsertRow
  <2> QED BY <1>5, <2>1, <2>2, <2>3 DEF InsertRow, TypeOK, Locals
<1>6. CASE FillRow(p)
  <2>1. Target(p) \in Entries /\ build[p] \in Builds
    BY <1>6, InHand DEF TypeOK, FillRow, AtTarget
  <2> DEFINE new == [f \in Fields |->
                IF f \in lacks[p] THEN Defaults[build[p]][Target(p)][f] ELSE row[Target(p)][f]]
  <2>2. row[Target(p)] \in Texts BY <1>6, <2>1 DEF FillRow, Filling, TypeOK
  <2>3. new \in Texts BY <2>1, <2>2, Registry DEF Texts
  <2>4. Noted(Target(p), new) \in [Procs -> SUBSET Fields] BY NotedTyped
  <2>5. since' \in [Procs -> SUBSET Fields] BY <1>6, <2>4 DEF FillRow
  <2>6. pc' \in [Procs -> Pc] BY <1>6, WhereTyped DEF FillRow, Goto, TypeOK
  <2>7. draft' \in [Entries -> Texts \cup {NoDraft}]
    BY <1>6 DEF FillRow, DroppedDraft, TypeOK
  <2>8. row' \in [Entries -> Texts \cup {NoRow}] BY <1>6, <2>3 DEF FillRow, TypeOK
  <2>9. pos' \in [Procs -> Nat] /\ lacks' \in [Procs -> SUBSET Fields]
    BY <1>6 DEF FillRow, TypeOK
  <2>10. UNCHANGED <<build, last, schema, published, marker, deployment, authors>>
    BY <1>6 DEF FillRow
  <2> HIDE DEF new
  <2> QED BY <2>5, <2>6, <2>7, <2>8, <2>9, <2>10 DEF TypeOK
<1>7. CASE WriteMarker(p)
  <2>1. Locals' BY <1>0, <1>7, LocalsTyped, BootstrapIsTyped DEF WriteMarker
  <2> QED BY <1>7, <2>1 DEF WriteMarker, TypeOK, Locals
<1>8. CASE Answer(p) \/ Stop(p)
  <2>1. Locals' BY <1>0, <1>8, LocalsTyped, BootstrapIsTyped DEF Answer, Stop
  <2>2. script' \in Script /\ cursor' \in Nat /\ call' \in Procs \cup {NoProc}
    BY <1>8 DEF Answer, Stop, TypeOK, Script
  <2> QED BY <1>8, <2>1, <2>2 DEF Answer, Stop, TypeOK, Locals
<1> QED BY <1>1, <1>2, <1>3, <1>4, <1>5, <1>6, <1>7, <1>8 DEF Serve

(* So does a step of the script.                                           *)
LEMMA DeployTyped ==
  ASSUME TypeOK, Deploy
  PROVE  TypeOK'
<1> USE DEF schema, content, locals, authors
<1>1. ASSUME NEW b \in Builds, ReadDeep(b) \/ ReadFast(b) PROVE TypeOK'
  BY <1>1 DEF ReadDeep, ReadFast, TypeOK, Script
<1>2. ASSUME NEW p \in Procs, NEW b \in Builds, Post(p, b) PROVE TypeOK'
  <2>1. cursor + 1 \in Nat /\ cursor + Batch \in Nat BY BootstrapIsTyped DEF TypeOK
  <2>2. Where(b, cursor + 1, cursor + Batch) \in Pc BY <2>1, WhereTyped
  <2>3. cursor \in Nat /\ "idle" \in Pc BY DEF TypeOK, Pc
  <2>4. Locals' BY <1>2, <2>1, <2>2, <2>3, LocalsTyped DEF Post
  <2> QED BY <1>2, <2>4 DEF Post, TypeOK, Locals, Script
<1>3. CASE TimeOut \/ GiveUp \/ Rerun
  BY <1>3 DEF TimeOut, GiveUp, Rerun, TypeOK, Script
<1>4. ASSUME NEW c \in Collections, NEW f \in Fields, AddColumn(c, f) PROVE TypeOK'
  BY <1>4 DEF AddColumn, TypeOK, deployment
<1> QED BY <1>1, <1>2, <1>3, <1>4 DEF Deploy

(* What an author writes into.                                             *)
LEMMA EditTyped ==
  ASSUME NEW w \in Edits
  PROVE  w.entry \in Entries /\ w.field \in Fields /\ w.text \in Text \cup {Empty}
  BY BootstrapIsTyped

(* And one of an author.                                                   *)
LEMMA AuthorTyped ==
  ASSUME TypeOK, DraftsAreFull, Author
  PROVE  TypeOK'
<1> USE DEF schema, locals, deployment, authors
<1>1. ASSUME NEW w \in Edits, CreateEntry(w) PROVE TypeOK'
  <2>1. [f \in Fields |-> IF f = w.field THEN w.text ELSE Empty] \in Texts
    BY EditTyped DEF Texts
  <2>2. <<w.entry, w.field>> \in Entries \X Fields BY EditTyped
  <2> QED BY <1>1, <2>1, <2>2 DEF CreateEntry, TypeOK
<1>2. ASSUME NEW w \in Edits, SaveDraft(w) PROVE TypeOK'
  <2> DEFINE base == IF draft[w.entry] = NoDraft THEN row[w.entry] ELSE draft[w.entry]
  <2>1. base \in Texts BY <1>2, EditTyped DEF SaveDraft, TypeOK
  <2>2. [base EXCEPT ![w.field] = w.text] \in Texts BY <2>1, EditTyped DEF Texts
  <2>3. <<w.entry, w.field>> \in Entries \X Fields BY EditTyped
  <2> QED BY <1>2, <2>2, <2>3 DEF SaveDraft, TypeOK
<1>3. ASSUME NEW e \in Entries, Publish(e) PROVE TypeOK'
  <2>1. since' \in [Procs -> SUBSET Fields]
    BY <1>3, NotedTyped DEF Publish, TypeOK
  <2> QED BY <1>3, <2>1 DEF Publish, TypeOK
<1>4. ASSUME NEW e \in Entries, Unpublish(e) PROVE TypeOK'
  BY <1>4 DEF Unpublish, TypeOK
<1> QED BY <1>1, <1>2, <1>3, <1>4 DEF Author

(* Every step keeps the types.                                             *)
LEMMA StepTyped ==
  ASSUME IInv, [Next]_vars
  PROVE  TypeOK'
<1>1. CASE UNCHANGED vars
  BY <1>1 DEF IInv, TypeOK, vars, schema, content, locals, deployment, authors
<1>2. ASSUME NEW p \in Procs, Serve(p) PROVE TypeOK'
  BY <1>2, ServeTyped DEF IInv, Stage
<1> QED BY <1>1, <1>2, DeployTyped, AuthorTyped DEF IInv, Next

-----------------------------------------------------------------------------
(* What is done stays done.                                                *)

Kept ==
  /\ tables \subseteq tables' /\ cleared \subseteq cleared'
  /\ \A c \in Collections : known[c] \subseteq known'[c]
  /\ \A e \in Entries : row[e] # NoRow =>
       /\ row'[e] # NoRow
       /\ \A f \in Fields :
            row[e][f] # Empty => row'[e][f] # Empty \/ <<e, f>> \in cleared'

(* A filled row has a text wherever it had one, and in every filled field. *)
LEMMA FilledRow ==
  ASSUME IInv, NEW p \in Procs, FillRow(p)
  PROVE  /\ row'[Target(p)] # NoRow
         /\ \A f \in Fields : row[Target(p)][f] # Empty => row'[Target(p)][f] # Empty
         /\ \A f \in lacks[p] : row'[Target(p)][f] # Empty
         /\ \A f \in Fields \ lacks[p] : row'[Target(p)][f] = row[Target(p)][f]
         /\ \A e \in Entries : e # Target(p) => row'[e] = row[e]
<1> DEFINE new == [f \in Fields |->
             IF f \in lacks[p] THEN Defaults[build[p]][Target(p)][f] ELSE row[Target(p)][f]]
<1>1. TypeOK /\ Placed(p) /\ Filling(p) BY DEF IInv, Stage
<1>2. Target(p) \in Entries /\ build[p] \in Builds
  BY <1>1, InHand DEF FillRow, AtTarget, TypeOK
<1>3. lacks[p] \subseteq Filled(build[p], Target(p)) /\ lacks[p] \subseteq Fields
  BY <1>1 DEF Filling, FillRow, TypeOK
<1>4. \A f \in lacks[p] : Defaults[build[p]][Target(p)][f] # Empty BY <1>3 DEF Filled
<1>5. row' = [row EXCEPT ![Target(p)] = new] BY DEF FillRow
<1>6. row'[Target(p)] = new /\ \A e \in Entries : e # Target(p) => row'[e] = row[e]
  BY <1>1, <1>2, <1>5 DEF TypeOK
<1>7. row[Target(p)] \in Texts BY <1>1, <1>2 DEF FillRow, Filling, TypeOK
<1>8. new \in Texts BY <1>2, <1>7, Registry DEF Texts
<1>9. row'[Target(p)] # NoRow BY <1>6, <1>8, BootstrapIsTyped
<1> QED BY <1>3, <1>4, <1>6, <1>9

(* Nothing is taken away by any step.                                      *)
LEMMA StepKeeps ==
  ASSUME IInv, [Next]_vars
  PROVE  Kept
<1>0. TypeOK BY DEF IInv
<1>1. CASE UNCHANGED <<tables, known, row, cleared>>
  BY <1>1 DEF Kept
<1>2. ASSUME NEW p \in Procs, EnsureTable(p) \/ EnsureFields(p) PROVE Kept
  BY <1>0, <1>2 DEF EnsureTable, EnsureFields, Kept, TypeOK, content, authors
<1>3. ASSUME NEW p \in Procs, InsertRow(p) PROVE Kept
  BY <1>0, <1>3 DEF InsertRow, Kept, TypeOK, schema, authors
<1>4. ASSUME NEW p \in Procs, FillRow(p) PROVE Kept
  <2>1. UNCHANGED <<tables, known, cleared>> BY <1>4 DEF FillRow, schema, authors
  <2> QED BY <1>4, <2>1, FilledRow DEF Kept
<1>5. ASSUME NEW w \in Edits, CreateEntry(w) \/ SaveDraft(w) PROVE Kept
  BY <1>0, <1>5 DEF CreateEntry, SaveDraft, Kept, TypeOK, schema
<1>6. ASSUME NEW e \in Entries, Publish(e) PROVE Kept
  <2>1. UNCHANGED <<tables, known, cleared>> BY <1>6 DEF Publish, schema, authors
  <2>2. CASE draft[e] = NoDraft BY <1>6, <2>1, <2>2 DEF Publish, Kept
  <2>3. CASE draft[e] # NoDraft
    <3>1. row' = [row EXCEPT ![e] = draft[e]] BY <1>6, <2>3 DEF Publish
    <3>2. draft[e] \in Texts BY <1>0, <2>3 DEF TypeOK
    <3>3. draft[e] # NoRow BY <3>2, BootstrapIsTyped
    <3>4. \A f \in Fields : row[e][f] # Empty => draft[e][f] # Empty \/ <<e, f>> \in cleared
      BY <2>3 DEF IInv, DraftsAreFull
    <3> QED BY <1>0, <2>1, <3>1, <3>3, <3>4 DEF Kept, TypeOK
  <2> QED BY <2>2, <2>3
<1>7. ASSUME NEW p \in Procs, Serve(p) PROVE Kept
  BY <1>1, <1>2, <1>3, <1>4, <1>7
  DEF Serve, Begin, CheckMarker, ReadRow, WriteMarker, Answer, Stop, schema, content, authors
<1>8. CASE Deploy
  BY <1>1, <1>8
  DEF Deploy, ReadDeep, ReadFast, Post, TimeOut, GiveUp, Rerun, AddColumn, schema, content, authors
<1>9. CASE Author
  BY <1>1, <1>5, <1>6, <1>9 DEF Author, Unpublish, schema
<1>10. CASE UNCHANGED vars
  BY <1>1, <1>10 DEF vars, schema, content, authors
<1> QED BY <1>7, <1>8, <1>9, <1>10 DEF Next

(* What is prepared or done stays so.                                      *)
LEMMA DoneStays ==
  ASSUME Kept
  PROVE  /\ \A b \in Builds, c \in Collections : Prepared(b, c) => Prepared(b, c)'
         /\ \A b \in Builds, e \in Entries : Done(b, e) => Done(b, e)'
         /\ \A b \in Builds, n \in Int : DoneUpTo(b, n) => DoneUpTo(b, n)'
         /\ \A b \in Builds : Complete(b) => Complete(b)'
<1>1. ASSUME NEW b \in Builds, NEW c \in Collections, Prepared(b, c) PROVE Prepared(b, c)'
  BY <1>1 DEF Kept, Prepared
<1>2. ASSUME NEW b \in Builds, NEW e \in Entries, Done(b, e) PROVE Done(b, e)'
  <2>1. Prepared(b, CollectionOf[e])' BY <1>1, <1>2, Registry DEF Done
  <2>2. Filled(b, e) \subseteq Fields BY Registry
  <2> QED BY <1>2, <2>1, <2>2 DEF Done, Kept
<1>3. ASSUME NEW b \in Builds, NEW n \in Int, DoneUpTo(b, n) PROVE DoneUpTo(b, n)'
  <2> SUFFICES ASSUME NEW i \in 1..n, i <= Len(Targets[b]) PROVE Done(b, Targets[b][i])'
    BY DEF DoneUpTo
  <2>1. i \in 1..Len(Targets[b]) BY Registry
  <2>2. Targets[b][i] \in Entries BY <2>1, Registry
  <2> QED BY <1>2, <1>3, <2>2 DEF DoneUpTo
<1>4. ASSUME NEW b \in Builds PROVE Len(Targets[b]) \in Int
  <2>1. Len(Targets[b]) \in Nat BY Registry
  <2> QED BY <2>1
<1> QED BY <1>1, <1>2, <1>3, <1>4 DEF Complete

-----------------------------------------------------------------------------
(* Requests.                                                               *)

(* What is done up to a target, and with it.                               *)
LEMMA OneMore ==
  ASSUME NEW b \in Builds, NEW i \in Nat, i <= Len(Targets[b]),
         DoneUpTo(b, i - 1)', Done(b, Targets[b][i])'
  PROVE  DoneUpTo(b, i)'
<1> SUFFICES ASSUME NEW k \in 1..i, k <= Len(Targets[b]) PROVE Done(b, Targets[b][k])'
  BY DEF DoneUpTo
<1>1. CASE k = i BY <1>1
<1>2. CASE k # i
  <2>1. k \in 1..(i - 1) BY <1>2
  <2> QED BY <2>1 DEF DoneUpTo
<1> QED BY <1>1, <1>2

(* A registry that is done is done up to anywhere.                         *)
LEMMA CompleteIsAll ==
  ASSUME NEW b \in Builds, NEW n \in Int, Complete(b)'
  PROVE  DoneUpTo(b, n)'
<1> SUFFICES ASSUME NEW k \in 1..n, k <= Len(Targets[b]) PROVE Done(b, Targets[b][k])'
  BY DEF DoneUpTo
<1>1. Len(Targets[b]) \in Nat BY Registry
<1>2. k \in 1..Len(Targets[b]) BY <1>1
<1> QED BY <1>2 DEF Complete, DoneUpTo

(* A request that is sent on keeps its place when all before it is done.   *)
LEMMA Sent ==
  ASSUME NEW p \in Procs, NEW b \in Builds, NEW i \in Nat \ {0}, NEW n \in Nat,
         pc'[p] = Where(b, i, n), build'[p] = b, pos'[p] = i, last'[p] = n,
         b = Expected => DoneUpTo(Expected, i - 1)'
  PROVE  Stage(p)'
<1>1. Len(Targets[b]) \in Nat BY Registry
<1>2. CASE pc'[p] = "table"
  <2>1. i <= Len(Targets[b]) BY <1>2, Whereabouts
  <2> QED BY <1>2, <2>1 DEF Stage, Placed, Progressed, Filling, AtTarget
<1>3. CASE pc'[p] = "state"
  <2>1. i > Len(Targets[b]) BY <1>3, Whereabouts
  <2>2. b = Expected => Complete(Expected)'
    <3> SUFFICES ASSUME b = Expected, NEW k \in 1..Len(Targets[b]), k <= Len(Targets[b])
                 PROVE  Done(b, Targets[b][k])'
      BY DEF Complete, DoneUpTo
    <3>1. k \in 1..(i - 1) BY <1>1, <2>1
    <3> QED BY <3>1 DEF DoneUpTo
  <2> QED BY <1>3, <2>2 DEF Stage, Placed, Progressed, Filling, AtTarget
<1>4. CASE pc'[p] = "answer"
  <2>1. i > n BY <1>4, Whereabouts
  <2>2. b = Expected => DoneUpTo(Expected, n)'
    <3> SUFFICES ASSUME b = Expected, NEW k \in 1..n, k <= Len(Targets[b])
                 PROVE  Done(b, Targets[b][k])'
      BY DEF DoneUpTo
    <3>1. k \in 1..(i - 1) BY <2>1
    <3> QED BY <3>1 DEF DoneUpTo
  <2> QED BY <1>4, <2>2 DEF Stage, Placed, Progressed, Filling, AtTarget
<1> QED BY <1>2, <1>3, <1>4, Whereabouts

(* A request that others leave alone keeps its place, if it hears of texts *)
(* that appear in fields it is to fill.                                    *)
LEMMA Undisturbed ==
  ASSUME IInv, Kept, NEW q \in Procs,
         pc'[q] = pc[q], build'[q] = build[q], pos'[q] = pos[q], last'[q] = last[q],
         lacks'[q] = lacks[q],
         pc[q] = "fill" =>
           \A f \in lacks[q] : row'[Target(q)][f] # Empty => f \in since'[q]
  PROVE  Stage(q)'
<1>0. TypeOK /\ Placed(q) /\ Progressed(q) /\ Filling(q) BY DEF IInv, Stage
<1>1. build[q] \in Builds /\ pos[q] \in Nat /\ last[q] \in Nat /\ Expected \in Builds
  BY <1>0, BootstrapIsTyped DEF TypeOK
<1>2. Target(q)' = Target(q) /\ TargetCollection(q)' = TargetCollection(q)
  BY DEF Target, TargetCollection
<1>3. Placed(q)'
  <2>1. CASE pc[q] \notin AtTarget BY <1>0, <2>1 DEF Placed, AtTarget
  <2>2. CASE pc[q] \in AtTarget
    <3>1. TargetCollection(q) \in Collections BY <1>0, <2>2, InHand
    <3>2. TargetCollection(q) \in tables => TargetCollection(q) \in tables' BY DEF Kept
    <3>3. Prepared(build[q], TargetCollection(q)) => Prepared(build[q], TargetCollection(q))'
      BY <1>2, <3>1 DEF Prepared, Kept
    <3> QED BY <1>0, <1>2, <3>2, <3>3 DEF Placed, AtTarget
  <2> QED BY <2>1, <2>2
<1>4. Progressed(q)'
  <2>1. pos[q] - 1 \in Int /\ last[q] \in Int BY <1>1
  <2> QED BY <1>0, <1>1, <2>1, DoneStays DEF Progressed
<1>5. Filling(q)'
  <2> SUFFICES ASSUME pc[q] = "fill" PROVE Filling(q)'
    BY DEF Filling
  <2>1. Target(q) \in Entries BY <1>0, InHand DEF AtTarget
  <2>2. Filled(build[q], Target(q)) \subseteq Fields BY <1>1, <2>1, Registry
  <2>3. row'[Target(q)] # NoRow BY <1>0, <2>1 DEF Filling, Kept
  <2>4. \A f \in Filled(build[q], Target(q)) \ lacks[q] :
          row'[Target(q)][f] # Empty \/ <<Target(q), f>> \in cleared'
    BY <1>0, <2>1, <2>2 DEF Filling, Kept
  <2> QED BY <1>0, <1>2, <2>3, <2>4 DEF Filling
<1> QED BY <1>3, <1>4, <1>5 DEF Stage

(* Who is noted has been told.                                             *)
LEMMA NotedTells ==
  ASSUME IInv, NEW q \in Procs, pc[q] = "fill", NEW e \in Entries, NEW new,
         row' = [row EXCEPT ![e] = new], since'[q] = Noted(e, new)[q]
  PROVE  \A f \in lacks[q] : row'[Target(q)][f] # Empty => f \in since'[q]
<1>0. TypeOK /\ Filling(q) /\ Placed(q) BY DEF IInv, Stage
<1>1. Target(q) \in Entries BY <1>0, InHand DEF AtTarget
<1> SUFFICES ASSUME NEW f \in lacks[q], row'[Target(q)][f] # Empty PROVE f \in since'[q]
  OBVIOUS
<1>2. CASE Target(q) # e
  <2>1. row'[Target(q)] = row[Target(q)] BY <1>0, <1>1, <1>2 DEF TypeOK
  <2>2. since'[q] = since[q] BY <1>2 DEF Noted
  <2> QED BY <1>0, <2>1, <2>2 DEF Filling
<1>3. CASE Target(q) = e
  <2>1. row'[e] = new BY <1>0 DEF TypeOK
  <2>2. since'[q] = since[q] \cup {g \in lacks[q] : row[e][g] # new[g]} BY <1>3 DEF Noted
  <2>3. CASE row[e][f] # Empty BY <1>0, <1>3, <2>2, <2>3 DEF Filling
  <2>4. CASE row[e][f] = Empty BY <1>3, <2>1, <2>2, <2>4
  <2> QED BY <2>3, <2>4
<1> QED BY <1>2, <1>3

(* The requests beside the one that makes a step.                          *)
LEMMA OthersStay ==
  ASSUME IInv, Kept, NEW p \in Procs, Serve(p), NEW q \in Procs, q # p
  PROVE  Stage(q)'
<1>0. TypeOK /\ Placed(p) /\ Filling(p) /\ Placed(q) /\ Filling(q) BY DEF IInv, Stage
<1>1. ASSUME ~FillRow(p)
      PROVE  /\ pc'[q] = pc[q] /\ build'[q] = build[q] /\ pos'[q] = pos[q]
             /\ last'[q] = last[q] /\ lacks'[q] = lacks[q] /\ since'[q] = since[q]
  <2>1. CASE \/ \E b \in Builds, mode \in {"auto", "full"} : Begin(p, b, mode)
             \/ CheckMarker(p) \/ EnsureTable(p) \/ EnsureFields(p)
    BY <1>0, <2>1
    DEF TypeOK, Begin, CheckMarker, EnsureTable, EnsureFields, Start, Advance, Goto
  <2>2. CASE ReadRow(p) \/ InsertRow(p)
    BY <1>0, <2>2 DEF TypeOK, ReadRow, InsertRow, Advance, NextTarget, Goto
  <2>3. CASE WriteMarker(p) \/ Answer(p) \/ Stop(p)
    BY <1>0, <2>3 DEF TypeOK, WriteMarker, Answer, Stop, Leave, Advance, Goto
  <2> QED BY <1>1, <2>1, <2>2, <2>3 DEF Serve
<1>2. CASE FillRow(p)
  <2> DEFINE new == [f \in Fields |->
             IF f \in lacks[p] THEN Defaults[build[p]][Target(p)][f] ELSE row[Target(p)][f]]
  <2>1. /\ pc'[q] = pc[q] /\ build'[q] = build[q] /\ pos'[q] = pos[q]
        /\ last'[q] = last[q] /\ lacks'[q] = lacks[q]
    BY <1>0, <1>2 DEF TypeOK, FillRow, Goto
  <2>2. Target(p) \in Entries BY <1>0, <1>2, InHand DEF FillRow, AtTarget
  <2>3. row' = [row EXCEPT ![Target(p)] = new] BY <1>2 DEF FillRow
  <2>4. since' = [Noted(Target(p), new) EXCEPT ![p] = {}] BY <1>2 DEF FillRow
  <2>5. Noted(Target(p), new) \in [Procs -> SUBSET Fields] BY <1>0, NotedTyped
  <2>6. since'[q] = Noted(Target(p), new)[q] BY <2>4, <2>5
  <2>7. pc[q] = "fill" => \A f \in lacks[q] : row'[Target(q)][f] # Empty => f \in since'[q]
    <3> HIDE DEF new
    <3> QED BY <2>2, <2>3, <2>6, NotedTells
  <2> QED BY <2>1, <2>7, Undisturbed
<1>3. CASE ~FillRow(p)
  <2>1. pc[q] = "fill" => row'[Target(q)] = row[Target(q)]
    <3>1. CASE InsertRow(p)
      <4>1. pc[q] = "fill" => Target(q) \in Entries /\ row[Target(q)] # NoRow
        BY <1>0, InHand DEF Filling, AtTarget
      <4> QED BY <1>0, <3>1, <4>1 DEF InsertRow, TypeOK
    <3>2. CASE ~InsertRow(p)
      BY <1>3, <3>2 DEF Serve, Begin, CheckMarker, EnsureTable, EnsureFields, ReadRow,
         WriteMarker, Answer, Stop, content
    <3> QED BY <3>1, <3>2
  <2>2. pc[q] = "fill" => \A f \in lacks[q] : row'[Target(q)][f] # Empty => f \in since'[q]
    BY <1>0, <1>1, <1>3, <2>1 DEF Filling
  <2> QED BY <1>1, <1>3, <2>2, Undisturbed
<1> QED BY <1>2, <1>3

(* A request that is done with its target goes on to the next.             *)
LEMMA GoesOn ==
  ASSUME TypeOK, NEW p \in Procs, Placed(p), Progressed(p), Kept, pc[p] \in AtTarget,
         NEW b \in Builds, NEW i \in Nat, NEW n \in Nat,
         b = build[p], i = pos[p], n = last[p],
         pc'[p] = Where(b, i + 1, n), build'[p] = b, pos'[p] = i + 1, last'[p] = n,
         b = Expected => Done(Expected, Targets[Expected][i])'
  PROVE  Stage(p)'
<1>1. i > 0 /\ i <= Len(Targets[b]) BY DEF Placed, AtTarget
<1>2. b = Expected => DoneUpTo(Expected, i)'
  <2> SUFFICES ASSUME b = Expected PROVE DoneUpTo(Expected, i)'
    OBVIOUS
  <2>1. DoneUpTo(Expected, i - 1) BY DEF Progressed
  <2>2. i - 1 \in Int OBVIOUS
  <2>3. DoneUpTo(Expected, i - 1)' BY <2>1, <2>2, DoneStays
  <2> QED BY <1>1, <2>3, OneMore
<1>3. ASSUME NEW k \in Nat \ {0}, k = i + 1 PROVE Stage(p)'
  <2>1. i = k - 1 BY <1>3
  <2>2. b = Expected => DoneUpTo(Expected, k - 1)' BY <1>2, <2>1
  <2> QED BY <1>3, <2>2, Sent
<1> QED BY <1>3

(* The request that makes a step.                                          *)
LEMMA ServedStays ==
  ASSUME IInv, Kept, TypeOK', NEW p \in Procs, Serve(p)
  PROVE  Stage(p)'
<1>0. TypeOK /\ Placed(p) /\ Progressed(p) /\ Filling(p) /\ MarkerIsComplete
  BY DEF IInv, Stage
<1>1. PICK b \in Builds, i \in Nat, n \in Nat : b = build[p] /\ i = pos[p] /\ n = last[p]
  BY <1>0 DEF TypeOK
<1>2. Expected \in Builds /\ \A c \in Builds : Len(Targets[c]) \in Nat
  BY Registry, BootstrapIsTyped
<1>3. pc[p] \in AtTarget =>
        Target(p) = Targets[b][i] /\ Target(p) \in Entries /\ TargetCollection(p) \in Collections
  BY <1>0, <1>1, InHand DEF Target
<1>4. ASSUME NEW c \in Builds, NEW mode \in {"auto", "full"}, Begin(p, c, mode)
      PROVE  Stage(p)'
  <2>1. build'[p] = c /\ pos'[p] = 1 /\ last'[p] = Len(Targets[c])
    BY <1>0, <1>4 DEF Begin, Start, TypeOK
  <2>2. DoneUpTo(Expected, 1 - 1)' BY DEF DoneUpTo
  <2>3. CASE mode = "auto"
    <3>1. pc'[p] = "marker" BY <1>0, <1>4, <2>3 DEF Begin, Start, Goto, TypeOK
    <3>2. DoneUpTo(Expected, pos[p] - 1)' BY <2>1 DEF DoneUpTo
    <3> QED BY <2>1, <3>1, <3>2 DEF Stage, Placed, Progressed, Filling, AtTarget
  <2>4. CASE mode = "full"
    <3>1. pc'[p] = Where(c, 1, Len(Targets[c]))
      BY <1>0, <1>4, <2>4 DEF Begin, Start, Goto, TypeOK
    <3>2. ASSUME NEW m \in Nat, m = Len(Targets[c]) PROVE Stage(p)'
      BY <2>1, <2>2, <3>1, <3>2, Sent
    <3> QED BY <1>2, <3>2
  <2> QED BY <2>3, <2>4
<1>5. CASE CheckMarker(p)
  <2>1. build'[p] = b /\ pos'[p] = i /\ last'[p] = n /\ pc[p] = "marker"
    BY <1>1, <1>5 DEF CheckMarker, Advance, Goto
  <2>2. CASE marker = b
    <3>1. pc'[p] = "answer" BY <1>0, <1>1, <1>5, <2>2 DEF CheckMarker, Advance, Goto, TypeOK
    <3>2. b = Expected => Complete(Expected)'
      BY <1>0, <1>2, <2>2, DoneStays DEF MarkerIsComplete
    <3>3. b = Expected => DoneUpTo(Expected, n)' BY <1>2, <3>2, CompleteIsAll
    <3>4. i > 0 BY <1>0, <1>1, <2>1 DEF Placed
    <3> QED BY <2>1, <3>1, <3>3, <3>4 DEF Stage, Placed, Progressed, Filling, AtTarget
  <2>3. CASE marker # b
    <3>1. pc'[p] = Where(b, i, n)
      BY <1>0, <1>1, <1>5, <2>3 DEF CheckMarker, Advance, Goto, TypeOK
    <3>2. i > 0 /\ (b = Expected => DoneUpTo(Expected, i - 1))
      BY <1>0, <1>1, <2>1 DEF Placed, Progressed
    <3>3. i - 1 \in Int OBVIOUS
    <3>4. b = Expected => DoneUpTo(Expected, i - 1)' BY <1>2, <3>2, <3>3, DoneStays
    <3> QED BY <2>1, <3>1, <3>2, <3>4, Sent
  <2> QED BY <2>2, <2>3
<1>6. ASSUME pc[p] \in AtTarget, UNCHANGED <<build, pos, last>>,
             pc'[p] \in {"fields", "read", "insert", "fill"}
      PROVE  /\ Target(p)' = Target(p) /\ TargetCollection(p)' = TargetCollection(p)
             /\ Progressed(p)'
             /\ pos'[p] > 0 /\ pos'[p] <= Len(Targets[build'[p]])
  <2>1. Target(p)' = Target(p) /\ TargetCollection(p)' = TargetCollection(p)
    BY <1>6 DEF Target, TargetCollection
  <2>2. pos'[p] > 0 /\ pos'[p] <= Len(Targets[build'[p]])
    BY <1>0, <1>6 DEF Placed, AtTarget
  <2>3. i - 1 \in Int OBVIOUS
  <2>4. b = Expected => DoneUpTo(Expected, i - 1)'
    BY <1>0, <1>1, <1>2, <1>6, <2>3, DoneStays DEF Progressed
  <2>5. build'[p] = b /\ pos'[p] = i BY <1>1, <1>6
  <2>6. Progressed(p)' BY <1>6, <2>4, <2>5 DEF Progressed
  <2> QED BY <2>1, <2>2, <2>6
<1>7. CASE EnsureTable(p)
  <2>1. pc[p] = "table" /\ pc'[p] = "fields" /\ UNCHANGED <<build, pos, last>>
    BY <1>0, <1>7 DEF EnsureTable, Advance, Goto, TypeOK
  <2>2. TargetCollection(p) \in tables' BY <1>7 DEF EnsureTable
  <2> QED BY <1>6, <2>1, <2>2 DEF Stage, Placed, Filling, AtTarget
<1>8. CASE EnsureFields(p)
  <2>1. pc[p] = "fields" /\ pc'[p] = "read" /\ UNCHANGED <<build, pos, last>>
    BY <1>0, <1>8 DEF EnsureFields, Advance, Goto, TypeOK
  <2>2. TargetCollection(p) \in tables' BY <1>0, <1>8, <2>1 DEF EnsureFields, Placed
  <2>3. Schema[build[p]][TargetCollection(p)] \subseteq known'[TargetCollection(p)]
    BY <1>0, <1>3, <1>8, <2>1 DEF EnsureFields, TypeOK, AtTarget
  <2>4. pc[p] \in AtTarget BY <2>1 DEF AtTarget
  <2>5. Prepared(build[p], TargetCollection(p))'
    BY <1>6, <2>1, <2>2, <2>3, <2>4 DEF Prepared
  <2> QED BY <1>6, <2>1, <2>2, <2>4, <2>5 DEF Stage, Placed, Filling
<1>9. ASSUME pc[p] \in {"read", "insert", "fill"}
      PROVE  /\ pc[p] \in AtTarget /\ b = build[p]
             /\ Target(p) = Targets[b][i] /\ Targets[b][i] \in Entries
             /\ Prepared(b, CollectionOf[Targets[b][i]])'
  <2>1. pc[p] \in AtTarget BY <1>9 DEF AtTarget
  <2>2. Target(p) = Targets[b][i] /\ Targets[b][i] \in Entries BY <1>3, <2>1
  <2>3. CollectionOf[Targets[b][i]] \in Collections BY <2>2, Registry
  <2>4. Prepared(b, CollectionOf[Targets[b][i]])
    BY <1>0, <1>1, <1>9, <2>2 DEF Placed, TargetCollection
  <2> QED BY <1>1, <2>1, <2>2, <2>3, <2>4, DoneStays
<1>10. CASE ReadRow(p)
  <2> DEFINE t == Targets[b][i]
  <2>0. pc[p] = "read" BY <1>10 DEF ReadRow
  <2>1. pc[p] \in AtTarget /\ b = build[p] /\ Target(p) = t /\ t \in Entries
        /\ Prepared(b, CollectionOf[t])'
    BY <1>9, <2>0
  <2>2. UNCHANGED <<tables, known, row, cleared>> BY <1>10 DEF ReadRow, schema, content, authors
  <2>3. CASE row[t] = NoRow /\ Advance(p, "read", "insert")
    <3>1. pc'[p] = "insert" /\ UNCHANGED <<build, pos, last>>
      BY <1>0, <2>3 DEF Advance, Goto, TypeOK
    <3>2. TargetCollection(p) \in tables' /\ Prepared(build[p], TargetCollection(p))'
      BY <1>0, <1>6, <2>0, <2>1, <2>2, <3>1 DEF Placed, Prepared
    <3> QED BY <1>6, <2>1, <3>1, <3>2 DEF Stage, Placed, Filling
  <2>4. CASE row[t] # NoRow /\ MissingFields(b, t) = {} /\ NextTarget(p, "read")
    <3>1. /\ pc'[p] = Where(b, i + 1, n) /\ build'[p] = b
          /\ pos'[p] = i + 1 /\ last'[p] = n
      BY <1>0, <1>1, <2>4 DEF NextTarget, Goto, TypeOK
    <3>2. \A f \in Filled(b, t) : row[t][f] # Empty BY <2>4 DEF MissingFields
    <3>3. Done(b, t)' BY <2>1, <2>2, <2>4, <3>2 DEF Done
    <3> QED BY <1>0, <1>1, <2>1, <3>1, <3>3, GoesOn
  <2>5. CASE /\ row[t] # NoRow
             /\ Goto(p, "read", "fill")
             /\ lacks' = [lacks EXCEPT ![p] = MissingFields(b, t)]
             /\ UNCHANGED <<build, pos, last, since>>
    <3>1. pc'[p] = "fill" /\ lacks'[p] = MissingFields(b, t) BY <1>0, <2>5 DEF Goto, TypeOK
    <3>2. TargetCollection(p) \in tables' /\ Prepared(build[p], TargetCollection(p))'
      BY <1>0, <1>6, <2>0, <2>1, <2>2, <2>5, <3>1 DEF Placed, Prepared
    <3>3. Placed(p)' /\ Progressed(p)' BY <1>6, <2>1, <2>5, <3>1, <3>2 DEF Placed
    <3>4. Target(p)' = t /\ build'[p] = b BY <1>6, <2>1, <2>5, <3>1
    <3>5. Filling(p)'
      BY <2>2, <2>5, <3>1, <3>4 DEF Filling, MissingFields
    <3> QED BY <3>3, <3>5 DEF Stage
  <2> QED BY <1>10, <2>1, <2>3, <2>4, <2>5 DEF ReadRow
<1>11. CASE InsertRow(p) \/ FillRow(p)
  <2> DEFINE t == Targets[b][i]
  <2>0. pc[p] \in {"insert", "fill"} BY <1>11 DEF InsertRow, FillRow
  <2>1. pc[p] \in AtTarget /\ b = build[p] /\ Target(p) = t /\ t \in Entries
        /\ Prepared(b, CollectionOf[t])'
    BY <1>9, <2>0
  <2>2. /\ pc'[p] = Where(b, i + 1, n) /\ build'[p] = b
        /\ pos'[p] = i + 1 /\ last'[p] = n
    BY <1>0, <1>1, <1>11 DEF InsertRow, FillRow, NextTarget, Goto, TypeOK
  <2>3. row'[t] # NoRow /\ \A f \in Filled(b, t) : row'[t][f] # Empty \/ <<t, f>> \in cleared'
    <3>1. CASE InsertRow(p)
      <4>1. row'[t] = Defaults[b][t] BY <1>0, <2>1, <3>1 DEF InsertRow, TypeOK
      <4>2. Defaults[b][t] # NoRow BY <2>1, Registry, BootstrapIsTyped
      <4> QED BY <4>1, <4>2 DEF Filled
    <3>2. CASE FillRow(p)
      <4>1. Filled(b, t) \subseteq Fields BY <2>1, Registry
      <4>2. \A f \in Filled(b, t) \ lacks[p] : row[t][f] # Empty \/ <<t, f>> \in cleared
        BY <1>0, <2>1, <3>2 DEF Filling, FillRow
      <4>3. cleared' = cleared BY <3>2 DEF FillRow, authors
      <4> QED BY <2>1, <3>2, <4>1, <4>2, <4>3, FilledRow
    <3> QED BY <1>11, <3>1, <3>2
  <2>4. Done(b, t)' BY <2>1, <2>3 DEF Done
  <2> QED BY <1>0, <1>1, <2>1, <2>2, <2>4, GoesOn
<1>12. CASE WriteMarker(p)
  <2>1. /\ pc[p] = "state" /\ pc'[p] = "answer"
        /\ build'[p] = b /\ pos'[p] = i /\ last'[p] = n
    BY <1>0, <1>1, <1>12 DEF WriteMarker, Advance, Goto, TypeOK
  <2>2. b = Expected => Complete(Expected)'
    BY <1>0, <1>1, <1>2, <2>1, DoneStays DEF Progressed
  <2>3. b = Expected => DoneUpTo(Expected, n)' BY <1>2, <2>2, CompleteIsAll
  <2>4. i > 0 BY <1>0, <1>1, <2>1 DEF Placed
  <2> QED BY <2>1, <2>3, <2>4 DEF Stage, Placed, Progressed, Filling, AtTarget
<1>13. CASE Answer(p) \/ Stop(p)
  <2>1. pc'[p] = "idle" BY <1>0, <1>13 DEF Answer, Stop, Leave, TypeOK
  <2> QED BY <2>1 DEF Stage, Placed, Progressed, Filling, AtTarget
<1> QED BY <1>4, <1>5, <1>7, <1>8, <1>10, <1>11, <1>12, <1>13 DEF Serve

(* Requests keep their places when the script or an author makes a step.   *)
LEMMA StageStays ==
  ASSUME IInv, Kept, TypeOK', [Next]_vars, NEW q \in Procs
  PROVE  Stage(q)'
<1>0. TypeOK /\ Placed(q) /\ Filling(q) /\ BatchesAreDone BY DEF IInv, Stage
<1>1. ASSUME UNCHANGED <<locals, row, since>> PROVE Stage(q)'
  BY <1>0, <1>1, Undisturbed DEF locals, Filling
<1>2. ASSUME NEW p \in Procs, Serve(p) PROVE Stage(q)'
  BY <1>2, OthersStay, ServedStays
<1>3. ASSUME NEW p \in Procs, NEW b \in Builds, Post(p, b) PROVE Stage(q)'
  <2>1. CASE q = p
    <3>1. ASSUME NEW k \in Nat, k = cursor PROVE Stage(q)'
      <4>1. /\ build'[p] = b /\ pos'[p] = k + 1 /\ last'[p] = k + Batch
            /\ pc'[p] = Where(b, k + 1, k + Batch)
        BY <1>0, <1>3, <3>1 DEF Post, Start, Goto, TypeOK
      <4>2. DoneUpTo(Expected, k) BY <1>0, <1>3, <3>1 DEF Post, BatchesAreDone
      <4>3. k \in Int /\ Expected \in Builds BY BootstrapIsTyped
      <4>4. DoneUpTo(Expected, k)' BY <4>2, <4>3, DoneStays
      <4>5. ASSUME NEW i \in Nat \ {0}, NEW n \in Nat, i = k + 1, n = k + Batch
            PROVE  Stage(q)'
        <5>1. k = i - 1 BY <4>5
        <5>2. DoneUpTo(Expected, i - 1)' BY <4>4, <5>1
        <5> QED BY <2>1, <4>1, <4>5, <5>2, Sent
      <4> QED BY <4>5, BootstrapIsTyped
    <3> QED BY <1>0, <3>1 DEF TypeOK
  <2>2. CASE q # p
    <3>1. /\ pc'[q] = pc[q] /\ build'[q] = build[q] /\ pos'[q] = pos[q]
          /\ last'[q] = last[q] /\ lacks'[q] = lacks[q] /\ since'[q] = since[q]
      BY <1>0, <1>3, <2>2 DEF Post, Start, Goto, TypeOK
    <3>2. row' = row BY <1>3 DEF Post, content
    <3> QED BY <1>0, <3>1, <3>2, Undisturbed DEF Filling
  <2> QED BY <2>1, <2>2
<1>4. CASE Deploy
  BY <1>1, <1>3, <1>4
  DEF Deploy, ReadDeep, ReadFast, TimeOut, GiveUp, Rerun, AddColumn, content
<1>5. ASSUME NEW w \in Edits, CreateEntry(w) PROVE Stage(q)'
  <2>1. pc[q] = "fill" => Target(q) \in Entries /\ row[Target(q)] # NoRow
    BY <1>0, InHand DEF Filling, AtTarget
  <2>2. pc[q] = "fill" => row'[Target(q)] = row[Target(q)]
    BY <1>0, <1>5, <2>1, EditTyped DEF CreateEntry, TypeOK
  <2>3. UNCHANGED <<pc, build, pos, last, lacks, since>> BY <1>5 DEF CreateEntry, locals
  <2> QED BY <1>0, <2>2, <2>3, Undisturbed DEF Filling
<1>6. ASSUME NEW e \in Entries, Publish(e) PROVE Stage(q)'
  <2>1. CASE draft[e] = NoDraft BY <1>1, <1>6, <2>1 DEF Publish
  <2>2. CASE draft[e] # NoDraft
    <3>1. row' = [row EXCEPT ![e] = draft[e]] /\ since' = Noted(e, draft[e])
      BY <1>6, <2>2 DEF Publish
    <3>2. UNCHANGED <<pc, build, pos, last, lacks>> BY <1>6 DEF Publish, locals
    <3>3. since'[q] = Noted(e, draft[e])[q] BY <3>1
    <3>4. pc[q] = "fill" => \A f \in lacks[q] : row'[Target(q)][f] # Empty => f \in since'[q]
      BY <3>1, <3>3, NotedTells
    <3> QED BY <3>2, <3>4, Undisturbed
  <2> QED BY <2>1, <2>2
<1>7. CASE Author
  BY <1>1, <1>5, <1>6, <1>7 DEF Author, SaveDraft, Unpublish, content
<1> QED BY <1>1, <1>2, <1>4, <1>7 DEF Next, vars, content

-----------------------------------------------------------------------------
(* Drafts, the script and what it may rely on.                             *)

(* Drafts stay full.                                                       *)
LEMMA DraftsStay ==
  ASSUME IInv, Kept, TypeOK', [Next]_vars
  PROVE  DraftsAreFull'
<1>0. TypeOK /\ DraftsAreFull BY DEF IInv
<1>1. CASE UNCHANGED <<row, draft, cleared>>
  BY <1>0, <1>1 DEF DraftsAreFull
<1>2. ASSUME NEW p \in Procs, InsertRow(p) PROVE DraftsAreFull'
  <2>1. draft[Target(p)] = NoDraft \/ Target(p) \notin Entries
    BY <1>0, <1>2 DEF InsertRow, DraftsAreFull
  <2>2. draft' = draft /\ cleared' = cleared BY <1>2 DEF InsertRow, authors
  <2>3. \A e \in Entries : e # Target(p) => row'[e] = row[e] BY <1>0, <1>2 DEF InsertRow, TypeOK
  <2> QED BY <1>0, <2>1, <2>2, <2>3 DEF DraftsAreFull
<1>3. ASSUME NEW p \in Procs, FillRow(p) PROVE DraftsAreFull'
  <2>1. cleared' = cleared BY <1>3 DEF FillRow, authors
  <2>2. \A e \in Entries : draft'[e] = IF e = Target(p) THEN NoDraft ELSE draft[e]
    BY <1>0, <1>3 DEF FillRow, DroppedDraft, TypeOK
  <2> QED BY <1>0, <1>3, <2>1, <2>2, FilledRow DEF DraftsAreFull
<1>4. ASSUME NEW w \in Edits, CreateEntry(w) PROVE DraftsAreFull'
  <2>1. draft[w.entry] = NoDraft BY <1>0, <1>4, EditTyped DEF CreateEntry, DraftsAreFull
  <2>2. draft' = draft /\ cleared \subseteq cleared' BY <1>4 DEF CreateEntry
  <2>3. \A e \in Entries : e # w.entry => row'[e] = row[e] BY <1>0, <1>4 DEF CreateEntry, TypeOK
  <2> QED BY <1>0, <2>1, <2>2, <2>3 DEF DraftsAreFull
<1>5. ASSUME NEW w \in Edits, SaveDraft(w) PROVE DraftsAreFull'
  <2> DEFINE e == w.entry
             base == IF draft[e] = NoDraft THEN row[e] ELSE draft[e]
  <2>1. e \in Entries /\ w.field \in Fields BY EditTyped
  <2>2. row' = row /\ cleared \subseteq cleared' BY <1>5 DEF SaveDraft
  <2>3. base \in Texts BY <1>0, <1>5, <2>1 DEF SaveDraft, TypeOK
  <2>4. draft'[e] = [base EXCEPT ![w.field] = w.text]
        /\ \A d \in Entries : d # e => draft'[d] = draft[d]
    BY <1>0, <1>5, <2>1 DEF SaveDraft, TypeOK
  <2>5. row[e] # NoRow BY <1>5 DEF SaveDraft
  <2>6. \A f \in Fields : base[f] # Empty \/ row[e][f] = Empty \/ <<e, f>> \in cleared
    BY <1>0, <2>1 DEF DraftsAreFull
  <2>7. ASSUME NEW f \in Fields
        PROVE  draft'[e][f] # Empty \/ row[e][f] = Empty \/ <<e, f>> \in cleared'
    <3>1. CASE f = w.field
      <4>1. draft'[e][f] = w.text BY <2>3, <2>4, <3>1 DEF Texts
      <4>2. w.text = Empty => <<e, f>> \in cleared' BY <1>5, <3>1 DEF SaveDraft
      <4> QED BY <4>1, <4>2
    <3>2. CASE f # w.field
      <4>1. draft'[e][f] = base[f] BY <2>3, <2>4, <3>2 DEF Texts
      <4> QED BY <2>2, <2>6, <4>1
    <3> QED BY <3>1, <3>2
  <2> QED BY <1>0, <2>2, <2>4, <2>5, <2>7 DEF DraftsAreFull
<1>6. ASSUME NEW e \in Entries, Publish(e) PROVE DraftsAreFull'
  <2>1. cleared' = cleared BY <1>6 DEF Publish, authors
  <2>2. \A d \in Entries : draft'[d] = IF d = e THEN NoDraft ELSE draft[d]
    BY <1>0, <1>6 DEF Publish, TypeOK
  <2>3. \A d \in Entries : d # e => row'[d] = row[d] BY <1>0, <1>6 DEF Publish, TypeOK
  <2> QED BY <1>0, <2>1, <2>2, <2>3 DEF DraftsAreFull
<1>7. ASSUME NEW p \in Procs, Serve(p) PROVE DraftsAreFull'
  BY <1>1, <1>2, <1>3, <1>7
  DEF Serve, Begin, CheckMarker, EnsureTable, EnsureFields, ReadRow, WriteMarker, Answer, Stop,
      content, authors
<1>8. CASE Deploy
  BY <1>1, <1>8
  DEF Deploy, ReadDeep, ReadFast, Post, TimeOut, GiveUp, Rerun, AddColumn, content, authors
<1>9. CASE Author
  BY <1>1, <1>4, <1>5, <1>6, <1>9 DEF Author, Unpublish
<1>10. CASE UNCHANGED vars
  BY <1>1, <1>10 DEF vars, content, authors
<1> QED BY <1>7, <1>8, <1>9, <1>10 DEF Next

(* The completion record stays true.                                       *)
LEMMA MarkerStays ==
  ASSUME IInv, Kept, [Next]_vars
  PROVE  MarkerIsComplete'
<1>0. TypeOK /\ MarkerIsComplete BY DEF IInv
<1>1. Expected \in Builds BY BootstrapIsTyped
<1>2. CASE marker' = marker
  BY <1>0, <1>1, <1>2, DoneStays DEF MarkerIsComplete
<1>3. ASSUME NEW p \in Procs, WriteMarker(p) PROVE MarkerIsComplete'
  <2>1. marker' = build[p] /\ pc[p] = "state" BY <1>3 DEF WriteMarker, Advance, Goto
  <2>2. build[p] = Expected => Complete(Expected) BY <2>1 DEF IInv, Stage, Progressed
  <2> QED BY <1>1, <2>1, <2>2, DoneStays DEF MarkerIsComplete
<1> QED
  BY <1>2, <1>3
  DEF Next, Serve, Begin, CheckMarker, EnsureTable, EnsureFields, ReadRow, InsertRow, FillRow,
      Answer, Stop, Deploy, ReadDeep, ReadFast, Post, TimeOut, GiveUp, Rerun, AddColumn,
      Author, CreateEntry, SaveDraft, Publish, Unpublish, vars

(* Every step but these leaves the script where it is.                     *)
LEMMA ScriptSteps ==
  ASSUME [Next]_vars
  PROVE  \/ UNCHANGED <<script, cursor, call, deep>> /\ published \subseteq published'
              /\ UNCHANGED takenDown
         \/ \E p \in Procs : Answer(p) \/ Stop(p)
         \/ \E b \in Builds : ReadDeep(b) \/ ReadFast(b)
         \/ \E p \in Procs, b \in Builds : Post(p, b)
         \/ TimeOut \/ GiveUp \/ Rerun
         \/ \E e \in Entries : Unpublish(e)
  BY ZenonT(60) DEF Next, Serve, Begin, CheckMarker, EnsureTable, EnsureFields, ReadRow, InsertRow, FillRow,
      WriteMarker, Deploy, AddColumn, Author, CreateEntry, SaveDraft, Publish, vars,
      content, deployment, authors

(* The script keeps to its protocol.                                       *)
LEMMA DeploymentStays ==
  ASSUME IInv, Kept, [Next]_vars
  PROVE  Deployment' /\ BatchesAreDone' /\ ScriptIsRight'
<1>0. TypeOK /\ Deployment /\ BatchesAreDone /\ ScriptIsRight /\ MarkerIsComplete BY DEF IInv
<1>1. Expected \in Builds /\ Expected # NoBuild /\ Len(Targets[Expected]) \in Nat
  BY Registry, BootstrapIsTyped
<1>2. \A n \in Nat : DoneUpTo(Expected, n) => DoneUpTo(Expected, n)'
  BY <1>1, DoneStays
<1>3. Complete(Expected) => Complete(Expected)' BY <1>1, DoneStays
<1>4. ASSUME cursor' = cursor, script' \in {"post", "wait"} => script \in {"post", "wait"}
      PROVE  BatchesAreDone'
  <2> SUFFICES ASSUME NEW n \in Nat, n = cursor, script' \in {"post", "wait"}
               PROVE  DoneUpTo(Expected, cursor)'
    BY <1>0 DEF BatchesAreDone, TypeOK
  <2>1. DoneUpTo(Expected, n)' BY <1>0, <1>2, <1>4 DEF BatchesAreDone
  <2> QED BY <1>4, <2>1 DEF DoneUpTo
<1>5. ASSUME cursor' = 0 PROVE BatchesAreDone'
  BY <1>5 DEF BatchesAreDone, DoneUpTo
<1>6. CASE /\ UNCHANGED <<script, cursor, call, deep>> /\ published \subseteq published'
           /\ UNCHANGED takenDown
  <2>1. Deployment' BY <1>0, <1>6 DEF Deployment
  <2>2. ScriptIsRight' BY <1>0, <1>3, <1>6 DEF ScriptIsRight
  <2> QED BY <1>4, <1>6, <2>1, <2>2
<1>7. ASSUME NEW p \in Procs, Answer(p) PROVE Deployment' /\ BatchesAreDone' /\ ScriptIsRight'
  <2>1. deep' = deep /\ published' = published /\ takenDown' = takenDown
    BY <1>7 DEF Answer, content, authors
  <2>2. CASE call # p
    BY <1>0, <1>3, <1>4, <1>7, <2>1, <2>2 DEF Answer, Deployment, ScriptIsRight
  <2>3. CASE call = p
    <3>1. script = "wait" /\ deep = NoBuild
      BY <1>0, <2>3, BootstrapIsTyped DEF Deployment
    <3>2. script' \in {"post", "verify"} /\ call' = NoProc
          /\ (script' = "verify" => cursor' = 0)
      BY <1>7, <2>3 DEF Answer
    <3>3. Deployment' /\ ScriptIsRight' BY <2>1, <3>1, <3>2 DEF Deployment, ScriptIsRight
    <3>4. BatchesAreDone'
      <4>1. CASE cursor' = cursor BY <1>4, <3>1, <4>1
      <4>2. CASE cursor' = 0 BY <1>5, <4>2
      <4>3. CASE build[p] = Expected /\ cursor' = last[p]
        <5>1. pc[p] = "answer" BY <1>7 DEF Answer
        <5>2. DoneUpTo(Expected, last[p]) BY <4>3, <5>1 DEF IInv, Stage, Progressed
        <5> SUFFICES ASSUME NEW n \in Nat, n = last[p] PROVE DoneUpTo(Expected, cursor)'
          BY <1>0 DEF BatchesAreDone, TypeOK
        <5>3. DoneUpTo(Expected, n)' BY <1>2, <5>2
        <5> QED BY <4>3, <5>3 DEF DoneUpTo
      <4> QED BY <1>7, <2>3, <4>1, <4>2, <4>3 DEF Answer, IsExpectedDeployment
    <3> QED BY <3>3, <3>4
  <2> QED BY <2>2, <2>3
<1>8. ASSUME NEW p \in Procs, Stop(p) PROVE Deployment' /\ BatchesAreDone' /\ ScriptIsRight'
  <2>1. deep' = deep /\ published' = published /\ takenDown' = takenDown /\ cursor' = cursor
    BY <1>8 DEF Stop, content, authors
  <2>2. CASE call # p
    BY <1>0, <1>3, <1>4, <1>8, <2>1, <2>2 DEF Stop, Deployment, ScriptIsRight
  <2>3. CASE call = p
    <3>1. script = "wait" /\ deep = NoBuild /\ script' = "post" /\ call' = NoProc
      BY <1>0, <1>8, <2>3, BootstrapIsTyped DEF Deployment, Stop
    <3> QED BY <1>4, <2>1, <3>1 DEF Deployment, ScriptIsRight
  <2> QED BY <2>2, <2>3
<1>9. ASSUME NEW b \in Builds, ReadDeep(b)
      PROVE  Deployment' /\ BatchesAreDone' /\ ScriptIsRight'
  <2>1. b = Expected /\ script' \in {"fast", "confirm"} /\ script \in {"deep", "verify"}
        /\ cursor' = cursor /\ call' = call /\ published' = published
    BY <1>9 DEF ReadDeep, IsExpectedDeployment, content
  <2>2. call = NoProc /\ cursor = 0 BY <1>0, <2>1 DEF Deployment
  <2>3. deep' # NoBuild => deep' = Expected /\ DeepReady(Expected)
    BY <1>9, <2>1 DEF ReadDeep
  <2>4. Deployment' BY <2>1, <2>2, <2>3 DEF Deployment, DeepReady
  <2> QED BY <1>5, <2>1, <2>2, <2>4 DEF ScriptIsRight
<1>10. ASSUME NEW b \in Builds, ReadFast(b)
       PROVE  Deployment' /\ BatchesAreDone' /\ ScriptIsRight'
  <2>1. b = Expected /\ script' \in {"ready", "post", "failed"} /\ script \in {"fast", "confirm"}
        /\ cursor' = cursor /\ call' = call /\ published' = published /\ deep' = NoBuild
    BY <1>10 DEF ReadFast, IsExpectedDeployment, content
  <2>2. call = NoProc /\ cursor = 0 BY <1>0, <2>1 DEF Deployment
  <2>3. Deployment' BY <2>1, <2>2 DEF Deployment
  <2>4. script' = "ready" => deep = Expected /\ marker = Expected /\ takenDown' = takenDown
    BY <1>10, <2>1 DEF ReadFast, FastReady
  <2>5. ScriptIsRight'
    BY <1>0, <1>1, <1>3, <2>1, <2>4 DEF ScriptIsRight, Deployment, MarkerIsComplete
  <2> QED BY <1>5, <2>1, <2>2, <2>3, <2>5
<1>11. ASSUME NEW p \in Procs, NEW b \in Builds, Post(p, b)
       PROVE  Deployment' /\ BatchesAreDone' /\ ScriptIsRight'
  <2>1. script = "post" /\ script' = "wait" /\ cursor' = cursor /\ deep' = deep
    BY <1>11 DEF Post
  <2>2. deep = NoBuild BY <1>0, <2>1 DEF Deployment
  <2> QED BY <1>4, <2>1, <2>2 DEF Deployment, ScriptIsRight
<1>12. CASE TimeOut \/ GiveUp \/ Rerun
  <2>1. /\ script \notin {"fast", "confirm"} /\ script' \in {"post", "failed", "deep"}
        /\ deep' = deep
        /\ script' = "post" => script = "wait" /\ cursor' = cursor
    BY <1>12 DEF TimeOut, GiveUp, Rerun
  <2>2. deep = NoBuild /\ call' = NoProc /\ (script' # "post" => cursor' = 0)
    BY <1>0, <1>12, <2>1 DEF TimeOut, GiveUp, Rerun, Deployment
  <2> QED BY <1>4, <1>5, <2>1, <2>2 DEF Deployment, ScriptIsRight
<1>13. ASSUME NEW e \in Entries, Unpublish(e)
       PROVE  Deployment' /\ BatchesAreDone' /\ ScriptIsRight'
  <2>1. UNCHANGED <<script, cursor, call, deep>> BY <1>13 DEF Unpublish, deployment
  <2>2. deep # NoBuild \/ script = "ready" =>
          published \cup takenDown \subseteq published' \cup takenDown'
    BY <1>13 DEF Unpublish
  <2>3. Deployment' BY <1>0, <2>1, <2>2 DEF Deployment
  <2>4. ScriptIsRight' BY <1>0, <1>3, <2>1, <2>2 DEF ScriptIsRight
  <2> QED BY <1>4, <2>1, <2>3, <2>4
<1> QED
  BY <1>6, <1>7, <1>8, <1>9, <1>10, <1>11, <1>12, <1>13, ScriptSteps

-----------------------------------------------------------------------------
(* Theorems.                                                               *)

(* The invariant holds in every state of the bootstrap.                    *)
THEOREM Invariance == Spec => []IInv
<1>1. IInv /\ [Next]_vars => IInv'
  <2> SUFFICES ASSUME IInv, [Next]_vars PROVE IInv'
    OBVIOUS
  <2>1. TypeOK' BY StepTyped
  <2>2. Kept BY StepKeeps
  <2>3. \A q \in Procs : Stage(q)' BY <2>1, <2>2, StageStays
  <2> QED BY <2>1, <2>2, <2>3, DraftsStay, MarkerStays, DeploymentStays DEF IInv
<1> QED BY <1>1, Initially, PTL DEF Spec

(* Every variable keeps its type.                                          *)
THEOREM TypeCorrect == Spec => []TypeOK
<1>1. IInv => TypeOK BY DEF IInv
<1> QED BY <1>1, Invariance, PTL

(* The completion record of the deployed build is never there too early.   *)
THEOREM MarkerComplete == Spec => []MarkerIsComplete
<1>1. IInv => MarkerIsComplete BY DEF IInv
<1> QED BY <1>1, Invariance, PTL

(* The script never goes on past a batch that is not done.                 *)
THEOREM BatchesDone == Spec => []BatchesAreDone
<1>1. IInv => BatchesAreDone BY DEF IInv
<1> QED BY <1>1, Invariance, PTL

(* A deployment that is reported ready is ready.                           *)
THEOREM ReadyIsReady == Spec => []ScriptIsRight
<1>1. IInv => ScriptIsRight BY DEF IInv
<1> QED BY <1>1, Invariance, PTL

(* A text that a bootstrap had read is never replaced by it.               *)
THEOREM SeenIsKept == Spec => OnlyUnseenIsReplaced
<1> DEFINE Step == \A e \in Entries, f \in Fields : Replaced(e, f) =>
             \/ row'[e] = draft[e]
             \/ \E p \in Procs : pc[p] = "fill" /\ Target(p) = e /\ f \in since[p]
<1>1. IInv /\ [Next]_vars => [Step]_vars
  <2> SUFFICES ASSUME IInv, [Next]_vars, NEW e \in Entries, NEW f \in Fields, Replaced(e, f)
               PROVE  \/ row'[e] = draft[e]
                      \/ \E p \in Procs : pc[p] = "fill" /\ Target(p) = e /\ f \in since[p]
    OBVIOUS
  <2>0. TypeOK /\ row[e] # NoRow /\ row[e][f] # Empty /\ row' # row BY DEF IInv, Replaced
  <2>1. ASSUME NEW p \in Procs, InsertRow(p) PROVE FALSE
    BY <2>0, <2>1 DEF InsertRow, Replaced, TypeOK
  <2>2. ASSUME NEW w \in Edits, CreateEntry(w) PROVE FALSE
    BY <2>0, <2>2 DEF CreateEntry, Replaced, TypeOK
  <2>3. ASSUME NEW p \in Procs, FillRow(p)
        PROVE  pc[p] = "fill" /\ Target(p) = e /\ f \in since[p]
    <3>1. pc[p] = "fill" BY <2>3 DEF FillRow
    <3>2. Target(p) = e /\ f \in lacks[p] BY <2>3, FilledRow DEF Replaced
    <3> QED BY <2>0, <3>1, <3>2 DEF IInv, Stage, Filling
  <2>4. ASSUME NEW d \in Entries, Publish(d) PROVE row'[e] = draft[e]
    BY <2>0, <2>4 DEF Publish, Replaced, TypeOK
  <2>5. \/ \E p \in Procs : InsertRow(p) \/ FillRow(p)
        \/ \E w \in Edits : CreateEntry(w)
        \/ \E d \in Entries : Publish(d)
    BY <2>0 DEF Next, Serve, Begin, CheckMarker, EnsureTable, EnsureFields, ReadRow,
       WriteMarker, Answer, Stop, Deploy, ReadDeep, ReadFast, Post, TimeOut, GiveUp, Rerun,
       AddColumn, Author, SaveDraft, Unpublish, vars, content
  <2> QED BY <2>1, <2>2, <2>3, <2>4, <2>5
<1> QED BY <1>1, Invariance, PTL DEF Spec, OnlyUnseenIsReplaced
=============================================================================
