--------------------------- MODULE RuntimeConfig ---------------------------
(***************************************************************************)
(* The runtime configuration (aggregator/runtime-config.ts): the rows that *)
(* the control plane syncs, one D1 statement each, and the copy each       *)
(* worker isolate caches.  Syncs, reads of other requests and the clock    *)
(* run in between all of these, and a request may stop at any of them.     *)
(*                                                                         *)
(* A body whose token, target, environment or keys are refused leaves no   *)
(* trace and is left out; the rest of its validation is Acceptable.        *)
(***************************************************************************)
EXTENDS Naturals

CONSTANTS
  ConfigKeys, \* runtimeConfigKeys
  Selectors,  \* those that name an active integration provider
  Supported,  \* providers a selector may name
  Settings,   \* all values
  None,       \* "none", what a disabled selector reads as
  Blank,      \* "", what any other disabled key reads as
  EnvValue,   \* the environment's own value or secret of each key, or Blank
  Bodies,     \* the sync bodies the control plane sends
  Isolates, Readers, Syncs,
  IsolateOf,  \* the isolate each reader's requests run in
  Ttl,        \* runtimeConfigCacheTtlMs
  MaxClock    \* bound on the clock

ASSUME ConfigConstants ==
  /\ Selectors \subseteq ConfigKeys
  /\ {None, Blank} \cup Supported \subseteq Settings
  /\ EnvValue \in [ConfigKeys -> Settings]
  /\ Isolates # {} /\ ConfigKeys # {}
  /\ IsolateOf \in [Readers -> Isolates]
  /\ Ttl \in Nat \ {0} /\ MaxClock \in Nat

(* Of a body, items maps keys to rows and disabled is a set of keys.  A    *)
(* key that a body repeats is written again; the last one is left.         *)
ConfigRow == [value : Settings, status : {"active", "disabled", "absent"}]
NoRow == [value |-> Blank, status |-> "absent"]
Table == [ConfigKeys -> ConfigRow]
View == [ConfigKeys -> [set : BOOLEAN, value : Settings]]

ASSUME BodiesAreConfig ==
  \A b \in Bodies : b.items \in Table /\ b.disabled \subseteq ConfigKeys

NoView == [k \in ConfigKeys |-> [set |-> FALSE, value |-> Blank]]

VARIABLES
  table,    \* ap_runtime_config
  cachedConfig, \* by isolate: whether there is one, its loadedAt and values
                \* and, here and in reader, when these were selected (history)
  reader,   \* reads of one key
  sync,     \* syncs under way
  clock

configVars == <<table, cachedConfig, reader, sync, clock>>

ConfigTypeOK ==
  /\ table \in Table
  /\ \A k \in Selectors : table[k].status = "active" => table[k].value \in Supported
  /\ cachedConfig \in [Isolates -> [held : BOOLEAN, loadedAt : Nat, asOf : Nat,
                               values : View]]
  /\ reader \in [Readers ->
       [pc : {"idle", "select", "store", "answered"},
        key : ConfigKeys, began : Nat, asOf : Nat, values : View,
        answer : Settings]]
  /\ sync \in [Syncs ->
       [pc : {"idle", "write"}, isolate : Isolates,
        items : Table, disabled : SUBSET ConfigKeys]]
  /\ clock \in Nat

NoCopy == [held |-> FALSE, loadedAt |-> 0, asOf |-> 0, values |-> NoView]
NoRead == [pc |-> "idle", key |-> CHOOSE k \in ConfigKeys : TRUE, began |-> 0, asOf |-> 0,
           values |-> NoView, answer |-> Blank]
NoSync == [pc |-> "idle", isolate |-> CHOOSE i \in Isolates : TRUE,
           items |-> [k \in ConfigKeys |-> NoRow], disabled |-> {}]

ConfigInit ==
  /\ table = [k \in ConfigKeys |-> NoRow]
  /\ cachedConfig = [i \in Isolates |-> NoCopy]
  /\ reader = [r \in Readers |-> NoRead]
  /\ sync = [s \in Syncs |-> NoSync]
  /\ clock = 0

-----------------------------------------------------------------------------
(* sync.ts and upsertRuntimeConfigRows                                     *)

(* Mutant: the providers are not looked at.                                *)
AcceptAny(body) == TRUE

(* The providers are checked before the first row is written.              *)
Acceptable(body) ==
  \A k \in Selectors :
    body.items[k].status = "active" => body.items[k].value \in Supported

StartSync(s, i, body) ==
  /\ sync[s].pc = "idle"
  /\ Acceptable(body)
  /\ sync' = [sync EXCEPT ![s] = [pc |-> "write", isolate |-> i,
                                  items |-> body.items, disabled |-> body.disabled]]
  /\ UNCHANGED <<table, cachedConfig, reader, clock>>

ItemsLeft(s) == {k \in ConfigKeys : sync[s].items[k] # NoRow}

WriteItem(s, k) ==
  /\ sync[s].pc = "write" /\ k \in ItemsLeft(s)
  /\ table' = [table EXCEPT ![k] = sync[s].items[k]]
  /\ sync' = [sync EXCEPT ![s].items[k] = NoRow]
  /\ UNCHANGED <<cachedConfig, reader, clock>>

(* After the items; the value of a row that is there stays.                *)
WriteDisabled(s, k) ==
  /\ sync[s].pc = "write" /\ ItemsLeft(s) = {} /\ k \in sync[s].disabled
  /\ table' = [table EXCEPT ![k].status = "disabled"]
  /\ sync' = [sync EXCEPT ![s].disabled = @ \ {k}]
  /\ UNCHANGED <<cachedConfig, reader, clock>>

(* invalidateRuntimeConfigCache, in the isolate that ran the sync          *)
FinishSync(s) ==
  /\ sync[s].pc = "write" /\ ItemsLeft(s) = {} /\ sync[s].disabled = {}
  /\ sync' = [sync EXCEPT ![s] = NoSync]
  /\ cachedConfig' = [cachedConfig EXCEPT ![sync[s].isolate] = NoCopy]
  /\ UNCHANGED <<table, reader, clock>>

(* A failed statement or the worker's end: the rows written stay, and the  *)
(* cache is not invalidated.                                               *)
StopSync(s) ==
  /\ sync[s].pc = "write"
  /\ sync' = [sync EXCEPT ![s] = NoSync]
  /\ UNCHANGED <<table, cachedConfig, reader, clock>>

-----------------------------------------------------------------------------
(* getRuntimeConfig and getRuntimeConfigValue                              *)

Disabled(k) == IF k \in Selectors THEN None ELSE Blank

Values(t) ==
  [k \in ConfigKeys |->
     [set |-> t[k].status # "absent",
      value |-> CASE t[k].status = "active" -> t[k].value
                  [] t[k].status = "disabled" -> Disabled(k)
                  [] OTHER -> Blank]]

(* resolveRuntimeBinding: a Secret Store that fails, or that does not      *)
(* answer in 1.5 s, reads as a value that is not set.                      *)
Resolved(k) == {EnvValue[k], Blank}
Answers(v, k) == IF v[k].set THEN {v[k].value} ELSE Resolved(k)

Fresh(i) == cachedConfig[i].held /\ clock < cachedConfig[i].loadedAt + Ttl

ReadCached(r, k) ==
  LET copy == cachedConfig[IsolateOf[r]]
  IN /\ reader[r].pc = "idle" /\ Fresh(IsolateOf[r])
     /\ \E a \in Answers(copy.values, k) :
          reader' = [reader EXCEPT ![r] =
            [pc |-> "answered", key |-> k, began |-> clock, asOf |-> copy.asOf,
             values |-> NoView, answer |-> a]]
     /\ UNCHANGED <<table, cachedConfig, sync, clock>>

ReadAnew(r, k) ==
  /\ reader[r].pc = "idle" /\ ~Fresh(IsolateOf[r])
  /\ reader' = [reader EXCEPT ![r] =
       [pc |-> "select", key |-> k, began |-> clock,
        asOf |-> 0, values |-> NoView, answer |-> Blank]]
  /\ UNCHANGED <<table, cachedConfig, sync, clock>>

Select(r) ==
  /\ reader[r].pc = "select"
  /\ reader' = [reader EXCEPT ![r].pc = "store", ![r].values = Values(table),
                                ![r].asOf = clock]
  /\ UNCHANGED <<table, cachedConfig, sync, clock>>

(* Mutant: the copy is dated when it is stored.                            *)
StoreDatedNow(r) ==
  /\ reader[r].pc = "store"
  /\ cachedConfig' = [cachedConfig EXCEPT ![IsolateOf[r]] =
       [held |-> TRUE, loadedAt |-> clock, asOf |-> reader[r].asOf,
        values |-> reader[r].values]]
  /\ \E a \in Answers(reader[r].values, reader[r].key) :
       reader' = [reader EXCEPT ![r].pc = "answered", ![r].answer = a,
                                ![r].values = NoView]
  /\ UNCHANGED <<table, sync, clock>>

(* The copy is stored over whatever the isolate holds by now, also when a  *)
(* sync has just invalidated it; it is dated when its request began.       *)
Store(r) ==
  /\ reader[r].pc = "store"
  /\ cachedConfig' = [cachedConfig EXCEPT ![IsolateOf[r]] =
       [held |-> TRUE, loadedAt |-> reader[r].began, asOf |-> reader[r].asOf,
        values |-> reader[r].values]]
  /\ \E a \in Answers(reader[r].values, reader[r].key) :
       reader' = [reader EXCEPT ![r].pc = "answered", ![r].answer = a,
                                ![r].values = NoView]
  /\ UNCHANGED <<table, sync, clock>>

(* The answer is used and the reader asks again; or its request failed.    *)
EndRead(r) ==
  /\ reader[r].pc # "idle"
  /\ reader' = [reader EXCEPT ![r] = NoRead]
  /\ UNCHANGED <<table, cachedConfig, sync, clock>>

Tick ==
  /\ clock < MaxClock
  /\ clock' = clock + 1
  /\ UNCHANGED <<table, cachedConfig, reader, sync>>

ConfigNext ==
  \/ \E s \in Syncs :
       \/ \E i \in Isolates, body \in Bodies : StartSync(s, i, body)
       \/ \E k \in ConfigKeys : WriteItem(s, k) \/ WriteDisabled(s, k)
       \/ FinishSync(s) \/ StopSync(s)
  \/ \E r \in Readers :
       \/ \E k \in ConfigKeys : ReadCached(r, k) \/ ReadAnew(r, k)
       \/ Select(r) \/ Store(r) \/ EndRead(r)
  \/ Tick

ConfigSpec == ConfigInit /\ [][ConfigNext]_configVars

-----------------------------------------------------------------------------
(* Property                                                                *)

(* What a read answers was selected less than the cache's time to live     *)
(* before the read began, however reads and syncs of any isolate are       *)
(* interleaved, also when a sync stopped half-way and invalidated nothing, *)
(* and although a copy selected before a sync may be cached after it.      *)
ReadsAreRecent ==
  \A r \in Readers :
    reader[r].pc = "answered" => reader[r].began < reader[r].asOf + Ttl
=============================================================================
