--------------------------- MODULE ServicesProofs ---------------------------
(***************************************************************************)
(* Safety of the runtime configuration, leads, email templates, customer   *)
(* accounts, preview artifacts and deployments, of any size, and of the    *)
(* services together: each service's invariant is inductive for its own    *)
(* steps, and every step of ServicesNext is a step of one service that     *)
(* leaves the others alone.                                                *)
(***************************************************************************)
EXTENDS Services, PaymentSettingsProofs, FiniteSetTheorems, SequenceTheorems

-----------------------------------------------------------------------------
(* Runtime configuration                                                   *)

(* No sync carries a provider that is not supported.                       *)
Provides(s) ==
  \A k \in Selectors : s.items[k].status = "active" => s.items[k].value \in Supported

(* A copy is dated no later than its rows were selected.                   *)
DatedEarly(copy) ==
  copy.held => copy.loadedAt <= clock /\ copy.loadedAt <= copy.asOf

(* A read's beginning lies behind, and an answer was selected in time.     *)
Timely(r) ==
  /\ r.pc \in {"select", "store"} => r.began <= clock
  /\ r.pc = "store" => r.began <= r.asOf
  /\ r.pc = "answered" => r.began < r.asOf + Ttl

ConfigIInv ==
  /\ ConfigTypeOK
  /\ \A s \in Syncs : Provides(sync[s])
  /\ \A i \in Isolates : DatedEarly(cachedConfig[i])
  /\ \A r \in Readers : Timely(reader[r])

LEMMA BlanksAreSettings ==
  /\ Blank \in Settings /\ None \in Settings
  /\ NoRow \in ConfigRow /\ NoView \in View
  /\ \A k \in ConfigKeys : Disabled(k) \in Settings /\ EnvValue[k] \in Settings
  BY ConfigConstants DEF NoRow, ConfigRow, NoView, View, Disabled

LEMMA ConfigInitially == ConfigInit => ConfigIInv
<1> SUFFICES ASSUME ConfigInit PROVE ConfigIInv OBVIOUS
<1> USE BlanksAreSettings, ConfigConstants DEF ConfigInit
<1>1. (CHOOSE k \in ConfigKeys : TRUE) \in ConfigKeys
      /\ (CHOOSE i \in Isolates : TRUE) \in Isolates OBVIOUS
<1>2. table \in Table BY DEF Table
<1>3. NoRow.status = "absent" BY DEF NoRow
<1>4. \A k \in Selectors : table[k].status = "active" => table[k].value \in Supported
  BY <1>3
<1>5. \A i \in Isolates : DatedEarly(cachedConfig[i]) BY DEF DatedEarly, NoCopy
<1>6. \A r \in Readers : Timely(reader[r]) BY DEF Timely, NoRead
<1>7. \A s \in Syncs : Provides(sync[s]) BY <1>3 DEF Provides, NoSync
<1>8. cachedConfig \in [Isolates -> [held : BOOLEAN, loadedAt : Nat, asOf : Nat,
                                     values : View]]
  BY DEF NoCopy
<1>9. reader \in [Readers -> [pc : {"idle", "select", "store", "answered"},
        key : ConfigKeys, began : Nat, asOf : Nat, values : View, answer : Settings]]
  BY <1>1 DEF NoRead
<1>10. sync \in [Syncs -> [pc : {"idle", "write"}, isolate : Isolates,
                           items : Table, disabled : SUBSET ConfigKeys]]
  BY <1>1 DEF NoSync, Table
<1> QED BY <1>2, <1>4, <1>5, <1>6, <1>7, <1>8, <1>9, <1>10 DEF ConfigIInv, ConfigTypeOK

Copy == [held : BOOLEAN, loadedAt : Nat, asOf : Nat, values : View]
Read == [pc : {"idle", "select", "store", "answered"}, key : ConfigKeys,
         began : Nat, asOf : Nat, values : View, answer : Settings]
Syncing == [pc : {"idle", "write"}, isolate : Isolates,
            items : Table, disabled : SUBSET ConfigKeys]
RowProvides(t) ==
  \A k \in Selectors : t[k].status = "active" => t[k].value \in Supported

LEMMA ConfigTypeIs ==
  ConfigTypeOK <=>
    /\ table \in Table /\ RowProvides(table)
    /\ cachedConfig \in [Isolates -> Copy]
    /\ reader \in [Readers -> Read]
    /\ sync \in [Syncs -> Syncing]
    /\ clock \in Nat
  BY DEF ConfigTypeOK, Copy, Read, Syncing, RowProvides

LEMMA StartsAreConfig ==
  /\ NoCopy \in Copy /\ NoRead \in Read /\ NoSync \in Syncing
  /\ ~NoCopy.held /\ NoRead.pc = "idle" /\ Provides(NoSync)
<1>1. (CHOOSE k \in ConfigKeys : TRUE) \in ConfigKeys
      /\ (CHOOSE i \in Isolates : TRUE) \in Isolates
  BY ConfigConstants
<1>2. NoRow.status = "absent" BY DEF NoRow
<1> QED BY <1>1, <1>2, BlanksAreSettings, ConfigConstants
        DEF NoCopy, NoRead, NoSync, Copy, Read, Syncing, Table, Provides

(* What a select returns, and what can be answered from it, has its type.  *)
LEMMA ValuesAreAView ==
  ASSUME NEW t \in Table PROVE Values(t) \in View
  BY BlanksAreSettings DEF Values, View, Table, ConfigRow

LEMMA AnswersAreSettings ==
  ASSUME NEW v \in View, NEW k \in ConfigKeys PROVE Answers(v, k) \subseteq Settings
  BY BlanksAreSettings DEF Answers, Resolved, View

(* A step of one sync, that leaves the readers and the copies alone, or    *)
(* drops one.                                                              *)
LEMMA SyncStepKeeps ==
  ASSUME ConfigIInv, NEW s \in Syncs,
         NEW q \in Syncing, Provides(q), sync' = [sync EXCEPT ![s] = q],
         table' \in Table, RowProvides(table'),
         cachedConfig' = cachedConfig
           \/ \E i \in Isolates : cachedConfig' = [cachedConfig EXCEPT ![i] = NoCopy],
         UNCHANGED <<reader, clock>>
  PROVE  ConfigIInv'
<1> USE StartsAreConfig DEF ConfigIInv
<1>1. ConfigTypeOK'
  BY ConfigTypeIs DEF ConfigTypeOK, Copy, Read, Syncing, RowProvides
<1>2. \A t \in Syncs : Provides(sync[t])' BY ConfigTypeIs DEF Provides
<1>3. \A i \in Isolates : DatedEarly(cachedConfig[i])' BY ConfigTypeIs DEF DatedEarly
<1>4. \A r \in Readers : Timely(reader[r])' BY DEF Timely
<1> QED BY <1>1, <1>2, <1>3, <1>4

LEMMA SyncsKeep ==
  ASSUME ConfigIInv, NEW s \in Syncs,
         \/ \E i \in Isolates, body \in Bodies : StartSync(s, i, body)
         \/ \E k \in ConfigKeys : WriteItem(s, k) \/ WriteDisabled(s, k)
         \/ FinishSync(s) \/ StopSync(s)
  PROVE  ConfigIInv'
<1>0. /\ table \in Table /\ RowProvides(table)
      /\ sync[s] \in Syncing /\ Provides(sync[s]) /\ sync \in [Syncs -> Syncing]
  BY ConfigTypeIs DEF ConfigIInv
<1>1. ASSUME NEW i \in Isolates, NEW body \in Bodies, StartSync(s, i, body)
      PROVE ConfigIInv'
  <2> DEFINE q == [pc |-> "write", isolate |-> i, items |-> body.items,
                   disabled |-> body.disabled]
  <2>1. q \in Syncing BY BodiesAreConfig DEF Syncing
  <2>2. Provides(q) BY <1>1 DEF StartSync, Acceptable, Provides
  <2>3. sync' = [sync EXCEPT ![s] = q] BY <1>1 DEF StartSync
  <2>4. UNCHANGED <<table, cachedConfig, reader, clock>> BY <1>1 DEF StartSync
  <2> HIDE DEF q
  <2> QED BY <1>0, <2>1, <2>2, <2>3, <2>4, SyncStepKeeps
<1>2. ASSUME NEW k \in ConfigKeys, WriteItem(s, k) PROVE ConfigIInv'
  <2> DEFINE q == [sync[s] EXCEPT !.items[k] = NoRow]
  <2>1. q \in Syncing
    BY <1>0, BlanksAreSettings DEF Syncing, Table
  <2>2. Provides(q)
    <3>1. q.items = [sync[s].items EXCEPT ![k] = NoRow] BY <1>0 DEF Syncing
    <3>2. NoRow.status # "active" BY DEF NoRow
    <3>3. sync[s].items \in Table BY <1>0 DEF Syncing
    <3> HIDE DEF q
    <3> QED BY <1>0, <3>1, <3>2, <3>3, ConfigConstants DEF Provides, Table
  <2>3. sync' = [sync EXCEPT ![s] = q] BY <1>0, <1>2 DEF WriteItem
  <2>4. table' = [table EXCEPT ![k] = sync[s].items[k]]
        /\ UNCHANGED <<cachedConfig, reader, clock>>
    BY <1>2 DEF WriteItem
  <2>5. table' \in Table /\ RowProvides(table')
    BY <1>0, <2>4 DEF Table, Syncing, RowProvides, Provides
  <2> HIDE DEF q
  <2> QED BY <2>1, <2>2, <2>3, <2>4, <2>5, SyncStepKeeps
<1>3. ASSUME NEW k \in ConfigKeys, WriteDisabled(s, k) PROVE ConfigIInv'
  <2> DEFINE q == [sync[s] EXCEPT !.disabled = @ \ {k}]
  <2>1. q \in Syncing BY <1>0 DEF Syncing
  <2>2. Provides(q) BY <1>0 DEF Provides, Syncing
  <2>3. sync' = [sync EXCEPT ![s] = q] BY <1>0, <1>3 DEF WriteDisabled
  <2>4. table' = [table EXCEPT ![k].status = "disabled"]
        /\ UNCHANGED <<cachedConfig, reader, clock>>
    BY <1>3 DEF WriteDisabled
  <2>5. table' \in Table /\ RowProvides(table')
    BY <1>0, <2>4 DEF Table, ConfigRow, RowProvides
  <2> HIDE DEF q
  <2> QED BY <2>1, <2>2, <2>3, <2>4, <2>5, SyncStepKeeps
<1>4. CASE FinishSync(s) \/ StopSync(s)
  <2>1. sync' = [sync EXCEPT ![s] = NoSync] /\ UNCHANGED <<table, reader, clock>>
    BY <1>4 DEF FinishSync, StopSync
  <2>2. cachedConfig' = cachedConfig
          \/ \E i \in Isolates : cachedConfig' = [cachedConfig EXCEPT ![i] = NoCopy]
    BY <1>0, <1>4 DEF FinishSync, StopSync, Syncing
  <2> QED BY <1>0, <2>1, <2>2, StartsAreConfig, SyncStepKeeps
<1> QED BY <1>1, <1>2, <1>3, <1>4

(* A step of one read, that may store a copy dated no later than it.       *)
LEMMA ReadStepKeeps ==
  ASSUME ConfigIInv, NEW r \in Readers,
         NEW q \in Read, Timely(q), reader' = [reader EXCEPT ![r] = q],
         cachedConfig' = cachedConfig
           \/ \E i \in Isolates, c \in Copy :
                DatedEarly(c) /\ cachedConfig' = [cachedConfig EXCEPT ![i] = c],
         UNCHANGED <<table, sync, clock>>
  PROVE  ConfigIInv'
<1> USE DEF ConfigIInv
<1>1. ConfigTypeOK'
  BY ConfigTypeIs DEF ConfigTypeOK, Copy, Read, Syncing, RowProvides
<1>2. \A t \in Syncs : Provides(sync[t])' BY DEF Provides
<1>3. \A i \in Isolates : DatedEarly(cachedConfig[i])' BY ConfigTypeIs DEF DatedEarly
<1>4. \A p \in Readers : Timely(reader[p])' BY ConfigTypeIs DEF Timely
<1> QED BY <1>1, <1>2, <1>3, <1>4

LEMMA ReadersKeep ==
  ASSUME ConfigIInv, NEW r \in Readers,
         \/ \E k \in ConfigKeys : ReadCached(r, k) \/ ReadAnew(r, k)
         \/ Select(r) \/ Store(r) \/ EndRead(r)
  PROVE  ConfigIInv'
<1>0. /\ table \in Table /\ reader \in [Readers -> Read] /\ reader[r] \in Read
      /\ Timely(reader[r]) /\ clock \in Nat /\ Ttl \in Nat /\ Ttl > 0
      /\ IsolateOf[r] \in Isolates
      /\ \A i \in Isolates : cachedConfig[i] \in Copy /\ DatedEarly(cachedConfig[i])
  BY ConfigTypeIs, ConfigConstants DEF ConfigIInv
<1> USE BlanksAreSettings
<1>1. ASSUME NEW k \in ConfigKeys, ReadCached(r, k) PROVE ConfigIInv'
  <2> DEFINE copy == cachedConfig[IsolateOf[r]]
  <2>1. PICK a \in Answers(copy.values, k) :
          reader' = [reader EXCEPT ![r] =
            [pc |-> "answered", key |-> k, began |-> clock, asOf |-> copy.asOf,
             values |-> NoView, answer |-> a]]
    BY <1>1 DEF ReadCached
  <2>2. UNCHANGED <<table, cachedConfig, sync, clock>> BY <1>1 DEF ReadCached
  <2> DEFINE q == [pc |-> "answered", key |-> k, began |-> clock, asOf |-> copy.asOf,
                   values |-> NoView, answer |-> a]
  <2>3. copy \in Copy /\ copy.held /\ clock < copy.loadedAt + Ttl
    BY <1>0, <1>1 DEF ReadCached, Fresh
  <2>4. copy.loadedAt \in Nat /\ copy.asOf \in Nat /\ copy.values \in View
    BY <2>3 DEF Copy
  <2>5. copy.loadedAt <= copy.asOf BY <1>0, <2>3 DEF DatedEarly
  <2>6. clock < copy.asOf + Ttl BY <1>0, <2>3, <2>4, <2>5
  <2>7. q \in Read BY <1>0, <2>4, AnswersAreSettings DEF Read
  <2>8. Timely(q) BY <2>6 DEF Timely
  <2>9. reader' = [reader EXCEPT ![r] = q] BY <2>1
  <2> HIDE DEF q
  <2> QED BY <2>2, <2>7, <2>8, <2>9, ReadStepKeeps
<1>2. ASSUME NEW k \in ConfigKeys, ReadAnew(r, k) PROVE ConfigIInv'
  <2> DEFINE q == [pc |-> "select", key |-> k, began |-> clock, asOf |-> 0,
                   values |-> NoView, answer |-> Blank]
  <2>1. q \in Read BY <1>0 DEF Read
  <2>2. Timely(q) BY <1>0 DEF Timely
  <2>3. reader' = [reader EXCEPT ![r] = q] /\ UNCHANGED <<table, cachedConfig, sync, clock>>
    BY <1>2 DEF ReadAnew
  <2> HIDE DEF q
  <2> QED BY <2>1, <2>2, <2>3, ReadStepKeeps
<1>3. CASE Select(r)
  <2> DEFINE q == [reader[r] EXCEPT !.pc = "store", !.values = Values(table),
                                    !.asOf = clock]
  <2>1. q \in Read BY <1>0, ValuesAreAView DEF Read
  <2>2. Timely(q) BY <1>0, <1>3 DEF Timely, Select, Read
  <2>3. reader' = [reader EXCEPT ![r] = q] /\ UNCHANGED <<table, cachedConfig, sync, clock>>
    BY <1>0, <1>3 DEF Select
  <2> HIDE DEF q
  <2> QED BY <2>1, <2>2, <2>3, ReadStepKeeps
<1>4. CASE Store(r)
  <2>1. PICK a \in Answers(reader[r].values, reader[r].key) :
          reader' = [reader EXCEPT ![r].pc = "answered", ![r].answer = a,
                                   ![r].values = NoView]
    BY <1>4 DEF Store
  <2> DEFINE q == [reader[r] EXCEPT !.pc = "answered", !.answer = a, !.values = NoView]
             c == [held |-> TRUE, loadedAt |-> reader[r].began,
                   asOf |-> reader[r].asOf, values |-> reader[r].values]
  <2>2. reader[r].pc = "store" /\ reader[r].began <= clock
        /\ reader[r].began <= reader[r].asOf /\ reader[r].began \in Nat
        /\ reader[r].asOf \in Nat /\ reader[r].values \in View /\ reader[r].key \in ConfigKeys
    BY <1>0, <1>4 DEF Store, Timely, Read
  <2>3. q \in Read BY <1>0, <2>2, AnswersAreSettings DEF Read
  <2>4. Timely(q) BY <1>0, <2>2 DEF Timely, Read
  <2>5. c \in Copy /\ DatedEarly(c) BY <2>2 DEF Copy, DatedEarly
  <2>6. reader' = [reader EXCEPT ![r] = q] BY <1>0, <2>1
  <2>7. cachedConfig' = [cachedConfig EXCEPT ![IsolateOf[r]] = c]
        /\ UNCHANGED <<table, sync, clock>>
    BY <1>4 DEF Store
  <2> HIDE DEF q, c
  <2> QED BY <1>0, <2>3, <2>4, <2>5, <2>6, <2>7, ReadStepKeeps
<1>5. CASE EndRead(r)
  <2>1. reader' = [reader EXCEPT ![r] = NoRead] /\ UNCHANGED <<table, cachedConfig, sync, clock>>
    BY <1>5 DEF EndRead
  <2>2. NoRead \in Read /\ Timely(NoRead) BY StartsAreConfig DEF Timely
  <2> QED BY <2>1, <2>2, ReadStepKeeps
<1> QED BY <1>1, <1>2, <1>3, <1>4, <1>5

LEMMA ConfigKept == ConfigIInv /\ [ConfigNext]_configVars => ConfigIInv'
<1> SUFFICES ASSUME ConfigIInv, [ConfigNext]_configVars PROVE ConfigIInv' OBVIOUS
<1>1. CASE UNCHANGED configVars
  BY <1>1 DEF configVars, ConfigIInv, ConfigTypeOK, Provides, DatedEarly, Timely
<1>2. CASE Tick
  <2>1. /\ UNCHANGED <<table, cachedConfig, reader, sync>>
        /\ clock \in Nat /\ clock' = clock + 1
        /\ reader \in [Readers -> Read] /\ cachedConfig \in [Isolates -> Copy]
    BY <1>2, ConfigTypeIs DEF Tick, ConfigIInv
  <2>2. ConfigTypeOK' BY <2>1 DEF ConfigIInv, ConfigTypeOK
  <2>3. \A i \in Isolates : DatedEarly(cachedConfig[i])'
    BY <2>1 DEF DatedEarly, ConfigIInv, Copy
  <2>4. \A r \in Readers : Timely(reader[r])' BY <2>1 DEF Timely, ConfigIInv, Read
  <2>5. \A s \in Syncs : Provides(sync[s])' BY <2>1 DEF Provides, ConfigIInv
  <2> QED BY <2>2, <2>3, <2>4, <2>5 DEF ConfigIInv
<1> QED BY <1>1, <1>2, SyncsKeep, ReadersKeep DEF ConfigNext

LEMMA ConfigAnswers == ConfigIInv => ConfigTypeOK /\ ReadsAreRecent
  BY DEF ConfigIInv, ReadsAreRecent, Timely

-----------------------------------------------------------------------------
(* Leads                                                                   *)

(* What has happened to the lead of a submission's key by each of its      *)
(* steps; a repeat has seen the lead once it looked.                       *)
Follows(s) ==
  /\ s.retry => s.key \in answered
  /\ s.pc \in {"upsert", "reread", "event", "answered"} =>
       /\ s.retry => s.exists
       /\ s.exists => lead[s.key].stored
  /\ s.pc \in {"reread", "event", "answered"} => lead[s.key].stored
  /\ s.pc \in {"event", "answered"} => lead[s.key].id = s.id
  /\ s.pc = "event" => ~s.exists
  /\ s.pc = "answered" => (~s.exists => s.id \in events)

LeadIInv ==
  /\ LeadTypeOK
  /\ \A v \in Visitors : Follows(visitor[v])
  /\ \A k \in answered : lead[k].stored

LEMMA LeadStarts ==
  /\ NoLead \in Lead /\ Gone \in Submitting /\ Gone.pc = "idle" /\ ~Gone.retry
  /\ FreshIds # {} => CreateId \in FreshIds
<1>1. (CHOOSE i \in LeadIds : TRUE) \in LeadIds
      /\ (CHOOSE k \in DedupeKeys : TRUE) \in DedupeKeys
  BY LeadConstants
<1> QED BY <1>1 DEF NoLead, Lead, Gone, Submitting, CreateId

LEMMA LeadInitially == LeadInit => LeadIInv
  BY LeadStarts DEF LeadInit, LeadIInv, LeadTypeOK, Follows

(* A step of one submission that writes no lead                            *)
LEMMA SubmissionKeeps ==
  ASSUME LeadIInv, NEW v \in Visitors, NEW q \in Submitting,
         visitor' = [visitor EXCEPT ![v] = q], lead' = lead,
         answered \subseteq answered', answered' \subseteq DedupeKeys,
         \A k \in answered' : lead[k].stored,
         events \subseteq events', events' \subseteq LeadIds, drawn' \subseteq LeadIds,
         Follows(q)'
  PROVE  LeadIInv'
<1> USE DEF LeadIInv
<1>1. LeadTypeOK' BY DEF LeadTypeOK
<1>2. ASSUME NEW w \in Visitors PROVE Follows(visitor[w])'
  <2>1. CASE w = v BY <2>1 DEF LeadTypeOK
  <2>2. CASE w # v
    <3>1. visitor'[w] = visitor[w] /\ Follows(visitor[w]) BY <2>2 DEF LeadTypeOK
    <3> QED BY <3>1 DEF Follows
  <2> QED BY <2>1, <2>2
<1> QED BY <1>1, <1>2

LEMMA SubmissionsKeep ==
  ASSUME LeadIInv, NEW v \in Visitors,
         \/ \E s \in Submissions : Submits(v, s)
         \/ ReadExisting(v) \/ Reread(v) \/ RecordEvent(v) \/ SubmissionEnds(v)
  PROVE  LeadIInv'
<1>0. /\ visitor[v] \in Submitting /\ Follows(visitor[v])
      /\ lead \in [DedupeKeys -> Lead] /\ visitor \in [Visitors -> Submitting]
      /\ events \subseteq LeadIds /\ drawn \subseteq LeadIds /\ answered \subseteq DedupeKeys
      /\ \A k \in answered : lead[k].stored
  BY DEF LeadIInv, LeadTypeOK
<1>1. ASSUME NEW s \in Submissions, Submits(v, s) PROVE LeadIInv'
  <2> DEFINE begun == [pc |-> "existing", key |-> s.key, contact |-> s.contact,
                       marketing |-> s.marketing, id |-> CreateId, exists |-> FALSE,
                       retry |-> s.key \in answered]
  <2>1. visitor' = [visitor EXCEPT ![v] = begun] /\ drawn' = drawn \cup {CreateId}
        /\ UNCHANGED <<lead, events, answered>> /\ FreshIds # {}
    BY <1>1 DEF Submits
  <2>2. CreateId \in LeadIds BY <2>1, LeadStarts DEF FreshIds
  <2>3. begun \in Submitting BY <2>2, LeadConstants DEF Submitting
  <2>4. PICK q \in Submitting : q = begun BY <2>3
  <2>5. q.pc = "existing" /\ q.key = s.key /\ (q.retry <=> s.key \in answered)
    BY <2>4
  <2> HIDE DEF begun
  <2>6. Follows(q)' BY <2>1, <2>5 DEF Follows
  <2> QED BY <1>0, <2>1, <2>2, <2>4, <2>6, SubmissionKeeps
<1>2. CASE ReadExisting(v)
  <2>0. lead[visitor[v].key].stored \in BOOLEAN BY <1>0 DEF Submitting, Lead
  <2>1. PICK x \in BOOLEAN : x = lead[visitor[v].key].stored BY <2>0
  <2>2. PICK q \in Submitting : q = [visitor[v] EXCEPT !.pc = "upsert", !.exists = x]
    BY <1>0 DEF Submitting
  <2>3. visitor' = [visitor EXCEPT ![v] = q] /\ UNCHANGED <<lead, events, drawn, answered>>
    BY <1>0, <1>2, <2>1, <2>2 DEF ReadExisting
  <2>4. /\ q.pc = "upsert" /\ q.key = visitor[v].key /\ q.exists = x
        /\ q.retry = visitor[v].retry
    BY <1>0, <2>2 DEF Submitting
  <2>5. Follows(q)' BY <1>0, <2>1, <2>3, <2>4 DEF Follows
  <2> QED BY <1>0, <2>2, <2>3, <2>5, SubmissionKeeps
<1>3. CASE Reread(v)
  <2>1. PICK i \in LeadIds : i = lead[visitor[v].key].id
    BY <1>0 DEF Submitting, Lead
  <2>2. PICK q \in Submitting :
          q = [visitor[v] EXCEPT !.id = i,
                 !.pc = IF visitor[v].exists THEN "answered" ELSE "event"]
    BY <1>0 DEF Submitting
  <2>3. /\ visitor[v].pc = "reread" /\ visitor' = [visitor EXCEPT ![v] = q]
        /\ answered' = IF visitor[v].exists THEN answered \cup {visitor[v].key}
                       ELSE answered
        /\ UNCHANGED <<lead, events, drawn>>
    BY <1>0, <1>3, <2>1, <2>2 DEF Reread, ThePersisted, Answered, Asks
  <2>4. /\ q.pc = IF visitor[v].exists THEN "answered" ELSE "event"
        /\ q.key = visitor[v].key /\ q.exists = visitor[v].exists
        /\ q.retry = visitor[v].retry /\ q.id = i
    BY <1>0, <2>2 DEF Submitting
  <2>5. visitor[v].key \in DedupeKeys /\ lead[visitor[v].key].stored
        /\ visitor[v].exists \in BOOLEAN
    BY <1>0, <2>3 DEF Follows, Submitting
  <2>6. Follows(q)' BY <1>0, <2>1, <2>3, <2>4, <2>5 DEF Follows
  <2>7. answered \subseteq answered' /\ answered' \subseteq DedupeKeys
        /\ \A k \in answered' : lead[k].stored
    BY <1>0, <2>3, <2>5
  <2> QED BY <1>0, <2>3, <2>2, <2>6, <2>7, SubmissionKeeps
<1>4. CASE RecordEvent(v)
  <2>1. PICK q \in Submitting : q = [visitor[v] EXCEPT !.pc = "answered"]
    BY <1>0 DEF Submitting
  <2>2. /\ visitor[v].pc = "event" /\ visitor' = [visitor EXCEPT ![v] = q]
        /\ events' = events \cup {visitor[v].id}
        /\ answered' = answered \cup {visitor[v].key} /\ UNCHANGED <<lead, drawn>>
    BY <1>0, <1>4, <2>1 DEF RecordEvent, Answered, Asks
  <2>3. /\ q.pc = "answered" /\ q.key = visitor[v].key /\ q.exists = visitor[v].exists
        /\ q.retry = visitor[v].retry /\ q.id = visitor[v].id
    BY <1>0, <2>1 DEF Submitting
  <2>4. visitor[v].key \in DedupeKeys /\ visitor[v].id \in LeadIds
        /\ lead[visitor[v].key].stored
    BY <1>0, <2>2 DEF Follows, Submitting
  <2>5. Follows(q)' BY <1>0, <2>2, <2>3 DEF Follows
  <2>6. answered \subseteq answered' /\ answered' \subseteq DedupeKeys
        /\ \A k \in answered' : lead[k].stored
        /\ events \subseteq events' /\ events' \subseteq LeadIds
    BY <1>0, <2>2, <2>4
  <2> QED BY <1>0, <2>2, <2>1, <2>5, <2>6, SubmissionKeeps
<1>5. CASE SubmissionEnds(v)
  <2>1. visitor' = [visitor EXCEPT ![v] = Gone] /\ UNCHANGED <<lead, events, drawn, answered>>
    BY <1>5 DEF SubmissionEnds
  <2>2. Follows(Gone)' BY LeadStarts DEF Follows
  <2> QED BY <1>0, <2>1, <2>2, LeadStarts, SubmissionKeeps
<1> QED BY <1>1, <1>2, <1>3, <1>4, <1>5

(* What a write may do to a row that is there                              *)
Gains(l, new) ==
  l.stored =>
    /\ new.stored /\ new.id = l.id
    /\ l.status = "converted" => new.status = "converted" /\ new.payment = l.payment
    /\ l.contact # NoContact => new.contact # NoContact
    /\ l.marketing => new.marketing

LEMMA LeadWritten ==
  ASSUME LeadIInv, NEW k \in DedupeKeys, NEW new \in Lead,
         lead' = [lead EXCEPT ![k] = new], Gains(lead[k], new),
         UNCHANGED <<events, drawn, answered>>
  PROVE  /\ lead' \in [DedupeKeys -> Lead]
         /\ \A j \in DedupeKeys : Gains(lead[j], lead'[j])
         /\ \A j \in answered' : lead'[j].stored
         /\ \A s \in Submitting : Follows(s) => Follows(s)'
<1>1. lead \in [DedupeKeys -> Lead] /\ answered \subseteq DedupeKeys
      /\ \A j \in answered : lead[j].stored
  BY DEF LeadIInv, LeadTypeOK
<1>2. \A j \in DedupeKeys \ {k} : lead'[j] = lead[j] BY <1>1
<1>3. lead'[k] = new BY <1>1
<1>4. ASSUME NEW j \in DedupeKeys PROVE Gains(lead[j], lead'[j])
  BY <1>2, <1>3 DEF Gains
<1>5. \A j \in DedupeKeys : lead[j].stored => lead'[j].stored /\ lead'[j].id = lead[j].id
  BY <1>4 DEF Gains
<1>6. ASSUME NEW s \in Submitting, Follows(s) PROVE Follows(s)'
  <2>1. s.key \in DedupeKeys BY DEF Submitting
  <2> QED BY <1>5, <1>6, <2>1 DEF Follows
<1> QED BY <1>1, <1>4, <1>5, <1>6

(* An upsert inserts the row or gains from a submission; a payment adds    *)
(* the conversion.                                                         *)
LEMMA UpsertWrites ==
  ASSUME LeadIInv, NEW v \in Visitors, Upsert(v)
  PROVE  \E new \in Lead :
           /\ lead' = [lead EXCEPT ![visitor[v].key] = new] /\ new.stored
           /\ Gains(lead[visitor[v].key], new)
           /\ new.marketing /\ ~lead[visitor[v].key].marketing => visitor[v].marketing
<1> DEFINE s == visitor[v]
           l == lead[s.key]
           new == IF l.stored THEN Updated(l, s) ELSE Inserted(s)
<1>1. s \in Submitting /\ l \in Lead /\ lead' = [lead EXCEPT ![s.key] = new]
  BY DEF LeadIInv, LeadTypeOK, Submitting, Upsert
<1>2. CASE l.stored
  <2>1. /\ new.stored = l.stored /\ new.id = l.id /\ new.status = l.status
        /\ new.payment = l.payment
        /\ new.contact = IF s.contact # NoContact THEN s.contact ELSE l.contact
        /\ new.marketing = (l.marketing \/ s.marketing)
    BY <1>1, <1>2 DEF Updated, Lead
  <2>2. new \in Lead BY <1>1, <1>2 DEF Updated, Lead, Submitting
  <2>3. Gains(l, new) BY <1>1, <1>2, <2>1 DEF Gains, Lead, Submitting
  <2>4. new.marketing /\ ~l.marketing => s.marketing BY <2>1
  <2>5. new.stored BY <1>2, <2>1
  <2> QED BY <1>1, <2>2, <2>3, <2>4, <2>5
<1>3. CASE ~l.stored
  <2>1. new \in Lead BY <1>1, <1>3 DEF Inserted, Lead, Submitting
  <2>2. new.stored /\ new.marketing = s.marketing BY <1>3 DEF Inserted
  <2>3. Gains(l, new) BY <1>3 DEF Gains
  <2> QED BY <1>1, <2>1, <2>2, <2>3
<1> QED BY <1>2, <1>3

LEMMA LeadKept == LeadIInv /\ [LeadNext]_leadVars => LeadIInv'
<1> SUFFICES ASSUME LeadIInv, [LeadNext]_leadVars PROVE LeadIInv' OBVIOUS
<1>0. /\ visitor \in [Visitors -> Submitting] /\ lead \in [DedupeKeys -> Lead]
      /\ events \subseteq LeadIds /\ drawn \subseteq LeadIds /\ answered \subseteq DedupeKeys
      /\ \A v \in Visitors : Follows(visitor[v])
  BY DEF LeadIInv, LeadTypeOK
<1>1. CASE UNCHANGED leadVars
  BY <1>1 DEF leadVars, LeadIInv, LeadTypeOK, Follows
<1>2. ASSUME NEW v \in Visitors, Upsert(v) PROVE LeadIInv'
  <2>1. PICK new \in Lead :
          /\ lead' = [lead EXCEPT ![visitor[v].key] = new] /\ new.stored
          /\ Gains(lead[visitor[v].key], new)
    BY <1>2, UpsertWrites
  <2>2. visitor[v].key \in DedupeKeys /\ UNCHANGED <<events, drawn, answered>>
    BY <1>0, <1>2 DEF Submitting, Upsert
  <2>3. /\ lead' \in [DedupeKeys -> Lead]
        /\ \A j \in answered' : lead'[j].stored
        /\ \A s \in Submitting : Follows(s) => Follows(s)'
    BY <2>1, <2>2, LeadWritten
  <2>4. PICK q \in Submitting :
          q = [visitor[v] EXCEPT !.pc = "reread", !.contact = NoContact,
                                 !.marketing = FALSE]
    BY <1>0 DEF Submitting
  <2>5. /\ q.pc = "reread" /\ q.key = visitor[v].key /\ q.retry = visitor[v].retry
        /\ q.exists = visitor[v].exists /\ visitor[v].pc = "upsert"
    BY <1>0, <1>2, <2>4 DEF Submitting, Upsert
  <2>6. visitor' = [visitor EXCEPT ![v] = q] BY <1>2, <2>4 DEF Upsert
  <2>7. lead'[visitor[v].key].stored BY <1>0, <2>1, <2>2
  <2>8. Follows(q)' BY <1>0, <2>2, <2>5, <2>7 DEF Follows
  <2>9. ASSUME NEW w \in Visitors PROVE Follows(visitor[w])'
    <3>1. CASE w = v BY <1>0, <2>6, <2>8, <3>1
    <3>2. CASE w # v
      <4>1. PICK r \in Submitting : r = visitor[w] BY <1>0
      <4>2. Follows(r)' BY <1>0, <2>3, <4>1
      <4>3. visitor'[w] = r BY <1>0, <2>6, <3>2, <4>1
      <4> QED BY <4>2, <4>3
    <3> QED BY <3>1, <3>2
  <2>10. LeadTypeOK' BY <1>0, <2>2, <2>3, <2>6 DEF LeadTypeOK
  <2> QED BY <2>3, <2>9, <2>10 DEF LeadIInv
<1>3. ASSUME NEW k \in BusinessKeys, NEW p \in Payments, MarkConverted(k, p)
      PROVE LeadIInv'
  <2>1. k \in DedupeKeys BY DEF DedupeKeys
  <2>2. PICK new \in Lead :
          new = [lead[k] EXCEPT !.status = "converted", !.payment = p]
    BY <1>0, <2>1 DEF Lead
  <2>3. lead' = [lead EXCEPT ![k] = new] /\ UNCHANGED <<events, visitor, drawn, answered>>
    BY <1>0, <1>3, <2>1, <2>2 DEF MarkConverted
  <2>4. Gains(lead[k], new) BY <1>0, <1>3, <2>1, <2>2 DEF Gains, MarkConverted, Lead
  <2>5. /\ lead' \in [DedupeKeys -> Lead]
        /\ \A j \in answered' : lead'[j].stored
        /\ \A s \in Submitting : Follows(s) => Follows(s)'
    BY <2>1, <2>3, <2>4, LeadWritten
  <2>6. ASSUME NEW w \in Visitors PROVE Follows(visitor[w])'
    <3>1. PICK r \in Submitting : r = visitor[w] BY <1>0
    <3>2. Follows(r)' BY <1>0, <2>5, <3>1
    <3> QED BY <2>3, <3>1, <3>2
  <2>7. LeadTypeOK' BY <1>0, <2>3, <2>5 DEF LeadTypeOK
  <2> QED BY <2>5, <2>6, <2>7 DEF LeadIInv
<1> QED BY <1>1, <1>2, <1>3, SubmissionsKeep DEF LeadNext

LEMMA LeadAnswers == LeadIInv => LeadTypeOK /\ OneLeadPerKey
  BY DEF LeadIInv, OneLeadPerKey, Follows

(* The body of LeadsOnlyGain                                               *)
OnlyGain ==
  \A k \in DedupeKeys :
    /\ lead[k].stored =>
         /\ lead'[k].stored /\ lead'[k].id = lead[k].id
         /\ lead[k].status = "converted" =>
              lead'[k].status = "converted" /\ lead'[k].payment = lead[k].payment
         /\ lead[k].contact # NoContact => lead'[k].contact # NoContact
         /\ lead[k].marketing => lead'[k].marketing
    /\ lead'[k].marketing /\ ~lead[k].marketing =>
         \E v \in Visitors : visitor[v].pc = "upsert" /\ visitor[v].key = k
                             /\ visitor[v].marketing

LEMMA LeadsGain == LeadIInv /\ [LeadNext]_leadVars => OnlyGain
<1> SUFFICES ASSUME LeadIInv, [LeadNext]_leadVars PROVE OnlyGain OBVIOUS
<1>0. visitor \in [Visitors -> Submitting] /\ lead \in [DedupeKeys -> Lead]
  BY DEF LeadIInv, LeadTypeOK
<1>1. CASE lead' = lead BY <1>1 DEF OnlyGain
<1>2. ASSUME NEW v \in Visitors, Upsert(v) PROVE OnlyGain
  <2>1. PICK new \in Lead :
          /\ lead' = [lead EXCEPT ![visitor[v].key] = new] /\ new.stored
          /\ Gains(lead[visitor[v].key], new)
          /\ new.marketing /\ ~lead[visitor[v].key].marketing => visitor[v].marketing
    BY <1>2, UpsertWrites
  <2>2. visitor[v].key \in DedupeKeys /\ visitor[v].pc = "upsert"
    BY <1>0, <1>2 DEF Submitting, Upsert
  <2>3. \A k \in DedupeKeys : k # visitor[v].key => lead'[k] = lead[k]
    BY <1>0, <2>1
  <2>4. lead'[visitor[v].key] = new BY <1>0, <2>1, <2>2
  <2> QED BY <2>1, <2>2, <2>3, <2>4 DEF OnlyGain, Gains
<1>3. ASSUME NEW k \in BusinessKeys, NEW p \in Payments, MarkConverted(k, p)
      PROVE OnlyGain
  <2>1. k \in DedupeKeys BY DEF DedupeKeys
  <2>2. lead' = [lead EXCEPT ![k] = [lead[k] EXCEPT !.status = "converted", !.payment = p]]
        /\ lead[k].status # "converted" /\ lead[k].stored
    BY <1>0, <1>3, <2>1 DEF MarkConverted
  <2>3. \A j \in DedupeKeys : j # k => lead'[j] = lead[j] BY <1>0, <2>2
  <2>4. /\ lead'[k].stored = lead[k].stored /\ lead'[k].id = lead[k].id
        /\ lead'[k].contact = lead[k].contact /\ lead'[k].marketing = lead[k].marketing
    BY <1>0, <2>1, <2>2 DEF Lead
  <2> QED BY <2>2, <2>3, <2>4 DEF OnlyGain
<1>4. ASSUME NEW v \in Visitors,
             \/ \E s \in Submissions : Submits(v, s)
             \/ ReadExisting(v) \/ Reread(v) \/ RecordEvent(v) \/ SubmissionEnds(v)
      PROVE lead' = lead
  BY <1>4 DEF Submits, ReadExisting, Reread, RecordEvent, SubmissionEnds
<1> QED BY <1>1, <1>2, <1>3, <1>4 DEF LeadNext, leadVars

-----------------------------------------------------------------------------
(* Customer accounts                                                       *)

(* The steps that name an account, those that hold a link of it, and those *)
(* by which a reset is past its read; none has a token used before.        *)
Naming == SignupStep \cup LoginStep \cup AskStep
PastRead == {"set password", "mark used", "revoke"}
Ending == {"mark used", "revoke"}

Consistent(q) ==
  /\ q.pc \in Naming => q.email \in Emails
  /\ q.pc \in SignupStep \cup LoginStep \cup ResetStep => q.password \in Passwords
  /\ q.pc \in ResetStep => q.secret \in Secrets /\ reset[q.secret].state # "none"
  /\ q.pc = "reset read" => (q.stale => reset[q.secret].state = "used")
  /\ q.pc \in PastRead => ~q.stale /\ q.email = reset[q.secret].email
  /\ q.pc \in MeStep => q.secret \in Secrets /\ session[q.secret].state # "none"
  /\ q.pc = "me session" => (q.stale => session[q.secret].state = "revoked")
  /\ q.pc = "me touch" => ~q.stale

(* A row names its account, and no token is of both kinds.                 *)
RowsNameAccounts ==
  \A s \in Secrets :
    /\ session[s].state # "none" => session[s].email \in Emails
                                    /\ session[s].proof \in Passwords
    /\ reset[s].state # "none" => reset[s].email \in Emails
    /\ session[s].state = "none" \/ reset[s].state = "none"

Settled(r) ==
  r.state = "live" =>
    r.proof = account[r.email] \/ r.late \/ Resetting(r.email) \/ r.email \in interrupted

AuthIInv ==
  /\ AuthTypeOK /\ RowsNameAccounts
  /\ \A c \in Clients : Consistent(client[c])
  /\ \A s \in Secrets : Settled(session[s])

(* Rows stay, and with them what a request has seen of them.               *)
RowsStay ==
  \A s \in Secrets :
    /\ reset[s].state # "none" =>
         /\ reset'[s].state # "none" /\ reset'[s].email = reset[s].email
         /\ reset[s].state = "used" => reset'[s].state = "used"
    /\ session[s].state # "none" =>
         /\ session'[s].state # "none"
         /\ session[s].state = "revoked" => session'[s].state = "revoked"

LEMMA ConsistentLasts ==
  ASSUME RowsStay, NEW q, Consistent(q) PROVE Consistent(q)'
<1>1. q.pc \in ResetStep => q.secret \in Secrets /\ reset[q.secret].state # "none"
  BY DEF Consistent
<1>2. q.pc \in MeStep => q.secret \in Secrets /\ session[q.secret].state # "none"
  BY DEF Consistent
<1>3. q.pc \in PastRead \cup {"reset read"} => q.pc \in ResetStep BY DEF PastRead, ResetStep
<1>4. q.pc \in {"me session", "me touch"} => q.pc \in MeStep BY DEF MeStep
<1>5. q.pc \in Naming => q.email \in Emails BY DEF Consistent
<1>6. q.pc \in SignupStep \cup LoginStep \cup ResetStep => q.password \in Passwords
  BY DEF Consistent
<1>7. q.pc \in ResetStep => q.secret \in Secrets /\ reset'[q.secret].state # "none"
                            /\ reset'[q.secret].email = reset[q.secret].email
  BY <1>1 DEF RowsStay
<1>8. q.pc = "reset read" => (q.stale => reset'[q.secret].state = "used")
  BY <1>1, <1>3 DEF RowsStay, Consistent
<1>9. q.pc \in PastRead => ~q.stale /\ q.email = reset'[q.secret].email
  BY <1>3, <1>7 DEF Consistent
<1>10. q.pc \in MeStep => q.secret \in Secrets /\ session'[q.secret].state # "none"
  BY <1>2 DEF RowsStay
<1>11. q.pc = "me session" => (q.stale => session'[q.secret].state = "revoked")
  BY <1>2, <1>4 DEF RowsStay, Consistent
<1>12. q.pc = "me touch" => ~q.stale BY DEF Consistent
<1> QED BY <1>5, <1>6, <1>7, <1>8, <1>9, <1>10, <1>11, <1>12 DEF Consistent

LEMMA IdleIsConsistent == Idle \in Request /\ Idle.pc = "idle" /\ Consistent(Idle)
  BY DEF Idle, Request, Consistent, Naming, PastRead, SignupStep, LoginStep, AskStep,
         ResetStep, MeStep

LEMMA AuthInitially == AuthInit => AuthIInv
<1> SUFFICES ASSUME AuthInit PROVE AuthIInv OBVIOUS
<1>1. AuthTypeOK BY IdleIsConsistent DEF AuthInit, AuthTypeOK, Session, Reset
<1>2. RowsNameAccounts BY DEF AuthInit, RowsNameAccounts
<1>3. \A c \in Clients : Consistent(client[c]) BY IdleIsConsistent DEF AuthInit
<1>4. \A s \in Secrets : Settled(session[s]) BY DEF AuthInit, Settled
<1> QED BY <1>1, <1>2, <1>3, <1>4 DEF AuthIInv

(* What keeps the requests in order when one of them goes on               *)
LEMMA ClientsConsistent ==
  ASSUME AuthIInv, RowsStay, NEW c \in Clients, NEW q \in Request,
         client' = [client EXCEPT ![c] = q], Consistent(q)'
  PROVE  /\ client' \in [Clients -> Request]
         /\ \A d \in Clients : Consistent(client[d])'
<1>1. client \in [Clients -> Request] BY DEF AuthIInv, AuthTypeOK
<1>2. ASSUME NEW d \in Clients PROVE Consistent(client[d])'
  <2>1. CASE d = c BY <1>1, <2>1
  <2>2. CASE d # c
    <3>1. PICK r \in Request : r = client[d] BY <1>1
    <3>2. Consistent(r)' BY <3>1, ConsistentLasts DEF AuthIInv
    <3>3. client'[d] = r BY <1>1, <2>2, <3>1
    <3> QED BY <3>2, <3>3
  <2> QED BY <2>1, <2>2
<1> QED BY <1>1, <1>2

(* ... and what keeps the resets of an account under way                   *)
LEMMA ResettingLasts ==
  ASSUME AuthIInv, NEW c \in Clients, NEW q \in Request,
         client' = [client EXCEPT ![c] = q],
         NEW e \in Emails, Resetting(e),
         client[c].pc \in Ending /\ client[c].email = e => q.pc \in Ending /\ q.email = e
  PROVE  Resetting(e)'
<1>1. client \in [Clients -> Request] BY DEF AuthIInv, AuthTypeOK
<1>2. PICK d \in Clients : client[d].pc \in Ending /\ client[d].email = e
  BY DEF Resetting, Ending
<1>3. client'[d].pc \in Ending /\ client'[d].email = e BY <1>1, <1>2
<1> QED BY <1>3 DEF Resetting, Ending

(* A step that writes no row                                               *)
LEMMA ClientStepKeeps ==
  ASSUME AuthIInv, NEW c \in Clients, NEW q \in Request,
         client' = [client EXCEPT ![c] = q], Consistent(q),
         UNCHANGED <<account, session, reset>>,
         interrupted \subseteq interrupted', interrupted' \subseteq Emails,
         client[c].pc \in Ending =>
           (q.pc \in Ending /\ q.email = client[c].email)
           \/ client[c].email \in interrupted'
  PROVE  AuthIInv'
<1>1. RowsStay BY DEF RowsStay
<1>2. Consistent(q)' BY <1>1, ConsistentLasts
<1>3. /\ client' \in [Clients -> Request]
      /\ \A d \in Clients : Consistent(client[d])'
  BY <1>1, <1>2, ClientsConsistent
<1>4. AuthTypeOK' BY <1>3 DEF AuthIInv, AuthTypeOK
<1>5. RowsNameAccounts' BY DEF AuthIInv, RowsNameAccounts
<1>6. ASSUME NEW s \in Secrets PROVE Settled(session[s])'
  <2>1. CASE session[s].state # "live" BY <2>1 DEF Settled
  <2>2. CASE session[s].state = "live"
    <3>1. session[s].email \in Emails BY <2>2 DEF AuthIInv, RowsNameAccounts
    <3>2. PICK e \in Emails : e = session[s].email BY <3>1
    <3>3. CASE client[c].pc \in Ending /\ client[c].email = e /\ e \in interrupted'
      BY <3>2, <3>3 DEF Settled
    <3>4. CASE ~(client[c].pc \in Ending /\ client[c].email = e)
               \/ (q.pc \in Ending /\ q.email = e)
      <4>1. Resetting(e) => Resetting(e)' BY <3>4, ResettingLasts
      <4> QED BY <3>2, <4>1 DEF AuthIInv, Settled
    <3> QED BY <3>3, <3>4
  <2> QED BY <2>1, <2>2
<1> QED BY <1>3, <1>4, <1>5, <1>6 DEF AuthIInv

(* A request that is answered, and one that goes on to a place               *)
LEMMA AnswerKeeps ==
  ASSUME AuthIInv, NEW c \in Clients, Answer(c),
         UNCHANGED <<account, session, reset>>,
         interrupted \subseteq interrupted', interrupted' \subseteq Emails,
         client[c].pc \in Ending => client[c].email \in interrupted'
  PROVE  AuthIInv'
  BY IdleIsConsistent, ClientStepKeeps DEF Answer

LEMMA GoesTo ==
  ASSUME AuthTypeOK, NEW c \in Clients, NEW place \in Step, ClientTo(c, place)
  PROVE  \E q \in Request :
           /\ client' = [client EXCEPT ![c] = q] /\ q.pc = place
           /\ q.email = client[c].email /\ q.password = client[c].password
           /\ q.secret = client[c].secret /\ q.stale = client[c].stale
<1>1. client \in [Clients -> Request] /\ client[c] \in Request BY DEF AuthTypeOK
<1> DEFINE q == [client[c] EXCEPT !.pc = place]
<1>2. q \in Request BY <1>1 DEF Request
<1>3. /\ q.pc = place
      /\ q.email = client[c].email /\ q.password = client[c].password
      /\ q.secret = client[c].secret /\ q.stale = client[c].stale
  BY <1>1 DEF Request
<1>4. client' = [client EXCEPT ![c] = q] BY <1>1 DEF ClientTo
<1> QED BY <1>2, <1>3, <1>4

LEMMA ReadsKeep ==
  ASSUME AuthIInv, NEW c \in Clients,
         \/ SignupCheck(c) \/ SignupReread(c) \/ LoginRead(c) \/ AskRead(c)
         \/ MeSession(c) \/ MeTouch(c)
  PROVE  AuthIInv'
<1>0. AuthTypeOK /\ Consistent(client[c]) /\ interrupted \subseteq Emails
  BY DEF AuthIInv, AuthTypeOK
<1>1. UNCHANGED <<account, session, reset, interrupted>> /\ client[c].pc \notin Ending
  BY DEF SignupCheck, SignupReread, LoginRead, AskRead, MeSession, MeTouch, Is, Ending
<1>2. CASE Answer(c) BY <1>0, <1>1, <1>2, AnswerKeeps
<1>3. ASSUME NEW place \in Step, ClientTo(c, place),
             \/ client[c].pc = "signup check" /\ place = "signup insert"
             \/ client[c].pc = "login read" /\ place = "login insert"
             \/ client[c].pc = "ask read" /\ place = "ask insert"
             \/ /\ client[c].pc = "me session" /\ place = "me touch"
                /\ session[client[c].secret].state = "live"
      PROVE AuthIInv'
  <2>1. PICK q \in Request :
           /\ client' = [client EXCEPT ![c] = q] /\ q.pc = place
           /\ q.email = client[c].email /\ q.password = client[c].password
           /\ q.secret = client[c].secret /\ q.stale = client[c].stale
    BY <1>0, <1>3, GoesTo
  <2>2. Consistent(q)
    BY <1>0, <1>3, <2>1 DEF Consistent, Naming, PastRead, SignupStep, LoginStep, AskStep,
       ResetStep, MeStep
  <2> QED BY <1>0, <1>1, <2>1, <2>2, ClientStepKeeps
<1>4. CASE SignupCheck(c)
  BY <1>2, <1>3, <1>4 DEF SignupCheck, ClientToIf, Is, Step, SignupStep
<1>5. CASE LoginRead(c)
  BY <1>2, <1>3, <1>5 DEF LoginRead, ClientToIf, Is, Step, LoginStep
<1>6. CASE AskRead(c)
  BY <1>2, <1>3, <1>6 DEF AskRead, ClientToIf, Is, Step, AskStep
<1>7. CASE MeSession(c)
  BY <1>2, <1>3, <1>7 DEF MeSession, Is, Step, MeStep
<1>8. CASE SignupReread(c) \/ MeTouch(c) BY <1>2, <1>8 DEF SignupReread, MeTouch
<1> QED BY <1>4, <1>5, <1>6, <1>7, <1>8

LEMMA ResetReadKeeps ==
  ASSUME AuthIInv, NEW c \in Clients, ResetRead(c) PROVE AuthIInv'
<1>0. /\ AuthTypeOK /\ Consistent(client[c]) /\ interrupted \subseteq Emails
      /\ client \in [Clients -> Request] /\ client[c] \in Request
  BY DEF AuthIInv, AuthTypeOK
<1>1. UNCHANGED <<account, session, reset, interrupted>> /\ client[c].pc = "reset read"
  BY DEF ResetRead, Is
<1>2. CASE Answer(c) BY <1>0, <1>1, <1>2, AnswerKeeps DEF Ending
<1>3. CASE ~Answer(c)
  <2> DEFINE s == client[c].secret
  <2>1. s \in Secrets /\ client[c].password \in Passwords /\ reset[s].state = "unused"
        /\ client' = [client EXCEPT ![c].pc = "set password", ![c].email = reset[s].email]
    BY <1>0, <1>1, <1>3 DEF ResetRead, LinkIsOpen, Consistent, ResetStep
  <2>2. reset[s].email \in Emails BY <2>1 DEF AuthIInv, RowsNameAccounts
  <2>3. ~client[c].stale BY <1>0, <1>1, <2>1 DEF Consistent
  <2>4. PICK q \in Request :
          q = [client[c] EXCEPT !.pc = "set password", !.email = reset[s].email]
    BY <1>0, <2>2 DEF Request, Step, ResetStep
  <2>5. /\ q.pc = "set password" /\ q.email = reset[s].email /\ q.secret = s
        /\ q.password = client[c].password /\ q.stale = client[c].stale
    BY <1>0, <2>4 DEF Request
  <2>6. client' = [client EXCEPT ![c] = q] BY <1>0, <2>1, <2>4
  <2>7. Consistent(q)
    BY <2>1, <2>2, <2>3, <2>5 DEF Consistent, Naming, PastRead, SignupStep, LoginStep,
       AskStep, ResetStep, MeStep
  <2> QED BY <1>0, <1>1, <2>6, <2>7, ClientStepKeeps DEF Ending
<1> QED BY <1>2, <1>3

LEMMA BeginsKeep ==
  ASSUME AuthIInv, NEW c \in Clients,
         \/ BeginSignup(c) \/ BeginLogin(c) \/ BeginAsk(c) \/ BeginReset(c) \/ BeginMe(c)
  PROVE  AuthIInv'
<1>0. /\ client \in [Clients -> Request] /\ interrupted \subseteq Emails
      /\ reset \in [Secrets -> Reset] /\ session \in [Secrets -> Session]
      /\ Nil \notin Secrets /\ Nil \notin Passwords
  BY NilIsNothing DEF AuthIInv, AuthTypeOK
<1>1. ASSUME NEW place \in Step, NEW e \in Emails \cup {Nil}, NEW p \in Passwords \cup {Nil},
             NEW s \in Secrets \cup {Nil}, Start(c, place, e, p, s),
             \/ place \in {"signup check", "login read"} /\ e # Nil /\ p # Nil
             \/ place = "ask read" /\ e # Nil
             \/ place = "reset read" /\ p # Nil /\ s # Nil /\ reset[s].state # "none"
             \/ place = "me session" /\ s # Nil /\ session[s].state # "none"
      PROVE AuthIInv'
  <2>1. PICK x \in BOOLEAN :
          x = (s # Nil /\ (reset[s].state = "used" \/ session[s].state = "revoked"))
    OBVIOUS
  <2>2. PICK q \in Request :
          q = [pc |-> place, email |-> e, password |-> p, secret |-> s, stale |-> x]
    BY DEF Request
  <2>3. q.pc = place /\ q.email = e /\ q.password = p /\ q.secret = s /\ q.stale = x BY <2>2
  <2>4. client' = [client EXCEPT ![c] = q] /\ client[c].pc = "idle"
        /\ UNCHANGED <<account, session, reset, interrupted>>
    BY <1>1, <2>1, <2>2 DEF Start, Is
  <2>5. place = "reset read" /\ x => reset[s].state = "used"
    BY <1>1, <2>1 DEF AuthIInv, RowsNameAccounts
  <2>6. place = "me session" /\ x => session[s].state = "revoked"
    BY <1>1, <2>1 DEF AuthIInv, RowsNameAccounts
  <2>7. Consistent(q)
    BY <1>1, <2>3, <2>5, <2>6 DEF Consistent, Naming, PastRead, SignupStep, LoginStep,
       AskStep, ResetStep, MeStep
  <2> QED BY <1>0, <2>4, <2>7, ClientStepKeeps DEF Ending
<1>2. {"signup check", "login read", "ask read", "reset read", "me session"} \subseteq Step
  BY DEF Step, SignupStep, LoginStep, AskStep, ResetStep, MeStep
<1>3. Nil \notin Emails BY NilIsNothing
<1>4. CASE BeginSignup(c) \/ BeginLogin(c) \/ BeginAsk(c)
  BY <1>0, <1>1, <1>2, <1>3, <1>4 DEF BeginSignup, BeginLogin, BeginAsk
<1>5. CASE BeginReset(c) \/ BeginMe(c)
  BY <1>0, <1>1, <1>2, <1>3, <1>5 DEF BeginReset, BeginMe
<1> QED BY <1>4, <1>5

LEMMA FailKeeps ==
  ASSUME AuthIInv, NEW c \in Clients, Fail(c) PROVE AuthIInv'
<1>0. client \in [Clients -> Request] /\ interrupted \subseteq Emails /\ Consistent(client[c])
  BY DEF AuthIInv, AuthTypeOK
<1>1. client[c].pc \in Ending => client[c].email \in Emails
  BY <1>0 DEF AuthIInv, RowsNameAccounts, Consistent, Ending, PastRead, ResetStep
<1>2. interrupted' = interrupted \cup
        (IF client[c].pc \in Ending THEN {client[c].email} ELSE {})
      /\ Answer(c) /\ UNCHANGED <<account, session, reset>>
  BY DEF Fail, Ending
<1> QED BY <1>0, <1>1, <1>2, AnswerKeeps

LEMMA DrawIsUnused ==
  Unused # {} => Draw \in Secrets /\ session[Draw].state = "none" /\ reset[Draw].state = "none"
<1>1. Unused # {} => Draw \in Unused BY DEF Draw
<1> QED BY <1>1 DEF Unused

(* The sessions stay settled when neither they nor the passwords they      *)
(* answer to change and the resets under way go on.                        *)
LEMMA SettledLasts ==
  ASSUME AuthIInv, NEW c \in Clients, NEW q \in Request,
         client' = [client EXCEPT ![c] = q], UNCHANGED interrupted,
         client[c].pc \in Ending => q.pc \in Ending /\ q.email = client[c].email,
         NEW s \in Secrets, UNCHANGED session[s],
         session[s].state = "live" =>
           account'[session[s].email] = account[session[s].email]
           \/ account[session[s].email] = Nil
  PROVE  Settled(session[s])'
<1>1. CASE session[s].state # "live" BY <1>1 DEF Settled
<1>2. CASE session[s].state = "live"
  <2>1. session[s].email \in Emails /\ session[s].proof # Nil
    BY <1>2, NilIsNothing DEF AuthIInv, RowsNameAccounts
  <2>2. PICK e \in Emails : e = session[s].email BY <2>1
  <2>3. Resetting(e) => Resetting(e)' BY ResettingLasts
  <2>4. session[s].proof = account[e] => account'[e] = account[e]
    BY <1>2, <2>1, <2>2
  <2> QED BY <2>2, <2>3, <2>4 DEF AuthIInv, Settled
<1> QED BY <1>1, <1>2

LEMMA SignupInsertKeeps ==
  ASSUME AuthIInv, NEW c \in Clients, SignupInsert(c) PROVE AuthIInv'
<1>0. /\ AuthTypeOK /\ Consistent(client[c]) /\ client[c].pc = "signup insert"
      /\ account \in [Emails -> Passwords \cup {Nil}]
  BY DEF AuthIInv, AuthTypeOK, SignupInsert, Is
<1>1. /\ client[c].email \in Emails /\ client[c].password \in Passwords
      /\ account[client[c].email] = Nil
      /\ account' = [account EXCEPT ![client[c].email] = client[c].password]
      /\ ClientTo(c, "signup reread") /\ UNCHANGED <<session, reset, interrupted>>
  BY <1>0 DEF SignupInsert, Consistent, Naming, SignupStep
<1>2. PICK q \in Request :
        /\ client' = [client EXCEPT ![c] = q] /\ q.pc = "signup reread"
        /\ q.email = client[c].email /\ q.password = client[c].password
        /\ q.secret = client[c].secret /\ q.stale = client[c].stale
  <2>1. "signup reread" \in Step BY DEF Step, SignupStep
  <2>2. ClientTo(c, "signup reread") BY <1>1
  <2> QED BY <1>0, <2>1, <2>2, GoesTo
<1>3. RowsStay BY <1>1 DEF RowsStay
<1>4. Consistent(q)'
  BY <1>1, <1>2 DEF Consistent, Naming, PastRead, SignupStep, LoginStep, AskStep,
     ResetStep, MeStep
<1>5. client' \in [Clients -> Request] /\ \A d \in Clients : Consistent(client[d])'
  BY <1>2, <1>3, <1>4, ClientsConsistent
<1>6. AuthTypeOK' BY <1>0, <1>1, <1>5 DEF AuthTypeOK
<1>7. RowsNameAccounts' BY <1>1 DEF AuthIInv, RowsNameAccounts
<1>8. ASSUME NEW s \in Secrets PROVE Settled(session[s])'
  <2>1. account'[session[s].email] = account[session[s].email]
        \/ account[session[s].email] = Nil \/ session[s].state # "live"
    <3>1. session[s].state = "live" => session[s].email \in Emails
      BY DEF AuthIInv, RowsNameAccounts
    <3>2. \A e \in Emails : account'[e] = account[e] \/ account[e] = Nil BY <1>0, <1>1
    <3> QED BY <3>1, <3>2
  <2> QED BY <1>0, <1>1, <1>2, <2>1, SettledLasts DEF Ending
<1> QED BY <1>5, <1>6, <1>7, <1>8 DEF AuthIInv

LEMMA LoginInsertKeeps ==
  ASSUME AuthIInv, NEW c \in Clients, LoginInsert(c) PROVE AuthIInv'
<1>0. /\ AuthTypeOK /\ Consistent(client[c]) /\ client[c].pc = "login insert"
      /\ session \in [Secrets -> Session] /\ interrupted \subseteq Emails
      /\ account \in [Emails -> Passwords \cup {Nil}]
  BY DEF AuthIInv, AuthTypeOK, LoginInsert, Is
<1>1. PICK t \in Secrets : t = Draw /\ session[t].state = "none" /\ reset[t].state = "none"
  BY DrawIsUnused DEF LoginInsert
<1>2. client[c].email \in Emails /\ client[c].password \in Passwords
  BY <1>0 DEF Consistent, Naming, LoginStep
<1>3. PICK x \in BOOLEAN : x = (account[client[c].email] # client[c].password) OBVIOUS
<1>4. PICK r \in Session :
        r = [state |-> "live", email |-> client[c].email, proof |-> client[c].password,
             late |-> x]
  BY <1>2 DEF Session
<1>5. /\ session' = [session EXCEPT ![t] = r]
      /\ client' = [client EXCEPT ![c] = Idle] /\ UNCHANGED <<account, reset, interrupted>>
  BY <1>1, <1>3, <1>4 DEF LoginInsert, Answer
<1>6. /\ session'[t] = r /\ \A s \in Secrets : s # t => session'[s] = session[s]
      /\ r.state = "live" /\ r.email = client[c].email /\ r.proof = client[c].password
      /\ r.late = x
  BY <1>0, <1>4, <1>5
<1>7. RowsStay BY <1>1, <1>5, <1>6 DEF RowsStay
<1>8. Consistent(Idle)' BY IdleIsConsistent, <1>7, ConsistentLasts
<1>9. client' \in [Clients -> Request] /\ \A d \in Clients : Consistent(client[d])'
  BY <1>5, <1>7, <1>8, IdleIsConsistent, ClientsConsistent
<1>10. AuthTypeOK' BY <1>0, <1>5, <1>9 DEF AuthTypeOK
<1>11. RowsNameAccounts'
  BY <1>1, <1>2, <1>5, <1>6 DEF AuthIInv, RowsNameAccounts
<1>12. ASSUME NEW s \in Secrets PROVE Settled(session[s])'
  <2>1. CASE s = t BY ZenonT(60), <1>3, <1>5, <1>6, <2>1 DEF Settled
  <2>2. CASE s # t
    BY <1>0, <1>5, <1>6, <2>2, IdleIsConsistent, SettledLasts DEF Ending
  <2> QED BY <2>1, <2>2
<1> QED BY <1>9, <1>10, <1>11, <1>12 DEF AuthIInv

LEMMA AskInsertKeeps ==
  ASSUME AuthIInv, NEW c \in Clients, AskInsert(c) PROVE AuthIInv'
<1>0. /\ AuthTypeOK /\ Consistent(client[c]) /\ client[c].pc = "ask insert"
      /\ reset \in [Secrets -> Reset]
  BY DEF AuthIInv, AuthTypeOK, AskInsert, Is
<1>1. PICK t \in Secrets : t = Draw /\ session[t].state = "none" /\ reset[t].state = "none"
  BY DrawIsUnused DEF AskInsert
<1>2. client[c].email \in Emails BY <1>0 DEF Consistent, Naming, AskStep
<1>3. PICK r \in Reset : r = [state |-> "unused", email |-> client[c].email]
  BY <1>2 DEF Reset
<1>4. /\ reset' = [reset EXCEPT ![t] = r]
      /\ client' = [client EXCEPT ![c] = Idle] /\ UNCHANGED <<account, session, interrupted>>
  BY <1>1, <1>3 DEF AskInsert, Answer
<1>5. /\ reset'[t] = r /\ \A s \in Secrets : s # t => reset'[s] = reset[s]
      /\ r.state = "unused" /\ r.email = client[c].email
  BY <1>0, <1>3, <1>4
<1>6. RowsStay BY <1>1, <1>4, <1>5 DEF RowsStay
<1>7. Consistent(Idle)' BY IdleIsConsistent, <1>6, ConsistentLasts
<1>8. client' \in [Clients -> Request] /\ \A d \in Clients : Consistent(client[d])'
  BY <1>4, <1>6, <1>7, IdleIsConsistent, ClientsConsistent
<1>9. AuthTypeOK' BY <1>0, <1>4, <1>8 DEF AuthTypeOK
<1>10. RowsNameAccounts' BY <1>1, <1>2, <1>4, <1>5 DEF AuthIInv, RowsNameAccounts
<1>11. \A s \in Secrets : Settled(session[s])'
  BY <1>0, <1>4, IdleIsConsistent, SettledLasts DEF Ending
<1> QED BY <1>8, <1>9, <1>10, <1>11 DEF AuthIInv

(* A reset's own writes: the password, the link, the sessions              *)
LEMMA SetPasswordKeeps ==
  ASSUME AuthIInv, NEW c \in Clients, SetPassword(c) PROVE AuthIInv'
<1>0. /\ AuthTypeOK /\ Consistent(client[c]) /\ client[c].pc = "set password"
      /\ account \in [Emails -> Passwords \cup {Nil}]
      /\ client \in [Clients -> Request]
  BY DEF AuthIInv, AuthTypeOK, SetPassword, Is
<1>1. PICK e \in Emails : e = client[c].email
  BY <1>0 DEF AuthIInv, RowsNameAccounts, Consistent, PastRead, ResetStep
<1>2. PICK q \in Request :
        /\ client' = [client EXCEPT ![c] = q] /\ q.pc = "mark used"
        /\ q.email = client[c].email /\ q.password = client[c].password
        /\ q.secret = client[c].secret /\ q.stale = client[c].stale
  <2>1. "mark used" \in Step BY DEF Step, ResetStep
  <2>2. ClientTo(c, "mark used") BY DEF SetPassword
  <2> QED BY <1>0, <2>1, <2>2, GoesTo
<1>3. /\ client[c].password \in Passwords
      /\ account' = [account EXCEPT ![e] = client[c].password]
      /\ UNCHANGED <<session, reset, interrupted>>
  BY <1>0, <1>1 DEF SetPassword, Consistent, ResetStep
<1>4. RowsStay BY <1>3 DEF RowsStay
<1>5. Consistent(q)
  BY <1>0, <1>2 DEF Consistent, Naming, PastRead, SignupStep, LoginStep, AskStep,
     ResetStep, MeStep
<1>6. client' \in [Clients -> Request] /\ \A d \in Clients : Consistent(client[d])'
  BY <1>2, <1>4, <1>5, ConsistentLasts, ClientsConsistent
<1>7. AuthTypeOK' BY <1>0, <1>3, <1>6 DEF AuthTypeOK
<1>8. RowsNameAccounts' BY <1>3 DEF AuthIInv, RowsNameAccounts
<1>9. Resetting(e)'
  <2>1. client'[c].pc = "mark used" /\ client'[c].email = e BY <1>0, <1>1, <1>2
  <2> QED BY <2>1 DEF Resetting
<1>10. ASSUME NEW s \in Secrets PROVE Settled(session[s])'
  <2>1. CASE session[s].email = e BY <1>3, <1>9, <2>1 DEF Settled
  <2>2. CASE session[s].email # e
    <3>1. session[s].state = "live" => session[s].email \in Emails
      BY DEF AuthIInv, RowsNameAccounts
    <3>2. \A f \in Emails : f # e => account'[f] = account[f] BY <1>0, <1>3
    <3> QED BY <1>0, <1>2, <1>3, <2>2, <3>1, <3>2, SettledLasts DEF Ending
  <2> QED BY <2>1, <2>2
<1> QED BY <1>6, <1>7, <1>8, <1>10 DEF AuthIInv

LEMMA MarkUsedKeeps ==
  ASSUME AuthIInv, NEW c \in Clients, MarkUsed(c) PROVE AuthIInv'
<1>0. /\ AuthTypeOK /\ Consistent(client[c]) /\ client[c].pc = "mark used"
      /\ reset \in [Secrets -> Reset]
  BY DEF AuthIInv, AuthTypeOK, MarkUsed, Is
<1>1. PICK t \in Secrets : t = client[c].secret /\ reset[t].state # "none"
  BY <1>0 DEF Consistent, ResetStep
<1>2. PICK q \in Request :
        /\ client' = [client EXCEPT ![c] = q] /\ q.pc = "revoke"
        /\ q.email = client[c].email /\ q.password = client[c].password
        /\ q.secret = client[c].secret /\ q.stale = client[c].stale
  <2>1. "revoke" \in Step BY DEF Step, ResetStep
  <2>2. ClientTo(c, "revoke") BY DEF MarkUsed
  <2> QED BY <1>0, <2>1, <2>2, GoesTo
<1>3. PICK r \in Reset : r = [reset[t] EXCEPT !.state = "used"] BY <1>0 DEF Reset
<1>4. /\ reset' = [reset EXCEPT ![t] = r] /\ UNCHANGED <<account, session, interrupted>>
      /\ r.state = "used" /\ r.email = reset[t].email
  BY <1>0, <1>1, <1>3 DEF MarkUsed, Reset
<1>5. reset'[t] = r /\ \A s \in Secrets : s # t => reset'[s] = reset[s]
  BY <1>0, <1>4
<1>6. RowsStay BY <1>4, <1>5 DEF RowsStay
<1>7. Consistent(q)
  BY <1>0, <1>2 DEF Consistent, Naming, PastRead, SignupStep, LoginStep, AskStep,
     ResetStep, MeStep
<1>8. client' \in [Clients -> Request] /\ \A d \in Clients : Consistent(client[d])'
  BY <1>2, <1>6, <1>7, ConsistentLasts, ClientsConsistent
<1>9. AuthTypeOK' BY <1>0, <1>4, <1>8 DEF AuthTypeOK
<1>10. RowsNameAccounts' BY <1>1, <1>4, <1>5 DEF AuthIInv, RowsNameAccounts
<1>11. \A s \in Secrets : Settled(session[s])'
  BY <1>0, <1>2, <1>4, SettledLasts DEF Ending
<1> QED BY <1>8, <1>9, <1>10, <1>11 DEF AuthIInv

(* Sessions of other accounts keep the resets that excuse them.            *)
LEMMA RevokeSessionsKeeps ==
  ASSUME AuthIInv, NEW c \in Clients, RevokeSessions(c) PROVE AuthIInv'
<1>0. /\ AuthTypeOK /\ Consistent(client[c]) /\ client[c].pc = "revoke"
      /\ session \in [Secrets -> Session] /\ interrupted \subseteq Emails
      /\ client \in [Clients -> Request]
  BY DEF AuthIInv, AuthTypeOK, RevokeSessions, Is
<1>1. PICK e \in Emails : e = client[c].email
  BY <1>0 DEF AuthIInv, RowsNameAccounts, Consistent, PastRead, ResetStep
<1>2. /\ client' = [client EXCEPT ![c] = Idle] /\ UNCHANGED <<account, reset>>
      /\ interrupted' = interrupted \ {e}
      /\ session' = [s \in Secrets |->
           IF session[s].state = "live" /\ session[s].email = e
           THEN [session[s] EXCEPT !.state = "revoked"] ELSE session[s]]
  BY <1>1 DEF RevokeSessions, Answer, LiveOf
<1>3. ASSUME NEW s \in Secrets
      PROVE /\ session'[s] \in Session
            /\ session'[s].email = session[s].email /\ session'[s].proof = session[s].proof
            /\ session'[s].late = session[s].late
            /\ session'[s].state = IF session[s].state = "live" /\ session[s].email = e
                                   THEN "revoked" ELSE session[s].state
  BY <1>0, <1>2 DEF Session
<1>4. session' \in [Secrets -> Session] BY <1>2, <1>3
<1>5. RowsStay BY <1>2, <1>3 DEF RowsStay
<1>6. client' \in [Clients -> Request] /\ \A d \in Clients : Consistent(client[d])'
  BY <1>2, <1>5, IdleIsConsistent, ConsistentLasts, ClientsConsistent
<1>7. AuthTypeOK' BY <1>0, <1>2, <1>4, <1>6 DEF AuthTypeOK
<1>8. RowsNameAccounts' BY <1>2, <1>3 DEF AuthIInv, RowsNameAccounts
<1>9. ASSUME NEW s \in Secrets PROVE Settled(session[s])'
  <2>1. CASE session'[s].state # "live" BY <2>1 DEF Settled
  <2>2. CASE session'[s].state = "live"
    <3>1. session[s].state = "live" /\ session[s].email # e BY <1>3, <2>2
    <3>2. PICK f \in Emails : f = session[s].email /\ f # e
      BY <3>1 DEF AuthIInv, RowsNameAccounts
    <3>3. Resetting(f) => Resetting(f)'
      BY <1>1, <1>2, <3>2, IdleIsConsistent, ResettingLasts
    <3>4. f \in interrupted => f \in interrupted' BY <1>2, <3>2
    <3> QED BY <1>2, <1>3, <3>1, <3>2, <3>3, <3>4 DEF AuthIInv, Settled
  <2> QED BY <2>1, <2>2
<1> QED BY <1>6, <1>7, <1>8, <1>9 DEF AuthIInv

LEMMA LogOutKeeps ==
  ASSUME AuthIInv, NEW t \in Secrets, LogOut(t) PROVE AuthIInv'
<1>0. AuthTypeOK /\ session \in [Secrets -> Session] /\ client \in [Clients -> Request]
  BY DEF AuthIInv, AuthTypeOK
<1>1. PICK r \in Session : r = [session[t] EXCEPT !.state = "revoked"] BY <1>0 DEF Session
<1>2. /\ session' = [session EXCEPT ![t] = r]
      /\ UNCHANGED <<account, reset, client, interrupted>> /\ session[t].state # "none"
      /\ r.state = "revoked" /\ r.email = session[t].email /\ r.proof = session[t].proof
  BY <1>0, <1>1 DEF LogOut, Session
<1>3. session'[t] = r /\ \A s \in Secrets : s # t => session'[s] = session[s]
  BY <1>0, <1>2
<1>4. RowsStay BY <1>2, <1>3 DEF RowsStay
<1>5. ASSUME NEW d \in Clients PROVE Consistent(client[d])'
  <2>1. PICK q \in Request : q = client[d] BY <1>0
  <2>2. Consistent(q)' BY <1>4, <2>1, ConsistentLasts DEF AuthIInv
  <2> QED BY <1>2, <2>1, <2>2
<1>6. AuthTypeOK' BY <1>0, <1>2 DEF AuthTypeOK
<1>7. RowsNameAccounts' BY <1>2, <1>3 DEF AuthIInv, RowsNameAccounts
<1>8. ASSUME NEW s \in Secrets PROVE Settled(session[s])'
  <2>1. CASE s = t BY <1>2, <1>3, <2>1 DEF Settled
  <2>2. CASE s # t
    <3>1. session'[s] = session[s] /\ Settled(session[s]) BY <1>3, <2>2 DEF AuthIInv
    <3>2. Resetting(session[s].email) => Resetting(session[s].email)'
      BY <1>2, <3>1 DEF Resetting
    <3> QED BY <1>2, <3>1, <3>2 DEF Settled
  <2> QED BY <2>1, <2>2
<1> QED BY <1>5, <1>6, <1>7, <1>8 DEF AuthIInv

LEMMA AuthKept == AuthIInv /\ [AuthNext]_authVars => AuthIInv'
<1> SUFFICES ASSUME AuthIInv, [AuthNext]_authVars PROVE AuthIInv' OBVIOUS
<1>1. CASE UNCHANGED authVars
  BY <1>1 DEF authVars, AuthIInv, AuthTypeOK, RowsNameAccounts, Consistent, Settled,
     Resetting
<1> QED BY <1>1, BeginsKeep, ReadsKeep, SignupInsertKeeps, LoginInsertKeeps,
        AskInsertKeeps, ResetReadKeeps, SetPasswordKeeps, MarkUsedKeeps,
        RevokeSessionsKeeps, FailKeeps, LogOutKeeps DEF AuthNext

LEMMA AuthAnswers ==
  AuthIInv => AuthTypeOK /\ OldPasswordIsLockedOut /\ RevokedIsRefused
<1>1. AuthIInv => OldPasswordIsLockedOut
  BY DEF AuthIInv, OldPasswordIsLockedOut, Settled
<1>2. AuthIInv => RevokedIsRefused BY DEF AuthIInv, RevokedIsRefused, Consistent
<1> QED BY <1>1, <1>2 DEF AuthIInv

(* The body of OnlyAnOpenLinkReplaces                                      *)
OpenLinkReplaces ==
  \A e \in Emails :
    account[e] # Nil /\ account'[e] # account[e] =>
      \E c \in Clients :
        /\ Is(c, "set password") /\ ~client[c].stale
        /\ reset[client[c].secret].email = e

LEMMA OpenLinks == AuthIInv /\ [AuthNext]_authVars => OpenLinkReplaces
<1> SUFFICES ASSUME AuthIInv, [AuthNext]_authVars PROVE OpenLinkReplaces OBVIOUS
<1>0. account \in [Emails -> Passwords \cup {Nil}] /\ \A c \in Clients : Consistent(client[c])
  BY DEF AuthIInv, AuthTypeOK
<1>1. CASE account' = account BY <1>1 DEF OpenLinkReplaces
<1>2. ASSUME NEW c \in Clients, SignupInsert(c) PROVE OpenLinkReplaces
  <2>1. \A e \in Emails : account[e] # Nil => account'[e] = account[e]
    BY <1>0, <1>2 DEF SignupInsert
  <2> QED BY <2>1 DEF OpenLinkReplaces
<1>3. ASSUME NEW c \in Clients, SetPassword(c) PROVE OpenLinkReplaces
  <2>1. \A e \in Emails : account'[e] # account[e] => e = client[c].email
    BY <1>0, <1>3 DEF SetPassword
  <2>2. Is(c, "set password") /\ ~client[c].stale
        /\ client[c].email = reset[client[c].secret].email
    BY <1>0, <1>3 DEF SetPassword, Is, Consistent, PastRead
  <2> QED BY <2>1, <2>2 DEF OpenLinkReplaces
<1> QED
  BY <1>1, <1>2, <1>3 DEF AuthNext, authVars, BeginSignup, BeginLogin, BeginAsk,
     BeginReset, BeginMe, Start, SignupCheck, SignupReread, LoginRead, LoginInsert,
     AskRead, AskInsert, ResetRead, MarkUsed, RevokeSessions, MeSession, MeTouch,
     Fail, LogOut

-----------------------------------------------------------------------------
(* Email templates                                                         *)

Saving == [pc : SavePc, input : Input, next : Template]

(* What a save has found out of the template it is about to write, unless  *)
(* an import has replaced the tables since                                 *)
Checked(q) ==
  LET t == q.next
  IN /\ q.pc \in {"approve", "check event", "upsert", "enable"} => Valid(t)
     /\ ~t.torn =>
          /\ q.pc \in {"check event", "upsert", "enable"} => t.required \subseteq mapping
          /\ q.pc \in {"upsert", "enable"} => event[t.event] # "none"

WholeRow(t) ==
  t.stored /\ ~t.torn =>
    Valid(t) /\ t.required \subseteq Approved /\ event[t.event] # "none"

EmailIInv ==
  /\ EmailTypeOK
  /\ \A a \in Authors : Checked(author[a])
  /\ \A k \in TemplateKeys : WholeRow(template[k])

(* Variables stay approved and events stay.                                *)
Grows ==
  /\ mapping \subseteq mapping' /\ mapping' \subseteq Variables
  /\ event' \in [EventTypes -> EventState]
  /\ \A e \in EventTypes : event[e] # "none" => event'[e] # "none"

LEMMA NothingSaved ==
  /\ NoTemplate \in Template /\ NoSave \in Saving /\ NoSave.pc = "idle"
  /\ Requests \subseteq Input
<1>1. (CHOOSE e \in EventTypes : TRUE) \in EventTypes
      /\ (CHOOSE i \in Requests : TRUE) \in Requests
  BY EmailConstants
<1>2. NoTemplate \in Template BY <1>1, EmailConstants DEF NoTemplate, Template
<1> QED BY <1>1, <1>2, EmailConstants DEF NoSave, Saving, SavePc

LEMMA FindingsLast ==
  ASSUME Grows, NEW q \in Saving, Checked(q) PROVE Checked(q)'
<1>1. q.next.event \in EventTypes BY DEF Saving, Template
<1> QED BY <1>1 DEF Grows, Checked, Valid, Uses

LEMMA RowsLast ==
  ASSUME Grows, NEW t \in Template, WholeRow(t) PROVE WholeRow(t)'
<1>1. t.event \in EventTypes BY DEF Template
<1> QED BY <1>1 DEF Grows, WholeRow, Valid, Uses, Approved

(* Workspaces bring whole templates, the seed among them.                  *)
LEMMA WorkspaceRowsAreWhole ==
  ASSUME NEW w \in Workspaces, NEW k \in TemplateKeys
  PROVE  LET t == w.template[k]
         IN t.stored /\ ~t.torn => /\ Valid(t) /\ t.required \subseteq NativeVariables
                                   /\ w.event[t.event] # "none"
  BY WorkspacesAreValid DEF ValidWorkspace

LEMMA EmailInitially == EmailInit => EmailIInv
<1> SUFFICES ASSUME EmailInit PROVE EmailIInv OBVIOUS
<1>1. Seed \in Workspaces /\ template = Seed.template /\ event = Seed.event
      /\ mapping = Seed.mapping /\ author = [a \in Authors |-> NoSave] /\ imported = FALSE
  BY WorkspacesAreValid DEF EmailInit
<1>2. /\ template \in [TemplateKeys -> Template] /\ event \in [EventTypes -> EventState]
      /\ mapping \subseteq Variables
  BY <1>1, WorkspacesAreValid, EmailConstants DEF ValidWorkspace
<1>3. EmailTypeOK BY <1>1, <1>2, NothingSaved DEF EmailTypeOK, Saving
<1>4. \A a \in Authors : Checked(author[a]) BY <1>1, NothingSaved DEF Checked
<1>5. \A k \in TemplateKeys : WholeRow(template[k])
  BY <1>1, WorkspaceRowsAreWhole DEF WholeRow, Approved
<1> QED BY <1>3, <1>4, <1>5 DEF EmailIInv

LEMMA AuthorStepKeeps ==
  ASSUME EmailIInv, Grows, NEW a \in Authors, NEW q \in Saving,
         author' = [author EXCEPT ![a] = q], Checked(q)', UNCHANGED imported,
         template' = template
           \/ \E k \in TemplateKeys, saved \in Template :
                WholeRow(saved)' /\ template' = [template EXCEPT ![k] = saved]
  PROVE  EmailIInv'
<1>0. author \in [Authors -> Saving] /\ template \in [TemplateKeys -> Template]
  BY DEF EmailIInv, EmailTypeOK, Saving
<1>1. EmailTypeOK' BY <1>0 DEF EmailIInv, EmailTypeOK, Saving, Grows
<1>2. ASSUME NEW b \in Authors PROVE Checked(author[b])'
  <2>1. CASE b = a BY <1>0, <2>1
  <2>2. CASE b # a
    <3>1. PICK r \in Saving : r = author[b] BY <1>0
    <3>2. Checked(r)' BY <3>1, FindingsLast DEF EmailIInv
    <3>3. author'[b] = r BY <1>0, <2>2, <3>1
    <3> QED BY <3>2, <3>3
  <2> QED BY <2>1, <2>2
<1>3. ASSUME NEW j \in TemplateKeys PROVE WholeRow(template[j])'
  <2>1. PICK t \in Template : t = template[j] BY <1>0
  <2>2. WholeRow(t)' BY <2>1, RowsLast DEF EmailIInv
  <2>3. CASE template'[j] = t BY <2>2, <2>3
  <2>4. CASE template'[j] # t
    <3>1. PICK saved \in Template : WholeRow(saved)' /\ template'[j] = saved
      BY <1>0, <2>1, <2>4
    <3> QED BY <3>1
  <2> QED BY <2>3, <2>4
<1> QED BY <1>1, <1>2, <1>3 DEF EmailIInv

(* An author's record with another place                                   *)
LEMMA MovesTo ==
  ASSUME EmailTypeOK, NEW a \in Authors, NEW place \in SavePc, Moves(a, place)
  PROVE  \E q \in Saving :
           /\ author' = [author EXCEPT ![a] = q]
           /\ q.pc = place /\ q.input = author[a].input /\ q.next = author[a].next
<1>1. author \in [Authors -> Saving] /\ author[a] \in Saving
  BY DEF EmailTypeOK, Saving
<1> DEFINE q == [author[a] EXCEPT !.pc = place]
<1>2. q \in Saving /\ q.pc = place /\ q.input = author[a].input /\ q.next = author[a].next
  BY <1>1 DEF Saving
<1>3. author' = [author EXCEPT ![a] = q] BY <1>1 DEF Moves
<1> QED BY <1>2, <1>3

LEMMA EndsKeeps ==
  ASSUME EmailIInv, Grows, NEW a \in Authors, Ends(a), UNCHANGED <<imported, template>>
  PROVE  EmailIInv'
<1>1. PICK q \in Saving : q = NoSave BY NothingSaved
<1>2. q.pc = "idle" /\ author' = [author EXCEPT ![a] = q] BY <1>1, NothingSaved DEF Ends
<1>3. Checked(q)' BY <1>2 DEF Checked
<1> QED BY <1>2, <1>3, AuthorStepKeeps

LEMMA StaysGrown ==
  ASSUME EmailIInv, UNCHANGED <<event, mapping>> PROVE Grows
  BY DEF EmailIInv, EmailTypeOK, Grows

LEMMA StartsKeeps ==
  ASSUME EmailIInv, NEW a \in Authors, NEW i \in Requests, Starts(a, i) PROVE EmailIInv'
<1>1. PICK q \in Saving : q = [pc |-> "mappings", input |-> i, next |-> NoTemplate]
  BY NothingSaved DEF Saving, SavePc
<1>2. q.pc = "mappings" /\ author' = [author EXCEPT ![a] = q]
      /\ UNCHANGED <<template, event, mapping, imported>>
  BY <1>1 DEF Starts
<1>3. Checked(q)' BY <1>2 DEF Checked
<1> QED BY <1>2, <1>3, StaysGrown, AuthorStepKeeps

LEMMA SaveMappingKeeps ==
  ASSUME EmailIInv, NEW a \in Authors, SaveMapping(a) PROVE EmailIInv'
<1>0. /\ author \in [Authors -> Saving] /\ author[a] \in Saving /\ mapping \subseteq Variables
      /\ event \in [EventTypes -> EventState]
  BY DEF EmailIInv, EmailTypeOK, Saving
<1>1. PICK v \in author[a].input.mappings :
        /\ mapping' = mapping \cup {v}
        /\ author' = [author EXCEPT ![a].input.mappings = @ \ {v}]
        /\ UNCHANGED <<template, event, imported>> /\ author[a].pc = "mappings"
  BY DEF SaveMapping, At
<1>2. v \in Variables BY <1>0 DEF Saving, Input
<1>3. Grows BY <1>0, <1>1, <1>2 DEF Grows
<1>4. PICK i \in Input : i = [author[a].input EXCEPT !.mappings = @ \ {v}]
  BY <1>0 DEF Saving, Input
<1>5. PICK q \in Saving : q = [author[a] EXCEPT !.input = i] BY <1>0 DEF Saving
<1>6. q.pc = "mappings" BY <1>0, <1>1, <1>5 DEF Saving
<1>7. author' = [author EXCEPT ![a] = q] BY <1>0, <1>1, <1>4, <1>5 DEF Saving
<1>8. Checked(q)' BY <1>6 DEF Checked
<1> QED BY <1>1, <1>3, <1>7, <1>8, AuthorStepKeeps

LEMMA GivenInTemplate ==
  ASSUME EmailTypeOK, NEW i \in Input PROVE Merged(i) \in Template /\ ~Merged(i).torn
<1> DEFINE saved == template[i.key]
           current == IF saved.stored /\ saved.enabled THEN saved ELSE NoTemplate
<1>1. saved \in Template BY DEF EmailTypeOK, Input
<1>2. current \in Template BY <1>1, NothingSaved
<1>3. NoTemplate.event \in EventTypes BY NothingSaved DEF Template
<1> HIDE DEF current
<1>4. /\ Given(i.event, NoTemplate.event) \in EventTypes
      /\ Given(i.audience, current.audience) \in Audiences
      /\ Given(i.subject, current.subject) \in Texts \cup {Omitted}
      /\ Given(i.body, current.body) \in Texts \cup {Omitted}
  BY <1>2, <1>3 DEF Given, Input, Template
<1>5. Merged(i) =
        [stored |-> TRUE, enabled |-> TRUE, torn |-> FALSE,
         event |-> IF current.stored THEN current.event
                   ELSE Given(i.event, NoTemplate.event),
         audience |-> Given(i.audience, current.audience),
         subject |-> Given(i.subject, current.subject),
         body |-> Given(i.body, current.body),
         required |-> IF i.requires THEN i.required ELSE current.required]
  BY DEF Merged, current
<1>6. (IF i.requires THEN i.required ELSE current.required) \subseteq Variables
  BY <1>2 DEF Input, Template
<1>7. (IF current.stored THEN current.event ELSE Given(i.event, NoTemplate.event))
        \in EventTypes
  BY <1>2, <1>4 DEF Template
<1> QED BY <1>4, <1>5, <1>6, <1>7 DEF Template

(* The steps that find something out                                       *)
LEMMA FindingsKeep ==
  ASSUME EmailIInv, NEW a \in Authors,
         MappingsSaved(a) \/ ReadAndMerge(a) \/ CheckApproved(a) \/ CheckEvent(a)
         \/ SaveFails(a)
  PROVE  EmailIInv'
<1>0. /\ EmailTypeOK /\ author \in [Authors -> Saving] /\ author[a] \in Saving
      /\ Checked(author[a])
  BY DEF EmailIInv, EmailTypeOK, Saving
<1>1. UNCHANGED <<template, event, mapping, imported>>
  BY DEF MappingsSaved, ReadAndMerge, CheckApproved, CheckEvent, SaveFails
<1>2. Grows BY <1>1, StaysGrown
<1>3. CASE Ends(a) BY <1>1, <1>2, <1>3, EndsKeeps
<1>4. ASSUME NEW place \in SavePc, Moves(a, place),
             \/ place = "event"
             \/ place = "check event" /\ At(a, "approve") /\ author[a].next.required \subseteq mapping
             \/ place = "upsert" /\ At(a, "check event") /\ event[author[a].next.event] # "none"
      PROVE EmailIInv'
  <2>1. PICK q \in Saving :
          /\ author' = [author EXCEPT ![a] = q]
          /\ q.pc = place /\ q.input = author[a].input /\ q.next = author[a].next
    BY <1>0, <1>4, MovesTo
  <2>2. Checked(q) BY <1>0, <1>4, <2>1 DEF Checked, At
  <2>3. Checked(q)' BY <1>2, <2>2, FindingsLast
  <2> QED BY <1>1, <1>2, <2>1, <2>3, AuthorStepKeeps
<1>5. CASE MappingsSaved(a)
  <2>1. "event" \in SavePc /\ Moves(a, "event") BY <1>5 DEF MappingsSaved, SavePc
  <2> QED BY <1>4, <2>1
<1>6. CASE CheckApproved(a)
  <2>1. "check event" \in SavePc BY DEF SavePc
  <2> QED BY <1>3, <1>4, <1>6, <2>1 DEF CheckApproved, EndsUnless
<1>7. CASE CheckEvent(a)
  <2>1. "upsert" \in SavePc BY DEF SavePc
  <2> QED BY <1>3, <1>4, <1>7, <2>1 DEF CheckEvent, EndsUnless
<1>8. CASE ReadAndMerge(a) /\ ~Ends(a)
  <2>1. author[a].input \in Input BY <1>0 DEF Saving
  <2>2. PICK t \in Template : t = Merged(author[a].input) /\ Valid(t)
    BY <1>0, <1>8, <2>1, GivenInTemplate DEF ReadAndMerge
  <2>3. author' = [author EXCEPT ![a].next = t, ![a].pc = "approve"]
    BY <1>8, <2>2 DEF ReadAndMerge
  <2>4. PICK q \in Saving : q = [author[a] EXCEPT !.next = t, !.pc = "approve"]
    BY <1>0 DEF Saving, SavePc
  <2>5. q.pc = "approve" /\ q.next = t BY <1>0, <2>4 DEF Saving
  <2>6. author' = [author EXCEPT ![a] = q] BY <1>0, <2>3, <2>4
  <2>7. Checked(q)' BY <2>2, <2>5 DEF Checked, Valid, Uses
  <2> QED BY <1>1, <1>2, <2>6, <2>7, AuthorStepKeeps
<1> QED BY <1>3, <1>5, <1>6, <1>7, <1>8 DEF SaveFails

LEMMA EventsEnabled ==
  ASSUME EmailIInv, NEW e \in EventTypes, UNCHANGED mapping,
         event' = event \/ event' = [event EXCEPT ![e] = "enabled"]
  PROVE  Grows
  BY DEF EmailIInv, EmailTypeOK, Grows, EventState

LEMMA SaveEventKeeps ==
  ASSUME EmailIInv, NEW a \in Authors, SaveEvent(a) PROVE EmailIInv'
<1>0. EmailTypeOK /\ author[a] \in Saving BY DEF EmailIInv, EmailTypeOK, Saving
<1>1. author[a].input.saveEvent \in EventTypes \cup {Omitted} BY <1>0 DEF Saving, Input
<1>2. UNCHANGED <<template, mapping, imported>> BY DEF SaveEvent
<1>3. Grows
  <2>1. CASE event' = event BY <1>2, <2>1, StaysGrown
  <2>2. CASE event' # event
    <3>1. PICK e \in EventTypes : event' = [event EXCEPT ![e] = "enabled"]
      BY <1>1, <2>2 DEF SaveEvent
    <3> QED BY <1>2, <3>1, EventsEnabled
  <2> QED BY <2>1, <2>2
<1>4. CASE Ends(a) BY <1>2, <1>3, <1>4, EndsKeeps
<1>5. CASE Moves(a, "read")
  <2>1. "read" \in SavePc BY DEF SavePc
  <2>2. PICK q \in Saving : author' = [author EXCEPT ![a] = q] /\ q.pc = "read"
    BY <1>0, <1>5, <2>1, MovesTo
  <2>3. Checked(q)' BY <2>2 DEF Checked
  <2> QED BY <1>2, <1>3, <2>2, <2>3, AuthorStepKeeps
<1> QED BY <1>4, <1>5 DEF SaveEvent, EndsUnless

LEMMA EnableEventKeeps ==
  ASSUME EmailIInv, NEW a \in Authors, EnableEvent(a) PROVE EmailIInv'
<1>1. PICK e \in EventTypes : e = author[a].next.event
  BY DEF EmailIInv, EmailTypeOK, Template
<1>2. /\ event' = event \/ event' = [event EXCEPT ![e] = "enabled"]
      /\ Ends(a) /\ UNCHANGED <<template, mapping, imported>>
  BY <1>1 DEF EnableEvent
<1> QED BY <1>2, EventsEnabled, EndsKeeps

LEMMA UpsertTemplateKeeps ==
  ASSUME EmailIInv, NEW a \in Authors, UpsertTemplate(a) PROVE EmailIInv'
<1>0. EmailTypeOK /\ author[a] \in Saving /\ Checked(author[a])
  BY DEF EmailIInv, EmailTypeOK, Saving
<1>1. PICK k \in TemplateKeys : k = author[a].input.key BY <1>0 DEF Saving, Input
<1>2. PICK t \in Template : t = author[a].next BY <1>0 DEF Saving
<1>3. /\ author[a].pc = "upsert" /\ template' = [template EXCEPT ![k] = t]
      /\ Moves(a, "enable") /\ UNCHANGED <<event, mapping, imported>>
  BY <1>1, <1>2 DEF UpsertTemplate, AllColumns, At
<1>4. Grows BY <1>3, StaysGrown
<1>5. WholeRow(t) BY <1>0, <1>2, <1>3 DEF Checked, WholeRow, Approved
<1>6. "enable" \in SavePc BY DEF SavePc
<1>7. PICK q \in Saving :
        author' = [author EXCEPT ![a] = q] /\ q.pc = "enable" /\ q.next = author[a].next
  BY <1>0, <1>3, <1>6, MovesTo
<1>8. Checked(q) BY <1>0, <1>3, <1>7 DEF Checked
<1>9. WholeRow(t)' /\ Checked(q)' BY <1>4, <1>5, <1>8, RowsLast, FindingsLast
<1> QED BY <1>3, <1>4, <1>7, <1>9, AuthorStepKeeps

LEMMA ImportKeeps ==
  ASSUME EmailIInv, NEW w \in Workspaces, ImportWorkspace(w) PROVE EmailIInv'
<1>0. author \in [Authors -> Saving] /\ \A a \in Authors : Checked(author[a])
  BY DEF EmailIInv, EmailTypeOK, Saving
<1>1. /\ imported' = TRUE /\ template' = w.template /\ event' = w.event
      /\ mapping' = w.mapping
      /\ author' = [a \in Authors |->
                      [author[a] EXCEPT !.next.torn = author[a].pc # "idle"]]
  BY DEF ImportWorkspace
<1>2. ASSUME NEW a \in Authors
      PROVE /\ author'[a] \in Saving /\ author'[a].pc = author[a].pc
            /\ author'[a].pc # "idle" => author'[a].next.torn
            /\ Valid(author[a].next) => Valid(author'[a].next)
  <2>1. PICK x \in BOOLEAN : x = (author[a].pc # "idle") OBVIOUS
  <2>2. PICK t \in Template : t = [author[a].next EXCEPT !.torn = x]
    BY ZenonT(60), <1>0 DEF Saving, Template
  <2>3. /\ t.torn = x /\ t.subject = author[a].next.subject
        /\ t.body = author[a].next.body /\ t.event = author[a].next.event
        /\ t.required = author[a].next.required
    BY <1>0, <2>2 DEF Saving, Template
  <2>4. author'[a] = [author[a] EXCEPT !.next = t]
    BY <1>0, <1>1, <2>1, <2>2 DEF Saving
  <2>5. author'[a] \in Saving /\ author'[a].pc = author[a].pc /\ author'[a].next = t
    BY <1>0, <2>4 DEF Saving
  <2> QED BY <2>1, <2>3, <2>5 DEF Valid, Uses
<1>3. EmailTypeOK'
  BY <1>1, <1>2, WorkspacesAreValid, EmailConstants
     DEF EmailTypeOK, Saving, ValidWorkspace
<1>4. \A a \in Authors : Checked(author[a])'
  BY <1>0, <1>2 DEF Checked, Valid, Uses
<1>5. \A k \in TemplateKeys : WholeRow(template[k])'
  BY <1>1, WorkspaceRowsAreWhole DEF WholeRow, Approved, Valid, Uses
<1> QED BY <1>3, <1>4, <1>5 DEF EmailIInv

LEMMA EmailKept == EmailIInv /\ [EmailNext]_emailVars => EmailIInv'
<1> SUFFICES ASSUME EmailIInv, [EmailNext]_emailVars PROVE EmailIInv' OBVIOUS
<1>1. CASE UNCHANGED emailVars
  BY <1>1 DEF emailVars, EmailIInv, EmailTypeOK, Checked, WholeRow, Approved, Valid, Uses
<1> QED BY <1>1, StartsKeeps, SaveMappingKeeps, FindingsKeep, SaveEventKeeps,
        EnableEventKeeps, UpsertTemplateKeeps, ImportKeeps
        DEF EmailNext, StartSave, StartToolCall

LEMMA EmailAnswers == EmailIInv => EmailTypeOK /\ TemplatesAreWhole
  BY DEF EmailIInv, TemplatesAreWhole, WholeRow, Valid, Renders

-----------------------------------------------------------------------------
(* Preview artifacts                                                       *)

(* What canonicalizing leaves of any bootstrap                             *)
CanonicalBase ==
  [id     |-> [e \in Entries |-> <<"entry", e>>],
   group  |-> [e \in Entries |-> <<"entry", SourceOf[e]>>],
   live   |-> [e \in Entries |-> <<"revision", e>>],
   owner  |-> [e \in Entries |-> <<"entry", e>>],
   stamp  |-> [e \in Entries |-> Epoch],
   author |-> [e \in Entries |-> Absent],
   digest |-> Absent]

LEMMA CanonicalOf ==
  ASSUME NEW db, NEW id, NEW group, NEW live, NEW owner, NEW stamp, NEW writer, NEW digest,
         db = [id |-> id, group |-> group, live |-> live, owner |-> owner,
               stamp |-> stamp, author |-> writer, digest |-> digest]
  PROVE  Canonical(db) =
           [id     |-> [e \in Entries |-> NewId(db, db.id[e])],
            group  |-> [e \in Entries |-> NewId(db, db.group[e])],
            live   |-> [e \in Entries |-> NewId(db, db.live[e])],
            owner  |-> [e \in Entries |-> NewId(db, db.owner[e])],
            stamp  |-> [e \in Entries |-> Epoch],
            author |-> [e \in Entries |-> Absent],
            digest |-> digest]
<1> DEFINE I == [e \in Entries |-> NewId(db, db.id[e])]
           G == [e \in Entries |-> NewId(db, db.group[e])]
           V == [e \in Entries |-> NewId(db, db.live[e])]
           O == [e \in Entries |-> NewId(db, db.owner[e])]
           T == [e \in Entries |-> Epoch]
           A == [e \in Entries |-> Absent]
<1>1. Canonical(db) = [db EXCEPT !.id = I, !.group = G, !.live = V, !.owner = O,
                                 !.stamp = T, !.author = A]
  BY DEF Canonical
<1> HIDE DEF I, G, V, O, T, A
<1> DEFINE r == [db EXCEPT !.id = I, !.group = G, !.live = V, !.owner = O,
                           !.stamp = T, !.author = A]
<1>2. r = [f \in {"id", "group", "live", "owner", "stamp", "author", "digest"} |-> r[f]]
  OBVIOUS
<1>3. r.id = I /\ r.group = G /\ r.live = V /\ r.owner = O /\ r.stamp = T
      /\ r.author = A /\ r.digest = digest
  OBVIOUS
<1> HIDE DEF r
<1>4. r = [id |-> I, group |-> G, live |-> V, owner |-> O, stamp |-> T, author |-> A,
           digest |-> digest]
  BY <1>2, <1>3
<1> QED BY <1>1, <1>4 DEF r, I, G, V, O, T, A

(* Identities depend on no draw and no clock, although createId draws them *)
(* anew for every bootstrap.                                               *)
LEMMA CanonicalIsOne ==
  ASSUME NEW ids \in Draws, NEW now
  PROVE  Canonical(Bootstrapped(ids.entry, ids.revision, now)) = CanonicalBase
<1> DEFINE db == Bootstrapped(ids.entry, ids.revision, now)
<1>0. /\ ids.entry \in [Entries -> Ids] /\ ids.revision \in [Entries -> Ids]
      /\ \A d, e \in Entries : ids.entry[d] = ids.entry[e] => d = e
      /\ \A d, e \in Entries : ids.revision[d] = ids.revision[e] => d = e
      /\ \A d, e \in Entries : ids.entry[d] # ids.revision[e]
      /\ SourceOf \in [Entries -> Entries]
  BY ArtifactInputs DEF Draws, Distinct
<1>1. db.id = ids.entry /\ db.live = ids.revision
      /\ db.group = [e \in Entries |-> ids.entry[SourceOf[e]]]
      /\ db.owner = [e \in Entries |-> ids.entry[e]]
  BY DEF Bootstrapped
<1>2. ASSUME NEW e \in Entries
      PROVE /\ NewId(db, ids.entry[e]) = <<"entry", e>>
            /\ NewId(db, ids.revision[e]) = <<"revision", e>>
  <2>1. (CHOOSE d \in Entries : ids.entry[d] = ids.entry[e]) = e BY <1>0
  <2>2. (CHOOSE d \in Entries : ids.revision[d] = ids.revision[e]) = e BY <1>0
  <2>3. NewId(db, ids.entry[e]) = <<"entry", e>> BY <1>1, <2>1 DEF NewId
  <2>4. ~\E d \in Entries : ids.entry[d] = ids.revision[e] BY <1>0
  <2>5. NewId(db, ids.revision[e]) = <<"revision", e>> BY <1>1, <2>2, <2>4 DEF NewId
  <2> QED BY <2>3, <2>5
<1>3. /\ [e \in Entries |-> NewId(db, db.id[e])] = CanonicalBase.id
      /\ [e \in Entries |-> NewId(db, db.group[e])] = CanonicalBase.group
      /\ [e \in Entries |-> NewId(db, db.live[e])] = CanonicalBase.live
      /\ [e \in Entries |-> NewId(db, db.owner[e])] = CanonicalBase.owner
  <2> HIDE DEF db
  <2>1. [e \in Entries |-> NewId(db, db.id[e])] = [e \in Entries |-> <<"entry", e>>]
    BY <1>1, <1>2
  <2>2. [e \in Entries |-> NewId(db, db.group[e])]
          = [e \in Entries |-> <<"entry", SourceOf[e]>>]
    BY <1>0, <1>1, <1>2
  <2>3. [e \in Entries |-> NewId(db, db.live[e])] = [e \in Entries |-> <<"revision", e>>]
    BY <1>1, <1>2
  <2>4. [e \in Entries |-> NewId(db, db.owner[e])] = [e \in Entries |-> <<"entry", e>>]
    BY <1>1, <1>2
  <2> QED BY <2>1, <2>2, <2>3, <2>4 DEF CanonicalBase
<1>4. db.digest = Absent BY DEF Bootstrapped
<1>5. Canonical(db) =
        [id     |-> [e \in Entries |-> NewId(db, db.id[e])],
         group  |-> [e \in Entries |-> NewId(db, db.group[e])],
         live   |-> [e \in Entries |-> NewId(db, db.live[e])],
         owner  |-> [e \in Entries |-> NewId(db, db.owner[e])],
         stamp  |-> [e \in Entries |-> Epoch],
         author |-> [e \in Entries |-> Absent],
         digest |-> db.digest]
  BY CanonicalOf DEF Bootstrapped
<1> QED BY <1>3, <1>4, <1>5 DEF CanonicalBase

TheBase == Canonical(Observed(CanonicalBase))

LEMMA BasesAgree ==
  ASSUME NEW ids \in Draws, NEW now
  PROVE  BaseWorkspace(ids.entry, ids.revision, now) = TheBase
  BY CanonicalIsOne DEF BaseWorkspace, TheBase

-----------------------------------------------------------------------------
(* What signArtifactSet makes verifies.                                    *)

PayloadNames == {"worker", "base"} \cup DistinctAssets
Signed(set) == \E job, worker, base : set = SignedSet(job, worker, base)

DigestOf(n, worker, base) ==
  CASE n = "worker" -> worker [] n = "base" -> base [] OTHER -> SeedObject(n)

(* The objects that signArtifactSet makes, one by one                      *)
HoldsSigned(set, job, worker, base) ==
  /\ DOMAIN set = PayloadNames \cup {"manifest"} /\ "manifest" \notin PayloadNames
  /\ \A n \in PayloadNames :
       set[n] = Object(job, Kind(n), DigestOf(n, worker, base))
  /\ set["manifest"] = Object(job, "manifest",
       [commit |-> job.commit,
        artifacts |-> [n \in PayloadNames |-> set[n].descriptor]])

LEMMA SignedIs ==
  ASSUME NEW job, NEW worker, NEW base, NEW set, set = SignedSet(job, worker, base)
  PROVE  HoldsSigned(set, job, worker, base)
<1> DEFINE objects == Payloads(job, worker, base)
<1>1. "manifest" \notin PayloadNames BY ArtifactInputs DEF PayloadNames, DistinctAssets
<1>2. DOMAIN objects = PayloadNames BY DEF Payloads, PayloadNames
<1>3. \A n \in PayloadNames : objects[n] = Object(job, Kind(n), DigestOf(n, worker, base))
  BY DEF Payloads, PayloadNames, DigestOf
<1>4. set = [n \in PayloadNames \cup {"manifest"} |->
        IF n = "manifest"
        THEN Object(job, "manifest",
               [commit |-> job.commit,
                artifacts |-> [m \in PayloadNames |-> objects[m].descriptor]])
        ELSE objects[n]]
  BY <1>2 DEF SignedSet
<1> HIDE DEF objects
<1>5. \A n \in PayloadNames : set[n] = objects[n] BY <1>1, <1>4
<1>6. [m \in PayloadNames |-> objects[m].descriptor]
        = [m \in PayloadNames |-> set[m].descriptor]
  BY <1>5
<1>7. set["manifest"] = Object(job, "manifest",
        [commit |-> job.commit,
         artifacts |-> [m \in PayloadNames |-> set[m].descriptor]])
  BY <1>4, <1>6
<1>8. DOMAIN set = PayloadNames \cup {"manifest"} BY <1>4
<1> QED BY <1>1, <1>3, <1>5, <1>7, <1>8 DEF HoldsSigned

(* An object that carries its own description under a job's key            *)
Describes(object, job, kind) ==
  /\ object = [descriptor |-> object.descriptor, keyId |-> object.keyId,
               signed |-> object.signed, bytes |-> object.bytes]
  /\ object.descriptor.kind = kind /\ object.descriptor.commit = job.commit
  /\ object.descriptor.digest = object.bytes
  /\ object.keyId = job.key /\ object.signed = object.descriptor

LEMMA ObjectsDescribe ==
  ASSUME NEW job, NEW kind, NEW bytes
  PROVE  Describes(Object(job, kind, bytes), job, kind) /\ Object(job, kind, bytes).bytes = bytes
  BY DEF Describes, Object

(* Each object carries its own description, and no two are alike.          *)
LEMMA SignedObjects ==
  ASSUME NEW set, Signed(set)
  PROVE  /\ DOMAIN set = PayloadNames \cup {"manifest"} /\ "manifest" \notin PayloadNames
         /\ set["manifest"].bytes.artifacts = [n \in PayloadNames |-> set[n].descriptor]
         /\ \A m, n \in DOMAIN set :
              Kind(m) = Kind(n) /\ set[m].bytes = set[n].bytes => m = n
         /\ \E job : /\ set["manifest"].bytes.commit = job.commit
                     /\ \A n \in DOMAIN set : Describes(set[n], job, Kind(n))
<1>1. PICK job, worker, base : set = SignedSet(job, worker, base) BY DEF Signed
<1>2. /\ DOMAIN set = PayloadNames \cup {"manifest"} /\ "manifest" \notin PayloadNames
      /\ \A n \in PayloadNames : set[n] = Object(job, Kind(n), DigestOf(n, worker, base))
      /\ set["manifest"] = Object(job, "manifest",
           [commit |-> job.commit,
            artifacts |-> [n \in PayloadNames |-> set[n].descriptor]])
  <2>1. HoldsSigned(set, job, worker, base) BY <1>1, SignedIs
  <2> QED BY <2>1 DEF HoldsSigned
<1>3. Kind("manifest") = "manifest" BY DEF Kind
<1>4. \A n \in DOMAIN set : Describes(set[n], job, Kind(n))
  BY <1>2, <1>3, ObjectsDescribe
<1>5. set["manifest"].bytes = [commit |-> job.commit,
        artifacts |-> [n \in PayloadNames |-> set[n].descriptor]]
  BY <1>2, ObjectsDescribe
<1>6. /\ set["manifest"].bytes.artifacts = [n \in PayloadNames |-> set[n].descriptor]
      /\ set["manifest"].bytes.commit = job.commit
  BY <1>5
<1>7. \A n \in PayloadNames : set[n].bytes = DigestOf(n, worker, base)
  BY <1>2, ObjectsDescribe
<1>8. ASSUME NEW m \in DOMAIN set, NEW n \in DOMAIN set, Kind(m) = Kind(n),
             set[m].bytes = set[n].bytes
      PROVE m = n
  <2> DEFINE special == {"worker", "base", "manifest"}
  <2>1. CASE m \in special \/ n \in special BY <1>8, <2>1 DEF Kind
  <2>2. CASE m \notin special /\ n \notin special
    <3>1. m \in DistinctAssets /\ n \in DistinctAssets
          /\ m \in PayloadNames /\ n \in PayloadNames
      BY <1>2, <2>2 DEF PayloadNames
    <3>2. DigestOf(m, worker, base) = SeedObject(m) /\ DigestOf(n, worker, base) = SeedObject(n)
      BY <2>2 DEF DigestOf
    <3>3. SeedObject(m) = SeedObject(n) BY <1>7, <1>8, <3>1, <3>2
    <3>4. AssetBytes[m] = AssetBytes[n] BY <3>3 DEF SeedObject
    <3> QED BY <3>1, <3>4 DEF DistinctAssets
  <2> QED BY <2>1, <2>2
<1> QED BY <1>2, <1>4, <1>6, <1>8

LEMMA SignedKinds ==
  ASSUME NEW set, Signed(set)
  PROVE  /\ \A kind \in {"worker", "base", "manifest"} : OfKind(set, kind) = {kind}
         /\ PayloadsOf(set) = PayloadNames /\ OfKind(set, "seed") # {}
<1>0. PICK job : \A n \in DOMAIN set : Describes(set[n], job, Kind(n)) BY SignedObjects
<1>1. DOMAIN set = PayloadNames \cup {"manifest"} /\ "manifest" \notin PayloadNames
  BY SignedObjects
<1>2. \A n \in DOMAIN set : set[n].descriptor.kind = Kind(n) BY <1>0 DEF Describes
<1>3. \A kind \in {"worker", "base", "manifest"} : OfKind(set, kind) = {kind}
  BY <1>1, <1>2 DEF OfKind, Kind, PayloadNames
<1>4. PayloadsOf(set) = PayloadNames BY <1>1, <1>3 DEF PayloadsOf
<1>5. PICK a \in Assets : TRUE BY ArtifactInputs
<1>6. PICK b \in Assets : b = CHOOSE c \in Assets : AssetBytes[c] = AssetBytes[a]
  BY <1>5
<1>7. AssetBytes[b] = AssetBytes[a] BY <1>5, <1>6
<1>8. b \in DistinctAssets BY <1>6, <1>7 DEF DistinctAssets
<1>9. Kind(b) = "seed" BY ArtifactInputs DEF Kind
<1>10. b \in OfKind(set, "seed") BY <1>1, <1>2, <1>8, <1>9 DEF OfKind, PayloadNames
<1> QED BY <1>3, <1>4, <1>10

LEMMA SignedVerifies ==
  ASSUME NEW set, Signed(set), set["manifest"].keyId \in TrustedKeys
  PROVE  Verifies(set)
<1>1. /\ DOMAIN set = PayloadNames \cup {"manifest"} /\ "manifest" \notin PayloadNames
      /\ set["manifest"].bytes.artifacts = [n \in PayloadNames |-> set[n].descriptor]
      /\ \A m, n \in DOMAIN set :
              Kind(m) = Kind(n) /\ set[m].bytes = set[n].bytes => m = n
  BY SignedObjects
<1>2. PICK job : /\ set["manifest"].bytes.commit = job.commit
                 /\ \A n \in DOMAIN set : Describes(set[n], job, Kind(n))
  BY SignedObjects
<1>3. /\ \A kind \in {"worker", "base", "manifest"} : OfKind(set, kind) = {kind}
      /\ PayloadsOf(set) = PayloadNames /\ OfKind(set, "seed") # {}
  BY SignedKinds
<1>4. \A kind \in {"worker", "base", "manifest"} : One(OfKind(set, kind))
  BY <1>3 DEF One
<1>5. \A n \in DOMAIN set : /\ set[n].descriptor.kind = Kind(n)
                            /\ set[n].descriptor.digest = set[n].bytes
                            /\ set[n].descriptor.commit = job.commit
                            /\ set[n].keyId = job.key
                            /\ set[n].signed = set[n].descriptor
  BY <1>2 DEF Describes
<1>6. \A n \in DOMAIN set : Genuine(set[n]) BY <1>1, <1>5 DEF Genuine
<1>7. NoneTwice(set) BY <1>1, <1>5 DEF NoneTwice
<1>8. ManifestOf(set) = set["manifest"].bytes BY <1>3 DEF ManifestOf
<1>9. ASSUME NEW n \in PayloadNames
      PROVE {a \in PayloadNames : set[a].descriptor = set[n].descriptor} = {n}
  BY <1>1, <1>5
<1>10. NamesExactly(ManifestOf(set), set)
  BY <1>1, <1>3, <1>8, <1>9 DEF NamesExactly, One
<1>11. \A n \in DOMAIN set : set[n].descriptor.commit = ManifestOf(set).commit
  BY <1>2, <1>5, <1>8
<1> QED BY <1>3, <1>4, <1>6, <1>7, <1>10, <1>11 DEF Verifies

-----------------------------------------------------------------------------
(* What verifies is one signing.                                           *)

LEMMA PayloadsAreFinite == IsFiniteSet(PayloadNames)
<1>1. IsFiniteSet(DistinctAssets)
  BY ArtifactInputs, FS_Subset DEF DistinctAssets
<1>2. IsFiniteSet({"worker", "base"})
  <2>1. IsFiniteSet({"worker"} \cup {"base"}) BY FS_Singleton, FS_Union
  <2>2. {"worker"} \cup {"base"} = {"worker", "base"} OBVIOUS
  <2> QED BY <2>1, <2>2
<1> QED BY <1>1, <1>2, FS_Union DEF PayloadNames

DirectoriesHold ==
  \A d \in Directories :
    /\ candidate[d].made \in BOOLEAN
    /\ ~candidate[d].made => candidate[d].index = Absent
    /\ candidate[d].index # Absent =>
         /\ Signed(candidate[d].index)
         /\ \A n \in DOMAIN candidate[d].index :
              candidate[d].index[n].bytes \in candidate[d].files

(* As the list that Accept passes to verifyArtifactSet                     *)
Arrives(taken, lost, list) ==
  /\ taken \subseteq OnOffer
  /\ list = [o \in taken |->
               IF o = lost THEN [Offered(o) EXCEPT !.bytes = Garbage] ELSE Offered(o)]

(* What is genuine has arrived as it was offered.                          *)
LEMMA GenuineIsOffered ==
  ASSUME DirectoriesHold, NEW taken, NEW lost, NEW list, Arrives(taken, lost, list),
         NEW o \in taken, Genuine(list[o])
  PROVE  /\ o[1] \in Indexed /\ o[2] \in DOMAIN candidate[o[1]].index
         /\ o = <<o[1], o[2]>> /\ Signed(candidate[o[1]].index)
         /\ list[o].descriptor = Offered(o).descriptor
         /\ list[o].bytes = Offered(o).bytes
         /\ list[o].descriptor.kind = Kind(o[2])
<1>0. PICK d \in Indexed : o \in {d} \X DOMAIN candidate[d].index
  BY DEF Arrives, OnOffer
<1>1. PICK n \in DOMAIN candidate[d].index : o = <<d, n>> BY <1>0
<1>2. o[1] = d /\ o[2] = n /\ Offered(o) = candidate[d].index[n] BY <1>1 DEF Offered
<1>3. Signed(candidate[d].index) BY DEF DirectoriesHold, Indexed
<1>4. PICK job : Describes(Offered(o), job, Kind(n))
  <2>1. PICK set : set = candidate[d].index OBVIOUS
  <2>2. PICK job : \A m \in DOMAIN set : Describes(set[m], job, Kind(m))
    BY <1>3, <2>1, SignedObjects
  <2> QED BY <1>1, <1>2, <2>1, <2>2
<1>5. list[o] = IF o = lost THEN [Offered(o) EXCEPT !.bytes = Garbage] ELSE Offered(o)
  BY DEF Arrives
<1>6. list[o].descriptor = Offered(o).descriptor /\ list[o].bytes = Offered(o).bytes
  <2>1. CASE o # lost BY <1>5, <2>1
  <2>2. CASE o = lost
    <3>1. PICK object : object = Offered(o) /\ Describes(object, job, Kind(n)) BY <1>4
    <3>2. list[o].descriptor = object.descriptor /\ list[o].bytes = Garbage
      BY <1>5, <2>2, <3>1 DEF Describes
    <3>3. Garbage = object.bytes BY <3>1, <3>2 DEF Genuine, Describes
    <3> QED BY <3>1, <3>2, <3>3
  <2> QED BY <2>1, <2>2
<1>7. Offered(o).descriptor.kind = Kind(n) BY <1>4 DEF Describes
<1> QED BY <1>1, <1>2, <1>3, <1>6, <1>7

LEMMA VerifiedIsOneSigning ==
  ASSUME DirectoriesHold, NEW taken, NEW lost, NEW list, Arrives(taken, lost, list),
         Verifies(list)
  PROVE  \E d \in Indexed :
           {<<list[o].descriptor, list[o].bytes>> : o \in taken} =
             {<<candidate[d].index[n].descriptor, candidate[d].index[n].bytes>> :
                n \in DOMAIN candidate[d].index}
<1>0. DOMAIN list = taken BY DEF Arrives
<1>1. \A o \in taken : /\ Genuine(list[o])
                       /\ list[o].descriptor = Offered(o).descriptor
                       /\ list[o].bytes = Offered(o).bytes
                       /\ list[o].descriptor.kind = Kind(o[2])
                       /\ list[o].descriptor.digest = list[o].bytes
  <2>1. \A o \in taken : Genuine(list[o]) BY <1>0 DEF Verifies
  <2> QED BY <2>1, GenuineIsOffered DEF Genuine
<1>2. PICK m \in taken : OfKind(list, "manifest") = {m}
  BY <1>0 DEF Verifies, One, OfKind
<1>3. m[2] = "manifest"
  <2>1. list[m].descriptor.kind = "manifest" BY <1>2 DEF OfKind
  <2> QED BY <1>1, <2>1 DEF Kind
<1> DEFINE S == candidate[m[1]].index
<1>4. /\ m[1] \in Indexed /\ Signed(S) /\ "manifest" \in DOMAIN S
      /\ Offered(m) = S["manifest"]
  BY <1>1, <1>3, GenuineIsOffered DEF Offered
<1> HIDE DEF S
<1>5. /\ DOMAIN S = PayloadNames \cup {"manifest"} /\ "manifest" \notin PayloadNames
      /\ S["manifest"].bytes.artifacts = [n \in PayloadNames |-> S[n].descriptor]
  BY <1>4, SignedObjects
<1>6. \A n \in DOMAIN S : S[n].descriptor.digest = S[n].bytes
  <2>1. PICK job : \A n \in DOMAIN S : Describes(S[n], job, Kind(n))
    BY <1>4, SignedObjects
  <2> QED BY <2>1 DEF Describes
<1>7. ManifestOf(list) = S["manifest"].bytes
  <2>1. (CHOOSE n \in OfKind(list, "manifest") : TRUE) = m BY <1>2
  <2> QED BY <1>1, <1>4, <2>1 DEF ManifestOf
<1> DEFINE P == PayloadsOf(list)
<1>8. P = taken \ {m} BY <1>0, <1>2 DEF PayloadsOf
<1>9. /\ Cardinality(PayloadNames) = Cardinality(P)
      /\ \A o \in P : \E a \in PayloadNames : S[a].descriptor = list[o].descriptor
  <2>1. NamesExactly(S["manifest"].bytes, list) BY <1>7 DEF Verifies
  <2>2. DOMAIN S["manifest"].bytes.artifacts = PayloadNames
        /\ \A a \in PayloadNames :
             S["manifest"].bytes.artifacts[a] = S[a].descriptor
    BY <1>5
  <2>3. ASSUME NEW o \in P PROVE \E a \in PayloadNames : S[a].descriptor = list[o].descriptor
    <3>1. One({a \in PayloadNames :
                 S["manifest"].bytes.artifacts[a] = list[o].descriptor})
      BY <2>1, <2>2 DEF NamesExactly
    <3> QED BY <2>2, <3>1 DEF One
  <2> QED BY <2>1, <2>2, <2>3 DEF NamesExactly
<1> HIDE DEF P
<1> DEFINE f == [o \in P |-> CHOOSE a \in PayloadNames : S[a].descriptor = list[o].descriptor]
<1>10. \A o \in P : f[o] \in PayloadNames /\ S[f[o]].descriptor = list[o].descriptor
  BY <1>9
<1>11. f \in [P -> PayloadNames] BY <1>10
<1> HIDE DEF f
<1>12. \A o, q \in P : f[o] = f[q] => o = q
  <2> SUFFICES ASSUME NEW o \in P, NEW q \in P, f[o] = f[q] PROVE o = q OBVIOUS
  <2>1. list[o].descriptor = list[q].descriptor BY <1>10
  <2>2. NoneTwice(list) BY DEF Verifies
  <2> QED BY <1>0, <1>8, <2>1, <2>2 DEF NoneTwice
<1>13. f \in Surjection(P, PayloadNames)
  <2>1. f \in Injection(P, PayloadNames) BY <1>11, <1>12 DEF Injection, IsInjective
  <2> QED BY <1>9, <2>1, PayloadsAreFinite, FS_Injection
<1>14. \A a \in PayloadNames : \E o \in P : f[o] = a BY <1>13 DEF Surjection
<1> DEFINE pair(x) == <<x.descriptor, x.bytes>>
<1>15. \A o \in P : pair(list[o]) = pair(S[f[o]])
  BY <1>1, <1>5, <1>6, <1>8, <1>10
<1>16. pair(list[m]) = pair(S["manifest"]) BY <1>1, <1>4
<1>17. {pair(list[o]) : o \in taken} = {pair(S[n]) : n \in DOMAIN S}
  <2>0. taken = P \cup {m} BY <1>8
  <2> HIDE DEF pair
  <2>1. ASSUME NEW o \in taken PROVE \E n \in DOMAIN S : pair(list[o]) = pair(S[n])
    BY <1>5, <1>10, <1>15, <1>16, <2>0
  <2>2. ASSUME NEW n \in DOMAIN S PROVE \E o \in taken : pair(list[o]) = pair(S[n])
    BY <1>5, <1>14, <1>15, <1>16, <2>0
  <2> QED BY <2>1, <2>2
<1> QED BY <1>4, <1>17 DEF S

-----------------------------------------------------------------------------
(* The runs and their directories                                          *)

RunPc == {"collect", "build", "rebuild", "sign", "directory", "write", "done",
          "stopped"}
IsRun(r) ==
  r = [pc |-> r.pc, job |-> r.job, at |-> r.at, worker |-> r.worker,
       base |-> r.base, objects |-> r.objects, written |-> r.written]
IsCandidate(c) == c = [made |-> c.made, files |-> c.files, index |-> c.index]

(* Where a run is and what it has got; a run that writes has made its      *)
(* directory, and what it has written is there.                            *)
InOrder(r) ==
  /\ IsRun(r) /\ r.pc \in RunPc
  /\ r.job \in Jobs \cup {Absent} /\ r.at \in Directories \cup {Absent}
  /\ r.pc \in {"build", "rebuild", "sign", "directory", "write"} => r.at \in Directories
  /\ r.pc = "rebuild" => r.base = TheBase
  /\ r.pc \notin {"write", "done"} => r.written = {}
  /\ r.pc \in {"directory", "write"} => Signed(r.objects)
  /\ r.pc = "write" => /\ candidate[r.at].made /\ candidate[r.at].index = Absent
                       /\ \A n \in r.written : r.objects[n].bytes \in candidate[r.at].files

ArtifactIInv ==
  /\ producer = [p \in Producers |-> producer[p]]
  /\ candidate = [d \in Directories |-> candidate[d]]
  /\ \A d \in Directories : IsCandidate(candidate[d])
  /\ DirectoriesHold
  /\ \A p \in Producers : InOrder(producer[p])
  /\ \A p, q \in Producers :
       producer[p].pc = "write" /\ producer[q].pc = "write"
         /\ producer[p].at = producer[q].at => p = q
  /\ AcceptedIsOneSigning

LEMMA StartingIsInOrder ==
  InOrder(Starting) /\ InOrder([Starting EXCEPT !.pc = "stopped"])
  /\ Starting.pc = "collect" /\ [Starting EXCEPT !.pc = "stopped"].pc = "stopped"
  BY DEF Starting, InOrder, IsRun, RunPc

LEMMA ArtifactInitially == ArtifactInit => ArtifactIInv
<1> SUFFICES ASSUME ArtifactInit PROVE ArtifactIInv OBVIOUS
<1>1. \A p \in Producers : InOrder(producer[p]) /\ producer[p].pc = "collect"
  BY StartingIsInOrder DEF ArtifactInit
<1>2. \A d \in Directories : candidate[d] = NoCandidate BY DEF ArtifactInit
<1>3. DirectoriesHold
  <2>1. \A d \in Directories : candidate[d].made = FALSE /\ candidate[d].index = Absent
    BY <1>2 DEF NoCandidate
  <2> QED BY <2>1 DEF DirectoriesHold
<1>4. \A d \in Directories : IsCandidate(candidate[d])
  BY <1>2 DEF IsCandidate, NoCandidate
<1>5. AcceptedIsOneSigning BY DEF ArtifactInit, AcceptedIsOneSigning
<1>6. /\ producer = [p \in Producers |-> producer[p]]
      /\ candidate = [d \in Directories |-> candidate[d]]
  BY DEF ArtifactInit
<1> QED BY <1>1, <1>3, <1>4, <1>5, <1>6 DEF ArtifactIInv

(* What was accepted stays one signing while indexed directories stay.     *)
LEMMA AcceptedLasts ==
  ASSUME AcceptedIsOneSigning, UNCHANGED accepted,
         \A d \in Directories : candidate[d].index # Absent =>
                                  candidate'[d].index = candidate[d].index
  PROVE  AcceptedIsOneSigning'
  BY DEF AcceptedIsOneSigning, Indexed

(* A step of a run that leaves the directories alone                       *)
LEMMA RunStepKeeps ==
  ASSUME ArtifactIInv, NEW p \in Producers, NEW r, InOrder(r), r.pc # "write",
         producer' = [producer EXCEPT ![p] = r], UNCHANGED <<candidate, accepted>>
  PROVE  ArtifactIInv'
<1>1. /\ producer' = [q \in Producers |-> producer'[q]] /\ producer'[p] = r
      /\ \A q \in Producers : q # p => producer'[q] = producer[q]
  BY DEF ArtifactIInv
<1>2. ASSUME NEW q \in Producers PROVE InOrder(producer[q])'
  BY <1>1 DEF ArtifactIInv, InOrder
<1>3. DirectoriesHold' BY DEF DirectoriesHold, ArtifactIInv
<1>4. AcceptedIsOneSigning' BY AcceptedLasts DEF ArtifactIInv
<1>5. \A d \in Directories : IsCandidate(candidate[d])' BY DEF ArtifactIInv, IsCandidate
<1>6. \A q, s \in Producers :
        producer'[q].pc = "write" /\ producer'[s].pc = "write"
          /\ producer'[q].at = producer'[s].at => q = s
  BY <1>1 DEF ArtifactIInv
<1>7. candidate' = [d \in Directories |-> candidate'[d]] BY DEF ArtifactIInv
<1> QED BY <1>1, <1>2, <1>3, <1>4, <1>5, <1>6, <1>7 DEF ArtifactIInv

(* A step of a run in its own directory                                    *)
LEMMA WriterStepKeeps ==
  ASSUME ArtifactIInv, NEW p \in Producers, NEW r, NEW c, NEW d \in Directories,
         producer' = [producer EXCEPT ![p] = r], candidate' = [candidate EXCEPT ![d] = c],
         UNCHANGED accepted,
         InOrder(r)', r.pc = "write" => r.at = d, IsCandidate(c),
         candidate[d].index = Absent, candidate[d].files \subseteq c.files,
         c.made = TRUE, c.index # Absent =>
           Signed(c.index) /\ \A n \in DOMAIN c.index : c.index[n].bytes \in c.files,
         \A q \in Producers : q # p /\ producer[q].pc = "write" => producer[q].at # d
  PROVE  ArtifactIInv'
<1>1. /\ producer' = [q \in Producers |-> producer'[q]] /\ producer'[p] = r
      /\ \A q \in Producers : q # p => producer'[q] = producer[q]
      /\ candidate' = [e \in Directories |-> candidate'[e]] /\ candidate'[d] = c
      /\ \A e \in Directories : e # d => candidate'[e] = candidate[e]
  BY DEF ArtifactIInv
<1>2. ASSUME NEW q \in Producers PROVE InOrder(producer[q])'
  <2>1. CASE q = p BY <1>1, <2>1
  <2>2. CASE q # p
    <3>1. producer'[q] = producer[q] /\ InOrder(producer[q])
      BY <1>1, <2>2 DEF ArtifactIInv
    <3>2. producer[q].pc = "write" => candidate'[producer[q].at] = candidate[producer[q].at]
      BY <1>1, <2>2, <3>1 DEF InOrder
    <3> QED BY <3>1, <3>2 DEF InOrder
  <2> QED BY <2>1, <2>2
<1>3. DirectoriesHold'
  <2>1. ASSUME NEW e \in Directories
        PROVE /\ candidate'[e].made \in BOOLEAN
              /\ ~candidate'[e].made => candidate'[e].index = Absent
              /\ candidate'[e].index # Absent =>
                   /\ Signed(candidate'[e].index)
                   /\ \A n \in DOMAIN candidate'[e].index :
                        candidate'[e].index[n].bytes \in candidate'[e].files
    BY <1>1 DEF ArtifactIInv, DirectoriesHold
  <2> QED BY <2>1 DEF DirectoriesHold, Signed
<1>4. AcceptedIsOneSigning'
  <2>1. \A e \in Directories : candidate[e].index # Absent =>
                                  candidate'[e].index = candidate[e].index
    BY <1>1
  <2> QED BY <2>1, AcceptedLasts DEF ArtifactIInv
<1>5. \A e \in Directories : IsCandidate(candidate[e])'
  BY <1>1 DEF ArtifactIInv, IsCandidate
<1>6. \A q, s \in Producers :
        producer'[q].pc = "write" /\ producer'[s].pc = "write"
          /\ producer'[q].at = producer'[s].at => q = s
  BY <1>1 DEF ArtifactIInv
<1> QED BY <1>1, <1>2, <1>3, <1>4, <1>5, <1>6 DEF ArtifactIInv

Fields == {"pc", "job", "at", "worker", "base", "objects", "written"}

LEMMA RunHas ==
  ASSUME NEW r, r = [f \in Fields |-> r[f]], NEW place, NEW job, NEW at, NEW worker,
         NEW base, NEW objects, NEW written,
         r.pc = place, r.job = job, r.at = at, r.worker = worker, r.base = base,
         r.objects = objects, r.written = written
  PROVE  r = [pc |-> place, job |-> job, at |-> at, worker |-> worker, base |-> base,
              objects |-> objects, written |-> written]
  BY DEF Fields

LEMMA RunFields ==
  ASSUME NEW o, IsRun(o), NEW place, NEW base, NEW objects, NEW written
  PROVE  /\ [o EXCEPT !.pc = place] = [pc |-> place, job |-> o.job, at |-> o.at,
              worker |-> o.worker, base |-> o.base, objects |-> o.objects,
              written |-> o.written]
         /\ [o EXCEPT !.pc = place, !.base = base] = [pc |-> place, job |-> o.job, at |-> o.at,
              worker |-> o.worker, base |-> base, objects |-> o.objects,
              written |-> o.written]
         /\ [o EXCEPT !.pc = place, !.objects = objects] = [pc |-> place, job |-> o.job,
              at |-> o.at, worker |-> o.worker, base |-> o.base, objects |-> objects,
              written |-> o.written]
         /\ [o EXCEPT !.written = written] = [pc |-> o.pc, job |-> o.job, at |-> o.at,
              worker |-> o.worker, base |-> o.base, objects |-> o.objects,
              written |-> written]
<1>0. DOMAIN o = Fields BY DEF IsRun, Fields
<1>1. PICK r : r = [o EXCEPT !.pc = place] OBVIOUS
<1>2. PICK s : s = [o EXCEPT !.pc = place, !.base = base] OBVIOUS
<1>3. PICK t : t = [o EXCEPT !.pc = place, !.objects = objects] OBVIOUS
<1>4. PICK u : u = [o EXCEPT !.written = written] OBVIOUS
<1>5. /\ r = [f \in Fields |-> r[f]] /\ s = [f \in Fields |-> s[f]]
      /\ t = [f \in Fields |-> t[f]] /\ u = [f \in Fields |-> u[f]]
  BY <1>0, <1>1, <1>2, <1>3, <1>4
<1>6. /\ r.pc = place /\ r.job = o.job /\ r.at = o.at /\ r.worker = o.worker
      /\ r.base = o.base /\ r.objects = o.objects /\ r.written = o.written
  BY <1>0, <1>1 DEF Fields
<1>7. /\ s.pc = place /\ s.job = o.job /\ s.at = o.at /\ s.worker = o.worker
      /\ s.base = base /\ s.objects = o.objects /\ s.written = o.written
  BY <1>0, <1>2 DEF Fields
<1>8. /\ t.pc = place /\ t.job = o.job /\ t.at = o.at /\ t.worker = o.worker
      /\ t.base = o.base /\ t.objects = objects /\ t.written = o.written
  BY <1>0, <1>3 DEF Fields
<1>9. /\ u.pc = o.pc /\ u.job = o.job /\ u.at = o.at /\ u.worker = o.worker
      /\ u.base = o.base /\ u.objects = o.objects /\ u.written = written
  BY <1>0, <1>4 DEF Fields
<1>10. r = [pc |-> place, job |-> o.job, at |-> o.at, worker |-> o.worker,
            base |-> o.base, objects |-> o.objects, written |-> o.written]
  BY <1>5, <1>6, RunHas
<1>11. s = [pc |-> place, job |-> o.job, at |-> o.at, worker |-> o.worker,
            base |-> base, objects |-> o.objects, written |-> o.written]
  BY <1>5, <1>7, RunHas
<1>12. t = [pc |-> place, job |-> o.job, at |-> o.at, worker |-> o.worker,
            base |-> o.base, objects |-> objects, written |-> o.written]
  BY <1>5, <1>8, RunHas
<1>13. u = [pc |-> o.pc, job |-> o.job, at |-> o.at, worker |-> o.worker,
            base |-> o.base, objects |-> o.objects, written |-> written]
  BY <1>5, <1>9, RunHas
<1> QED BY <1>1, <1>2, <1>3, <1>4, <1>10, <1>11, <1>12, <1>13

LEMMA RunsBeginAgain ==
  ASSUME ArtifactIInv, NEW p \in Producers, CollectWorkers(p) \/ Abort(p)
  PROVE  ArtifactIInv'
<1>1. CASE CollectWorkers(p)
  <2>1. PICK job \in Jobs, d \in Directories, first \in Trees :
          producer' = [producer EXCEPT ![p] =
            [Starting EXCEPT !.pc = "build", !.job = job, !.at = d,
                             !.worker = Bundle(Collected(first))]]
    BY <1>1 DEF CollectWorkers
  <2> DEFINE r == [Starting EXCEPT !.pc = "build", !.job = job, !.at = d,
                                   !.worker = Bundle(Collected(first))]
  <2>2. InOrder(r) /\ r.pc = "build"
    <3>0. PICK w : w = Bundle(Collected(first)) OBVIOUS
    <3>1. r = [pc |-> "build", job |-> job, at |-> d, worker |-> w, base |-> Absent,
               objects |-> Absent, written |-> {}]
      <4> HIDE DEF r
      <4>1. r = [Starting EXCEPT !.pc = "build", !.job = job, !.at = d, !.worker = w]
        BY <3>0 DEF r
      <4>2. r = [f \in Fields |-> r[f]] BY <4>1 DEF Starting, Fields
      <4>3. /\ r.pc = "build" /\ r.job = job /\ r.at = d /\ r.worker = w
            /\ r.base = Absent /\ r.objects = Absent /\ r.written = {}
        BY <4>1 DEF Starting
      <4> QED BY <4>2, <4>3, RunHas
    <3> HIDE DEF r
    <3>2. "build" \in RunPc BY DEF RunPc
    <3> QED BY <3>1, <3>2 DEF InOrder, IsRun
  <2>3. UNCHANGED <<candidate, accepted>> BY <1>1 DEF CollectWorkers
  <2> HIDE DEF r
  <2> QED BY <2>1, <2>2, <2>3, RunStepKeeps DEF r
<1>2. CASE Abort(p)
  <2> DEFINE r == [Starting EXCEPT !.pc = "stopped"]
  <2>1. producer' = [producer EXCEPT ![p] = r] /\ UNCHANGED <<candidate, accepted>>
    BY <1>2 DEF Abort
  <2>2. InOrder(r) /\ r.pc = "stopped" BY StartingIsInOrder
  <2> HIDE DEF r
  <2> QED BY <2>1, <2>2, RunStepKeeps
<1> QED BY <1>1, <1>2

(* A step of the run in memory                                             *)
LEMMA BuildKeeps ==
  ASSUME ArtifactIInv, NEW p \in Producers,
         BuildBase(p) \/ RebuildBase(p) \/ Sign(p)
  PROVE  ArtifactIInv'
<1> DEFINE o == producer[p]
<1>0. InOrder(o) /\ producer = [q \in Producers |-> producer[q]] BY DEF ArtifactIInv
<1>1. CASE BuildBase(p)
  <2>1. PICK ids \in Draws, now \in Times :
          producer' = [producer EXCEPT ![p].pc = "rebuild",
                         ![p].base = BaseWorkspace(ids.entry, ids.revision, now)]
    BY <1>1 DEF BuildBase
  <2>2. BaseWorkspace(ids.entry, ids.revision, now) = TheBase BY BasesAgree
  <2> DEFINE r == [o EXCEPT !.pc = "rebuild", !.base = TheBase]
  <2>3. producer' = [producer EXCEPT ![p] = r] BY <1>0, <2>1, <2>2
  <2>4. o.pc = "build" /\ UNCHANGED <<candidate, accepted>> BY <1>1 DEF BuildBase, Stage
  <2>5. InOrder(r) /\ r.pc = "rebuild"
    <3> HIDE DEF o
    <3>1. r = [pc |-> "rebuild", job |-> o.job, at |-> o.at, worker |-> o.worker,
               base |-> TheBase, objects |-> o.objects, written |-> o.written]
      BY ZenonT(60), <1>0, RunFields DEF InOrder
    <3> HIDE DEF r
    <3>2. "rebuild" \in RunPc BY DEF RunPc
    <3> QED BY <1>0, <2>4, <3>1, <3>2 DEF InOrder, IsRun
  <2> HIDE DEF r
  <2> QED BY <2>3, <2>4, <2>5, RunStepKeeps
<1>2. CASE RebuildBase(p)
  <2>1. PICK ids \in Draws, now \in Times :
          producer' = [producer EXCEPT ![p].pc =
            IF BaseWorkspace(ids.entry, ids.revision, now) = producer[p].base
            THEN "sign" ELSE "differs"]
    BY <1>2 DEF RebuildBase
  <2>2. BaseWorkspace(ids.entry, ids.revision, now) = TheBase BY BasesAgree
  <2>3. o.pc = "rebuild" /\ UNCHANGED <<candidate, accepted>> BY <1>2 DEF RebuildBase, Stage
  <2>4. o.base = TheBase BY <1>0, <2>3 DEF InOrder
  <2> DEFINE r == [o EXCEPT !.pc = "sign"]
  <2>5. producer' = [producer EXCEPT ![p] = r] BY <1>0, <2>1, <2>2, <2>4
  <2>6. InOrder(r) /\ r.pc = "sign"
    <3> HIDE DEF o
    <3>1. r = [pc |-> "sign", job |-> o.job, at |-> o.at, worker |-> o.worker,
               base |-> o.base, objects |-> o.objects, written |-> o.written]
      BY <1>0, RunFields DEF InOrder
    <3> HIDE DEF r
    <3>2. "sign" \in RunPc BY DEF RunPc
    <3> QED BY <1>0, <2>3, <3>1, <3>2 DEF InOrder, IsRun
  <2> HIDE DEF r
  <2> QED BY <2>3, <2>5, <2>6, RunStepKeeps
<1>3. CASE Sign(p)
  <2> DEFINE set == SignedSet(o.job, o.worker, o.base)
  <2> DEFINE r == [o EXCEPT !.pc = "directory", !.objects = set]
  <2>1. producer' = [producer EXCEPT ![p] = r] /\ UNCHANGED <<candidate, accepted>>
    BY <1>0, <1>3 DEF Sign
  <2>2. o.pc = "sign" BY <1>3 DEF Sign, Stage
  <2>3. Signed(set) BY DEF Signed
  <2> HIDE DEF set
  <2>4. InOrder(r) /\ r.pc = "directory"
    <3> HIDE DEF o
    <3>1. r = [pc |-> "directory", job |-> o.job, at |-> o.at, worker |-> o.worker,
               base |-> o.base, objects |-> set, written |-> o.written]
      BY ZenonT(60), <1>0, RunFields DEF InOrder
    <3> HIDE DEF r
    <3>2. "directory" \in RunPc BY DEF RunPc
    <3> QED BY <1>0, <2>2, <2>3, <3>1, <3>2 DEF InOrder, IsRun
  <2> HIDE DEF r
  <2> QED BY <2>1, <2>4, RunStepKeeps
<1> QED BY <1>1, <1>2, <1>3

LEMMA MakeDirectoryKeeps ==
  ASSUME ArtifactIInv, NEW p \in Producers, MakeDirectory(p)
  PROVE  ArtifactIInv'
<1> PICK o : o = producer[p] OBVIOUS
<1> PICK d : d = o.at OBVIOUS
<1> PICK b : b = candidate[d] OBVIOUS
<1>0. /\ InOrder(o) /\ producer = [q \in Producers |-> producer[q]]
      /\ o.pc = "directory" /\ d \in Directories /\ Signed(o.objects)
  BY DEF ArtifactIInv, MakeDirectory, Stage, InOrder
<1>1. /\ candidate = [e \in Directories |-> candidate[e]] /\ IsCandidate(b)
      /\ b.made = FALSE /\ b.index = Absent
  BY <1>0 DEF ArtifactIInv, DirectoriesHold, MakeDirectory
<1> PICK r : r = [o EXCEPT !.pc = "write"] OBVIOUS
<1> PICK c : c = [b EXCEPT !.made = TRUE] OBVIOUS
<1>2. producer' = [producer EXCEPT ![p] = r] /\ UNCHANGED accepted
  BY <1>0 DEF MakeDirectory
<1>3. candidate' = [candidate EXCEPT ![d] = c] BY <1>1 DEF MakeDirectory
<1>4. IsCandidate(c) /\ c.made = TRUE /\ c.index = Absent /\ c.files = b.files
  BY <1>1 DEF IsCandidate
<1>5. candidate'[d] = c BY <1>0, <1>1, <1>3
<1>6. \A q \in Producers : producer[q].pc = "write" => producer[q].at # d
  BY <1>1 DEF ArtifactIInv, InOrder
<1>7. r = [pc |-> "write", job |-> o.job, at |-> d, worker |-> o.worker,
           base |-> o.base, objects |-> o.objects, written |-> o.written]
  BY ZenonT(60), <1>0, RunFields DEF InOrder
<1>8. r.pc = "write" /\ r.at = d BY <1>7
<1>9. InOrder(r)'
  <2>1. "write" \in RunPc BY DEF RunPc
  <2>2. InOrder(r)' <=> /\ IsRun(r) /\ r.pc \in RunPc
                        /\ r.job \in Jobs \cup {Absent} /\ d \in Directories
                        /\ Signed(r.objects)
                        /\ \A n \in r.written : r.objects[n].bytes \in c.files
    BY ZenonT(60), <1>0, <1>4, <1>5, <1>8 DEF InOrder
  <2>3. o.written = {} /\ o.job \in Jobs \cup {Absent} BY <1>0 DEF InOrder
  <2> QED BY <1>0, <1>7, <2>1, <2>2, <2>3 DEF IsRun
<1>10. candidate[d].index = Absent /\ candidate[d].files \subseteq c.files BY <1>1, <1>4
<1>11. \A q \in Producers : q # p /\ producer[q].pc = "write" => producer[q].at # d
  BY <1>6
<1>12. c.index # Absent =>
         Signed(c.index) /\ \A n \in DOMAIN c.index : c.index[n].bytes \in c.files
  BY <1>4
<1> QED BY ZenonT(60), <1>0, <1>2, <1>3, <1>4, <1>8, <1>9, <1>10, <1>11, <1>12, WriterStepKeeps

LEMMA WriteObjectKeeps ==
  ASSUME ArtifactIInv, NEW p \in Producers, WriteObject(p)
  PROVE  ArtifactIInv'
<1> PICK o : o = producer[p] OBVIOUS
<1> PICK d : d = o.at OBVIOUS
<1> PICK b : b = candidate[d] OBVIOUS
<1>0. /\ InOrder(o) /\ producer = [q \in Producers |-> producer[q]]
      /\ o.pc = "write" /\ d \in Directories /\ Signed(o.objects)
      /\ b.made /\ b.index = Absent
      /\ \A n \in o.written : o.objects[n].bytes \in b.files
  BY DEF ArtifactIInv, WriteObject, Stage, InOrder
<1>1. /\ candidate = [e \in Directories |-> candidate[e]] /\ IsCandidate(b)
      /\ b.made = TRUE
  BY <1>0 DEF ArtifactIInv, DirectoriesHold
<1>2. PICK n \in NextToWrite(p) :
        /\ candidate' = [candidate EXCEPT ![producer[p].at].files =
                           @ \cup {producer[p].objects[n].bytes}]
        /\ producer' = [producer EXCEPT ![p].written = @ \cup {n}]
  BY DEF WriteObject, BytesOf
<1> PICK r : r = [o EXCEPT !.written = o.written \cup {n}] OBVIOUS
<1> PICK c : c = [b EXCEPT !.files = b.files \cup {o.objects[n].bytes}] OBVIOUS
<1>3. /\ producer' = [producer EXCEPT ![p] = r] /\ UNCHANGED accepted
      /\ candidate' = [candidate EXCEPT ![d] = c]
  BY <1>0, <1>1, <1>2 DEF WriteObject
<1>4. /\ IsCandidate(c) /\ c.made = TRUE /\ c.index = Absent
      /\ c.files = b.files \cup {o.objects[n].bytes}
  BY <1>0, <1>1 DEF IsCandidate
<1>5. candidate'[d] = c BY <1>0, <1>1, <1>3
<1>6. \A q \in Producers : q # p /\ producer[q].pc = "write" => producer[q].at # d
  BY <1>0 DEF ArtifactIInv
<1>7. r = [pc |-> o.pc, job |-> o.job, at |-> d, worker |-> o.worker,
           base |-> o.base, objects |-> o.objects, written |-> o.written \cup {n}]
  BY ZenonT(60), <1>0, RunFields DEF InOrder
<1>8. r.pc = "write" /\ r.at = d BY <1>0, <1>7
<1>9. InOrder(r)'
  <2>1. "write" \in RunPc BY DEF RunPc
  <2>2. InOrder(r)' <=> /\ IsRun(r) /\ r.pc \in RunPc
                        /\ r.job \in Jobs \cup {Absent} /\ d \in Directories
                        /\ Signed(r.objects)
                        /\ \A m \in r.written : r.objects[m].bytes \in c.files
    BY <1>0, <1>4, <1>5, <1>8 DEF InOrder
  <2>3. o.job \in Jobs \cup {Absent} BY <1>0 DEF InOrder
  <2>4. \A m \in o.written \cup {n} : o.objects[m].bytes \in c.files BY <1>0, <1>4
  <2> QED BY ZenonT(60), <1>0, <1>7, <2>1, <2>2, <2>3, <2>4 DEF IsRun
<1> QED BY ZenonT(60), <1>0, <1>3, <1>4, <1>6, <1>8, <1>9, WriterStepKeeps

LEMMA WriteIndexKeeps ==
  ASSUME ArtifactIInv, NEW p \in Producers, WriteIndex(p)
  PROVE  ArtifactIInv'
<1> PICK o : o = producer[p] OBVIOUS
<1> PICK d : d = o.at OBVIOUS
<1> PICK b : b = candidate[d] OBVIOUS
<1>0. /\ InOrder(o) /\ producer = [q \in Producers |-> producer[q]]
      /\ o.pc = "write" /\ d \in Directories /\ Signed(o.objects)
      /\ b.made /\ b.index = Absent
      /\ \A n \in o.written : o.objects[n].bytes \in b.files
      /\ o.written = DOMAIN o.objects
  BY DEF ArtifactIInv, WriteIndex, Stage, InOrder
<1>1. /\ candidate = [e \in Directories |-> candidate[e]] /\ IsCandidate(b)
      /\ b.made = TRUE
  BY <1>0 DEF ArtifactIInv, DirectoriesHold
<1> PICK r : r = [o EXCEPT !.pc = "done"] OBVIOUS
<1> PICK c : c = [b EXCEPT !.index = o.objects] OBVIOUS
<1>3. /\ producer' = [producer EXCEPT ![p] = r] /\ UNCHANGED accepted
      /\ candidate' = [candidate EXCEPT ![d] = c]
  BY <1>0, <1>1 DEF WriteIndex
<1>4. /\ IsCandidate(c) /\ c.made = TRUE /\ c.index = o.objects /\ c.files = b.files
  BY <1>0, <1>1 DEF IsCandidate
<1>6. \A q \in Producers : q # p /\ producer[q].pc = "write" => producer[q].at # d
  BY <1>0 DEF ArtifactIInv
<1>7. r = [pc |-> "done", job |-> o.job, at |-> d, worker |-> o.worker,
           base |-> o.base, objects |-> o.objects, written |-> o.written]
  <2>1. IsRun(o) BY <1>0 DEF InOrder
  <2>2. [o EXCEPT !.pc = "done"] =
          [pc |-> "done", job |-> o.job, at |-> o.at, worker |-> o.worker,
           base |-> o.base, objects |-> o.objects, written |-> o.written]
    BY ONLY <2>1, RunFields
  <2> QED BY <2>2
<1>8. r.pc = "done" BY <1>7
<1>9. InOrder(r)'
  <2>1. "done" \in RunPc BY DEF RunPc
  <2>3. o.job \in Jobs \cup {Absent} BY <1>0 DEF InOrder
  <2> QED BY <1>0, <1>7, <2>1, <2>3 DEF IsRun, InOrder
<1>10. Signed(c.index) /\ \A n \in DOMAIN c.index : c.index[n].bytes \in c.files
  BY <1>0, <1>4
<1>11. candidate[d].index = Absent /\ candidate[d].files \subseteq c.files BY <1>0, <1>4
<1>12. c.index # Absent =>
         Signed(c.index) /\ \A n \in DOMAIN c.index : c.index[n].bytes \in c.files
  BY <1>10
<1>13. r.pc = "write" => r.at = d BY <1>8
<1>14. IsCandidate(c) /\ c.made = TRUE /\ d \in Directories BY <1>0, <1>4
<1> QED BY ONLY ArtifactIInv, <1>3, <1>6, <1>9, <1>11, <1>12, <1>13, <1>14, WriterStepKeeps

LEMMA AcceptKeeps ==
  ASSUME ArtifactIInv, Accept
  PROVE  ArtifactIInv'
<1>1. PICK taken \in SUBSET OnOffer : \E lost \in taken \cup {Absent} :
        LET list == [o \in taken |->
                       IF o = lost THEN [Offered(o) EXCEPT !.bytes = Garbage]
                       ELSE Offered(o)]
        IN /\ Verifies(list)
           /\ accepted' = {<<list[o].descriptor, list[o].bytes>> : o \in taken}
  BY DEF Accept
<1>2. PICK lost :
        LET list == [o \in taken |->
                       IF o = lost THEN [Offered(o) EXCEPT !.bytes = Garbage]
                       ELSE Offered(o)]
        IN /\ Verifies(list)
           /\ accepted' = {<<list[o].descriptor, list[o].bytes>> : o \in taken}
  BY <1>1
<1> DEFINE list == [o \in taken |->
                      IF o = lost THEN [Offered(o) EXCEPT !.bytes = Garbage]
                      ELSE Offered(o)]
<1>3. /\ Verifies(list)
      /\ accepted' = {<<list[o].descriptor, list[o].bytes>> : o \in taken}
      /\ Arrives(taken, lost, list)
  BY <1>2 DEF Arrives
<1> HIDE DEF list
<1>4. PICK d \in Indexed :
        accepted' = {<<candidate[d].index[n].descriptor, candidate[d].index[n].bytes>> :
                       n \in DOMAIN candidate[d].index}
  <2>1. DirectoriesHold BY DEF ArtifactIInv
  <2>2. PICK d \in Indexed :
          {<<list[o].descriptor, list[o].bytes>> : o \in taken} =
            {<<candidate[d].index[n].descriptor, candidate[d].index[n].bytes>> :
               n \in DOMAIN candidate[d].index}
    BY <1>3, <2>1, VerifiedIsOneSigning
  <2>3. accepted' = {<<list[o].descriptor, list[o].bytes>> : o \in taken} BY <1>3
  <2>4. accepted' = {<<candidate[d].index[n].descriptor, candidate[d].index[n].bytes>> :
                       n \in DOMAIN candidate[d].index}
    BY <2>2, <2>3, Zenon
  <2> QED BY <2>4, Zenon
<1>5. UNCHANGED <<producer, candidate>> BY DEF Accept
<1>6. AcceptedIsOneSigning' BY <1>4, <1>5 DEF AcceptedIsOneSigning, Indexed
<1>7. DirectoriesHold' BY <1>5 DEF ArtifactIInv, DirectoriesHold
<1>8. \A p \in Producers : InOrder(producer[p])' BY <1>5 DEF ArtifactIInv, InOrder
<1>9. \A d2 \in Directories : IsCandidate(candidate[d2])'
  BY <1>5 DEF ArtifactIInv, IsCandidate
<1> QED BY <1>5, <1>6, <1>7, <1>8, <1>9 DEF ArtifactIInv

LEMMA ArtifactKept ==
  ASSUME ArtifactIInv, [ArtifactNext]_artifactVars
  PROVE  ArtifactIInv'
<1>1. CASE UNCHANGED artifactVars
  <2>1. UNCHANGED <<producer, candidate, accepted>> BY <1>1 DEF artifactVars
  <2>2. DirectoriesHold' BY <2>1 DEF ArtifactIInv, DirectoriesHold
  <2>3. \A p \in Producers : InOrder(producer[p])' BY <2>1 DEF ArtifactIInv, InOrder
  <2>4. \A d \in Directories : IsCandidate(candidate[d])'
    BY <2>1 DEF ArtifactIInv, IsCandidate
  <2>5. AcceptedIsOneSigning' BY <2>1, AcceptedLasts DEF ArtifactIInv
  <2> QED BY <2>1, <2>2, <2>3, <2>4, <2>5 DEF ArtifactIInv
<1>2. CASE Accept BY <1>2, AcceptKeeps
<1>3. ASSUME NEW p \in Producers, CollectWorkers(p) \/ Abort(p) PROVE ArtifactIInv'
  BY <1>3, RunsBeginAgain
<1>4. ASSUME NEW p \in Producers, BuildBase(p) \/ RebuildBase(p) \/ Sign(p)
      PROVE ArtifactIInv'
  BY <1>4, BuildKeeps
<1>5. ASSUME NEW p \in Producers, MakeDirectory(p) \/ WriteObject(p) \/ WriteIndex(p)
      PROVE ArtifactIInv'
  BY <1>5, MakeDirectoryKeeps, WriteObjectKeeps, WriteIndexKeeps
<1> QED BY <1>1, <1>2, <1>3, <1>4, <1>5 DEF ArtifactNext

LEMMA ArtifactAnswers ==
  ArtifactIInv => ArtifactTypeOK /\ CandidateVerifies /\ AcceptedIsOneSigning
<1> SUFFICES ASSUME ArtifactIInv
             PROVE  ArtifactTypeOK /\ CandidateVerifies /\ AcceptedIsOneSigning
  OBVIOUS
<1>1. \A p \in Producers : /\ producer[p].pc \in RunPc
                            /\ producer[p].job \in Jobs \cup {Absent}
                            /\ producer[p].at \in Directories \cup {Absent}
  BY DEF ArtifactIInv, InOrder
<1>2. ArtifactTypeOK
  BY <1>1 DEF ArtifactTypeOK, RunPc, ArtifactIInv, DirectoriesHold
<1>3. CandidateVerifies
  BY <1>1, SignedVerifies
     DEF CandidateVerifies, Stage, RunPc, ArtifactIInv, DirectoriesHold
<1> QED BY <1>2, <1>3 DEF ArtifactIInv

-----------------------------------------------------------------------------
(* Deployment                                                              *)

ResourceId == Nat \cup {Unset}
RunPlace == Stages \cup {"idle", "done", "failed"}
DeployRun == [pc : RunPlace, env : Environments \cup {Unset}, template : BOOLEAN,
              kind : Resources, d1 : ResourceId, kv : ResourceId,
              uses : [d1 : ResourceId, kv : ResourceId],
              missing : SUBSET (PluginColumns \cup ContentColumns), pass : {1, 2}]

(* Before the run's ids replace its variables                              *)
Early == {"idle", "announce", "build", "list", "create", "set"}
BeforeRepairs == Early \cup {"persist", "render", "migrate", "deploy", "health"}
AfterRepairs == {"count", "setup", "bootstrap", "smoke", "tell ready"}
OnItsOwn == {"persist", "render", "migrate", "deploy", "health", "warm"}
              \cup Repairs \cup AfterRepairs

(* An id names the environment's own resource.                             *)
Owns(k, e, id) == id \in DOMAIN cloud[k] /\ cloud[k][id] = e
OwnsAll(e, uses) ==
  Owns("d1", e, uses.d1) /\ Owns("kv", e, uses.kv) /\ Exists("r2", e)

(* What a run has made sure of by the stage it is at                       *)
Obtains(r) ==
  /\ r.pc # "idle" => r.env \in Environments
  /\ r.pc \in BeforeRepairs => r.pass = 1
  /\ r.pc \in {"idle", "announce", "build"} => r.kind = "d1"
  /\ r.pc \in {"list", "create"} =>
       /\ r.kind # "d1" => Owns("d1", r.env, r.d1)
       /\ r.kind = "kv" => Exists("r2", r.env)
  /\ r.pc = "set" => OwnsAll(r.env, [d1 |-> r.d1, kv |-> r.kv])
  /\ r.pc \in OnItsOwn => OwnsAll(r.env, r.uses)

Repaired(r) ==
  LET s == schema[r.uses.d1]
  IN /\ r.pc = "record 21" => ~s.category
     /\ r.pc = "add plugin columns" => PluginColumns \ s.columns \subseteq r.missing
     /\ r.pc = "record 23" => PluginColumns \subseteq s.columns
     /\ r.pc = "add content columns" => ContentColumns \ s.columns \subseteq r.missing
     /\ r.pc \in Repairs /\ r.pass = 2 => {21, 23} \subseteq s.recorded
     /\ r.pc \in AfterRepairs =>
          {21, 23} \subseteq s.recorded /\ ContentColumns \subseteq s.columns
     /\ r.pc \in {"bootstrap", "smoke", "tell ready"} => r.uses.d1 \in configured
     /\ r.pc \in {"smoke", "tell ready"} => r.uses.d1 \in content

(* A run whose worker answers for an environment, and one reported ready   *)
ServesWell(e, r) == r.pc \notin Early /\ OwnsAll(e, r.uses)

LeftWhole(r) ==
  LET s == schema[r.uses.d1]
  IN /\ r.pc \notin Early /\ r.uses.d1 \in DatabaseIds
     /\ {21, 23} \subseteq s.recorded /\ ContentColumns \subseteq s.columns
     /\ r.uses.d1 \in configured \cap content

(* Cloudflare takes a name once.                                           *)
CloudInv ==
  /\ cloud \in [Resources -> Seq(Environments \cup {Shared})]
  /\ \A k \in Resources : \A i, j \in DOMAIN cloud[k] :
       cloud[k][i] = cloud[k][j] => i = j
  /\ variable \in [Environments -> [d1 : ResourceId, kv : ResourceId]]

DatabaseInv ==
  /\ schema \in [DatabaseIds -> Schema]
  /\ engine \in [DatabaseIds -> {"idle", "dropped", "adding"}]
  /\ \A i \in DatabaseIds :
       RecordIsTrue(schema[i]) /\ (engine[i] = "dropped" => ~schema[i].category)
  /\ content \subseteq configured

RunsInv ==
  /\ pipeline \in [Pipelines -> DeployRun]
  /\ \A p \in Pipelines : Obtains(pipeline[p]) /\ Repaired(pipeline[p])

WorkersInv ==
  /\ serving \in [Environments -> SUBSET Pipelines]
  /\ reported \in [Pipelines -> {"nothing", "building", "ready", "failed"}]
  /\ \A e \in Environments : \A p \in serving[e] : ServesWell(e, pipeline[p])
  /\ \A p \in Pipelines : reported[p] = "ready" => LeftWhole(pipeline[p])

DeployIInv == CloudInv /\ DatabaseInv /\ RunsInv /\ WorkersInv

LEMMA DatabasesAreFew ==
  ASSUME CloudInv, NEW e, NEW i, Owns("d1", e, i)
  PROVE  i \in DatabaseIds
<1> DEFINE names == cloud["d1"]  n == Len(names)
<1>1. names \in Seq(Environments \cup {Shared}) BY DEF CloudInv, Resources
<1>2. n \in Nat /\ DOMAIN names = 1..n BY <1>1
<1>3. \A k, j \in 1..n : names[k] = names[j] => k = j BY <1>2 DEF CloudInv, Resources
<1>4. \A k \in 1..n : names[k] \in Environments \cup {Shared} BY <1>1, <1>2
<1>5. names \in [1..n -> Environments \cup {Shared}] BY <1>1
<1> HIDE DEF names, n
<1>6. names \in Injection(1..n, Environments \cup {Shared})
  BY <1>3, <1>5 DEF Injection, IsInjective
<1>7. /\ IsFiniteSet(Environments \cup {Shared})
      /\ Cardinality(Environments \cup {Shared}) = Cardinality(Environments) + 1
  BY FS_AddElement, DeploymentInputs
<1>8. Cardinality(1..n) <= Cardinality(Environments \cup {Shared})
  BY <1>6, <1>7, FS_Injection
<1>9. Cardinality(1..n) = IF 1 > n THEN 0 ELSE n - 1 + 1 BY <1>2, FS_Interval
<1>10. Cardinality(Environments) \in Nat BY FS_CardinalityType, DeploymentInputs
<1>11. i \in 1..n BY <1>2 DEF Owns, names
<1> QED BY <1>2, <1>7, <1>8, <1>9, <1>10, <1>11 DEF DatabaseIds

(* What a step adds is added for good.                                     *)
Lasts ==
  /\ \A k \in Resources : \A i \in DOMAIN cloud[k] :
       i \in DOMAIN cloud[k]' /\ cloud[k]'[i] = cloud[k][i]
  /\ \A i \in DatabaseIds :
       /\ schema[i].columns \subseteq schema[i].columns'
       /\ schema[i].recorded \subseteq schema[i].recorded'
       /\ ~schema[i].category => ~schema[i].category'
  /\ configured \subseteq configured' /\ content \subseteq content'

LEMMA OwnershipLasts ==
  ASSUME Lasts, NEW e
  PROVE  /\ \A k \in Resources : \A i : Owns(k, e, i) => Owns(k, e, i)'
         /\ Exists("r2", e) => Exists("r2", e)'
         /\ \A uses : OwnsAll(e, uses) => OwnsAll(e, uses)'
<1>1. \A k \in Resources : \A i : Owns(k, e, i) => Owns(k, e, i)' BY DEF Lasts, Owns
<1>2. Exists("r2", e) => Exists("r2", e)' BY DEF Lasts, Exists, Resources
<1> QED BY <1>1, <1>2 DEF OwnsAll, Resources

(* A run that stays where it is stays right, whatever the others do.       *)
LEMMA RunStays ==
  ASSUME CloudInv, Lasts, NEW r
  PROVE  /\ Obtains(r) => Obtains(r)'
         /\ Obtains(r) /\ Repaired(r) => Repaired(r)'
         /\ \A e : ServesWell(e, r) => ServesWell(e, r)'
         /\ LeftWhole(r) => LeftWhole(r)'
<1>1. Obtains(r) => Obtains(r)' BY OwnershipLasts DEF Obtains, Resources
<1>2. \A e : ServesWell(e, r) => ServesWell(e, r)' BY OwnershipLasts DEF ServesWell
<1>3. LeftWhole(r) => LeftWhole(r)' BY DEF LeftWhole, Lasts
<1>4. ASSUME Obtains(r), Repaired(r) PROVE Repaired(r)'
  <2>1. CASE r.pc \notin Repairs \cup AfterRepairs
    BY <2>1 DEF Repaired, Repairs, AfterRepairs
  <2>2. CASE r.pc \in Repairs \cup AfterRepairs
    <3>1. r.uses.d1 \in DatabaseIds
      BY <2>2, <1>4, DatabasesAreFew DEF Obtains, OnItsOwn, OwnsAll
    <3>2. \/ r.pc \notin Repairs \/ r.pass # 2
          \/ {21, 23} \subseteq schema[r.uses.d1].recorded
      BY <1>4 DEF Repaired
    <3> QED BY <1>4, <3>1 DEF Repaired, Lasts
  <2> QED BY <2>1, <2>2
<1> QED BY <1>1, <1>2, <1>3, <1>4

(* A step of one run, which is at r afterwards                             *)
LEMMA DeployStepKeeps ==
  ASSUME DeployIInv, CloudInv', DatabaseInv', Lasts,
         NEW p \in Pipelines, NEW r \in DeployRun,
         pipeline' = [pipeline EXCEPT ![p] = r],
         Obtains(r)', Repaired(r)',
         \/ pipeline[p].pc \in Early
         \/ r.pc \notin Early /\ r.uses = pipeline[p].uses,
         serving' \in [Environments -> SUBSET Pipelines],
         reported' \in [Pipelines -> {"nothing", "building", "ready", "failed"}],
         \A e \in Environments : \A q \in serving'[e] :
           q \in serving[e] \/ (q = p /\ ServesWell(e, r)'),
         \A q \in Pipelines : reported'[q] = "ready" =>
           reported[q] = "ready" \/ (q = p /\ LeftWhole(r)')
  PROVE  DeployIInv'
<1>1. pipeline \in [Pipelines -> DeployRun] BY DEF DeployIInv, RunsInv
<1>2. /\ pipeline' \in [Pipelines -> DeployRun] /\ pipeline'[p] = r
      /\ \A q \in Pipelines \ {p} : pipeline'[q] = pipeline[q]
  BY <1>1
<1>3. ASSUME NEW q \in Pipelines \ {p}
      PROVE  /\ Obtains(pipeline[q])' /\ Repaired(pipeline[q])'
             /\ \A e : ServesWell(e, pipeline[q]) => ServesWell(e, pipeline[q])'
             /\ LeftWhole(pipeline[q]) => LeftWhole(pipeline[q])'
  <2>1. PICK s : s = pipeline[q] /\ s = pipeline'[q] BY <1>2
  <2>2. Obtains(s) /\ Repaired(s) BY <2>1 DEF DeployIInv, RunsInv
  <2>3. CloudInv BY DEF DeployIInv
  <2>4. /\ Obtains(s)' /\ Repaired(s)'
        /\ \A e : ServesWell(e, s) => ServesWell(e, s)'
        /\ LeftWhole(s) => LeftWhole(s)'
    BY <2>2, <2>3, RunStays
  <2>5. Obtains(pipeline[q])' BY <2>1, <2>4
  <2>6. Repaired(pipeline[q])' BY <2>1, <2>4
  <2>7. \A e : ServesWell(e, pipeline[q]) => ServesWell(e, pipeline[q])'
    BY <2>1, <2>4
  <2>8. LeftWhole(pipeline[q]) => LeftWhole(pipeline[q])' BY <2>1, <2>4
  <2> QED BY <2>5, <2>6, <2>7, <2>8
<1>4. PICK o : o = pipeline[p] OBVIOUS
<1>5. /\ \A e : ServesWell(e, o) => ServesWell(e, o)'
      /\ LeftWhole(o) => LeftWhole(o)'
  BY RunStays DEF DeployIInv
<1>6. /\ \A e : ServesWell(e, o)' => ServesWell(e, r)'
      /\ LeftWhole(o)' => LeftWhole(r)'
  BY <1>4 DEF ServesWell, LeftWhole
<1>7. Obtains(pipeline[p])' /\ Repaired(pipeline[p])'
  <2>1. Obtains(pipeline[p])' BY <1>2
  <2>2. Repaired(pipeline[p])' BY <1>2
  <2> QED BY <2>1, <2>2
<1>8. RunsInv' BY <1>2, <1>3, <1>7 DEF RunsInv
<1>9. ASSUME NEW e \in Environments, NEW q \in serving'[e]
      PROVE  ServesWell(e, pipeline[q])'
  <2>1. q \in Pipelines OBVIOUS
  <2>2. CASE q = p
    <3>1. ServesWell(e, r)'
      <4>1. q \in serving[e] => ServesWell(e, o) BY <2>2, <1>4 DEF DeployIInv, WorkersInv
      <4> QED BY <2>2, <4>1, <1>5, <1>6
    <3> QED BY <2>2, <3>1, <1>2
  <2>3. CASE q # p
    <3>1. q \in serving[e] BY <2>3
    <3>2. ServesWell(e, pipeline[q]) BY <3>1 DEF DeployIInv, WorkersInv
    <3> QED BY <2>1, <2>3, <3>2, <1>3
  <2> QED BY <2>2, <2>3
<1>10. ASSUME NEW q \in Pipelines, reported'[q] = "ready"
       PROVE  LeftWhole(pipeline[q])'
  <2>2. CASE q = p
    <3>1. LeftWhole(r)'
      <4>1. reported[q] = "ready" => LeftWhole(o) BY <2>2, <1>4 DEF DeployIInv, WorkersInv
      <4> QED BY <1>10, <2>2, <4>1, <1>5, <1>6
    <3> QED BY <2>2, <3>1, <1>2
  <2>3. CASE q # p
    <3>1. reported[q] = "ready" BY <1>10, <2>3
    <3>2. LeftWhole(pipeline[q]) BY <3>1 DEF DeployIInv, WorkersInv
    <3> QED BY <2>3, <3>2, <1>3
  <2> QED BY <2>2, <2>3
<1> QED BY <1>8, <1>9, <1>10 DEF DeployIInv, WorkersInv

(* A step of anyone else                                                   *)
LEMMA WorldStepKeeps ==
  ASSUME DeployIInv, CloudInv', DatabaseInv', Lasts,
         UNCHANGED <<pipeline, reported>>,
         serving' \in [Environments -> SUBSET Pipelines],
         \A e \in Environments : serving'[e] \subseteq serving[e]
  PROVE  DeployIInv'
<1>1. ASSUME NEW q \in Pipelines
      PROVE  /\ Obtains(pipeline[q])' /\ Repaired(pipeline[q])'
             /\ \A e : ServesWell(e, pipeline[q]) => ServesWell(e, pipeline[q])'
             /\ LeftWhole(pipeline[q]) => LeftWhole(pipeline[q])'
  <2>1. PICK s : s = pipeline[q] /\ s = pipeline'[q] OBVIOUS
  <2>2. Obtains(s) /\ Repaired(s) BY <2>1 DEF DeployIInv, RunsInv
  <2>3. CloudInv BY DEF DeployIInv
  <2>4. /\ Obtains(s)' /\ Repaired(s)'
        /\ \A e : ServesWell(e, s) => ServesWell(e, s)'
        /\ LeftWhole(s) => LeftWhole(s)'
    BY <2>2, <2>3, RunStays
  <2>5. Obtains(pipeline[q])' BY <2>1, <2>4
  <2>6. Repaired(pipeline[q])' BY <2>1, <2>4
  <2>7. \A e : ServesWell(e, pipeline[q]) => ServesWell(e, pipeline[q])'
    BY <2>1, <2>4
  <2>8. LeftWhole(pipeline[q]) => LeftWhole(pipeline[q])' BY <2>1, <2>4
  <2> QED BY <2>5, <2>6, <2>7, <2>8
<1>2. RunsInv' BY <1>1 DEF DeployIInv, RunsInv
<1>3. ASSUME NEW e \in Environments, NEW q \in serving'[e]
      PROVE  ServesWell(e, pipeline[q])'
  <2>1. q \in Pipelines OBVIOUS
  <2>2. ServesWell(e, pipeline[q]) BY DEF DeployIInv, WorkersInv
  <2> QED BY <2>1, <2>2, <1>1
<1>4. ASSUME NEW q \in Pipelines, reported'[q] = "ready"
      PROVE  LeftWhole(pipeline[q])'
  BY <1>1, <1>4 DEF DeployIInv, WorkersInv
<1> QED BY <1>2, <1>3, <1>4 DEF DeployIInv, WorkersInv

(* A step of a run that changes nothing but the run                        *)
LEMMA RunStepKeepsAll ==
  ASSUME DeployIInv, UNCHANGED <<outside, database>>,
         NEW p \in Pipelines, NEW r \in DeployRun,
         pipeline' = [pipeline EXCEPT ![p] = r], Obtains(r), Repaired(r),
         \/ pipeline[p].pc \in Early
         \/ r.pc \notin Early /\ r.uses = pipeline[p].uses
  PROVE  DeployIInv'
<1>1. UNCHANGED <<cloud, variable, serving, reported, schema, engine, configured, content>>
  BY DEF outside, database
<1>2. CloudInv' BY <1>1 DEF DeployIInv, CloudInv
<1>3. DatabaseInv' BY <1>1 DEF DeployIInv, DatabaseInv
<1>4. Lasts BY <1>1 DEF Lasts
<1>5. CloudInv BY DEF DeployIInv
<1>6. Obtains(r)' /\ Repaired(r)' BY <1>4, <1>5, RunStays
<1>7. /\ serving' \in [Environments -> SUBSET Pipelines]
      /\ reported' \in [Pipelines -> {"nothing", "building", "ready", "failed"}]
  BY <1>1 DEF DeployIInv, WorkersInv
<1>8. /\ \A e \in Environments : \A q \in serving'[e] : q \in serving[e]
      /\ \A q \in Pipelines : reported'[q] = "ready" => reported[q] = "ready"
  BY <1>1
<1> QED BY <1>2, <1>3, <1>4, <1>6, <1>7, <1>8, DeployStepKeeps

(* Go changes the place only.                                              *)
RunMoves(p, place, r) ==
  /\ pipeline' = [pipeline EXCEPT ![p] = r]
  /\ r.pc = place /\ r.env = pipeline[p].env /\ r.template = pipeline[p].template
  /\ r.kind = pipeline[p].kind /\ r.d1 = pipeline[p].d1 /\ r.kv = pipeline[p].kv
  /\ r.uses = pipeline[p].uses /\ r.missing = pipeline[p].missing
  /\ r.pass = pipeline[p].pass

LEMMA RunGoes ==
  ASSUME DeployIInv, NEW p \in Pipelines, NEW place \in RunPlace, Go(p, place)
  PROVE  \E r \in DeployRun : RunMoves(p, place, r)
<1> DEFINE r == [pipeline[p] EXCEPT !.pc = place]
<1>1. pipeline[p] \in DeployRun BY DEF DeployIInv, RunsInv
<1>2. r \in DeployRun BY <1>1 DEF DeployRun
<1>3. RunMoves(p, place, r) BY <1>1 DEF RunMoves, Go, DeployRun
<1> QED BY <1>2, <1>3

(* An early run, or one that fails, moves on.                              *)
LEMMA EarlyGoes ==
  ASSUME DeployIInv, UNCHANGED <<outside, database>>,
         NEW p \in Pipelines, NEW place \in RunPlace, Go(p, place),
         \/ pipeline[p].pc = "announce" /\ place = "build"
         \/ pipeline[p].pc = "build" /\ place = "list"
         \/ pipeline[p].pc = "list" /\ place = "create"
         \/ pipeline[p].pc # "idle" /\ place \in {"failed", "tell failed", "done"}
  PROVE  DeployIInv'
<1>1. PICK r \in DeployRun : RunMoves(p, place, r) BY RunGoes
<1>2. PICK o : o = pipeline[p] OBVIOUS
<1>3. Obtains(o) /\ Repaired(o) BY <1>2 DEF DeployIInv, RunsInv
<1>4. Obtains(r)
  BY <1>1, <1>2, <1>3 DEF RunMoves, Obtains, Early, BeforeRepairs, OnItsOwn,
                          Repairs, AfterRepairs
<1>5. Repaired(r) BY <1>1, <1>2 DEF RunMoves, Repaired, Repairs, AfterRepairs
<1>6. \/ pipeline[p].pc \in Early
      \/ r.pc \notin Early /\ r.uses = pipeline[p].uses
  BY <1>1 DEF RunMoves, Early
<1> QED BY <1>1, <1>4, <1>5, <1>6, RunStepKeepsAll DEF RunMoves

(* A run on its own resources goes on to a later stage.                    *)
LEMMA OwnerGoes ==
  ASSUME DeployIInv, UNCHANGED <<outside, database>>,
         NEW p \in Pipelines, NEW place \in RunPlace, Go(p, place),
         pipeline[p].pc \in OnItsOwn, place \in OnItsOwn,
         place \in BeforeRepairs => pipeline[p].pc \in BeforeRepairs,
         \A r \in DeployRun : RunMoves(p, place, r) => Repaired(r)
  PROVE  DeployIInv'
<1>1. PICK r \in DeployRun : RunMoves(p, place, r) BY RunGoes
<1>2. PICK o : o = pipeline[p] OBVIOUS
<1>3. Obtains(o) BY <1>2 DEF DeployIInv, RunsInv
<1>4. Obtains(r)
  BY <1>1, <1>2, <1>3 DEF RunMoves, Obtains, Early, BeforeRepairs, OnItsOwn,
                          Repairs, AfterRepairs
<1>5. Repaired(r) BY <1>1
<1>6. r.pc \notin Early /\ r.uses = pipeline[p].uses
  BY <1>1 DEF RunMoves, Early, OnItsOwn, Repairs, AfterRepairs
<1> QED BY <1>1, <1>4, <1>5, <1>6, RunStepKeepsAll DEF RunMoves

(* Whoever answers for a run's environment uses the run's database.        *)
LEMMA SameDatabase ==
  ASSUME DeployIInv, NEW p \in Pipelines, pipeline[p].pc \in OnItsOwn,
         NEW q \in serving[Env(p)]
  PROVE  Database(q) = Database(p) /\ Database(p) \in DatabaseIds
<1>1. Env(p) \in Environments /\ OwnsAll(Env(p), pipeline[p].uses)
  BY DEF DeployIInv, RunsInv, Obtains, Env, OnItsOwn, Repairs, AfterRepairs
<1>2. OwnsAll(Env(p), pipeline[q].uses)
  BY <1>1 DEF DeployIInv, WorkersInv, ServesWell
<1>3. Database(p) \in DatabaseIds
  BY <1>1, DatabasesAreFew DEF DeployIInv, OwnsAll, Database
<1> QED BY <1>1, <1>2, <1>3 DEF OwnsAll, Owns, Database, DeployIInv, CloudInv, Resources

LEMMA OwnDatabase ==
  ASSUME DeployIInv, NEW p \in Pipelines, pipeline[p].pc \in OnItsOwn
  PROVE  Database(p) \in DatabaseIds
<1>1. OwnsAll(Env(p), pipeline[p].uses)
  BY DEF DeployIInv, RunsInv, Obtains, Env, OnItsOwn, Repairs, AfterRepairs
<1> QED BY <1>1, DatabasesAreFew DEF DeployIInv, OwnsAll, Database

LEMMA FailsKeeps ==
  ASSUME DeployIInv, NEW p \in Pipelines, Fails(p) \/ Build(p) PROVE DeployIInv'
<1>1. CASE Build(p) BY <1>1, EarlyGoes DEF Build, In, RunPlace, Stages
<1>2. CASE Fails(p)
  <2>1. PICK place \in {"failed", "tell failed"} : Go(p, place) BY <1>2 DEF Fails
  <2>2. pipeline[p].pc # "idle" /\ UNCHANGED <<outside, database>>
    BY <1>2 DEF Fails, Stages, Repairs
  <2> QED BY <2>1, <2>2, EarlyGoes DEF RunPlace, Stages
<1> QED BY <1>1, <1>2

LEMMA OwnerGoesKeeps ==
  ASSUME DeployIInv, NEW p \in Pipelines,
         \/ RenderConfig(p) \/ Healthy(p) \/ CheckSections(p) \/ PluginsRepaired(p)
         \/ Warm(p) \/ CountCollections(p) \/ Smoke(p)
         \/ CheckPlugins(p) /\ 23 \in Of(p).recorded
  PROVE  DeployIInv'
<1>1. PICK o : o = pipeline[p] OBVIOUS
<1>2. Obtains(o) /\ Repaired(o) BY <1>1 DEF DeployIInv, RunsInv
<1> USE DEF OnItsOwn, Repairs, AfterRepairs, BeforeRepairs, Early
<1>3. CASE RenderConfig(p)
  <2>1. \A r : RunMoves(p, "migrate", r) => Repaired(r) BY DEF Repaired, RunMoves
  <2> QED BY <1>3, <2>1, OwnerGoes DEF RenderConfig, In, RunPlace, Stages
<1>4. CASE Healthy(p)
  <2>1. o.pass = 1 BY <1>1, <1>2, <1>4 DEF Healthy, In, Obtains
  <2>2. \A r : RunMoves(p, "sections", r) => Repaired(r)
    BY <1>1, <2>1 DEF Repaired, RunMoves
  <2> QED BY <1>4, <2>2, OwnerGoes DEF Healthy, In, RunPlace, Stages
<1>5. CASE CheckSections(p)
  <2>1. PICK place \in {"record 21", "plugins"} :
          Go(p, place) /\ (place = "record 21" => ~Of(p).category)
    BY <1>5 DEF CheckSections
  <2>2. \A r : RunMoves(p, place, r) => Repaired(r)
    BY <1>1, <1>2, <1>5, <2>1 DEF Repaired, RunMoves, CheckSections, In, Of, Database
  <2> QED BY <1>5, <2>1, <2>2, OwnerGoes DEF CheckSections, In, RunPlace, Stages
<1>6. CASE PluginsRepaired(p)
  <2>1. \A r : RunMoves(p, "record 23", r) => Repaired(r)
    BY <1>1, <1>2, <1>6 DEF Repaired, RunMoves, PluginsRepaired, In
  <2> QED BY <1>6, <2>1, OwnerGoes DEF PluginsRepaired, In, RunPlace, Stages
<1>7. CASE Warm(p)
  <2>1. PICK q \in serving[Env(p)] : {21, 23} \subseteq schema[Database(q)].recorded
    BY <1>7 DEF Warm
  <2>2. {21, 23} \subseteq schema[Database(p)].recorded
    BY <1>7, <2>1, SameDatabase DEF Warm, In
  <2>3. \A r : RunMoves(p, "sections", r) => Repaired(r)
    BY <2>2 DEF Repaired, RunMoves, Database
  <2> QED BY <1>7, <2>3, OwnerGoes DEF Warm, In, RunPlace, Stages
<1>8. CASE CountCollections(p)
  <2>1. PICK place \in {"bootstrap", "setup"} :
          Go(p, place) /\ (place = "bootstrap" => Database(p) \in content)
    BY <1>8 DEF CountCollections
  <2>2. content \subseteq configured BY DEF DeployIInv, DatabaseInv
  <2>3. \A r : RunMoves(p, place, r) => Repaired(r)
    BY <1>1, <1>2, <1>8, <2>1, <2>2
       DEF Repaired, RunMoves, CountCollections, In, Database
  <2> QED BY <1>8, <2>1, <2>3, OwnerGoes DEF CountCollections, In, RunPlace, Stages
<1>9. CASE Smoke(p)
  <2>1. \A r : RunMoves(p, "tell ready", r) => Repaired(r)
    BY <1>1, <1>2, <1>9 DEF Repaired, RunMoves, Smoke, In
  <2> QED BY <1>9, <2>1, OwnerGoes DEF Smoke, In, RunPlace, Stages
<1>10. CASE CheckPlugins(p) /\ 23 \in Of(p).recorded
  <2>1. \A r : RunMoves(p, "content columns", r) => Repaired(r)
    BY <1>1, <1>2, <1>10 DEF Repaired, RunMoves, CheckPlugins, In
  <2> QED BY <1>10, <2>1, OwnerGoes DEF CheckPlugins, In, RunPlace, Stages
<1> QED BY <1>3, <1>4, <1>5, <1>6, <1>7, <1>8, <1>9, <1>10

LEMMA BeginKeeps ==
  ASSUME DeployIInv, NEW p \in Pipelines, Begin(p) PROVE DeployIInv'
<1>1. PICK o : o = pipeline[p] OBVIOUS
<1>2. o \in DeployRun /\ Obtains(o) BY <1>1 DEF DeployIInv, RunsInv
<1>3. PICK e \in Environments, place \in {"build", "announce"} :
        pipeline' = [pipeline EXCEPT ![p].pc = place, ![p].env = e,
                                     ![p].uses = variable[e]]
  BY DEF Begin
<1> DEFINE r == [o EXCEPT !.pc = place, !.env = e, !.uses = variable[e]]
<1>4. variable[e] \in [d1 : ResourceId, kv : ResourceId] BY DEF DeployIInv, CloudInv
<1>5. r \in DeployRun /\ r.pc = place /\ r.env = e /\ r.kind = o.kind /\ r.pass = o.pass
  BY <1>2, <1>4 DEF DeployRun, RunPlace, Stages
<1>6. pipeline' = [pipeline EXCEPT ![p] = r] BY <1>1, <1>3
<1> HIDE DEF r
<1>7. o.pc = "idle" /\ UNCHANGED <<outside, database>> BY <1>1 DEF Begin, In
<1>8. Obtains(r)
  BY <1>2, <1>5, <1>7 DEF Obtains, Early, BeforeRepairs, OnItsOwn, Repairs, AfterRepairs
<1>9. Repaired(r) BY <1>5 DEF Repaired, Repairs, AfterRepairs
<1>10. pipeline[p].pc \in Early BY <1>1, <1>7 DEF Early
<1> QED BY <1>5, <1>6, <1>7, <1>8, <1>9, <1>10, RunStepKeepsAll

(* The world but for what the control plane knows                          *)
LEMMA TellingKeeps ==
  ASSUME DeployIInv, NEW p \in Pipelines, NEW place \in RunPlace, Go(p, place),
         UNCHANGED <<cloud, variable, serving, database>>,
         NEW t \in {"building", "ready", "failed"},
         reported' \in {reported, [reported EXCEPT ![p] = t]},
         \/ pipeline[p].pc = "announce" /\ place = "build" /\ t = "building"
         \/ pipeline[p].pc = "tell ready" /\ place \in {"done", "tell failed"}
         \/ pipeline[p].pc = "tell failed" /\ place = "failed" /\ t = "failed"
  PROVE  DeployIInv'
<1>1. PICK r \in DeployRun : RunMoves(p, place, r) BY RunGoes
<1>2. PICK o : o = pipeline[p] OBVIOUS
<1>3. Obtains(o) /\ Repaired(o) BY <1>2 DEF DeployIInv, RunsInv
<1>4. UNCHANGED <<cloud, variable, serving, schema, engine, configured, content>>
  BY DEF database
<1>5. CloudInv' BY <1>4 DEF DeployIInv, CloudInv
<1>6. DatabaseInv' BY <1>4 DEF DeployIInv, DatabaseInv
<1>7. Lasts BY <1>4 DEF Lasts
<1>8. CloudInv BY DEF DeployIInv
<1>9. Obtains(r)
  BY <1>1, <1>2, <1>3 DEF RunMoves, Obtains, Early, BeforeRepairs, OnItsOwn,
                          Repairs, AfterRepairs
<1>10. Repaired(r) BY <1>1, <1>2 DEF RunMoves, Repaired, Repairs, AfterRepairs
<1>11. Obtains(r)' /\ Repaired(r)' BY <1>7, <1>8, <1>9, <1>10, RunStays
<1>12. /\ serving' \in [Environments -> SUBSET Pipelines]
       /\ \A e \in Environments : \A q \in serving'[e] : q \in serving[e]
  BY <1>4 DEF DeployIInv, WorkersInv
<1>13. reported \in [Pipelines -> {"nothing", "building", "ready", "failed"}]
  BY DEF DeployIInv, WorkersInv
<1>14. reported' \in [Pipelines -> {"nothing", "building", "ready", "failed"}]
  BY <1>13
<1>15. ASSUME NEW q \in Pipelines, reported'[q] = "ready", reported[q] # "ready"
       PROVE  q = p /\ LeftWhole(r)'
  <2>1. q = p /\ t = "ready" BY <1>13, <1>15
  <2>2. o.pc = "tell ready" BY <1>2, <2>1
  <2>3. r.uses.d1 \in DatabaseIds
    BY <1>1, <1>2, <2>2, OwnDatabase
       DEF RunMoves, Database, OnItsOwn, AfterRepairs
  <2>4. LeftWhole(r)
    BY <1>1, <1>2, <1>3, <2>2, <2>3
       DEF RunMoves, Repaired, LeftWhole, Early, AfterRepairs, DeployIInv, DatabaseInv
  <2> QED BY <1>7, <1>8, <2>1, <2>4, RunStays
<1>16. \/ pipeline[p].pc \in Early
       \/ r.pc \notin Early /\ r.uses = pipeline[p].uses
  BY <1>1 DEF RunMoves, Early
<1>17. pipeline' = [pipeline EXCEPT ![p] = r] BY <1>1 DEF RunMoves
<1> QED BY <1>5, <1>6, <1>7, <1>11, <1>12, <1>14, <1>15, <1>16, <1>17, DeployStepKeeps

LEMMA ReportsKeep ==
  ASSUME DeployIInv, NEW p \in Pipelines, Announce(p) \/ TellReady(p) \/ TellFailed(p)
  PROVE  DeployIInv'
<1>1. {"build", "done", "failed", "tell failed"} \subseteq RunPlace BY DEF RunPlace, Stages
<1>2. CASE Announce(p) BY <1>1, <1>2, TellingKeeps DEF Announce, In
<1>3. CASE TellFailed(p) BY <1>1, <1>3, TellingKeeps DEF TellFailed, In
<1>4. CASE TellReady(p)
  <2>1. PICK place \in {"done", "tell failed"} :
          Go(p, place) /\ reported' \in {reported, [reported EXCEPT ![p] = "ready"]}
    BY <1>4 DEF TellReady
  <2>2. pipeline[p].pc = "tell ready" /\ UNCHANGED <<cloud, variable, serving, database>>
    BY <1>4 DEF TellReady, In
  <2> QED BY <1>1, <2>1, <2>2, TellingKeeps
<1> QED BY <1>2, <1>3, <1>4

(* The run goes on to the next kind, or has all three.                     *)
LEMMA ObtainedKeeps ==
  ASSUME DeployIInv, CloudInv', Lasts, UNCHANGED <<serving, reported, database>>,
         NEW p \in Pipelines, pipeline[p].pc \in {"list", "create"},
         NEW k \in Resources, pipeline[p].kind = k, NEW e, pipeline[p].env = e,
         NEW id \in ResourceId, Obtained(p, k, id),
         k = "r2" => Exists("r2", e)', k # "r2" => Owns(k, e, id)'
  PROVE  DeployIInv'
<1>1. PICK o : o = pipeline[p] OBVIOUS
<1>2. o \in DeployRun /\ Obtains(o) BY <1>1 DEF DeployIInv, RunsInv
<1> DEFINE place == IF k = "kv" THEN "set" ELSE "list"
           next == IF k = "kv" THEN "kv" ELSE AfterResource[k]
           d1 == IF k = "d1" THEN id ELSE o.d1
           kv == IF k = "kv" THEN id ELSE o.kv
           r == [o EXCEPT !.pc = place, !.kind = next, !.d1 = d1, !.kv = kv]
<1>3. next \in Resources BY DEF AfterResource, Resources
<1>4. place \in RunPlace BY DEF RunPlace, Stages
<1>5. d1 \in ResourceId /\ kv \in ResourceId BY <1>2 DEF DeployRun
<1>6. r \in DeployRun BY <1>2, <1>3, <1>4, <1>5 DEF DeployRun
<1>7. /\ r.pc = place /\ r.env = e /\ r.kind = next /\ r.d1 = d1 /\ r.kv = kv
      /\ r.pass = o.pass /\ r.uses = o.uses
  BY <1>1, <1>2 DEF DeployRun
<1>8. pipeline' = [pipeline EXCEPT ![p] = r]
  BY <1>1, <1>2 DEF Obtained, DeployIInv, RunsInv, DeployRun
<1> HIDE DEF r
<1>9. Obtains(o)' BY <1>2, RunStays DEF DeployIInv
<1>10. o.pc \in {"list", "create"} /\ o.env = e /\ o.kind = k /\ e \in Environments
  BY <1>1, <1>2 DEF Obtains
<1>11. /\ k # "d1" => Owns("d1", e, o.d1)'
       /\ k = "kv" => Exists("r2", e)'
  BY <1>9, <1>10 DEF Obtains
<1>12. r.pass = 1 BY <1>2, <1>7, <1>10 DEF Obtains, BeforeRepairs, Early
<1>13. k \in {"d1", "r2", "kv"} BY DEF Resources
<1>14. Obtains(r)'
  <2>1. CASE k = "d1"
    <3>1. r.pc = "list" /\ r.kind = "r2" /\ r.d1 = id
      BY <2>1, <1>7 DEF AfterResource
    <3> QED BY <2>1, <3>1, <1>7, <1>10, <1>12 DEF Obtains, OnItsOwn, Repairs, AfterRepairs
  <2>2. CASE k = "r2"
    <3>1. r.pc = "list" /\ r.kind = "kv" /\ r.d1 = o.d1
      BY <2>2, <1>7 DEF AfterResource
    <3> QED BY <2>2, <3>1, <1>7, <1>10, <1>11, <1>12
            DEF Obtains, OnItsOwn, Repairs, AfterRepairs
  <2>3. CASE k = "kv"
    <3>1. r.pc = "set" /\ r.d1 = o.d1 /\ r.kv = id BY <2>3, <1>7
    <3>2. OwnsAll(e, [d1 |-> r.d1, kv |-> r.kv])'
      BY <2>3, <3>1, <1>11 DEF OwnsAll
    <3> QED BY <2>3, <3>1, <3>2, <1>7, <1>10, <1>12
            DEF Obtains, OnItsOwn, Repairs, AfterRepairs
  <2> QED BY <1>13, <2>1, <2>2, <2>3
<1>15. Repaired(r)' BY <1>7 DEF Repaired, Repairs, AfterRepairs
<1>16. pipeline[p].pc \in Early BY DEF Early
<1>17. UNCHANGED <<serving, reported, schema, engine, configured, content>> BY DEF database
<1>18. DatabaseInv' BY <1>17 DEF DeployIInv, DatabaseInv
<1>19. /\ serving' \in [Environments -> SUBSET Pipelines]
       /\ reported' \in [Pipelines -> {"nothing", "building", "ready", "failed"}]
       /\ \A f \in Environments : \A q \in serving'[f] : q \in serving[f]
       /\ \A q \in Pipelines : reported'[q] = "ready" => reported[q] = "ready"
  BY <1>17 DEF DeployIInv, WorkersInv
<1> QED BY <1>6, <1>8, <1>14, <1>15, <1>16, <1>18, <1>19, DeployStepKeeps

LEMMA WorldAsItWas ==
  ASSUME DeployIInv, UNCHANGED <<outside, database>>
  PROVE  /\ CloudInv' /\ Lasts /\ UNCHANGED <<serving, reported, database>>
         /\ \A k, e, id : Owns(k, e, id) => Owns(k, e, id)'
         /\ \A k, e : Exists(k, e) => Exists(k, e)'
<1>1. UNCHANGED <<cloud, variable, serving, reported, schema, engine, configured, content>>
  BY DEF outside, database
<1>2. CloudInv' BY <1>1 DEF DeployIInv, CloudInv
<1>3. Lasts BY <1>1 DEF Lasts
<1>4. \A k, e, id : Owns(k, e, id) => Owns(k, e, id)' BY <1>1 DEF Owns
<1>5. \A k, e : Exists(k, e) => Exists(k, e)' BY <1>1 DEF Exists
<1> QED BY <1>1, <1>2, <1>3, <1>4, <1>5

(* Whatever the pages say of a next one, what a listing finds by its name  *)
(* is the one resource of that name.                                       *)
LEMMA ListingFinds ==
  ASSUME CloudInv, NEW k \in Resources, NEW e, NEW form, Named(k, e, form) # {}
  PROVE  \E id \in Nat : /\ Owns(k, e, id) /\ Exists(k, e)
                        /\ (CHOOSE i \in Named(k, e, form) :
                               \A j \in Named(k, e, form) : i <= j) = id
<1>1. cloud[k] \in Seq(Environments \cup {Shared}) BY DEF CloudInv
<1>2. Len(cloud[k]) \in Nat /\ DOMAIN cloud[k] = 1 .. Len(cloud[k]) BY <1>1
<1>3. Listed(form, Len(cloud[k])) \subseteq 1 .. Len(cloud[k]) BY DEF Listed, OnPage
<1>4. \A i \in Named(k, e, form) : i \in DOMAIN cloud[k] /\ cloud[k][i] = e
  BY <1>2, <1>3 DEF Named
<1>5. PICK id : id \in Named(k, e, form) OBVIOUS
<1>6. \A i, j \in Named(k, e, form) : i = j BY <1>4 DEF CloudInv
<1>7. Named(k, e, form) = {id} BY <1>5, <1>6
<1>8. id \in Nat BY <1>2, <1>4, <1>5
<1>9. (CHOOSE i \in {id} : \A j \in {id} : i <= j) = id BY <1>8
<1> QED BY <1>4, <1>5, <1>7, <1>8, <1>9 DEF Owns, Exists

LEMMA ListResourceKeeps ==
  ASSUME DeployIInv, NEW p \in Pipelines, ListResource(p) \/ BucketExists(p)
  PROVE  DeployIInv'
<1>1. PICK k, e : k = pipeline[p].kind /\ e = pipeline[p].env OBVIOUS
<1>2. k \in Resources BY <1>1 DEF DeployIInv, RunsInv, DeployRun
<1>3. UNCHANGED <<outside, database>> BY DEF ListResource, BucketExists
<1>4. CASE ListResource(p)
  <2>1. pipeline[p].pc = "list" BY <1>4 DEF ListResource, In
  <2>2. PICK form :
          IF Named(k, e, form) = {} THEN Go(p, "create")
          ELSE Obtained(p, k, CHOOSE i \in Named(k, e, form) :
                                \A j \in Named(k, e, form) : i <= j)
    BY <1>1, <1>4 DEF ListResource, Env
  <2>3. CASE Named(k, e, form) = {}
    BY <2>1, <2>2, <2>3, <1>3, EarlyGoes DEF RunPlace, Stages
  <2>4. CASE Named(k, e, form) # {}
    <3>1. PICK id \in Nat : Owns(k, e, id) /\ Exists(k, e) /\ Obtained(p, k, id)
      BY <2>2, <2>4, <1>2, ListingFinds DEF DeployIInv
    <3>2. k = "r2" => Exists("r2", e)' BY <3>1, <1>3, WorldAsItWas
    <3>3. Owns(k, e, id)' BY <3>1, <1>3, WorldAsItWas
    <3> QED BY <2>1, <3>1, <3>2, <3>3, <1>1, <1>2, <1>3, WorldAsItWas, ObtainedKeeps
            DEF ResourceId
  <2> QED BY <2>3, <2>4
<1>5. CASE BucketExists(p)
  <2>1. pipeline[p].pc = "create" /\ k = "r2" /\ Exists("r2", e) /\ Obtained(p, "r2", Unset)
    BY <1>1, <1>5 DEF BucketExists, In, Env
  <2>2. Exists("r2", e)' BY <2>1, <1>3, WorldAsItWas
  <2> QED BY <2>1, <2>2, <1>1, <1>2, <1>3, WorldAsItWas, ObtainedKeeps DEF ResourceId
<1> QED BY <1>4, <1>5

LEMMA CreateResourceKeeps ==
  ASSUME DeployIInv, NEW p \in Pipelines, CreateResource(p) PROVE DeployIInv'
<1>1. PICK k, e : k = pipeline[p].kind /\ e = pipeline[p].env OBVIOUS
<1>2. k \in Resources /\ pipeline[p].pc = "create" /\ e \in Environments
  <2>1. pipeline[p].pc = "create" BY DEF CreateResource, In
  <2> QED BY <1>1, <2>1 DEF DeployIInv, RunsInv, DeployRun, Obtains
<1>3. /\ ~Exists(k, e) /\ cloud' = [cloud EXCEPT ![k] = Append(cloud[k], e)]
      /\ Obtained(p, k, Len(cloud[k]) + 1) \/ UNCHANGED pipeline
      /\ UNCHANGED <<variable, serving, reported, schema, engine, configured, content>>
  BY <1>1 DEF CreateResource, Env, database
<1>4. CloudInv BY DEF DeployIInv
<1>5. cloud[k] \in Seq(Environments \cup {Shared}) BY <1>2, <1>4 DEF CloudInv
<1>6. PICK old, n : old = cloud[k] /\ n = Len(cloud[k]) BY <1>5
<1>7. /\ n \in Nat /\ DOMAIN old = 1..n /\ DOMAIN Append(old, e) = 1 .. n + 1
      /\ Append(old, e)[n + 1] = e /\ \A i \in 1..n : Append(old, e)[i] = old[i]
      /\ Append(old, e) \in Seq(Environments \cup {Shared})
  BY <1>2, <1>5, <1>6
<1>8. cloud'[k] = Append(old, e) /\ \A m \in Resources \ {k} : cloud'[m] = cloud[m]
  BY <1>2, <1>3, <1>4, <1>6 DEF CloudInv
<1>9. \A i \in 1..n : old[i] # e BY <1>3, <1>6, <1>7 DEF Exists
<1>10. CloudInv'
  <2>1. cloud' \in [Resources -> Seq(Environments \cup {Shared})]
    BY <1>3, <1>4, <1>6, <1>7 DEF CloudInv
  <2>2. ASSUME NEW m \in Resources, NEW i \in DOMAIN cloud'[m], NEW j \in DOMAIN cloud'[m],
               cloud'[m][i] = cloud'[m][j]
        PROVE  i = j
    <3>1. CASE m # k BY <2>2, <3>1, <1>4, <1>8 DEF CloudInv
    <3>2. CASE m = k
      <4>1. \A a, b \in 1..n : old[a] = old[b] => a = b
        BY <1>2, <1>4, <1>6, <1>7 DEF CloudInv
      <4>2. i \in 1 .. n + 1 /\ j \in 1 .. n + 1 BY <3>2, <1>7, <1>8
      <4>3. Append(old, e)[i] = Append(old, e)[j] BY <2>2, <3>2, <1>8
      <4> QED BY <4>1, <4>2, <4>3, <1>7, <1>9
    <3> QED BY <3>1, <3>2
  <2> QED BY <2>1, <2>2, <1>3, <1>4 DEF CloudInv
<1>11. Lasts
  <2>1. \A m \in Resources : \A i \in DOMAIN cloud[m] :
          i \in DOMAIN cloud'[m] /\ cloud'[m][i] = cloud[m][i]
    BY <1>6, <1>7, <1>8
  <2> QED BY <2>1, <1>3 DEF Lasts
<1>12. UNCHANGED <<serving, reported, database>> BY <1>3 DEF database
<1>13. CASE Obtained(p, k, Len(cloud[k]) + 1)
  <2>1. PICK id : id = n + 1 OBVIOUS
  <2>2. Owns(k, e, id)' BY <2>1, <1>7, <1>8 DEF Owns
  <2>3. Exists(k, e)' BY <2>1, <1>7, <1>8 DEF Exists
  <2>4. id \in ResourceId /\ Obtained(p, k, id)
    BY <2>1, <1>6, <1>7, <1>13 DEF ResourceId
  <2>5. k = "r2" => Exists("r2", e)' BY <2>3
  <2> QED BY <2>2, <2>4, <2>5, <1>1, <1>2, <1>10, <1>11, <1>12, ObtainedKeeps
<1>14. CASE UNCHANGED pipeline
  <2>1. DatabaseInv' BY <1>3 DEF DeployIInv, DatabaseInv
  <2>2. serving' \in [Environments -> SUBSET Pipelines] BY <1>3 DEF DeployIInv, WorkersInv
  <2> QED BY <2>1, <2>2, <1>3, <1>10, <1>11, <1>14, WorldStepKeeps
<1> QED BY <1>3, <1>13, <1>14

LEMMA SetVariablesKeeps ==
  ASSUME DeployIInv, NEW p \in Pipelines, SetVariables(p) PROVE DeployIInv'
<1>1. PICK o : o = pipeline[p] OBVIOUS
<1>2. o \in DeployRun /\ Obtains(o) BY <1>1 DEF DeployIInv, RunsInv
<1> DEFINE own == [d1 |-> o.d1, kv |-> o.kv]
           r == [o EXCEPT !.pc = "persist", !.uses = own]
<1>3. own \in [d1 : ResourceId, kv : ResourceId] BY <1>2 DEF DeployRun
<1>4. r \in DeployRun BY <1>2, <1>3 DEF DeployRun, RunPlace, Stages
<1>5. r.pc = "persist" /\ r.env = o.env /\ r.uses = own /\ r.pass = o.pass
  BY <1>2 DEF DeployRun
<1>6. pipeline' = [pipeline EXCEPT ![p] = r] BY <1>1 DEF SetVariables
<1>7. o.pc = "set" /\ UNCHANGED <<outside, database>> BY <1>1 DEF SetVariables, In
<1>8. OwnsAll(o.env, own) /\ o.env \in Environments /\ o.pass = 1
  BY <1>2, <1>7 DEF Obtains, BeforeRepairs, Early
<1> HIDE DEF r, own
<1>9. Obtains(r) BY <1>5, <1>8 DEF Obtains
<1>10. Repaired(r) BY <1>5 DEF Repaired, Repairs, AfterRepairs
<1>11. pipeline[p].pc \in Early BY <1>1, <1>7 DEF Early
<1> QED BY <1>4, <1>6, <1>7, <1>9, <1>10, <1>11, RunStepKeepsAll

(* A step of a run on its own resources, which its database may feel       *)
LEMMA OwnerStepKeeps ==
  ASSUME DeployIInv, UNCHANGED <<cloud, reported>>, CloudInv', DatabaseInv', Lasts,
         NEW p \in Pipelines, NEW r \in DeployRun,
         pipeline' = [pipeline EXCEPT ![p] = r],
         pipeline[p].pc \in OnItsOwn, r.pc \in OnItsOwn,
         r.env = pipeline[p].env, r.uses = pipeline[p].uses,
         r.pc \in BeforeRepairs =>
           pipeline[p].pc \in BeforeRepairs /\ r.pass = pipeline[p].pass,
         Repaired(r)',
         serving' \in [Environments -> SUBSET Pipelines],
         \A e \in Environments : \A q \in serving'[e] :
           q \in serving[e] \/ (q = p /\ e = r.env)
  PROVE  DeployIInv'
<1>1. PICK o : o = pipeline[p] OBVIOUS
<1>2. Obtains(o) /\ CloudInv BY <1>1 DEF DeployIInv, RunsInv
<1>3. Obtains(r)
  BY <1>1, <1>2 DEF Obtains, OnItsOwn, Repairs, AfterRepairs, BeforeRepairs, Early
<1>4. Obtains(r)' BY <1>2, <1>3, RunStays
<1>5. r.pc \notin Early BY DEF Early, OnItsOwn, Repairs, AfterRepairs
<1>6. ServesWell(r.env, r) BY <1>3, <1>5 DEF Obtains, ServesWell
<1>7. ServesWell(r.env, r)' BY <1>2, <1>6, RunStays
<1>8. \A e \in Environments : \A q \in serving'[e] :
        q \in serving[e] \/ (q = p /\ ServesWell(e, r)')
  <2>1. \A e : e = r.env => ServesWell(e, r)' BY <1>7
  <2> QED BY <2>1
<1>9. /\ reported' \in [Pipelines -> {"nothing", "building", "ready", "failed"}]
      /\ \A q \in Pipelines : reported'[q] = "ready" => reported[q] = "ready"
  BY DEF DeployIInv, WorkersInv
<1> QED BY <1>4, <1>5, <1>8, <1>9, DeployStepKeeps

LEMMA PersistKeeps ==
  ASSUME DeployIInv, NEW p \in Pipelines, Persist(p) PROVE DeployIInv'
<1>1. /\ pipeline[p].pc = "persist"
      /\ UNCHANGED <<cloud, serving, reported, schema, engine, configured, content>>
  BY DEF Persist, In, database
<1>2. PICK o : o = pipeline[p] OBVIOUS
<1>3. o \in DeployRun /\ Obtains(o) BY <1>2 DEF DeployIInv, RunsInv
<1>4. o.env \in Environments /\ o.uses \in [d1 : ResourceId, kv : ResourceId]
  BY <1>1, <1>2, <1>3 DEF Obtains, DeployRun
<1>5. variable \in [Environments -> [d1 : ResourceId, kv : ResourceId]]
  BY DEF DeployIInv, CloudInv
<1>6. \/ variable' = [variable EXCEPT ![o.env].d1 = o.uses.d1] /\ UNCHANGED pipeline
      \/ /\ variable' \in {variable, [variable EXCEPT ![o.env] = o.uses]}
         /\ Go(p, "render")
  BY <1>2 DEF Persist, Env, Database
<1>7. variable' \in [Environments -> [d1 : ResourceId, kv : ResourceId]]
  BY <1>4, <1>5, <1>6
<1>8. CloudInv' BY <1>1, <1>7 DEF DeployIInv, CloudInv
<1>9. DatabaseInv' BY <1>1 DEF DeployIInv, DatabaseInv
<1>10. Lasts BY <1>1 DEF Lasts
<1>11. serving' \in [Environments -> SUBSET Pipelines] BY <1>1 DEF DeployIInv, WorkersInv
<1>12. CASE UNCHANGED pipeline
  BY <1>1, <1>8, <1>9, <1>10, <1>11, <1>12, WorldStepKeeps
<1>13. CASE Go(p, "render")
  <2>1. "render" \in RunPlace BY DEF RunPlace, Stages
  <2>2. PICK r \in DeployRun : RunMoves(p, "render", r) BY <1>13, <2>1, RunGoes
  <2>3. Repaired(r)' BY <2>2 DEF RunMoves, Repaired, Repairs, AfterRepairs
  <2>4. /\ pipeline[p].pc \in OnItsOwn /\ r.pc \in OnItsOwn
        /\ pipeline[p].pc \in BeforeRepairs
    BY <1>1, <2>2 DEF RunMoves, OnItsOwn, BeforeRepairs
  <2>5. /\ pipeline' = [pipeline EXCEPT ![p] = r] /\ r.env = pipeline[p].env
        /\ r.uses = pipeline[p].uses /\ r.pass = pipeline[p].pass
    BY <2>2 DEF RunMoves
  <2> QED BY <1>1, <1>8, <1>9, <1>10, <1>11, <2>3, <2>4, <2>5, OwnerStepKeeps
<1> QED BY <1>6, <1>12, <1>13

LEMMA DeployWorkerKeeps ==
  ASSUME DeployIInv, NEW p \in Pipelines, DeployWorker(p) PROVE DeployIInv'
<1>1. /\ pipeline[p].pc = "deploy" /\ Go(p, "health")
      /\ serving' = [serving EXCEPT ![Env(p)] = @ \cup {p}]
      /\ UNCHANGED <<cloud, variable, reported, schema, engine, configured, content>>
  BY DEF DeployWorker, In, database
<1>2. CloudInv' BY <1>1 DEF DeployIInv, CloudInv
<1>3. DatabaseInv' BY <1>1 DEF DeployIInv, DatabaseInv
<1>4. Lasts BY <1>1 DEF Lasts
<1>5. "health" \in RunPlace BY DEF RunPlace, Stages
<1>6. PICK r \in DeployRun : RunMoves(p, "health", r) BY <1>1, <1>5, RunGoes
<1>7. Repaired(r)' BY <1>6 DEF RunMoves, Repaired, Repairs, AfterRepairs
<1>8. /\ pipeline[p].pc \in OnItsOwn /\ r.pc \in OnItsOwn
      /\ pipeline[p].pc \in BeforeRepairs
  BY <1>1, <1>6 DEF RunMoves, OnItsOwn, BeforeRepairs
<1>9. /\ pipeline' = [pipeline EXCEPT ![p] = r] /\ r.env = pipeline[p].env
      /\ r.uses = pipeline[p].uses /\ r.pass = pipeline[p].pass
  BY <1>6 DEF RunMoves
<1>10. serving \in [Environments -> SUBSET Pipelines] BY DEF DeployIInv, WorkersInv
<1>11. serving' \in [Environments -> SUBSET Pipelines] BY <1>1, <1>10
<1>12. \A e \in Environments : \A q \in serving'[e] :
         q \in serving[e] \/ (q = p /\ e = r.env)
  BY <1>1, <1>9, <1>10 DEF Env
<1> QED BY <1>1, <1>2, <1>3, <1>4, <1>7, <1>8, <1>9, <1>11, <1>12, OwnerStepKeeps

(* One database's tables change, and only grow.                            *)
LEMMA SchemaGrows ==
  ASSUME DeployIInv, UNCHANGED <<cloud, configured, content>>,
         NEW i \in DatabaseIds, NEW s \in Schema, schema' = [schema EXCEPT ![i] = s],
         schema[i].columns \subseteq s.columns, schema[i].recorded \subseteq s.recorded,
         ~schema[i].category => ~s.category, RecordIsTrue(s),
         engine' \in [DatabaseIds -> {"idle", "dropped", "adding"}],
         \A j \in DatabaseIds :
           engine'[j] = "dropped" => ~schema[j].category \/ (j = i /\ ~s.category)
  PROVE  DatabaseInv' /\ Lasts /\ schema'[i] = s
<1>1. schema \in [DatabaseIds -> Schema] /\ content \subseteq configured
  BY DEF DeployIInv, DatabaseInv
<1>2. /\ schema' \in [DatabaseIds -> Schema] /\ schema'[i] = s
      /\ \A j \in DatabaseIds \ {i} : schema'[j] = schema[j]
  BY <1>1
<1>3. Lasts BY <1>2 DEF Lasts
<1>4. \A j \in DatabaseIds : RecordIsTrue(schema'[j])
  BY <1>2 DEF DeployIInv, DatabaseInv
<1>5. \A j \in DatabaseIds : engine'[j] = "dropped" => ~schema'[j].category
  BY <1>2
<1> QED BY <1>1, <1>2, <1>3, <1>4, <1>5 DEF DatabaseInv

LEMMA SchemaIs ==
  ASSUME DeployIInv, NEW i \in DatabaseIds
  PROVE  /\ schema[i] \in Schema /\ RecordIsTrue(schema[i])
         /\ engine \in [DatabaseIds -> {"idle", "dropped", "adding"}]
         /\ \A j \in DatabaseIds : engine[j] = "dropped" => ~schema[j].category
  BY DEF DeployIInv, DatabaseInv

LEMMA UnchangedWorld ==
  ASSUME DeployIInv, UNCHANGED <<cloud, variable, serving>>
  PROVE  /\ CloudInv' /\ serving' \in [Environments -> SUBSET Pipelines]
         /\ \A e \in Environments : \A q \in serving'[e] : q \in serving[e]
  BY DEF DeployIInv, CloudInv, WorkersInv

(* A run's own change of its database's tables                             *)
LEMMA SchemaStepKeeps ==
  ASSUME DeployIInv, UNCHANGED <<outside, engine, configured, content>>,
         NEW p \in Pipelines, NEW r \in DeployRun, NEW i, i = Database(p),
         pipeline' = [pipeline EXCEPT ![p] = r],
         pipeline[p].pc \in OnItsOwn, r.pc \in OnItsOwn,
         r.env = pipeline[p].env, r.uses = pipeline[p].uses,
         r.pc \in BeforeRepairs =>
           pipeline[p].pc \in BeforeRepairs /\ r.pass = pipeline[p].pass,
         NEW s \in Schema, schema' = [schema EXCEPT ![i] = s],
         schema[i].columns \subseteq s.columns, schema[i].recorded \subseteq s.recorded,
         ~schema[i].category => ~s.category, RecordIsTrue(s),
         schema'[i] = s => Repaired(r)'
  PROVE  DeployIInv'
<1>1. i \in DatabaseIds BY OwnDatabase
<1>2. UNCHANGED <<cloud, variable, serving, reported, engine, configured, content>>
  BY DEF outside
<1>3. /\ engine' \in [DatabaseIds -> {"idle", "dropped", "adding"}]
      /\ \A j \in DatabaseIds : engine'[j] = "dropped" => ~schema[j].category
  BY <1>1, <1>2, SchemaIs
<1>4. DatabaseInv' /\ Lasts /\ schema'[i] = s BY <1>1, <1>2, <1>3, SchemaGrows
<1>5. Repaired(r)' BY <1>4
<1> QED BY <1>2, <1>4, <1>5, UnchangedWorld, OwnerStepKeeps

LEMMA MigrateKeeps ==
  ASSUME DeployIInv, NEW p \in Pipelines, Migrate(p) PROVE DeployIInv'
<1>1. /\ pipeline[p].pc = "migrate" /\ Go(p, "deploy")
      /\ UNCHANGED <<outside, engine, configured, content>>
  BY DEF Migrate, In
<1>2. pipeline[p].pc \in OnItsOwn /\ pipeline[p].pc \in BeforeRepairs
  BY <1>1 DEF OnItsOwn, BeforeRepairs
<1>3. PICK i \in DatabaseIds : i = Database(p) BY <1>2, OwnDatabase
<1>4. PICK s : s = IF schema[i] = NoSchema THEN Migrated ELSE schema[i] OBVIOUS
<1>5. schema' = [schema EXCEPT ![i] = s] BY <1>3, <1>4 DEF Migrate
<1>6. /\ Migrated \in Schema /\ RecordIsTrue(Migrated) /\ ~Migrated.category
      /\ NoSchema.columns = {} /\ NoSchema.recorded = {}
  BY DEF Migrated, NoSchema, Schema, RecordIsTrue
<1>7. s \in Schema /\ RecordIsTrue(s) BY <1>4, <1>6, SchemaIs
<1>8. /\ schema[i].columns \subseteq s.columns /\ schema[i].recorded \subseteq s.recorded
      /\ ~schema[i].category => ~s.category
  <2>1. CASE schema[i] = NoSchema
    <3>1. schema[i].columns = {} /\ schema[i].recorded = {} BY <2>1, <1>6
    <3> QED BY <2>1, <3>1, <1>4, <1>6
  <2>2. CASE schema[i] # NoSchema BY <2>2, <1>4
  <2> QED BY <2>1, <2>2
<1>9. "deploy" \in RunPlace BY DEF RunPlace, Stages
<1>10. PICK r \in DeployRun : RunMoves(p, "deploy", r) BY <1>1, <1>9, RunGoes
<1>11. Repaired(r)' BY <1>10 DEF RunMoves, Repaired, Repairs, AfterRepairs
<1>12. r.pc \in OnItsOwn BY <1>10 DEF RunMoves, OnItsOwn
<1> QED BY <1>1, <1>2, <1>3, <1>5, <1>7, <1>8, <1>10, <1>11, <1>12, SchemaStepKeeps
        DEF RunMoves

(* A record is written when what it says was seen.                         *)
Records(p, n, place) ==
  /\ n = 21 => pipeline[p].pc = "record 21" /\ place = "plugins"
  /\ n = 23 => pipeline[p].pc = "record 23" /\ place = "content columns"
  /\ Record(p, n, place)

LEMMA RecordKeeps ==
  ASSUME DeployIInv, NEW p \in Pipelines, NEW n \in {21, 23}, NEW place,
         Records(p, n, place)
  PROVE  DeployIInv'
<1>1. pipeline[p].pc \in OnItsOwn BY DEF Records, OnItsOwn, Repairs
<1>2. PICK i \in DatabaseIds : i = Database(p) BY <1>1, OwnDatabase
<1>3. PICK o : o = pipeline[p] OBVIOUS
<1>4. Repaired(o) /\ o.uses.d1 = i BY <1>2, <1>3 DEF DeployIInv, RunsInv, Database
<1> DEFINE s == [schema[i] EXCEPT !.recorded = @ \cup {n}]
<1>5. schema' = [schema EXCEPT ![i] = s] BY <1>2 DEF Records, Record
<1>6. /\ s \in Schema /\ s.columns = schema[i].columns
      /\ s.recorded = schema[i].recorded \cup {n} /\ s.category = schema[i].category
  BY SchemaIs DEF Records, Schema
<1> HIDE DEF s
<1>7. n = 21 => ~schema[i].category BY <1>3, <1>4 DEF Records, Repaired
<1>8. n = 23 => PluginColumns \subseteq schema[i].columns
  <2>1. n = 23 => pipeline[p].pc = "record 23" BY DEF Records
  <2> QED BY <2>1, <1>3, <1>4 DEF Repaired
<1>9. RecordIsTrue(s) BY <1>6, <1>7, <1>8, SchemaIs DEF Records, RecordIsTrue
<1>10. place \in RunPlace /\ Go(p, place) BY DEF Records, RunPlace, Stages, Repairs, Record
<1>11. PICK r \in DeployRun : RunMoves(p, place, r) BY <1>10, RunGoes
<1>12. r.pc \in {"plugins", "content columns"} /\ r.uses.d1 = i /\ r.pass = o.pass
  BY <1>3, <1>4, <1>11 DEF Records, RunMoves
<1>13. o.pass = 2 => {21, 23} \subseteq schema[i].recorded
  BY <1>3, <1>4 DEF Records, Repaired, Repairs
<1>14. schema'[i] = s => Repaired(r)'
  BY <1>6, <1>12, <1>13 DEF Repaired, AfterRepairs
<1>15. r.pc \in OnItsOwn /\ r.pc \notin BeforeRepairs
  BY <1>12 DEF OnItsOwn, Repairs, BeforeRepairs, Early
<1>16. UNCHANGED <<outside, engine, configured, content>> BY DEF Records, Record
<1> QED BY <1>1, <1>2, <1>5, <1>6, <1>9, <1>11, <1>14, <1>15, <1>16, SchemaStepKeeps
        DEF RunMoves

LEMMA RecordsKeep ==
  ASSUME DeployIInv, NEW p \in Pipelines, RecordSections(p) \/ RecordPlugins(p)
  PROVE  DeployIInv'
<1>0. 21 # 23 OBVIOUS
<1>1. CASE RecordSections(p)
  <2>1. Records(p, 21, "plugins") BY <1>0, <1>1 DEF RecordSections, In, Records
  <2> QED BY <2>1, RecordKeeps
<1>2. CASE RecordPlugins(p)
  <2>1. Records(p, 23, "content columns") BY <1>0, <1>2 DEF RecordPlugins, In, Records
  <2> QED BY <2>1, RecordKeeps
<1> QED BY <1>1, <1>2

LEMMA AddColumnKeeps ==
  ASSUME DeployIInv, NEW p \in Pipelines, NEW c \in PluginColumns \cup ContentColumns,
         AddColumn(p, c)
  PROVE  DeployIInv'
<1>1. /\ pipeline[p].pc \in {"add plugin columns", "add content columns"}
      /\ UNCHANGED <<outside, engine, configured, content>>
  BY DEF AddColumn
<1>2. pipeline[p].pc \in OnItsOwn BY <1>1 DEF OnItsOwn, Repairs
<1>3. PICK i \in DatabaseIds : i = Database(p) BY <1>2, OwnDatabase
<1>4. PICK o : o = pipeline[p] OBVIOUS
<1>5. o \in DeployRun /\ Repaired(o) /\ o.uses.d1 = i
  BY <1>3, <1>4 DEF DeployIInv, RunsInv, Database
<1> DEFINE s == [schema[i] EXCEPT !.columns = @ \cup {c}]
           r == [o EXCEPT !.missing = @ \ {c}]
<1>6. schema' = [schema EXCEPT ![i] = s] BY <1>3 DEF AddColumn
<1>7. /\ s \in Schema /\ s.columns = schema[i].columns \cup {c}
      /\ s.recorded = schema[i].recorded /\ s.category = schema[i].category
  BY SchemaIs DEF Schema
<1>8. RecordIsTrue(s) BY <1>7, SchemaIs DEF RecordIsTrue
<1>9. /\ r \in DeployRun /\ r.pc = o.pc /\ r.env = o.env /\ r.uses = o.uses
      /\ r.pass = o.pass /\ r.missing = o.missing \ {c}
  BY <1>5 DEF DeployRun
<1>10. pipeline' = [pipeline EXCEPT ![p] = r] BY <1>4 DEF AddColumn
<1> HIDE DEF s, r
<1>11. schema'[i] = s => Repaired(r)'
  BY ZenonT(60), <1>1, <1>4, <1>5, <1>7, <1>9 DEF Repaired, Repairs, AfterRepairs
<1>12. r.pc \in OnItsOwn /\ r.pc \notin BeforeRepairs
  BY <1>1, <1>4, <1>9 DEF OnItsOwn, Repairs, BeforeRepairs, Early
<1> QED BY <1>1, <1>2, <1>3, <1>4, <1>6, <1>7, <1>8, <1>9, <1>10, <1>11, <1>12,
           SchemaStepKeeps

(* What a run looked up, it knows.                                         *)
Looks(p, columns, place) ==
  /\ pipeline[p].pc \in {"plugins", "content columns"}
  /\ \/ place = "add plugin columns" /\ columns = PluginColumns
     \/ place = "add content columns" /\ columns = ContentColumns
  /\ Look(p, columns, place)

LEMMA LookKeeps ==
  ASSUME DeployIInv, NEW p \in Pipelines, UNCHANGED <<outside, database>>,
         NEW columns, NEW place, Looks(p, columns, place)
  PROVE  DeployIInv'
<1>1. PICK o : o = pipeline[p] OBVIOUS
<1>2. o \in DeployRun /\ Obtains(o) /\ Repaired(o) BY <1>1 DEF DeployIInv, RunsInv
<1> DEFINE lacks == columns \ Of(p).columns
           r == [o EXCEPT !.missing = lacks, !.pc = place]
<1>3. lacks \in SUBSET (PluginColumns \cup ContentColumns) BY DEF Looks
<1>4. place \in RunPlace BY DEF Looks, RunPlace, Stages, Repairs
<1>5. /\ r \in DeployRun /\ r.pc = place /\ r.env = o.env /\ r.uses = o.uses
      /\ r.pass = o.pass /\ r.missing = lacks
  BY <1>2, <1>3, <1>4 DEF DeployRun
<1>6. pipeline' = [pipeline EXCEPT ![p] = r] BY <1>1 DEF Looks, Look
<1>7. lacks = columns \ schema[r.uses.d1].columns BY <1>1, <1>5 DEF Of, Database
<1> HIDE DEF r, lacks
<1>8. r.pc \in OnItsOwn /\ r.pc \notin BeforeRepairs /\ o.pc \in OnItsOwn
      /\ r.pc \in Repairs /\ o.pc \in Repairs /\ r.pc \notin Early /\ o.pc # "idle"
  BY <1>1, <1>5 DEF Looks, OnItsOwn, Repairs, BeforeRepairs, Early
<1>9. Obtains(r)
  BY <1>2, <1>5, <1>8 DEF Obtains, Early, BeforeRepairs
<1>10. r.pass = 2 => {21, 23} \subseteq schema[r.uses.d1].recorded
  BY <1>2, <1>5, <1>8 DEF Repaired
<1>11. Repaired(r) BY <1>5, <1>7, <1>10 DEF Looks, Repaired, AfterRepairs
<1>12. r.pc \notin Early /\ r.uses = pipeline[p].uses BY <1>1, <1>5, <1>8
<1> QED BY <1>5, <1>6, <1>9, <1>11, <1>12, RunStepKeepsAll

LEMMA LooksKeep ==
  ASSUME DeployIInv, NEW p \in Pipelines, CheckPlugins(p) \/ CheckContent(p)
  PROVE  DeployIInv'
<1>1. UNCHANGED <<outside, database>> BY DEF CheckPlugins, CheckContent
<1>2. CASE CheckPlugins(p) /\ 23 \in Of(p).recorded BY <1>2, OwnerGoesKeeps
<1>3. CASE CheckPlugins(p) /\ 23 \notin Of(p).recorded
  <2>1. Looks(p, PluginColumns, "add plugin columns")
    BY <1>3 DEF CheckPlugins, In, Looks
  <2> QED BY <1>1, <2>1, LookKeeps
<1>4. CASE CheckContent(p)
  <2>1. Looks(p, ContentColumns, "add content columns")
    BY <1>4 DEF CheckContent, In, Looks
  <2> QED BY <1>1, <2>1, LookKeeps
<1> QED BY <1>2, <1>3, <1>4

(* The second pass ends with every repair made.                            *)
LEMMA ContentRepairedKeeps ==
  ASSUME DeployIInv, NEW p \in Pipelines, ContentRepaired(p) PROVE DeployIInv'
<1>1. PICK o : o = pipeline[p] OBVIOUS
<1>2. o \in DeployRun /\ Obtains(o) /\ Repaired(o) BY <1>1 DEF DeployIInv, RunsInv
<1>3. /\ o.pc = "add content columns" /\ o.missing = {}
      /\ UNCHANGED <<outside, database>>
  BY <1>1 DEF ContentRepaired, In
<1>4. PICK place : place = IF o.pass = 1 THEN "warm" ELSE "count" OBVIOUS
<1> DEFINE r == [o EXCEPT !.pc = place, !.pass = 2]
<1>5. place \in RunPlace BY <1>4 DEF RunPlace, Stages
<1>6. /\ r \in DeployRun /\ r.pc = place /\ r.env = o.env /\ r.uses = o.uses
  BY <1>2, <1>5 DEF DeployRun
<1>7. pipeline' = [pipeline EXCEPT ![p] = r] BY <1>1, <1>4 DEF ContentRepaired
<1> HIDE DEF r
<1>8. /\ r.pc \in OnItsOwn /\ r.pc \notin BeforeRepairs /\ o.pc \in OnItsOwn
      /\ r.pc \notin Early /\ o.pc # "idle"
  BY <1>3, <1>4, <1>6 DEF OnItsOwn, Repairs, BeforeRepairs, AfterRepairs, Early
<1>9. Obtains(r) BY <1>2, <1>6, <1>8 DEF Obtains, Early, BeforeRepairs
<1>10. ContentColumns \subseteq schema[o.uses.d1].columns
  BY <1>2, <1>3 DEF Repaired
<1>11. o.pass \in {1, 2} BY <1>2 DEF DeployRun
<1>12. o.pass = 2 => {21, 23} \subseteq schema[o.uses.d1].recorded
  BY <1>2, <1>3 DEF Repaired, Repairs
<1>13. Repaired(r)
  BY <1>4, <1>6, <1>10, <1>11, <1>12 DEF Repaired, Repairs, AfterRepairs
<1>14. r.pc \notin Early /\ r.uses = pipeline[p].uses BY <1>1, <1>6, <1>8
<1> QED BY <1>3, <1>6, <1>7, <1>9, <1>13, <1>14, RunStepKeepsAll

LEMMA SetupKeeps ==
  ASSUME DeployIInv, NEW p \in Pipelines, Setup(p) PROVE DeployIInv'
<1>1. /\ pipeline[p].pc = "setup" /\ Go(p, "bootstrap")
      /\ UNCHANGED <<cloud, variable, serving, reported, schema, engine, content>>
  BY DEF Setup, In, outside
<1>2. pipeline[p].pc \in OnItsOwn BY <1>1 DEF OnItsOwn, AfterRepairs
<1>3. PICK q \in serving[Env(p)] : configured' = configured \cup {Database(q)}
  BY DEF Setup
<1>4. configured' = configured \cup {Database(p)} BY <1>2, <1>3, SameDatabase
<1>5. DatabaseInv' BY <1>1, <1>4 DEF DeployIInv, DatabaseInv
<1>6. Lasts BY <1>1, <1>4 DEF Lasts
<1>7. "bootstrap" \in RunPlace BY DEF RunPlace, Stages
<1>8. PICK r \in DeployRun : RunMoves(p, "bootstrap", r) BY <1>1, <1>7, RunGoes
<1>9. PICK o : o = pipeline[p] OBVIOUS
<1>10. Repaired(o) BY <1>9 DEF DeployIInv, RunsInv
<1>11. r.pc = "bootstrap" /\ r.uses.d1 = o.uses.d1 /\ o.uses.d1 \in configured'
  BY <1>4, <1>8, <1>9 DEF RunMoves, Database
<1>12. Repaired(r)'
  BY <1>1, <1>9, <1>10, <1>11 DEF Repaired, Repairs, AfterRepairs
<1>13. r.pc \in OnItsOwn /\ r.pc \notin BeforeRepairs
  BY <1>11 DEF OnItsOwn, AfterRepairs, BeforeRepairs, Early
<1> QED BY <1>1, <1>2, <1>5, <1>6, <1>8, <1>12, <1>13, UnchangedWorld, OwnerStepKeeps
        DEF RunMoves

LEMMA BootstrapContentKeeps ==
  ASSUME DeployIInv, NEW p \in Pipelines, BootstrapContent(p) PROVE DeployIInv'
<1>1. /\ pipeline[p].pc = "bootstrap" /\ Go(p, "smoke")
      /\ UNCHANGED <<cloud, variable, serving, reported, schema, engine, configured>>
  BY DEF BootstrapContent, In, outside
<1>2. pipeline[p].pc \in OnItsOwn BY <1>1 DEF OnItsOwn, AfterRepairs
<1>3. PICK q \in Expected(p) : content' = content \cup {Database(q)}
  BY DEF BootstrapContent
<1>4. q \in serving[Env(p)] BY DEF Expected
<1>5. content' = content \cup {Database(p)} BY <1>2, <1>3, <1>4, SameDatabase
<1>6. PICK o : o = pipeline[p] OBVIOUS
<1>7. Repaired(o) /\ o.uses.d1 = Database(p)
  BY <1>6 DEF DeployIInv, RunsInv, Database
<1>8. Database(p) \in configured BY <1>1, <1>6, <1>7 DEF Repaired
<1>9. DatabaseInv' BY <1>1, <1>8, <1>5 DEF DeployIInv, DatabaseInv
<1>10. Lasts BY <1>1, <1>5 DEF Lasts
<1>11. "smoke" \in RunPlace BY DEF RunPlace, Stages
<1>12. PICK r \in DeployRun : RunMoves(p, "smoke", r) BY <1>1, <1>11, RunGoes
<1>13. /\ r.pc = "smoke" /\ r.uses.d1 = o.uses.d1
       /\ o.uses.d1 \in configured /\ o.uses.d1 \in content'
  BY <1>1, <1>5, <1>6, <1>7, <1>8, <1>12 DEF RunMoves
<1>14. Repaired(r)'
  BY <1>1, <1>6, <1>7, <1>13 DEF Repaired, Repairs, AfterRepairs
<1>15. r.pc \in OnItsOwn /\ r.pc \notin BeforeRepairs
  BY <1>13 DEF OnItsOwn, AfterRepairs, BeforeRepairs, Early
<1> QED BY <1>1, <1>2, <1>9, <1>10, <1>12, <1>14, <1>15, UnchangedWorld, OwnerStepKeeps
        DEF RunMoves

LEMMA RolloutEndsKeeps ==
  ASSUME DeployIInv, NEW f \in Environments, RolloutEnds(f) PROVE DeployIInv'
<1>1. UNCHANGED <<cloud, variable, reported, pipeline, schema, engine, configured, content>>
  BY DEF RolloutEnds, database
<1>2. CloudInv' BY <1>1 DEF DeployIInv, CloudInv
<1>3. DatabaseInv' BY <1>1 DEF DeployIInv, DatabaseInv
<1>4. Lasts BY <1>1 DEF Lasts
<1>5. serving \in [Environments -> SUBSET Pipelines] BY DEF DeployIInv, WorkersInv
<1>6. PICK p \in serving[f] : serving' = [serving EXCEPT ![f] = {p}]
  BY DEF RolloutEnds
<1>7. /\ serving' \in [Environments -> SUBSET Pipelines]
      /\ \A e \in Environments : serving'[e] \subseteq serving[e]
  BY <1>5, <1>6
<1> QED BY <1>1, <1>2, <1>3, <1>4, <1>7, WorldStepKeeps

(* A statement of the migrator leaves one database's tables at t.          *)
MigratorMoves(i, t, at) ==
  /\ schema' = [schema EXCEPT ![i] = t] /\ engine' = [engine EXCEPT ![i] = at]
  /\ schema[i].columns \subseteq t.columns /\ schema[i].recorded \subseteq t.recorded
  /\ ~schema[i].category => ~t.category
  /\ RecordIsTrue(t)
  /\ at = "dropped" => ~t.category

LEMMA MigratorMovesKeeps ==
  ASSUME DeployIInv, UNCHANGED <<outside, pipeline, configured, content>>,
         NEW i \in DatabaseIds, NEW t \in Schema, NEW at \in {"idle", "dropped", "adding"},
         MigratorMoves(i, t, at)
  PROVE  DeployIInv'
<1>1. UNCHANGED <<cloud, variable, serving, reported, pipeline, configured, content>>
  BY DEF outside
<1>2. /\ engine \in [DatabaseIds -> {"idle", "dropped", "adding"}]
      /\ \A j \in DatabaseIds : engine[j] = "dropped" => ~schema[j].category
  BY SchemaIs
<1>3. /\ engine' \in [DatabaseIds -> {"idle", "dropped", "adding"}]
      /\ \A j \in DatabaseIds :
           engine'[j] = "dropped" => ~schema[j].category \/ (j = i /\ ~t.category)
  BY <1>2 DEF MigratorMoves
<1>4. DatabaseInv' /\ Lasts BY <1>1, <1>3, SchemaGrows DEF MigratorMoves
<1> QED BY <1>1, <1>4, UnchangedWorld, WorldStepKeeps

LEMMA MigratorKeeps ==
  ASSUME DeployIInv, NEW i \in DatabaseIds, Migrator(i) \/ MigratorStops(i)
  PROVE  DeployIInv'
<1>1. UNCHANGED <<outside, pipeline, configured, content>>
  BY DEF Migrator, MigratorStops
<1>2. PICK s : s = schema[i] OBVIOUS
<1>3. /\ s \in Schema /\ RecordIsTrue(s)
      /\ engine[i] = "dropped" => ~s.category
  BY <1>2, SchemaIs
<1>4. schema \in [DatabaseIds -> Schema] BY DEF DeployIInv, DatabaseInv
<1>5. CASE MigratorStops(i)
  <2>1. schema' = [schema EXCEPT ![i] = s] BY <1>2, <1>4, <1>5 DEF MigratorStops
  <2>2. MigratorMoves(i, s, "idle")
    BY <1>2, <1>3, <1>5, <2>1 DEF MigratorStops, MigratorMoves
  <2> QED BY <2>2, <1>1, <1>3, MigratorMovesKeeps
<1>6. CASE Migrator(i)
  <2> DEFINE dropped == [s EXCEPT !.category = FALSE]
             sections == [s EXCEPT !.recorded = @ \cup {21}]
             wider(c) == [s EXCEPT !.columns = @ \cup {c}]
             whole == [s EXCEPT !.recorded = @ \cup {23}]
  <2>1. CASE /\ 21 \notin s.recorded /\ s.category /\ Move(i, "idle", "dropped")
             /\ schema' = [schema EXCEPT ![i].category = FALSE]
    <3>1. dropped \in Schema /\ MigratorMoves(i, dropped, "dropped")
      BY <1>2, <1>3, <2>1 DEF Schema, RecordIsTrue, MigratorMoves, Move
    <3> QED BY <3>1, <1>1, MigratorMovesKeeps
  <2>2. CASE Move(i, "dropped", "idle") /\ Recorded(i, 21)
    <3>1. ~s.category BY <1>3, <2>2 DEF Move
    <3>2. sections \in Schema /\ MigratorMoves(i, sections, "idle")
      BY <1>2, <1>3, <2>2, <3>1 DEF Schema, RecordIsTrue, MigratorMoves, Move, Recorded
    <3> QED BY <3>2, <1>1, MigratorMovesKeeps
  <2>3. ASSUME NEW c \in PluginColumns, 23 \notin s.recorded,
               engine' = [engine EXCEPT ![i] = "adding"],
               schema' = [schema EXCEPT ![i].columns = @ \cup {c}]
        PROVE  DeployIInv'
    <3>1. wider(c) \in Schema /\ MigratorMoves(i, wider(c), "adding")
      BY <1>2, <1>3, <2>3 DEF Schema, RecordIsTrue, MigratorMoves
    <3> QED BY <3>1, <1>1, MigratorMovesKeeps
  <2>4. CASE /\ PluginColumns \subseteq s.columns
             /\ Move(i, "adding", "idle") /\ Recorded(i, 23)
    <3>1. whole \in Schema /\ MigratorMoves(i, whole, "idle")
      BY <1>2, <1>3, <2>4 DEF Schema, RecordIsTrue, MigratorMoves, Move, Recorded
    <3> QED BY <3>1, <1>1, MigratorMovesKeeps
  <2> QED BY <1>2, <1>6, <2>1, <2>2, <2>3, <2>4 DEF Migrator
<1> QED BY <1>5, <1>6

LEMMA DeployKept ==
  ASSUME DeployIInv, DeployNext \/ UNCHANGED deployVars PROVE DeployIInv'
<1>1. CASE UNCHANGED deployVars
  <2>1. UNCHANGED <<cloud, variable, schema, engine, configured, content, serving,
                    pipeline, reported>>
    BY <1>1 DEF deployVars
  <2>2. CloudInv' BY <2>1 DEF DeployIInv, CloudInv
  <2>3. DatabaseInv' BY <2>1 DEF DeployIInv, DatabaseInv
  <2>4. Lasts BY <2>1 DEF Lasts
  <2>5. serving' \in [Environments -> SUBSET Pipelines] BY <2>1 DEF DeployIInv, WorkersInv
  <2> QED BY <2>1, <2>2, <2>3, <2>4, <2>5, WorldStepKeeps
<1>2. ASSUME NEW p \in Pipelines,
             \/ Begin(p) \/ Announce(p) \/ TellReady(p) \/ TellFailed(p) \/ Fails(p)
             \/ Build(p) \/ ListResource(p) \/ CreateResource(p) \/ BucketExists(p)
             \/ SetVariables(p) \/ Persist(p) \/ RenderConfig(p) \/ Migrate(p)
             \/ DeployWorker(p) \/ Healthy(p) \/ CheckSections(p) \/ RecordSections(p)
             \/ CheckPlugins(p) \/ PluginsRepaired(p) \/ RecordPlugins(p)
             \/ CheckContent(p) \/ ContentRepaired(p) \/ Warm(p) \/ CountCollections(p)
             \/ Setup(p) \/ BootstrapContent(p) \/ Smoke(p)
             \/ \E c \in PluginColumns \cup ContentColumns : AddColumn(p, c)
      PROVE  DeployIInv'
  BY <1>2, FailsKeeps, OwnerGoesKeeps, BeginKeeps, ReportsKeep, ListResourceKeeps,
     CreateResourceKeeps, SetVariablesKeeps, PersistKeeps, DeployWorkerKeeps,
     MigrateKeeps, RecordsKeep, AddColumnKeeps, LooksKeep, ContentRepairedKeeps,
     SetupKeeps, BootstrapContentKeeps
<1> QED BY <1>1, <1>2, RolloutEndsKeeps, MigratorKeeps DEF DeployNext

LEMMA DeployInitially ==
  ASSUME DeployInit PROVE DeployIInv
<1>1. PICK old \in SUBSET Environments, made \in OldSchemas, fresh \in BOOLEAN :
        /\ Cardinality(old) <= 1
        /\ LET names == <<Shared>> \o (IF old = {} THEN <<>>
                                       ELSE <<CHOOSE e \in Environments : e \in old>>)
           IN cloud = [k \in Resources |-> names]
        /\ variable = [e \in Environments |-> [d1 |-> 1, kv |-> 1]]
        /\ schema = [i \in DatabaseIds |-> CASE i = 1 -> Migrated
                                             [] i = 2 /\ old # {} -> made
                                             [] OTHER -> NoSchema]
        /\ configured = {1} \cup (IF old = {} THEN {} ELSE {2})
        /\ content = configured
        /\ engine = [i \in DatabaseIds |-> "idle"]
        /\ serving = [e \in Environments |-> {}]
        /\ pipeline = [p \in Pipelines |-> [NotBegun EXCEPT !.template = fresh]]
        /\ reported = [p \in Pipelines |-> "nothing"]
  BY DEF DeployInit
<1>2. CloudInv
  <2>1. PICK names \in Seq(Environments \cup {Shared}) :
          /\ cloud = [k \in Resources |-> names]
          /\ \A i, j \in DOMAIN names : names[i] = names[j] => i = j
    <3>1. CASE old = {}
      <4>1. <<Shared>> \o (IF old = {} THEN <<>>
                           ELSE <<CHOOSE e \in Environments : e \in old>>) = <<Shared>>
        BY <3>1
      <4>2. PICK names : names = <<Shared>> OBVIOUS
      <4>3. names \in Seq(Environments \cup {Shared}) /\ DOMAIN names = {1} BY <4>2
      <4>4. cloud = [k \in Resources |-> names] BY <1>1, <4>1, <4>2
      <4> QED BY <4>3, <4>4
    <3>2. CASE old # {}
      <4>1. PICK f \in Environments : f = CHOOSE e \in Environments : e \in old BY <3>2
      <4>2. (IF old = {} THEN <<>> ELSE <<CHOOSE e \in Environments : e \in old>>) = <<f>>
        BY <3>2, <4>1
      <4>3. PICK names : names = <<Shared>> \o <<f>> OBVIOUS
      <4>4. cloud = [k \in Resources |-> names] BY <1>1, <4>2, <4>3
      <4>5. PICK s, t : s = <<Shared>> /\ t = <<f>> OBVIOUS
      <4>6. /\ s \in Seq(Environments \cup {Shared}) /\ Len(s) = 1 /\ s[1] = Shared
            /\ t \in Seq(Environments \cup {Shared}) /\ Len(t) = 1 /\ t[1] = f
        BY <4>5
      <4>7. names = s \o t BY <4>3, <4>5
      <4>8. /\ names \in Seq(Environments \cup {Shared}) /\ Len(names) = 2
            /\ DOMAIN names = 1..2 /\ names[1] = Shared /\ names[2] = f
        <5>1. /\ s \o t \in Seq(Environments \cup {Shared})
              /\ Len(s \o t) = Len(s) + Len(t)
              /\ \A i \in 1 .. Len(s) + Len(t) :
                   (s \o t)[i] = IF i <= Len(s) THEN s[i] ELSE t[i - Len(s)]
          BY <4>6, ConcatProperties
        <5> QED BY <5>1, <4>6, <4>7
      <4>9. \A i, j \in DOMAIN names : names[i] = names[j] => i = j
        BY <4>8, DeploymentInputs
      <4> QED BY <4>4, <4>8, <4>9
    <3> QED BY <3>1, <3>2
  <2> QED BY <1>1, <2>1 DEF CloudInv, ResourceId
<1>3. DatabaseInv
  <2>1. /\ Migrated \in Schema /\ RecordIsTrue(Migrated)
        /\ NoSchema \in Schema /\ RecordIsTrue(NoSchema)
    BY DEF Migrated, NoSchema, Schema, RecordIsTrue
  <2>2. made \in Schema /\ RecordIsTrue(made) BY DeploymentInputs DEF RecordIsTrue
  <2>3. ASSUME NEW i \in DatabaseIds PROVE schema[i] \in Schema /\ RecordIsTrue(schema[i])
    <3>1. schema[i] \in {Migrated, made, NoSchema} BY <1>1
    <3> QED BY <2>1, <2>2, <3>1
  <2>4. schema \in [DatabaseIds -> Schema] BY <1>1, <2>3
  <2> QED BY <1>1, <2>3, <2>4 DEF DatabaseInv
<1>4. RunsInv
  <2> DEFINE r == [NotBegun EXCEPT !.template = fresh]
  <2>1. r \in DeployRun /\ r.pc = "idle" /\ r.kind = "d1" /\ r.pass = 1
    BY DEF NotBegun, DeployRun, RunPlace, Resources, ResourceId
  <2>2. \A p \in Pipelines : pipeline[p] = r BY <1>1
  <2>3. pipeline \in [Pipelines -> DeployRun] BY <1>1, <2>1
  <2> HIDE DEF r
  <2>4. Obtains(r) BY <2>1 DEF Obtains, OnItsOwn, Repairs, AfterRepairs
  <2>5. Repaired(r) BY <2>1 DEF Repaired, Repairs, AfterRepairs
  <2>6. \A p \in Pipelines : Obtains(pipeline[p]) /\ Repaired(pipeline[p])
    BY <2>2, <2>4, <2>5
  <2> QED BY <2>3, <2>6 DEF RunsInv
<1>5. WorkersInv BY <1>1 DEF WorkersInv
<1> QED BY <1>2, <1>3, <1>4, <1>5 DEF DeployIInv

LEMMA DeployAnswers ==
  ASSUME DeployIInv PROVE DeployTypeOK /\ ReadyIsWhole
<1>1. \A k \in Resources : \A i \in DOMAIN cloud[k] :
        cloud[k][i] \in Environments \cup {Shared}
  <2> SUFFICES ASSUME NEW k \in Resources, NEW i \in DOMAIN cloud[k]
               PROVE  cloud[k][i] \in Environments \cup {Shared}
    OBVIOUS
  <2>1. cloud[k] \in Seq(Environments \cup {Shared}) BY DEF DeployIInv, CloudInv
  <2> QED BY <2>1
<1>2. \A p \in Pipelines : pipeline[p].pc \in Stages \cup {"idle", "done", "failed"}
  BY DEF DeployIInv, RunsInv, DeployRun, RunPlace
<1>3. DeployTypeOK BY <1>1, <1>2 DEF DeployTypeOK, DeployIInv, WorkersInv
<1>4. ASSUME NEW e \in Environments, NEW p \in serving[e] PROVE Isolated(e, p)
  <2>1. ServesWell(e, pipeline[p]) BY DEF DeployIInv, WorkersInv
  <2> QED BY <2>1 DEF ServesWell, OwnsAll, Owns, Isolated, Database
<1>5. \A i \in DatabaseIds : RecordIsTrue(schema[i]) BY DEF DeployIInv, DatabaseInv
<1>6. \A p \in Pipelines : reported[p] = "ready" =>
        /\ {21, 23} \subseteq Of(p).recorded
        /\ ContentColumns \subseteq Of(p).columns
        /\ Database(p) \in configured \cap content
  BY DEF DeployIInv, WorkersInv, LeftWhole, Of, Database
<1> QED BY <1>3, <1>4, <1>5, <1>6 DEF ReadyIsWhole

-----------------------------------------------------------------------------
(* The services together                                                   *)

ServicesIInv ==
  /\ service \in Service
  /\ IInv /\ ConfigIInv /\ LeadIInv /\ EmailIInv /\ AuthIInv /\ ArtifactIInv
  /\ DeployIInv

LEMMA ServicesInitially == ServicesInit => ServicesIInv
  BY Initially, ConfigInitially, LeadInitially, EmailInitially, AuthInitially,
     ArtifactInitially, DeployInitially
     DEF ServicesInit, ServicesIInv

(* A step of ServicesNext is one of one service, for the others none.      *)
LEMMA StepsApart ==
  [ServicesNext]_serviceVars =>
    /\ UNCHANGED service /\ [DeployNext]_deployVars
    /\ [Next]_vars /\ [ConfigNext]_configVars /\ [LeadNext]_leadVars
    /\ [EmailNext]_emailVars /\ [AuthNext]_authVars /\ [ArtifactNext]_artifactVars
  BY DEF ServicesNext, serviceVars, storeVars, siteVars

LEMMA ServicesKept == ServicesIInv /\ [ServicesNext]_serviceVars => ServicesIInv'
  BY StepsApart, Kept, ConfigKept, LeadKept, EmailKept, AuthKept, ArtifactKept,
     DeployKept
     DEF ServicesIInv

(* The invariant holds in every reachable state.                           *)
THEOREM ServicesInvariance == ServicesSpec => []ServicesIInv
  BY ServicesInitially, ServicesKept, PTL DEF ServicesSpec

(* Every table, request, run and file has its type.                        *)
THEOREM ServicesTypeCorrect == ServicesSpec => []ServicesTypeOK
<1>1. ServicesIInv => ServicesTypeOK
  BY ArtifactAnswers, DeployAnswers
     DEF ServicesIInv, ServicesTypeOK, IInv, ConfigIInv, LeadIInv, EmailIInv, AuthIInv
<1> QED BY <1>1, ServicesInvariance, PTL

(* getRuntimeConfig answers what was selected less than the cache's time   *)
(* to live before the read began, in every isolate.                        *)
THEOREM ConfigIsRecent == ServicesSpec => []ReadsAreRecent
<1>1. ServicesIInv => ReadsAreRecent BY ConfigAnswers DEF ServicesIInv
<1> QED BY <1>1, ServicesInvariance, PTL

(* createLead answers every submission of a key with the one lead of that  *)
(* key, recognises repeats, and records what it answers as new.            *)
THEOREM LeadsAreOne == ServicesSpec => []OneLeadPerKey
<1>1. ServicesIInv => OneLeadPerKey BY LeadAnswers DEF ServicesIInv
<1> QED BY <1>1, ServicesInvariance, PTL

(* No submission takes back what a lead has, and consent is gained only    *)
(* from one that gives it.                                                 *)
THEOREM LeadsKeepWhatTheyHave == ServicesSpec => LeadsOnlyGain
<1>1. ServicesIInv /\ [ServicesNext]_serviceVars => [OnlyGain]_leadVars
  BY StepsApart, LeadsGain DEF ServicesIInv
<1> QED BY <1>1, ServicesInvariance, PTL DEF ServicesSpec, LeadsOnlyGain, OnlyGain

(* saveManagedEmailTemplate leaves whole templates, however saves overlap, *)
(* but for a save that an import overtook.                                 *)
THEOREM SavedTemplatesAreWhole == ServicesSpec => []TemplatesAreWhole
<1>1. ServicesIInv => TemplatesAreWhole BY EmailAnswers DEF ServicesIInv
<1> QED BY <1>1, ServicesInvariance, PTL

(* A password that resetCustomerPassword replaced ends the sessions it     *)
(* opened, with exactly the two exceptions the property names.             *)
THEOREM ReplacedPasswordIsOut == ServicesSpec => []OldPasswordIsLockedOut
<1>1. ServicesIInv => OldPasswordIsLockedOut BY AuthAnswers DEF ServicesIInv
<1> QED BY <1>1, ServicesInvariance, PTL

(* No password is replaced but by a reset that began with an unused link   *)
(* of that account.                                                        *)
THEOREM ResetsNeedTheirLink == ServicesSpec => OnlyAnOpenLinkReplaces
<1>1. ServicesIInv /\ [ServicesNext]_serviceVars => [OpenLinkReplaces]_authVars
  BY StepsApart, OpenLinks DEF ServicesIInv
<1> QED BY <1>1, ServicesInvariance, PTL
        DEF ServicesSpec, OnlyAnOpenLinkReplaces, OpenLinkReplaces

(* getCustomerSession refuses every check that began after its session was *)
(* revoked.                                                                *)
THEOREM RevokedSessionsAreOut == ServicesSpec => []RevokedIsRefused
<1>1. ServicesIInv => RevokedIsRefused BY AuthAnswers DEF ServicesIInv
<1> QED BY <1>1, ServicesInvariance, PTL

(* What scripts/preview-artifacts.mjs leaves with a candidate.json         *)
(* verifies, whichever runs stopped or chose the same directory, and the   *)
(* two builds of a base workspace agree.                                   *)
THEOREM CandidatesVerify == ServicesSpec => []CandidateVerifies
<1>1. ServicesIInv => CandidateVerifies BY ArtifactAnswers DEF ServicesIInv
<1> QED BY <1>1, ServicesInvariance, PTL

(* verifyArtifactSet takes all of one signing and nothing else, from any   *)
(* collection of objects of any number of candidates.                      *)
THEOREM AcceptedIsWhole == ServicesSpec => []AcceptedIsOneSigning
<1>1. ServicesIInv => AcceptedIsOneSigning BY ArtifactAnswers DEF ServicesIInv
<1> QED BY <1>1, ServicesInvariance, PTL

(* scripts/astropages-pipeline.mjs deploys a worker on its environment's   *)
(* own resources alone, leaves only true migration records, and reports    *)
(* ready what is repaired, set up and has content, whatever other runs and *)
(* EmDash's migrator do or leave half done.                                *)
THEOREM ReadyRunsAreWhole == ServicesSpec => []ReadyIsWhole
<1>1. ServicesIInv => ReadyIsWhole BY DeployAnswers DEF ServicesIInv
<1> QED BY <1>1, ServicesInvariance, PTL

(* A payment save replaces only what its editor saw (SavesOverSeen of      *)
(* PaymentSettings), beside the other services too.                        *)
THEOREM EditsStaySeen == ServicesSpec => SavesOverSeen
<1>1. Init /\ [][Next]_vars => SavesOverSeen BY EditsAreSeen DEF Spec
<1>2. ServicesInit => Init BY DEF ServicesInit
<1>3. [ServicesNext]_serviceVars => [Next]_vars BY StepsApart
<1> QED BY <1>1, <1>2, <1>3, PTL DEF ServicesSpec
=============================================================================
