----------------------------- MODULE Deployment -----------------------------
(***************************************************************************)
(* A deployment: scripts/astropages-pipeline.mjs makes sure of the         *)
(* environment's Cloudflare resources (ensure-cloudflare-resources.mjs),   *)
(* renders the Wrangler configuration that names them, migrates the        *)
(* database, deploys the worker, prepares EmDash                           *)
(* (prepare-deployed-emdash.mjs) and tells the control plane.              *)
(*                                                                         *)
(* Several pipelines may run, each may stop at any step, and every call to *)
(* Cloudflare or GitHub may be lost before or after it took effect.  How   *)
(* the content is bootstrapped is module Bootstrap; here it is one step.   *)
(***************************************************************************)
EXTENDS Naturals, Sequences, FiniteSets

CONSTANTS
  Pipelines,      \* pipeline runs, numbered as they begin
  CommitOf,       \* the commit that a run deploys
  Environments,   \* preview, production: the runs' own names for resources
  Shared,         \* the name of what others have on the account
  PageSize,       \* items on a page of a Cloudflare listing
  PluginColumns,  \* columns that EmDash migration 023 adds
  ContentColumns, \* columns an older registry did not have
  OldSchemas,     \* what a database of an earlier deployment may hold
  Unset           \* no id, no job

Schema == [category : BOOLEAN, columns : SUBSET (PluginColumns \cup ContentColumns),
           recorded : SUBSET {21, 23}]

ASSUME DeploymentInputs ==
  /\ Pipelines \subseteq Nat
  /\ IsFiniteSet(Environments)
  /\ Shared \notin Environments
  /\ PageSize \in Nat \ {0}
  /\ PluginColumns \cap ContentColumns = {}
  /\ OldSchemas \subseteq Schema
  /\ \A s \in OldSchemas :
       /\ 21 \in s.recorded => ~s.category
       /\ 23 \in s.recorded => PluginColumns \subseteq s.columns

Resources == {"d1", "r2", "kv"}
AfterResource == [d1 |-> "r2", r2 |-> "kv", kv |-> "set"]

VARIABLES
  cloud,      \* resources of the account: names by kind, in listing order;
              \* an id is a place in the list
  variable,   \* GitHub repository variables: ids by environment and kind
  schema,     \* EmDash's tables, by database id
  engine,     \* where EmDash's own migrator is, by database id (external)
  configured, \* databases whose setup is done
  content,    \* databases that have collections
  serving,    \* runs whose worker answers, by environment
  pipeline,   \* where each run is, its job, ids and what it saw
  reported    \* what the control plane knows of each run

deployVars == <<cloud, variable, schema, engine, configured, content, serving,
                pipeline, reported>>
database == <<schema, engine, configured, content>>
outside == <<cloud, variable, serving, reported>>

Migrated == [category |-> FALSE, columns |-> PluginColumns \cup ContentColumns,
             recorded |-> {21, 23}]
NoSchema == [category |-> FALSE, columns |-> {}, recorded |-> {}]
DatabaseIds == 1 .. Cardinality(Environments) + 1

Repairs == {"sections", "record 21", "plugins", "add plugin columns", "record 23",
            "content columns", "add content columns"}
Stages == {"announce", "build", "list", "create", "set", "persist", "render",
           "migrate", "deploy", "health", "warm", "count", "setup", "bootstrap",
           "smoke", "tell ready", "tell failed"} \cup Repairs
NotBegun == [pc |-> "idle", env |-> Unset, template |-> FALSE, kind |-> "d1",
             d1 |-> Unset, kv |-> Unset, uses |-> [d1 |-> Unset, kv |-> Unset],
             missing |-> {}, pass |-> 1]

DeployTypeOK ==
  /\ \A k \in Resources : \A i \in DOMAIN cloud[k] :
       cloud[k][i] \in Environments \cup {Shared}
  /\ \A p \in Pipelines : pipeline[p].pc \in Stages \cup {"idle", "done", "failed"}
  /\ reported \in [Pipelines -> {"nothing", "building", "ready", "failed"}]
  /\ serving \in [Environments -> SUBSET Pipelines]

(* Another site's resources are there; an environment's may be, from an    *)
(* earlier deployment.  A repository is the template's or a generated      *)
(* site's.                                                                 *)
DeployInit ==
  \E old \in SUBSET Environments, s \in OldSchemas, template \in BOOLEAN :
    /\ Cardinality(old) <= 1
    /\ LET names == <<Shared>> \o (IF old = {} THEN <<>>
                                   ELSE <<CHOOSE e \in Environments : e \in old>>)
       IN cloud = [k \in Resources |-> names]
    /\ variable = [e \in Environments |-> [d1 |-> 1, kv |-> 1]]
    /\ schema = [i \in DatabaseIds |-> CASE i = 1 -> Migrated
                                         [] i = 2 /\ old # {} -> s
                                         [] OTHER -> NoSchema]
    /\ configured = {1} \cup (IF old = {} THEN {} ELSE {2})
    /\ content = configured
    /\ engine = [i \in DatabaseIds |-> "idle"]
    /\ serving = [e \in Environments |-> {}]
    /\ pipeline = [p \in Pipelines |-> [NotBegun EXCEPT !.template = template]]
    /\ reported = [p \in Pipelines |-> "nothing"]

In(p, pc) == pipeline[p].pc = pc
Go(p, pc) == pipeline' = [pipeline EXCEPT ![p].pc = pc]
Env(p) == pipeline[p].env
Database(p) == pipeline[p].uses.d1

-----------------------------------------------------------------------------
(* Telling the control plane                                               *)

Begin(p) ==
  /\ In(p, "idle") /\ \A q \in Pipelines : q < p => ~In(q, "idle")
  /\ \E e \in Environments :
       pipeline' = [pipeline EXCEPT
         ![p].pc = IF pipeline[p].template THEN "build" ELSE "announce",
         ![p].env = e, ![p].uses = variable[e]]
  /\ UNCHANGED <<outside, database>>

(* A generated site's run says building first and ready or failed last.    *)
Announce(p) ==
  /\ In(p, "announce")
  /\ reported' = [reported EXCEPT ![p] = "building"]
  /\ Go(p, "build")
  /\ UNCHANGED <<cloud, variable, serving, database>>

TellReady(p) ==
  /\ In(p, "tell ready")
  /\ IF pipeline[p].template
     THEN Go(p, "done") /\ UNCHANGED reported
     ELSE /\ reported' = [reported EXCEPT ![p] = "ready"]
          /\ \E pc \in {"done", "tell failed"} : Go(p, pc)  \* the answer may be lost
  /\ UNCHANGED <<cloud, variable, serving, database>>

TellFailed(p) ==
  /\ In(p, "tell failed")
  /\ reported' \in {reported, [reported EXCEPT ![p] = "failed"]}
  /\ Go(p, "failed")
  /\ UNCHANGED <<cloud, variable, serving, database>>

(* An error of the run's own, of a call that is not retried, or of its     *)
(* last attempt.  process.exit in the scripts that are imported ends the   *)
(* whole run untold; only an exception gets to the failure callback.       *)
Fails(p) ==
  /\ pipeline[p].pc \in Stages \ {"tell failed"}
  /\ \E pc \in {"failed"} \cup (IF pipeline[p].template THEN {} ELSE {"tell failed"}) :
       Go(p, pc)
  /\ UNCHANGED <<outside, database>>

(* The exact commit, install, test, safety_scan, d1_schema_check, build    *)
Build(p) ==
  /\ In(p, "build")
  /\ Go(p, "list")
  /\ UNCHANGED <<outside, database>>

-----------------------------------------------------------------------------
(* ensure-cloudflare-resources                                             *)

OnPage(n, page) == {i \in 1..n : (page - 1) * PageSize < i /\ i <= page * PageSize}

(* The three forms of result_info, and the cursor of R2                    *)
HasNext(form, n, page) ==
  LET here == Cardinality(OnPage(n, page))
      pages == (n + PageSize - 1) \div PageSize
  IN CASE form \in {"total_pages", "cursor"} -> page < pages
       [] form = "total_count" -> page * PageSize < n /\ here >= PageSize
       [] form = "count" -> here >= PageSize

(* A page is read when every one before it had a next.                     *)
Listed(form, n) ==
  UNION {OnPage(n, page) : page \in
           {q \in 1 .. n + 1 : \A r \in 1 .. q - 1 : HasNext(form, n, r)}}

Named(k, name, form) == {i \in Listed(form, Len(cloud[k])) : cloud[k][i] = name}

(* The next kind; after the last one the ids replace the variables the run *)
(* was started with.                                                       *)
Obtained(p, k, id) ==
  pipeline' = [pipeline EXCEPT
    ![p].pc = IF k = "kv" THEN "set" ELSE "list",
    ![p].kind = IF k = "kv" THEN "kv" ELSE AfterResource[k],
    ![p].d1 = IF k = "d1" THEN id ELSE @,
    ![p].kv = IF k = "kv" THEN id ELSE @]

ListResource(p) ==
  /\ In(p, "list")
  /\ LET k == pipeline[p].kind
     IN \E form \in IF k = "r2" THEN {"cursor"}
                    ELSE {"total_pages", "total_count", "count"} :
          LET found == Named(k, Env(p), form)
          IN IF found = {} THEN Go(p, "create")
             ELSE Obtained(p, k, CHOOSE i \in found : \A j \in found : i <= j)
  /\ UNCHANGED <<outside, database>>

Exists(k, name) == \E i \in DOMAIN cloud[k] : cloud[k][i] = name

(* Cloudflare takes a name once.  An attempt without an answer is made     *)
(* again; whether it took effect is not known.                             *)
CreateResource(p) ==
  LET k == pipeline[p].kind
  IN /\ In(p, "create") /\ ~Exists(k, Env(p))
     /\ cloud' = [cloud EXCEPT ![k] = Append(@, Env(p))]
     /\ \/ Obtained(p, k, Len(cloud[k]) + 1)
        \/ UNCHANGED pipeline
     /\ UNCHANGED <<variable, serving, reported, database>>

(* Only a bucket that the account already owns is taken as created; for    *)
(* the others a conflict is an error, and the next run finds them.         *)
BucketExists(p) ==
  /\ In(p, "create") /\ pipeline[p].kind = "r2" /\ Exists("r2", Env(p))
  /\ Obtained(p, "r2", Unset)
  /\ UNCHANGED <<outside, database>>

(* Mutant: a variable the run was started with is kept.                    *)
KeepVariables(p) ==
  /\ In(p, "set")
  /\ pipeline' = [pipeline EXCEPT
       ![p].pc = "persist",
       ![p].uses = [d1 |-> IF @.d1 = Unset THEN pipeline[p].d1 ELSE @.d1,
                    kv |-> IF @.kv = Unset THEN pipeline[p].kv ELSE @.kv]]
  /\ UNCHANGED <<outside, database>>

SetVariables(p) ==
  /\ In(p, "set")
  /\ pipeline' = [pipeline EXCEPT
       ![p].pc = "persist",
       ![p].uses = [d1 |-> pipeline[p].d1, kv |-> pipeline[p].kv]]
  /\ UNCHANGED <<outside, database>>

(* GET, then POST or PATCH, one variable at a time; a run that stops in    *)
(* between leaves the others as they were.  Without a token, none.         *)
Persist(p) ==
  /\ In(p, "persist")
  /\ \/ /\ variable' = [variable EXCEPT ![Env(p)].d1 = Database(p)]
        /\ UNCHANGED pipeline
     \/ /\ variable' \in {variable, [variable EXCEPT ![Env(p)] = pipeline[p].uses]}
        /\ Go(p, "render")
  /\ UNCHANGED <<cloud, serving, reported, database>>

-----------------------------------------------------------------------------
(* Rendering, migrating, deploying                                         *)

RenderConfig(p) ==
  /\ In(p, "render")
  /\ Unset \notin {pipeline[p].uses.d1, pipeline[p].uses.kv}
  /\ Go(p, "migrate")
  /\ UNCHANGED <<outside, database>>

(* wrangler d1 migrations apply: a new database gets EmDash's tables whole *)
(* and every migration recorded; one that had them keeps what it has.      *)
Migrate(p) ==
  /\ In(p, "migrate")
  /\ schema' = [schema EXCEPT ![Database(p)] =
                  IF @ = NoSchema THEN Migrated ELSE @]
  /\ Go(p, "deploy")
  /\ UNCHANGED <<outside, engine, configured, content>>

DeployWorker(p) ==
  /\ In(p, "deploy")
  /\ serving' = [serving EXCEPT ![Env(p)] = @ \cup {p}]
  /\ Go(p, "health")
  /\ UNCHANGED <<cloud, variable, reported, database>>

(* During a rollout any worker may answer; then one is left.               *)
RolloutEnds(e) ==
  /\ \E p \in serving[e] : serving' = [serving EXCEPT ![e] = {p}]
  /\ UNCHANGED <<cloud, variable, reported, pipeline, database>>

-----------------------------------------------------------------------------
(* prepare-deployed-emdash                                                 *)

(* Workers whose answers name this run's commit: its own, and that of      *)
(* another run of the same commit                                          *)
Expected(p) == {q \in serving[Env(p)] : CommitOf[q] = CommitOf[p]}

(* The health route must answer with this run's commit.                    *)
Healthy(p) ==
  /\ In(p, "health")
  /\ Expected(p) # {}
  /\ Go(p, "sections")
  /\ UNCHANGED <<outside, database>>

Of(p) == schema[Database(p)]

Record(p, n, next) ==
  /\ n \notin Of(p).recorded
  /\ schema' = [schema EXCEPT ![Database(p)].recorded = @ \cup {n}]
  /\ Go(p, next)
  /\ UNCHANGED <<outside, engine, configured, content>>

(* The column is read before the record; it only ever goes away.           *)
CheckSections(p) ==
  /\ In(p, "sections")
  /\ Go(p, IF ~Of(p).category /\ 21 \notin Of(p).recorded
           THEN "record 21" ELSE "plugins")
  /\ UNCHANGED <<outside, database>>

RecordSections(p) == In(p, "record 21") /\ Record(p, 21, "plugins")

Look(p, columns, next) ==
  pipeline' = [pipeline EXCEPT ![p].missing = columns \ Of(p).columns, ![p].pc = next]

CheckPlugins(p) ==
  /\ In(p, "plugins")
  /\ IF 23 \in Of(p).recorded THEN Go(p, "content columns")
     ELSE Look(p, PluginColumns, "add plugin columns")
  /\ UNCHANGED <<outside, database>>

(* ALTER TABLE ADD COLUMN, one at a time; a column that is there by now is *)
(* an error.                                                               *)
AddColumn(p, c) ==
  /\ pipeline[p].pc \in {"add plugin columns", "add content columns"}
  /\ c \in pipeline[p].missing \ Of(p).columns
  /\ schema' = [schema EXCEPT ![Database(p)].columns = @ \cup {c}]
  /\ pipeline' = [pipeline EXCEPT ![p].missing = @ \ {c}]
  /\ UNCHANGED <<outside, engine, configured, content>>

PluginsRepaired(p) ==
  /\ In(p, "add plugin columns") /\ pipeline[p].missing = {}
  /\ Go(p, "record 23")
  /\ UNCHANGED <<outside, database>>

RecordPlugins(p) == In(p, "record 23") /\ Record(p, 23, "content columns")

CheckContent(p) ==
  /\ In(p, "content columns")
  /\ Look(p, ContentColumns, "add content columns")
  /\ UNCHANGED <<outside, database>>

ContentRepaired(p) ==
  /\ In(p, "add content columns") /\ pipeline[p].missing = {}
  /\ pipeline' = [pipeline EXCEPT
       ![p].pc = IF pipeline[p].pass = 1 THEN "warm" ELSE "count", ![p].pass = 2]
  /\ UNCHANGED <<outside, database>>

(* setup/status, from whichever worker answers; EmDash answers when its    *)
(* migrations are recorded.                                                *)
Warm(p) ==
  /\ In(p, "warm")
  /\ \E q \in serving[Env(p)] : {21, 23} \subseteq schema[Database(q)].recorded
  /\ Go(p, "sections")
  /\ UNCHANGED <<outside, database>>

CountCollections(p) ==
  /\ In(p, "count")
  /\ Go(p, IF Database(p) \in content THEN "bootstrap" ELSE "setup")
  /\ UNCHANGED <<outside, database>>

(* Done, or 409 because it was: by whichever worker answers                *)
Setup(p) ==
  /\ In(p, "setup")
  /\ \E q \in serving[Env(p)] : configured' = configured \cup {Database(q)}
  /\ Go(p, "bootstrap")
  /\ UNCHANGED <<outside, schema, engine, content>>

(* Every answer that counts is from a worker of this run's commit (module  *)
(* Bootstrap).                                                             *)
BootstrapContent(p) ==
  /\ In(p, "bootstrap")
  /\ \E q \in Expected(p) : content' = content \cup {Database(q)}
  /\ Go(p, "smoke")
  /\ UNCHANGED <<outside, schema, engine, configured>>

(* Some routes answer, from whichever worker                               *)
Smoke(p) ==
  /\ In(p, "smoke")
  /\ serving[Env(p)] # {}
  /\ Go(p, "tell ready")
  /\ UNCHANGED <<outside, database>>

-----------------------------------------------------------------------------
(* EmDash's migrator, one at a time under its lock; it starts on a request *)
(* of a worker, may be cut off after any statement, and cannot go on with  *)
(* a migration that was cut off.                                           *)

Move(i, from, to) == engine[i] = from /\ engine' = [engine EXCEPT ![i] = to]
Recorded(i, n) == schema' = [schema EXCEPT ![i].recorded = @ \cup {n}]

Migrator(i) ==
  /\ \E e \in Environments : \E p \in serving[e] : Database(p) = i
  /\ \/ /\ 21 \notin schema[i].recorded /\ schema[i].category
        /\ Move(i, "idle", "dropped")
        /\ schema' = [schema EXCEPT ![i].category = FALSE]
     \/ /\ 21 \notin schema[i].recorded
        /\ Move(i, "dropped", "idle") /\ Recorded(i, 21)
     \/ /\ 21 \in schema[i].recorded /\ 23 \notin schema[i].recorded
        /\ \E c \in PluginColumns \ schema[i].columns :
             /\ schema[i].columns \cap PluginColumns = {} \/ engine[i] = "adding"
             /\ engine[i] \in {"idle", "adding"}
             /\ engine' = [engine EXCEPT ![i] = "adding"]
             /\ schema' = [schema EXCEPT ![i].columns = @ \cup {c}]
     \/ /\ PluginColumns \subseteq schema[i].columns /\ 23 \notin schema[i].recorded
        /\ Move(i, "adding", "idle") /\ Recorded(i, 23)
  /\ UNCHANGED <<outside, pipeline, configured, content>>

MigratorStops(i) ==
  /\ engine[i] # "idle"
  /\ engine' = [engine EXCEPT ![i] = "idle"]
  /\ UNCHANGED <<outside, pipeline, schema, configured, content>>

DeployNext ==
  \/ \E p \in Pipelines :
       \/ Begin(p) \/ Announce(p) \/ TellReady(p) \/ TellFailed(p) \/ Fails(p)
       \/ Build(p) \/ ListResource(p) \/ CreateResource(p) \/ BucketExists(p)
       \/ SetVariables(p) \/ Persist(p) \/ RenderConfig(p) \/ Migrate(p)
       \/ DeployWorker(p) \/ Healthy(p) \/ CheckSections(p) \/ RecordSections(p)
       \/ CheckPlugins(p) \/ PluginsRepaired(p) \/ RecordPlugins(p)
       \/ CheckContent(p) \/ ContentRepaired(p) \/ Warm(p) \/ CountCollections(p)
       \/ Setup(p) \/ BootstrapContent(p) \/ Smoke(p)
       \/ \E c \in PluginColumns \cup ContentColumns : AddColumn(p, c)
  \/ \E e \in Environments : RolloutEnds(e)
  \/ \E i \in DatabaseIds : Migrator(i) \/ MigratorStops(i)

DeploySpec == DeployInit /\ [][DeployNext]_deployVars

-----------------------------------------------------------------------------
(* Properties                                                              *)

(* docs/cloudflare-runtime.md: "Preview and production each have their own *)
(* Worker, D1 database, R2 bucket, and KV namespace ... Never point these  *)
(* variants at shared base-template resources."                            *)
Isolated(e, p) ==
  /\ cloud.d1[Database(p)] = e
  /\ cloud.kv[pipeline[p].uses.kv] = e
  /\ Exists("r2", e)

(* A migration on record has been done, whoever recorded it.               *)
RecordIsTrue(s) ==
  /\ 21 \in s.recorded => ~s.category
  /\ 23 \in s.recorded => PluginColumns \subseteq s.columns

(* Whatever runs went on or stopped beside it: a worker is deployed on its *)
(* environment's own resources alone; EmDash's records are true; and a run *)
(* that reported ready has left them repaired, set up and with content.    *)
ReadyIsWhole ==
  /\ \A e \in Environments : \A p \in serving[e] : Isolated(e, p)
  /\ \A i \in DatabaseIds : RecordIsTrue(schema[i])
  /\ \A p \in Pipelines : reported[p] = "ready" =>
       /\ {21, 23} \subseteq Of(p).recorded
       /\ ContentColumns \subseteq Of(p).columns
       /\ Database(p) \in configured \cap content
=============================================================================
