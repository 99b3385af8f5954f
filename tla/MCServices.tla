----------------------------- MODULE MCServices -----------------------------
(***************************************************************************)
(* Every service on a small instance; the first state chooses which one.   *)
(***************************************************************************)
EXTENDS Services, TLC

CONSTANTS provider, region,                 \* keys of the runtime configuration
          ses, gmail, east, i1,
          form, newsletter, order, phone,
          hello, nameText, leaveText,       \* texts
          name, unsubscribe,                \* variables
          welcome, promo,
          old, new, k1, k2, k3, other, chunk, entry, map, dotEnv, logo, lamp, twin,
          en, hi,                           \* commits, keys, files, locales
          display, description, hero        \* columns

MCEnv == provider :> Blank @@ region :> east

MCIsolateOf == [r \in Readers |-> i1]

Item(v) == [value |-> v, status |-> "active"]
Whole == [items |-> provider :> Item(ses) @@ region :> Item(east), disabled |-> {}]
Other == [items |-> provider :> Item(gmail) @@ region :> NoRow, disabled |-> {region}]
Bad == [items |-> provider :> Item(east) @@ region :> NoRow, disabled |-> {}]
MCBodies == {Whole, Other, Bad}

Sent(k, c, m) == [key |-> k, contact |-> c, marketing |-> m]
MCSubmissions ==
  {Sent(form, phone, FALSE), Sent(order, phone, FALSE),
   Sent(order, NoContact, TRUE), Sent(newsletter, phone, TRUE)}

MCVariablesOf ==
  hello :> {} @@ nameText :> {name} @@ leaveText :> {name, unsubscribe}

Ask == [key |-> 1, mappings |-> {}, saveEvent |-> Omitted, template |-> TRUE,
        event |-> Omitted, audience |-> Omitted, subject |-> Omitted,
        body |-> Omitted, requires |-> FALSE, required |-> {}]
MCRequests ==
  { [Ask EXCEPT !.subject = hello],
    [Ask EXCEPT !.subject = hello, !.body = hello, !.requires = TRUE],
    [Ask EXCEPT !.key = 2, !.mappings = {name, unsubscribe}, !.saveEvent = promo,
                !.event = promo, !.subject = hello, !.body = leaveText,
                !.requires = TRUE, !.required = {name, unsubscribe}],
    [Ask EXCEPT !.mappings = {unsubscribe}, !.template = FALSE] }

Welcome == [stored |-> TRUE, enabled |-> TRUE, event |-> welcome,
            audience |-> Customer, subject |-> nameText, body |-> nameText,
            required |-> {name}, torn |-> FALSE]
SeedWorkspace == [template |-> 1 :> Welcome @@ 2 :> NoTemplate,
             event |-> welcome :> "enabled" @@ promo :> "none",
             mapping |-> {name}]
Earlier == [template |-> 1 :> [Welcome EXCEPT !.enabled = FALSE] @@ 2 :> NoTemplate,
            event |-> welcome :> "disabled" @@ promo :> "none",
            mapping |-> {}]
MCWorkspaces == {SeedWorkspace, Earlier}

Job(commit, key) == [commit |-> commit, key |-> key]
MCJobs == {Job(old, k1), Job(new, k2), Job(new, k3)}
MCTrees == {{entry, chunk}, {entry, chunk, map}, {entry, other}, {entry, dotEnv}, {other}}
MCSourceOf == en :> en @@ hi :> en
(* Two runs of one commit: with different ones each waits for a worker of  *)
(* its own, which both may do here too.                                    *)
MCCommitOf == [p \in Pipelines |-> "commit"]
MCOldSchemas == {[category |-> TRUE, columns |-> {}, recorded |-> {}]}
MCAssetBytes == logo :> logo @@ twin :> logo @@ lamp :> lamp
=============================================================================
