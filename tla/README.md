# A verification project for Nine Centres Riso

The repository is a generated site for a Human Design practice: an Astro application that runs as a
Cloudflare Worker over one D1 (SQLite) database and one R2 bucket. Visitors compute a chart, buy a full
reading through Stripe or Razorpay and get a confirmation by mail; operators edit content, settings,
templates and assets; a control plane moves content and assets between workspaces, previews and production.

Nothing in this code runs in one piece. A worker gives up control at every `await`, many requests run at the
same time, D1 gives atomicity to one statement (or one batch) and no lock between two, a worker may be
stopped at any point, and the providers repeat, reorder and lose messages. That is what the models are about:
one step per D1 statement or outside call, every interleaving of the requests, a stop or a lost answer at
every step. Arithmetic, formats and wording are abstracted away unless a property tells them apart.

## 1. Inventory

`src/` below is the repository root; server code is under `src/src/server/`, routes under `src/src/pages/api/`.

| Component | State | Operations | Interacts with | What is hard | What makes it correct |
|---|---|---|---|---|---|
| Checkout and orders (`human-design-orders.ts`, `full-reading.ts`, `stripe-webhook.ts`, `razorpay-webhook.ts`) | `ap_human_design_orders` | check ownership, quote, insert, link lead, open session, attach, fail; look up, compare, fulfil, mail | payment providers, mail, leads, settings | duplicated, reordered and lost deliveries; a stop between two statements; customer paying while the request still runs | paid only after the exact charge; never failed and charged; one confirmation; a 2xx only for what is durable; a charge is granted in the end |
| Workspace checkpoint (`workspace-authored-state.ts`) | every authored table, `ap_workspace_authored_state` | inspect, export, import | authors, control plane | two transactions per operation, other writers in between; retries; lost answers | revision identifies content; one restore per generation; no edit overwritten; acts like one atomic step |
| Payment settings and pricing (`payment-preference.ts`, `payment-pricing.ts`) | one row of `ap_business_settings` | read, update, quote | checkout, operators | two editors at once, lost answers | a revision names one value; a save replaces only what was seen |
| Project assets (`project-assets.ts`, `assets/*.ts`) | `media`, `ap_asset_records`, `_revisions`, `_aliases`, `_release_state`, R2 | register, describe, delete, restore, export, import, deliver | control plane, content | the record and its revision are separate statements; the release counter; a stale content hash | revisions are final, their numbers unique and gapless; a stored snapshot hash tells what is visible, and no import is skipped that is not done |
| Content release (`content-release*.ts`) | `ap_content_revision_log`, `ap_content_environment_state` | record a mutation, export, chunked import | editor, EmDash | the middleware records after the mutation has happened, by comparing with what it read before; an import is cut into batches | what the site holds is in the log; numbers without gaps; a repeated import is skipped only when it is complete; an export leaves nothing out |
| Admin sign-in (`admin-sso.ts`, `builder/auth.ts`) | `ap_admin_sso_exchanges`, `ap_admin_sessions` | exchange, use, revoke | control plane | look-up then insert; a timer raced against a statement that may still land | one session per link; a revoked session stays out; every exchange is answered |
| Agent tokens (`provision-mcp-token.ts`, `emdash-mcp-token.ts`) | EmDash's `users`, `_emdash_api_tokens` | provision, dry run | control plane, editor, EmDash | find then update or insert, by two keys, without an order | a new token retires the one before it |
| Customer accounts (`customer-auth.ts`) | accounts, sessions, reset tokens | sign up, log in, reset, check, log out | mail | a reset is a read and three unconditional updates; logins beside it | a replaced password is locked out; only an open link of the account replaces it |
| Runtime configuration (`runtime-config.ts`, `sync.ts`) | `ap_runtime_config`, a cache per isolate | sync, read | control plane, all others | rows selected before a sync are cached after it; a sync stops half-way | no read is answered with rows older than the cache's time to live |
| EmDash bootstrap (`emdash-bootstrap.ts`, `prepare-deployed-emdash.mjs`) | content tables, metadata and rows, `ap_emdash_bootstrap_state` | seed all or a batch, check readiness, write the completion record | editor, deployment script, EmDash | two bootstraps at once; an older worker that answers a batch; a retry beside the first request; authors between a read and an UPDATE | the completion record and a ready script mean that the content is there; a text is never overwritten |
| Email templates (`email-template-store.ts`, `templates.ts`, the MCP tools) | `ap_email_templates`, `_events`, `_variable_mappings` | save a mapping, an event, a template | agents, control plane, workspace import, mail | a save is read, merged, checked and written in separate statements | a stored template is whole: it renders, is approved, its event exists |
| Transactional email (`transactional.ts`, `ses.ts`) | none (log) | send | checkout, accounts | a lost answer may mean delivered | never sent twice for one fact |
| Leads (`lead-records.ts`) | `ap_leads`, `ap_business_events` | submit, link, convert | checkout, newsletter, forms | retries and overlaps of one key; swallowed errors | one lead per key; a lead loses nothing it has |
| Preview artifacts (`preview-artifacts.mjs`, `produce-preview-artifacts.mjs`) | a directory of signed files | build twice, compare, sign, write, verify | control plane | two runs into one directory, a stop between two files, objects mixed on the way | a candidate is whole; what verifies is one signing |
| Deployment pipeline (`astropages-pipeline.mjs`, `ensure-cloudflare-resources.mjs`, `render-wrangler-config.mjs`, `prepare-deployed-emdash.mjs`) | Cloudflare resources, GitHub variables, EmDash's migration records | make sure of resources, migrate, deploy, repair, set up, report | Cloudflare, GitHub, EmDash's migrator, control plane | paged listings, lost answers, overlapping runs, a rollout with two workers | its own resources alone; true migration records; ready means whole |
| Content Studio editor (`BuilderClient.astro`, `builder/content.ts`, `editor/content-field.ts`, `content-diff.ts`) | what a page shows and holds unsaved, the tab's storage; the entry in EmDash | type, put back, save, publish, reload, review; read, create, update, repair and retry | content release, bootstrap, EmDash | saves that fail, are answered late, unheard or carried out twice, beside other authors and typing that goes on | a typed text is unsaved or saved; a save changes the fields it names |
| MCP and analytics queries, places, SEO, Human Design computation, pages, other scripts | none that another step reads | queries, proxies, pure functions | | | out of scope (section 7) |

The hazards of the code, each at its line and with the properties that watch it, are the `hazards` of
`PROJECT.json`.

## 2. Modules

| Module | Models | Role |
|---|---|---|
| `Purchase` | what a shop promises about an order | abstract specification |
| `Checkout` | the checkout request, both webhooks, fulfilment, the confirmation and the lead | detailed; implements `Purchase` |
| `CheckoutProofs` | | theorems about `Checkout` |
| `AuthoredLedger` | what the checkpoint protocol promises | abstract specification |
| `WorkspaceCheckpoint` | observation, export and import of authored state | detailed; implements `AuthoredLedger` |
| `WorkspaceCheckpointProofs` | | theorems about `WorkspaceCheckpoint` |
| `PaymentSettings` | the versioned preference and the quotes made from it | detailed |
| `PaymentSettingsProofs` | | theorems about `PaymentSettings` |
| `AssetHistory` | what the registry promises about an asset's revisions | abstract specification |
| `AssetRegistry` | registration, description, deletion, restoration, export, import of assets | detailed; implements `AssetHistory` |
| `AssetRegistryProofs` | | theorems about `AssetRegistry` |
| `ContentRelease` | the middleware that records EmDash mutations, export and import of snapshots | detailed |
| `Editor` | the page authors edit, and the route that saves and publishes | detailed |
| `Content` | `ContentRelease` and `Editor` | composition |
| `ContentProofs` | | theorems about `Content` |
| `Bootstrap` | the bootstrap of EmDash content, its readiness, the deployment script, authors | detailed |
| `BootstrapProofs` | | theorems about `Bootstrap` |
| `AdminSso` | the exchange of a sign-in link, the session check, logout | detailed |
| `McpTokens` | both endpoints that provision an agent's token | detailed |
| `Accounts` | who may edit: `AdminSso` and `McpTokens` | composition |
| `AccountsProofs` | | theorems about `Accounts` |
| `RuntimeConfig` | the sync of the configuration, its caches and reads | detailed |
| `Leads` | submissions of leads and their conversion | detailed |
| `EmailTemplates` | saves of mappings, events and templates, beside an import | detailed |
| `CustomerAuth` | sign-up, login, reset, session check, logout | detailed |
| `PreviewArtifacts` | producing, signing, writing and verifying a candidate | detailed |
| `Deployment` | pipelines, resources, EmDash's migration records | detailed |
| `Services` | `PaymentSettings` and the six modules above it | composition |
| `ServicesProofs` | | theorems about `Services` |
| `MC*` | | instances for TLC: constants and symmetry |

A definition commented *mutant* is not part of a specification: it is a wrong version of the definition that
follows it, kept to show that the property named beside it in `PROJECT.json` would notice that bug.

### Checkout

`payment`, `fulfilment`, `gateway`, `attached` and `lead` are the columns of the order row (and the status of
its lead); `request[o]` says at which `await` the checkout request of order `o` is; `pc[h]`, `event[h]` the
same for a webhook delivery. `remote`, `events`, `acked` and `mails` belong to the outside: the payment
provider's session, the events it has emitted and seen answered with a 2xx, and the confirmations the mail
provider has taken. An order's identity is its request, because `createId` never repeats.

* `full-reading.ts` is `CheckOwned` / `OwnershipUnreadable` (its error is swallowed) → `CreateOrder` →
  `LinkLead` → `OpenSession` / `SessionUnusable` / `RazorpayRefuses` → `AttachAndReply` / `AttachThrows` →
  `FailOrder` from its `catch`. `RequestDies` is a stopped worker.
* A webhook is `Deliver` → `LookUp` (find the row and compare amount and currency) → `Fulfil` (the one
  compare-and-set) → `Recheck`, or `ConvertLead` → `ReadSender` → `MailCustomer` / `MailRefused` →
  `RecordNotified` → `MailAdmin`. `HookDies` is any thrown error or a stopped worker: no 2xx.
* The two gateways differ where the code does: Razorpay finds its order by the attached id, and attaches
  without a condition; Stripe names the order and attaches only while it is pending.
* Amounts are abstracted to what the code distinguishes: an event is unpaid, settles something else than the
  stored amount and currency, or settles them exactly.

### WorkspaceCheckpoint

`content` is the value of all authored tables; `revision`, `digest` and `imported` the metadata row. A request
keeps what its first transaction returned (`snap`) and its second transaction compares everything with it
(`Guards`). A digest is represented by what it is computed from, so equal digests mean equal content.
`observe()` is `Begin` → `Read` → `ReportUnchanged` / `Stamp` / `Retry` / `GiveUp`; `StampUnheard` commits
with its answer lost. `import` is `BeginImport` → `AlreadyRestored`, or `ReadBefore` → `Restore`, then an
observation that checks the result, as in the code. `Author` is any other writer. `Abandon` is every refusal,
failed validation, error or stop. `reports` and `restored` record what callers were told.

### PaymentSettings

`value` and `revision` are the stored JSON of the row; an editor has one page, which shows a version, and
sends its revision as `expectedRevision`. `CheckRevision` is the comparison after the first read, `Save` the
conditional UPDATE, `Conflict` the 409 of an UPDATE that returned no row, `SaveUnheard` one whose answer is
lost. `Quote` reads the preference and picks currency and provider as `resolvePaymentCurrency` and
`providerForPaymentCurrency` do.

### AssetRegistry

Every action of a request is one D1 statement, in the order of the code; the locals of a request (`revision`,
`todo`, `items`, `count`) are the variables the function keeps between two `await`s, and `Stop` is a thrown
error or a stopped worker at any of them. The rows are functions of the asset, the revision and the alias:

* register: `CheckAlias` for each alias → `ReadCurrent` → `ReadMaximum` → `WriteMedia` → `WriteRecord` →
  `InsertRevision` (which may fail on `UNIQUE (asset_id, revision_number)`) → `Link` for each alias → `Bump`,
  which is also the event, whose foreign key fails when the revision has no row.
* describe: `Find` → `CheckAlias` → `Unlink` → `Link` → `Bump`; delete and restore: `Find` → `Mark` → `Bump`.
* export: `ReadRelease` → `ReadRows` → `WriteHash`.
* import: `Compare` → `HideAll` → `UnnameAll`, then for each asset `ImportMedia` → `WriteRecord` →
  `ImportRevision` → `ImportAlias` for each alias, then `WriteState`.

A registration of a revision always carries the same payload, so the columns of the record that are copied
from it (`protected`, `replaceable`) are those of its current revision. An asset is delivered, exported and
found by a description only when `media` has its row too. SHA-256 is replaced by the snapshot itself; snapshots
may be empty. Three history variables serve the property of the hash: the requests whose changes the hash does
not tell (`dirty`), those that another request's write has come in between of (`overtaken`), and whether the
hash is one that such a request left or wrote (`stale`).

### ContentRelease

`live` and `draft` are the columns of an entry's row and its draft revision, `log` the rows of
`ap_content_revision_log`, `revision`, `published` and `imported` the state row. A request keeps the item it
found (`before`) and left (`after`), the number it picked, and what it has read or still has to write.

* A mutation is `ReadBefore` → the EmDash handler (`Create`, `Change`, `SaveDraft`, `Publish`, `Delete`, or
  `Refuse`) → `Reread` when the result carries no item → `NextNumber` → `InsertRow` → `WriteState`. `Compare`
  ends it when no field differs and it is no publish. A create has nothing before it; a publish with changes
  is preceded by `Prepare`, an update that the middleware leaves to the publish to record.
* An import is `CompareHashes` → `FindRows` → `NextNumber` → `Chunk` for each batch, or `ChunkFails` →
  `WriteImportState`. It writes past the middleware. A batch may be cut anywhere in the order of statements. A
  snapshot's entries are those that the builder's configuration knows, the others being skipped, so it may have
  none: then the state row is written with the next number, and no row of the log.
* An export is `ReadRows` → `Export`. `Stop` is a thrown error or a stopped worker at any of these.

EmDash is outside `src/`. From how the middleware, `builder/content.ts` and the import use it, the model takes:
an item carries its live columns beside a draft, a draft changes no live column, publishing moves the draft
over, a deleted row keeps its slug, a refused call changes nothing. `lost` and `due` are auxiliary: entries
written by a request that stopped before recording them, and what an export that begins must not miss.

### Editor, Content

`page[p]` is an open page: the texts it shows (`shown`, with `NoText` for those it was served with), its `pending` changes,
the field being edited and the text `before`, the `status` that opens the save and publish buttons, `saved` (the
code's `hasSavedDraft`) and `fresh` (its draft preview is still to come). `post[r]` is a request of the save
route: where it is, what it was sent, whether it found the entry, and whether its page still awaits it (`heard`).
`exists`, `liveText` and `draftText` are the entry in EmDash. `written` and `risky` are history: what the saves
of a page last put in the draft, and the fields whose text it may lose.

* A page is `Edit` → `Type` / `PutBack` (typing the earlier text, or Escape) → `Blur`; `Save` and `PublishPage`
  are `submitContent`, which first commits the edit that is going on; `Hear` is its answer, `LoseTouch` a lost
  connection, `Reload` leaving the page and coming back to what the tab has stored; `Hydrate`, `Review` and
  `FinishEditing` are the rest of what sets the buttons. An input's placeholder is edited as a text is, and its
  unaltered blur, which also clears a change, is `PutBack`.
* A request is `Send` (validated) → `AutoBootstrap` → `ReadItem` → `FullBootstrap` → `RereadItem` →
  `CreateItem` → `UpdateItem` → `RepairItem` → `RetryUpdate` → `PublishDraft`; or straight to `PublishDraft` when
  nothing is changed. Each update may have been carried out although its answer was lost. `Call` is another
  client of the route, which may publish what it changes. `Dies` is a refusal or the end of the worker.
  A request that has ended with no page awaiting it is over (`Ended`).
* The bootstrap is two steps here: `FindEmpty`, its read of a row that lacks texts, and `Bootstrapped`, with any
  of its outcomes: nothing, a new row, or the UPDATE, which fills what the read had found empty and drops the
  draft, whatever other requests have saved or published in between. Review and diff are reads and one step each. EmDash merges the fields of an
  update into the draft: the code relies on that by sending only what changed.

`Content` tells a behaviour from one of two sides. The log sees any mutation of EmDash, whoever made it, and an
entry as one value; the studio sees its fields, and no log. The first state chooses.

### Bootstrap

`tables`, `columns` and `known` are the content tables, their columns and the rows of `_emdash_fields`; `row`,
`published` and `draft` an entry's live columns, its status and its draft revision; `marker` the completion
record. A registry hash is represented by the build whose registry it is of. A request keeps the target in hand
(`pos`), the end of its batch (`last`) and the fields it found empty (`lacks`).

* A bootstrap is `Begin` (a field save of the editor) or `Post` (a batch of the script) → `CheckMarker` when
  the mode is `auto` → for each target `EnsureTable` → `EnsureFields` → `ReadRow` → `InsertRow` or `FillRow`
  (the batch that sets what was empty at `ReadRow`, and drops the draft) → `WriteMarker` after the last target
  → `Answer`. `Stop` is a failed statement (a missing column, a row that exists by now) or a stopped worker.
* The script is `ReadDeep` → `ReadFast` → `Post` and its `Answer`, `TimeOut` or `Stop`, with the cursor of the
  answer → `ReadDeep` → `ReadFast` → ready or failed; `Rerun` starts it again. Answers of workers of another
  build are thrown away (`isExpectedDeployment`). `AddColumn` is its repair of old tables.
* Authors are `CreateEntry`, `SaveDraft`, `Publish`, `Unpublish`.

The metadata statements of a target are one step: they only ever add rows. So is deep readiness, whose queries
read what no step removes, but for the status. An item is one locale of an entry. `cleared` and `takenDown`
remember what authors emptied and unpublished, `since` the fields of `lacks` that got a text after the read.
EmDash is external: a draft is the live item with the author's changes. Soft deletion, imports of the content
release and a preparation without a commit (which accepts any worker) are not in this module.

### Accounts: AdminSso and McpTokens

`exchange[r]` says at which await a GET of `/sso/exchange` is: `VerifyLink` → `LookUpLink` → `ClaimLink` (or
`LinkIsTaken`, the UNIQUE index) → `OpenSession`. `GiveUp` is the timer of `withTimeout` or an error of D1; the
statement that lost the race stays in `flying` and `LandLate` commits it, or not, at any later time. A visit is
`Visit` → `ReadSession` → `Touch`, as `getAdminSession` and `requireBuilderAccess` do, with the guards of the
route. `VisitByName` is a request whose headers name a subject: it is let in or refused by the role they name,
without a session or a statement; neither a revocation nor the rotation of a token reaches it. `Logout` is one statement. `overdueLinks` and `overtime` are the two clocks. Which
links are foreign is a constant: a link for another project or environment is refused only where the site's
variables name one, as a generated site's do.

A provision of a token is `FindUser` → `RefreshUser` or `InsertUser` → `FindToken` → `UpdateToken` or
`InsertToken`. `FindToken` may pick any matching row, because the query has no order. A row is represented by
the request that wrote it last. `overlap` and `taken` are history: which requests ran at the same time, and
which were given a token that another name had.

People and agents share no table: in `Accounts` the first state chooses the desk, and the other stays as it is.

### Services

The seven parts of `Services` share no table, and no request writes to two of them; the first state chooses the
service whose behaviour is told. So the state space is the sum of theirs and not the product.

* **RuntimeConfig.** A sync writes its rows one at a time (`WriteItem`, then `WriteDisabled`) and then drops the
  copy of its own isolate (`FinishSync`); `StopSync` leaves what is written. A read is `ReadCached`, or
  `ReadAnew` → `Select` → `Store`. `loadedAt` is the time at which the request began, as in the code; `asOf`,
  when the rows were selected, is history.
* **Leads.** `Submits` → `ReadExisting` → `Upsert` → `Reread` → `RecordEvent`; `SubmissionEnds` is an error, the
  end of the worker or the answer. `MarkConverted` is the UPDATE of the payment webhook.
* **EmailTemplates.** `StartSave` (a route) or `StartToolCall` (an agent) → `SaveMapping` for each →
  `SaveEvent` → `ReadAndMerge` → `CheckApproved` → `CheckEvent` → `UpsertTemplate` → `EnableEvent`.
  `ImportWorkspace` is the checkpoint's one transaction that replaces all three tables, with the rows of another
  workspace's export; its validation looks at the rows one by one, so that they fit together rests on the export. Of a text only its
  variables matter. `torn` marks a save that had begun when an import came.
* **CustomerAuth.** Every D1 statement of the five routes is an action; a reset is `ResetRead` → `SetPassword` →
  `MarkUsed` → `RevokeSessions`. `Fail` is any error, an expired row, or a stop. `late`, `stale` and
  `interrupted` are history.
* **PreviewArtifacts.** `CollectWorkers` → `BuildBase` → `RebuildBase` → `Sign` → `MakeDirectory` →
  `WriteObject` for each → `WriteIndex`; `Abort` anywhere. The base workspace is what its canonicalisation sees:
  random identities, times, an author and the digest of an observation. `Accept` is whoever verifies: any of
  the objects of any of the candidates, one of them perhaps damaged.
* **Deployment.** A run is `Begin` → `Announce` → `Build` → `ListResource` / `CreateResource` / `BucketExists`
  for each kind → `SetVariables` → `Persist` → `RenderConfig` → `Migrate` → `DeployWorker` → `Healthy` → the
  repairs (`CheckSections` … `ContentRepaired`), before and after `Warm` → `CountCollections` → `Setup` →
  `BootstrapContent` → `Smoke` → `TellReady`; `Fails` and `TellFailed` anywhere. A create whose answer is lost is
  repeated. The health route and the bootstrap count answers by their commit alone (`Expected`), so a worker of
  another run of the same commit will do. `RolloutEnds` leaves one of the workers that answer. `Migrator` is EmDash's own, external: modelled
  from what the repair assumes of it (it drops a column, adds columns, records each when done, and may be cut
  off in between).

## 3. Runs

| Run | Asks | Instance |
|---|---|---|
| `checkout` | the safety properties and the refinement of `Purchase` | 2 orders for one chart, 2 deliveries |
| `checkout_live` | is an exactly charged order granted in the end | 1 order, 2 deliveries, fair |
| `checkout_twice` | can one chart be bought twice (it can) | 2 orders, 1 delivery |
| `workspace` | the safety properties and the refinement of `AuthoredLedger` | 2 requests, 2 contents, first revision bound 1 |
| `payment_doc` | does AUTO always mean USD and Stripe (it does not) | 2 editors, bound 2 |
| `asset_registry` | the safety properties and the refinement of `AssetHistory` | 2 requests of 8 kinds, 1 asset, 2 local and 1 imported revision, 2 snapshots to import (1 empty) |
| `asset_alias` | can an alias move to another asset (it can) | 2 requests, 2 assets |
| `content_release` | what the release log, the state row and an export leave out (nothing); which typed texts are lost, which fields a save changes | log: 2 requests of 8 kinds, 2 entries, 2 snapshots (1 without entries), 3 values; studio: 1 page, 2 posts, 2 fields, 3 texts |
| `bootstrap` | do the completion record, the cursor and a ready script tell the truth, and which texts are replaced | 2 requests, 2 builds, 2 entries, 2 fields, batches of 1 |
| `bootstrap_edit` | can the bootstrap overwrite an author's text (it can) | the same |
| `accounts` | one session per link, rotation of tokens, is an exchange answered | 2 exchanges, 3 links (1 foreign), 1 visit by session or by 2 roles in headers; 3 provisions |
| `services` | the safety properties of the seven services | each small: see Bounds |

What they show:

* **checkout.** `PaidMeansCharged`: an order is paid only after the exact charge. `FailedNeverCharged`: the
  failure mark reaches only orders nobody could pay, which rests on the URL leaving after the attach and on the
  `pending` condition. `OneConfirmation`, `SettledForGood`, `AckedIsSettled`: duplicates, retries and
  concurrent deliveries neither mail twice, nor undo a payment, nor acknowledge what is not durable.
  `KeepsPromise`: all of it implements `Purchase`.
* **checkout_live.** `ChargedIsGranted`: because errors are answered without a 2xx, every exact charge ends as
  a paid order.
* **workspace.** `RevisionIdentifiesContent`: no revision of an epoch is ever reported for two contents.
  `NoEditOverwritten`: a restore replaces only
  content its request had read. `ActsAtomically`: the two-transaction protocol implements `AuthoredLedger`.
* **asset_registry.** `KeepsHistory`: although the next number is read in one statement and inserted in another,
  a revision keeps its number for ever, no two of an asset share one, and one follows the other, except that an
  import brings its own. `HashTellsTheAssets`: the stored snapshot hash is that of the counter and the visible
  assets, and a running import is not taken for done when it is sent again. Both have exceptions, which are in the
  formula: a request that stops half-way, or an import that fails, leaves the hash it had found; an export or an
  import that another request's write has overtaken stores an older one; and an import overtaken since its
  comparison may find its hash stored by another import of the same snapshot. So it is not true that a stopped
  import is always repaired by sending it again (section 4).
* **content_release.** `ContentIsRecorded`: although a change is compared with an item that may be stale, and
  not recorded when they agree, what an entry holds is always in the log, or its writer is on the way there or
  has stopped on it. `NumbersAreSound`: requests that pick the same number leave no gap, and
  the state row names a revision with the hash it was logged with, but for an import without entries, which names
  the next number. `ImportIsComplete`: a
  stored snapshot hash means the whole snapshot was logged, so an import that failed between two batches is
  run again. `ExportIsComplete`: an export covers all that was settled before it began. `EditsAreKept`: saves may
  fail, go on unheard after a reload, or be carried out twice; a text that was typed is still unsaved, or a save of
  its page has put it in the draft. The run needed two exceptions, which are in the model as `risky`: what is typed
  in a field while an earlier save that has it is under way (an answer clears every pending change), and what is
  put back to a text that was not saved either (the change is dropped all the same). `OnlyNamedFieldsChange`:
  retries, repairs and stale look-ups change in an entry's draft only fields that the save names, but for the
  default title of the save that created it, and the draft that a bootstrap drops because a live field was empty
  when it read the row, be it filled and published since.
* **bootstrap.** `MarkerIsComplete`: when the completion record names the deployed build, every default is in
  place but for what authors emptied, although bootstraps stop anywhere, meet in any order and authors publish
  drafts begun before them. `BatchesAreDone`: the cursor never passes a target that only an older worker or an
  unanswered request was sent. `ScriptIsRight`: two separate readiness answers together mean that the content
  is there and published, but for what was taken down since. `OnlyUnseenIsReplaced`: a bootstrap replaces no text
  that was there when it read the row.
* **accounts.** `LinkOpensOneSession`: a link opens one session, although its look-up precedes the insert, a
  timer may answer before a statement lands, and a lost answer makes the browser follow the link again; and a
  link of another site opens none. `RotationRetiresTheOld`: two tokens of one name are accepted at once only
  after two provisions of that name overlapped, or after one was given a token that another name had.
  `ExchangeIsAnswered`: D1 may be silent for ever, the browser gets its answer.
* **services.** `ReadsAreRecent`: although a copy selected before a sync may be cached after it, it is dated
  from the start of its request, so it is never used longer than if it had been read just before.
  `OneLeadPerKey`, `LeadsOnlyGain`: overlapping, repeated and half-failed submissions are answered with the one
  lead of their key, and take back neither its conversion nor its contact nor its consent. `TemplatesAreWhole`:
  the checks of a save hold for what it writes, although it was read before, since mappings and events are only
  added; the one exception is an import in between. `OldPasswordIsLockedOut`, `OnlyAnOpenLinkReplaces`: what a
  reset of three unconditional updates does guarantee, with its exact exceptions. `CandidateVerifies`: an index
  is written last, so wherever runs stop, a directory that has one is whole; and no run finds its rebuild
  different. `AcceptedIsOneSigning`: nothing but all of one signing verifies, whatever is mixed. `SavesOverSeen`:
  although the UPDATE of the payment preference compares revisions only, it replaces the very version the
  editor's page shows. `ReadyIsWhole`: a worker is deployed on its environment's resources alone, however the
  listing pages end and answers are lost; EmDash's records are true, whoever wrote them; a run that reported
  ready has left them repaired, set up and with content.

### Bounds

Two is where concurrent requests meet: two deliveries race for one compare-and-set, two observations for one
stamp, two editors for one revision; one order shared by both deliveries and another beside it. Two contents
suffice to change and change back (the case in which equal content hides an edit). `MaxRevision` bounds only
when an operation *begins*; what has begun runs on, so the bound never cuts a step short. Deadlock is not
checked in the checkout, workspace, asset and content runs, where orders run out and counters stop at the
bound, nor in the last two, where exchanges, ids, directories and pipelines are used up.
`MaxRelease` too is asked only when a request begins. One asset is enough for the numbers and the hash, since
only aliases relate two assets; in `content_release` two entries, one with content from the beginning, make
an import of an update and an insert, which two batches may separate, and `MaxNumber` (asked only when a
writing request begins) lets two requests record in any order. In its studio one page and two posts make a save
that meets the next one or a foreign one, before and after a reload; an author types two texts of one field, so
that one can be put back to the other, beside a client that publishes another field or is refused. The imported revision has the number that a second local one would get. In `bootstrap` the
new build has one entry and one field more than the old one, so an old worker's batch, table and row all fall
short; batches of 1 out of 2 targets stand for batches of 10 out of more (the repository's registry has 3, so
the real script sends one batch). In `accounts` and `services` requests
that differ in nothing but their turn arrive in the order of their numbers (provisions, pipelines): it is a
symmetry. Three provisions are one more than an overlap needs: an earlier row, and two that meet over it. The
cache lives for 2 ticks of a clock of 3, so a copy is used, ends, and is replaced. A configuration has two keys,
a selector and another one; three ids of leads allow a repeat after an overlap; two secrets a reset and a
session; two pipelines in one environment, beside the resources of another site (`Shared`), with a page of
one item, meet every form of a listing's end. Two producers with two directories and three jobs suffice to
mix objects of two commits, of two keys for one commit, and of a key that is not trusted. Symmetry is
used for safety only. The theorems of section 5 have none of these bounds but `MaxRevision`, which they leave
arbitrary.

### Fairness

`FairSpec` of `Checkout` assumes, and the code justifies: a live worker continues (`WF` of `HookStep`); the
provider delivers an event again and again until it has seen a 2xx (`SF` of `Redeliver`; every error path
answers otherwise); and D1 does not fail the same statement for ever (`SF` of `LookUp` and `Fulfil` for an
order that is tried without end). Nothing is assumed of customers, of the checkout request or of mail.
`AccountsSpec` assumes only that the timer of three seconds fires (`WF` of `GiveUp`), which `withTimeout` sets for
each await; D1 need never answer.

## 4. Findings

* **A chart can be bought twice** (`checkout_twice`). The site answers 409 for a chart that is owned, but the
  check reads paid orders before the new order exists; two sessions opened for one chart can both be paid.
* **AUTO is not always USD/Stripe** (`payment_doc`). `docs/PAYMENT_CURRENCY.md` says that both `AUTO` and
  `USD` resolve to the existing USD/Stripe checkout; the code quotes INR through Razorpay to visitors in India.
* **An alias can move to another asset** (`asset_alias`). A test is titled "an optional alias can never be
  reassigned to a different asset". The check is a read before the registration and the write an upsert that
  sets the asset, so of two registrations at the same time the second takes the alias of the first.
* **A bootstrap can overwrite an author's text** (`bootstrap_edit`). `docs/cloudflare-runtime.md` says that it
  must not. The empty fields are those of an earlier read and the UPDATE asks only for the id, so a text that
  an author publishes in between is replaced by the default; a draft of the entry is dropped with it.

Some weaknesses are in the model and have no property, because the code promises nothing there. The newest
row of an entry in the release log need not be of its present content: two overlapping mutations may be logged
in the other order, or the second not at all when it restores what it had read before the first; the content
hash of an export, made of newest rows, is then of older content. A mutation between the last batch of an
import and its state row is hidden behind the hashes of the snapshot. A registration
that stops between the record and the revision row leaves an asset that is not delivered and whose repeated
registration is answered as done; and an import that fails half-way leaves assets hidden until it is repeated. Repeating it does not help when
another import of the same snapshot has completed between its comparison and its end: the hash says that all is
done, while the import that stopped has hidden every asset. A bootstrap that decided on a fill drops the draft of
the entry even when the field has been filled and published since. An import whose entries are all skipped, or
that has none, leaves a revision number in the state row that the log does not have.

## 5. Proofs

All theorems hold for any sets of orders, deliveries, requests, contents, editors, assets, entries,
builds, registries and snapshots. They assume only the
named assumptions of the modules: null values lie outside their types, bounds are natural numbers, payloads and
snapshots have the shape their validation gives them.

* `CheckoutProofs`: `TypeCorrect`, `PaymentsAreReal`, `FailuresAreFree`, `ConfirmedOnce`, `NoPaymentForgotten`,
  `PaymentsAreFinal` and `PromiseKept` (refinement of `Purchase`). The invariants are not inductive alone: that
  at most one confirmation is sent needs `MailInv`, *at most one delivery per order is past the winning
  compare-and-set, and while it has not reached the mail step none was sent*; that an order is paid only after
  a charge needs `HookInv` (a delivery past the comparison carries an exact settlement) and `RemoteInv` (what
  was emitted agrees with the provider's session); `FailuresAreFree` needs that only a request that has answered
  exposes a session.
* `WorkspaceCheckpointProofs`: `TypeCorrect`, `RevisionsIdentify`, `RestoredOnce`, `EditsAreSafe` and `Atomic`
  (refinement of `AuthoredLedger`). The key is `KnownInv`: the versions in circulation, those reported *and*
  those a request has read and may yet report, agree with each other and none is ahead of the row, or of an
  epoch other than the present one and the one before any import.
* `PaymentSettingsProofs`: `TypeCorrect`, `RevisionsName`, `EditsAreSeen`. Nothing shown or answered is ahead
  of the row, and what has the row's revision has its value.
* `AssetRegistryProofs`: `TypeCorrect`, `HashIsTrue`, `HistoryKept` (refinement of `AssetHistory`).
  `Place` says which request can be at which statement; `Numbered` that the number before the one a registration
  has picked is stored (it stays so, since numbers are final, and `UNIQUE` excludes the number itself having
  been taken meanwhile). `HashIsTrue` rests on `Faithful`: an export that nothing has come in between holds what is
  visible, and such an import has copied exactly the items it no longer has to write, rows (`RowsCopied`) and
  aliases (`NamesCopied`), so that the hash either writes is `Accurate`; every other change marks the request as
  one whose change the hash does not tell (`dirty`).
* `ContentProofs`: `TypeCorrect`, `ContentRecorded`, `NumbersSound`, `ImportComplete`, `ExportComplete`,
  `EditsKept`, `OthersFieldsKept`, for `ContentSpec`; a step of either side leaves the other's invariant alone.
  Of the log: the key to the first is `Known`: not only what an entry holds, but also what any mutation has read
  before and may yet find equal, is accounted for, and what is accounted for stays so (`KnownStays`). `Numbered`
  says that a number picked follows one in the log; `Imported` that each log row of an import is written or still
  to come, and never before its content row. Of the studio: that a typed text is unsaved or written (`TextKept`)
  is not inductive, since an answer clears what is unsaved and relies on the request having written it. For a
  field that is not at risk, `Carried` says that all saves of the page under way carry one text, the one it
  shows, so it does not matter which of them is served last or twice; `Awaited` that the one the page waits for
  carries what is pending and, once it is well, has written it; `Typing` that what is being typed is pending and no save of it is under way.
  `AsShown`, that a pending text is the shown one, holds at risk or not. Nearly every step only asks less of the
  saves than before (`Calmer`), and one lemma, `Stays`, covers these. `OthersFieldsKept` is a step property: it
  needs the invariant only for the types.
* `BootstrapProofs`: `TypeCorrect`, `MarkerComplete`, `BatchesDone`, `ReadyIsReady`, `SeenIsKept`. `Placed`
  and `Progressed` say what a request has prepared and left done behind it; `Filling` that a field it is about
  to fill is empty or got its text since. What is done stays done (`DoneStays`) because of `DraftsAreFull`: *a
  draft has a text wherever its row has one, but for what its author emptied*. It holds only because a fill
  drops the draft that was begun before it. `Deployment` says what the script has seen at each of its steps.

* `AccountsProofs`: `AccountsTypes`, `OneSessionPerLink`, `RevokedIsOut`, `OldTokenRetired`. `RevokedIsOut` says of
  every request let in that its role is one the guard of the route admits; over a session, that the session was
  opened and not revoked before the request began, and that the role is that of its link. `LinkInv` says which
  exchange may hold a link: one that has claimed it or whose insert is still in flight; two never do, because
  of UNIQUE. `PairsInv` excuses a pair of rows of one name by a request that overlapped or was given a taken
  token; `AboutToStore` carries that from the look-up to the write.
* `ServicesProofs`: `ServicesTypeCorrect`, `ReadyRunsAreWhole`, `ConfigIsRecent`, `LeadsAreOne`, `LeadsKeepWhatTheyHave`, `SavedTemplatesAreWhole`,
  `ReplacedPasswordIsOut`, `ResetsNeedTheirLink`, `RevokedSessionsAreOut`, `CandidatesVerify`, `AcceptedIsWhole`,
  `EditsStaySeen`. Each service has an invariant that is inductive for its own steps, and a step of `ServicesNext`
  is a step of one of them that leaves the others alone (`StepsApart`). The key facts: a cached copy is never
  dated after its rows were selected (`DatedEarly`); an answered submission names the row it saw (`Follows`);
  what a save has checked stays approved (`Checked`, `Grows`), unless an import marks it torn; a reset past its
  read names the account of its link (`Consistent`). For the artifacts, `CanonicalIsOne` shows that every
  bootstrap has the same canonical form whatever was drawn, `SignedVerifies` that every signing under a trusted
  key verifies, and `VerifiedIsOneSigning` that what verifies is a whole one: the manifest counts and names the
  payloads, so none can be missing or from elsewhere. For a deployment, `Obtains` says which resources a run has
  made sure of by the stage it is at, and `Repaired` what its database has by then. `ListingFinds`: since
  Cloudflare takes a name once (`CloudInv`), a listing that finds a name finds the one resource of that name,
  wherever its pages end. `SameDatabase`: whoever answers for an environment uses the environment's own database,
  so a setup that an older worker answers is this run's. Resources, columns, records and content are only added
  (`Lasts`), so what a run has seen stays so while others go on (`RunStays`).

The type invariants of `WorkspaceCheckpoint` and `AssetRegistry` are proved and no longer asked of a run.

Left to TLC: `ChargedIsGranted` and `ExchangeIsAnswered`, since liveness under fairness is beyond the prover.
The finite instances also show that the invariants are not vacuous: every action of every module fires.

## 6. Plan

Done, most important behaviour first: `Checkout`, `WorkspaceCheckpoint`, `PaymentSettings`, `AssetRegistry`,
`ContentRelease`, `Editor`, `Bootstrap`, `AdminSso`, `McpTokens`, `CustomerAuth`, `RuntimeConfig`, `Leads`,
`EmailTemplates`, `PreviewArtifacts`, `Deployment`, and the abstract `Purchase`, `AuthoredLedger` and
`AssetHistory`, with their proofs. Left, should the code grow:

1. In `Editor`, a submission to several entries (the page and its chrome), whose saves are sent one after the
   other and cleared together, and translations, which create the source entry first.
2. A composition of `Checkout` with `PaymentSettings`. The order keeps the currency and the price of its own
   quote and the webhook compares with the order, so no property needs it now.

## 7. Not modelled

Cryptography and token formats (a check that passes or ends the request), HTTP shapes, mail and text
rendering, SEO, pages and the shell of the builder, read-only queries, the proxied places service and the outside
astrology computation have no state that another step depends on. Row validation and canonical ordering in the
checkpoint are pure and appear as a request that ends without a write.

External, and modelled only from how the code uses them: the payment and mail providers, EmDash (its handlers,
its migrator, its administration of service users), Cloudflare, GitHub and whoever verifies artifacts.

Left out of modules that are otherwise there: the local path of the builder's sign-in, which is off in a deployed
site; the lifetime of customer sessions and reset links, which is a request that ends; the normalisation of an
Astro build (`preview-artifact-build.mjs`) and the bytes of SQLite and gzip; a pipeline's file of secrets and
the seeding of template assets; in `Editor` the inspector's SEO inputs, other locales, and a
submission to several entries; soft deletion, translations and
releases in `Bootstrap`. Scripts that only read or check a source tree have no state.

Points of the code that the models reach and no property judges, since the code promises nothing there: the
mail of an order is not repeated when the sender settings cannot be read (`human-design-orders.ts`); two
registrations that expect the same revision (`project-assets.ts:594`); an import that meets a registration of
the same alias (`project-assets.ts:537`); the number of the state row, which the last writer decides
(`content-release.ts:806`); the preference and the price of a quote, which are two reads (`payment-pricing.ts:9`);
a row that an author creates while the bootstrap looks for it ends the request, and the script's retry goes on
(`emdash-bootstrap.ts:689`); a pipeline's variables that only the next run reads
(`ensure-cloudflare-resources.mjs`).
