CONSTANTS
  Editors = {e1, e2}
  MaxRevision = 3
  provider = provider  region = region
  ses = ses  gmail = gmail  east = east
  ConfigKeys = {provider, region}
  Selectors = {provider}
  Supported = {ses, gmail}
  Settings = {ses, gmail, east, None, Blank}
  None = None
  Blank = Blank
  EnvValue <- MCEnv
  Bodies <- MCBodies
  Isolates = {i1, i2}
  i1 = i1
  Readers = {r1}
  IsolateOf <- MCIsolateOf
  Syncs = {s1}
  Ttl = 2
  MaxClock = 3
  FormKeys = {form}
  form = form
  NewsletterKeys = {newsletter}
  BusinessKeys = {order}
  newsletter = newsletter  order = order  phone = phone
  Contacts = {phone}
  Submissions <- MCSubmissions
  NoContact = NoContact
  LeadIds = {l1, l2, l3}
  Payments = {p1, p2}
  NoPayment = NoPayment
  Visitors = {v1, v2}
  hello = hello  nameText = nameText  leaveText = leaveText
  name = name  unsubscribe = unsubscribe
  welcome = welcome  promo = promo
  TemplateKeys = {1, 2}
  EventTypes = {welcome, promo}
  Marketing = {promo}
  Audiences = {customer}
  Customer = customer
  Texts = {hello, nameText, leaveText}
  VariablesOf <- MCVariablesOf
  Variables = {name, unsubscribe}
  UnsubscribeUrl = unsubscribe
  NativeVariables = {name}
  Requests <- MCRequests
  Workspaces <- MCWorkspaces
  Seed <- SeedWorkspace
  Authors = {a1, a2}
  Omitted = Omitted
  old = old  new = new  k1 = k1  k2 = k2  k3 = k3
  other = other  chunk = chunk  entry = entry  map = map  dotEnv = dotEnv
  logo = logo  lamp = lamp  twin = twin  en = en  hi = hi
  Producers = {pr1, pr2}
  Directories = {d1, d2}
  Jobs <- MCJobs
  TrustedKeys = {k1, k2}
  Trees <- MCTrees
  LeftOut = {map}
  Forbidden = {dotEnv}
  Required = {entry}
  Entries = {en, hi}
  SourceOf <- MCSourceOf
  Ids = {i2, i3, i4, i5}
  Times = {1, 2}
  Epoch = 0
  Assets = {logo, twin, lamp}
  AssetBytes <- MCAssetBytes
  Garbage = Garbage
  Absent = Absent
  Emails = {e1}
  Passwords = {p1c, p2c}
  Secrets = {t1, t2}
  Clients = {c1, c2}
  Nil = Nil
  Pipelines = {1, 2}
  CommitOf <- MCCommitOf
  Environments = {preview}
  Shared = Shared
  PageSize = 1
  display = display  description = description  hero = hero
  PluginColumns = {display, description}
  ContentColumns = {hero}
  OldSchemas <- MCOldSchemas
  Unset = Unset
SPECIFICATION ServicesSpec
INVARIANTS
  ServicesTypeOK
  ReadsAreRecent
  OneLeadPerKey
  TemplatesAreWhole
  CandidateVerifies
  AcceptedIsOneSigning
  OldPasswordIsLockedOut
  ReadyIsWhole
PROPERTIES
  SavesOverSeen
  LeadsOnlyGain
  OnlyAnOpenLinkReplaces
CHECK_DEADLOCK FALSE
