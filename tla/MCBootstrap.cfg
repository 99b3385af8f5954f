SPECIFICATION Spec
CONSTANTS
  older = older
  newer = newer
  home = home
  main = main
  pages = pages
  title = title
  body = body
  default = default
  edit = edit
  p1 = p1
  p2 = p2
  Builds = {older, newer}
  Expected = newer
  NoBuild = NoBuild
  Entries = {home, main}
  Collections = {pages}
  Fields = {title, body}
  CollectionOf <- MCCollectionOf
  Schema <- MCSchema
  Targets <- MCTargets
  Defaults <- MCDefaults
  Text = {default, edit}
  Empty = Empty
  NoRow = NoRow
  NoDraft = NoDraft
  Edits <- MCEdits
  Batch = 1
  Procs = {p1, p2}
  NoProc = NoProc
SYMMETRY Symmetry
INVARIANTS TypeOK MarkerIsComplete BatchesAreDone ScriptIsRight
PROPERTIES OnlyUnseenIsReplaced
