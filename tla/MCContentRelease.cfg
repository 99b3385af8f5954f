CONSTANTS
  a = a  b = b  v0 = v0  v1 = v1  v2 = v2
  Entries = {a, b}
  Values = {v0, v1, v2}
  NoValue = NoValue
  Initial <- Seeded
  Snapshots <- Releases
  NoHash = NoHash
  Requests <- AllRequests
  Procs = {p1, p2}
  MaxNumber = 1
  hero = hero  title = title
  first = first  second = second  third = third
  Pages = {page1}
  Posts = {1, 2}
  Fields = {hero, title}
  Title = title
  Compulsory = {title}
  Text = {first, second, third}
  Edits <- HeroTexts
  Empty = Empty  Default = Default
  NoText = NoText  NoField = NoField  NoPage = NoPage
  Calls <- TitleCalls
SPECIFICATION ContentSpec
INVARIANTS
  ContentTypeOK
  ContentIsRecorded
  NumbersAreSound
  ImportIsComplete
  ExportIsComplete
  EditsAreKept
PROPERTIES
  OnlyNamedFieldsChange
CHECK_DEADLOCK FALSE
SYMMETRY Symmetry
