CONSTANTS
  a1 = a1  a2 = a2  r1 = r1  r2 = r2  r3 = r3  s1 = s1  x = x
  Assets = {a1, a2}
  NoAsset = NoAsset
  Revisions = {r1, s1}
  NoRevision = NoRevision
  Aliases = {x}
  assetOf <- AssetOf
  aliasesOf <- AliasesOf
  Protected = {r1}
  Fixed = {}
  Snapshots <- NoImports
  NoSnapshot = NoSnapshot
  Requests <- TwoAssetRequests
  Procs = {p1, p2}
  MaxRelease = 2
SPECIFICATION Spec
PROPERTY AliasNeverReassigned
CHECK_DEADLOCK FALSE
SYMMETRY Symmetry
