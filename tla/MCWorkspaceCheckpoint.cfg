CONSTANTS
  Procs = {p1, p2}
  Contents = {a, b}
  Exports = {x}
  Unseen = Unseen
  NoEnvelope = NoEnvelope
  NoSnapshot = NoSnapshot
  MaxRevision = 1
SPECIFICATION Spec
INVARIANT RevisionIdentifiesContent
PROPERTIES
  NoEditOverwritten
  ActsAtomically
CHECK_DEADLOCK FALSE
SYMMETRY Symmetry
