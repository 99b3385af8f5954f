CONSTANTS
  Editors = {e1, e2}
  MaxRevision = 2
SPECIFICATION Spec
INVARIANT ExistingCheckoutOnly
