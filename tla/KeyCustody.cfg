SPECIFICATION Spec
CONSTANTS
  k1 = k1
  k2 = k2
  k3 = k3
  Key = {k1, k2, k3}
  NoKey = NoKey
  Broken = Broken
  Operator = {k3}
  AllowFile = TRUE
  MaxRetired = 1
  MaxEvents = 2
SYMMETRY Made
INVARIANTS KeysKept ServesTheRecord
