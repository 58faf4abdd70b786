CONSTANTS
  raw = raw
  done = done
  i1 = i1
  i2 = i2
  i3 = i3
  Absent = Absent
  Nothing = Nothing
  Torn = Torn
  Paths = {raw, done}
  Initial = {raw}
  Inodes = {raw, i1, i2, i3}
  Ops <- MCOps
  MaxFaults = 1
  MaxEdits = 2
SPECIFICATION Spec
INVARIANT FilesInv
PROPERTIES OnlyLateEditsAreLost OneStepAsInVault
SYMMETRY InodeSymmetry
CHECK_DEADLOCK FALSE
