SPECIFICATION Spec
CONSTANTS
  Notes = {n1, n2}
  Folders = {f1}
  Root = root
  Jobs = {j1, j2}
  Nil = nil
  Unset = unset
  Unreadable = unreadable
  MaxVer = 2
  MaxLocks = 1
  MaxRows = 2
  BatchSize = 1
SYMMETRY Symm
PROPERTY UnreadableKept
