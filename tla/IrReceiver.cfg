SPECIFICATION IrSpec
CONSTANTS
  Code = {c1, c2}
  Nothing = Nothing
  MaxTasks = 2
  MaxObjects = 5
INVARIANT
  DetachReleases
