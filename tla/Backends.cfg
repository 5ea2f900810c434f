SPECIFICATION Spec
CONSTANTS
  Backend = {"sysrepo", "nmda"}
  Leaf = {x, y}
  Value = {v}
  Absent = Absent
  Untouched = Untouched
  Clean = Clean
SYMMETRY Symmetry
INVARIANTS
  TypeOK
PROPERTIES
  OnlyAskedIsWritten
  CommitPublishes
