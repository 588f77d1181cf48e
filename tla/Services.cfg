CONSTANTS
  Names = {a}
  Contents = {c1, c2}
  ReadOnly = {c2}
  Default = c1
  Menus = {m1, m2}
  Requests = {r}
  NoFile = NoFile
  Torn = Torn
  MaxOps = 2
  MaxFaults = 1
  MaxVersion = 2
SYMMETRY MenuSymmetry
SPECIFICATION Spec
INVARIANTS TypeOK SettingsWhole NoOrphans
PROPERTIES ReportsAreTrue BinaryAdvances
CHECK_DEADLOCK FALSE
