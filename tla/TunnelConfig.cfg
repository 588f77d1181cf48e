CONSTANTS
  Ports = {0, 443, 70000}
  Counts = {0, 1, 70000}
  Unset = Unset
SPECIFICATION Spec
INVARIANTS TypeOK LoadedIsUsable  ShowsWhatItPublishes
CHECK_DEADLOCK FALSE
