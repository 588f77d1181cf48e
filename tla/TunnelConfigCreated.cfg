CONSTANTS
  Ports = {0, 443, 70000}
  Counts = {0, 1, 70000}
  Unset = Unset
SPECIFICATION Spec
INVARIANTS CreatedLoads
CHECK_DEADLOCK FALSE
