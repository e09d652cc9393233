SPECIFICATION SessionsSpec
CONSTANTS
  Window = {main}
  main = main
  Relay = {c1, c2, c3}
  c1 = c1
  c2 = c2
  c3 = c3
  MaxToken = 3
  Slow = FALSE
INVARIANTS
  WindowsRecover
CHECK_DEADLOCK FALSE
