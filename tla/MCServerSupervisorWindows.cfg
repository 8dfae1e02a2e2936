SPECIFICATION Spec
PROPERTY NeverSecondServer
CONSTANTS
  w1 = w1
  w2 = w2
  p1 = p1
  p2 = p2
  Nobody = Nobody
  Terminal = Terminal
  Windows = {w1, w2}
  Servers = {p1, p2}
CHECK_DEADLOCK FALSE
