CONSTANTS
  c1 = c1
  c2 = c2
  s1 = s1
  Conns = {c1, c2}
  SecureConns = {c2}
  Sessions = {s1}
  NoConn = NoConn
  NoSession = NoSession
  NThreads = 2
SPECIFICATION FairSpec
PROPERTIES HandlerEnds DepartedForgotten
