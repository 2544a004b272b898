CONSTANTS
  c1 = c1
  c2 = c2
  s1 = s1
  s2 = s2
  Conns = {c1, c2}
  SecureConns = {c2}
  Sessions = {s1, s2}
  NoConn = NoConn
  NoSession = NoSession
  NThreads = 2
SPECIFICATION Spec
INVARIANT NoSecureLeak
