CONSTANTS
  c1 = c1
  c2 = c2
  c3 = c3
  s1 = s1
  s2 = s2
  t1 = t1
  Conns = {c1, c2, c3}
  Sessions = {s1, s2}
  Topics = {t1}
  NoConn = NoConn
  SessionOf <- MCSessionOf
  Before <- MCBefore
  MaxRequests = 2
  MaxEmissions = 1
SPECIFICATION Spec
INVARIANTS TypeOK OncePerSession SubscribedIsConnected AnsweredIsHeard
PROPERTIES SilentAfterUnsubscribe
