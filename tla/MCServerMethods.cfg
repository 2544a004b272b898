CONSTANTS
  c1 = c1
  c2 = c2
  s1 = s1
  s2 = s2
  i1 = i1
  o1 = o1
  o2 = o2
  Conns = {c1, c2}
  Sessions = {s1, s2}
  Objects = {o1, o2}
  Ids = {i1}
  Transactions <- MCTransactions
  NoSession = NoSession
  NoObject = NoObject
  MaxRuns = 2
SPECIFICATION Spec
SYMMETRY Symmetry
INVARIANTS TypeOK FreshAnswers RefsOwn StopsAtFailure
PROPERTIES OneSession
