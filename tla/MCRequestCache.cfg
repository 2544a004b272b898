CONSTANTS
  c1 = c1
  c2 = c2
  s1 = s1
  i1 = i1
  Conns = {c1, c2}
  Sessions = {s1}
  Ids = {i1}
  NoSession = NoSession
  MaxExecs = 4
SPECIFICATION FairSpec
INVARIANTS TypeOK TimersMatchCache RetryAnswered
PROPERTIES ErasesItself ImplementsStore EntryExpires
