CONSTANTS
  DefaultWait = 100
  MaxWait = 10000
  w1 = w1
  w2 = w2
  Workers = {w1, w2}
SPECIFICATION FairSpec
INVARIANTS TypeOK NoThreadLeft WaitBounded WaitsEnd
PROPERTIES WaitGrows QuitEnds StopReturnsUnlessLate
