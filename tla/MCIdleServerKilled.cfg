CONSTANTS
  h1 = h1
  h2 = h2
  h3 = h3
  Handlers = {h1, h2, h3}
  MaxThreads = 12
  MaxFiles = 12
  ExceptionLimit = 80
  KillLimit = 70
  BaseThreads = 2
  BaseFiles = 2
  ThreadsPer = 2
  FilesPer = 1
  MaxRequests = 9
SPECIFICATION FairSpec
PROPERTY IdleServerKilled
