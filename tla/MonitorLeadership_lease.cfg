SPECIFICATION FairSpec
CONSTANTS
  main = main  chat = chat  other = other  Nobody = Nobody
  Monitors = {main, chat, other}
  Installed = {main}
  Pids = {1, 2, 3}
  FirstPid <- PidOf
  TTL = 1
  MaxFaults = 2
  MaxOverlaps = 2
INVARIANTS TypeOK
PROPERTIES LeaseSettles
