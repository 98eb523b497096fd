SPECIFICATION FairSpec
CONSTANTS
  server = server
  command = command
  old = old
  Procs = {server, command, old}
  NoProc = NoProc
  Supports <- MCSupports
  MaxFaults = 1
INVARIANTS TypeOK VersionsTrue OpenedComplete AloneOpens
PROPERTY RetryOpens
CHECK_DEADLOCK FALSE
