SPECIFICATION Spec
CONSTANTS
  Conns = {1, 2, 3}
  Cids = {1, 2, 3}
  Objs = {a}
  NoState = NoState
  StableOwner = TRUE
  AutoReconnect = TRUE
  ReadChunks = 2
  Fds = {1}
  Writes = {1}
  SeqMod = 3
  Attempts = 2
  MaxOffset = 2
  MaxOwner = 1
  MaxFaults = 2
INVARIANTS
  WriteAtMostOnce
  NoBytesSkipped
PROPERTIES
  CallReturns
