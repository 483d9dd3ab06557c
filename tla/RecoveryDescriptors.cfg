SPECIFICATION Spec
CONSTANTS
  Conns = {1, 2, 3}
  Cids = {1, 2, 3}
  Objs = {a}
  NoState = NoState
  StableOwner = TRUE
  AutoReconnect = TRUE
  ReadChunks = 2
  Fds = {1, 2}
  Writes = {}
  SeqMod = 2
  Attempts = 1
  MaxOffset = 0
  MaxOwner = 2
  MaxFaults = 3
INVARIANTS
  SlotInSync
  StateKept
