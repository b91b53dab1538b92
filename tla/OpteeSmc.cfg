SPECIFICATION FairSpec
CHECK_DEADLOCK FALSE
CONSTANTS
  Clients = {c1, c2}
  Buffers = {b1, b2}
  Null = Null
  Sessions = {s1, s2}
  RpcFuncs = {"ALLOC", "FREE", "CMD", "OTHER"}
  RpcCmds = {"SHM_ALLOC", "SHM_FREE", "WAIT_QUEUE"}
  Threads = {1, 2}
  MaxRpcs = 1
INVARIANTS OneOwner SessionServed
PROPERTIES CallsReturn
