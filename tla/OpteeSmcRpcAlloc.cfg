SPECIFICATION Spec
CONSTANTS
  Clients = {c1}
  Buffers = {b1, b2}
  Null = Null
  Sessions = {s1}
  RpcFuncs = {"ALLOC", "FREE"}
  RpcCmds = {}
  Threads = {1}
  MaxRpcs = 1
INVARIANTS
  RpcAllocAnswered
CHECK_DEADLOCK FALSE
