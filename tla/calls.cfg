CONSTANTS
  Systems = {"linux", "aix", "osf", "solaris", "windows", "darwin", "freebsd", "hpux"}
  Envs <- MCEnvs
  Machine <- MCMachine
  Foreign <- MCForeign
  NodeCpus <- MCNodeCpus
  ULongBits = 2
  MaxCalls = 2
  CpuArgs <- MCCpuArgs
  CpuFlags <- MCCpuFlags
  NodeArgs <- MCNodeArgs
  MemFlags <- MCMemFlags
  MemPolicies <- MCPolicies
SPECIFICATION Spec
INVARIANTS
  ClearedOnce
  HeldByBackend
  NoForeignHook
  BoundInside
  AnswerIsTrue
  MembindReadBack
  ReleasedAsAllocated
CHECK_DEADLOCK FALSE
