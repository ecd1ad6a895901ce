CONSTANTS
  Systems = {"linux"}
  Envs <- MCEnvs
  Machine <- MCMachine
  Foreign <- MCForeign
  NodeCpus <- MCNodeCpus
  ULongBits = 2
  MaxCalls = 2
  CpuArgs <- MCCpuArgs
  CpuFlags <- MCCpuFlags
  NodeArgs <- MCNodeArgs
  MemFlags <- MCMemFlags
  MemPolicies <- MCPolicies
SPECIFICATION Spec
INVARIANT
  AllocHonoursStrict
CHECK_DEADLOCK FALSE
