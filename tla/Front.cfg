SPECIFICATION FrontSpec
CONSTANTS
  NoFile = NoFile
  Std = {"std.io"}
  Projects <- FrontProjects
  Fns <- FrontFns
  SugarEnvs <- FrontEnvs
  SugarHeap <- FrontHeap
  W = 5
  N = 3
  Junk = 13
  SugarFuel = 12
  FlowFns <- FrontFlows
PROPERTY SugarKept
INVARIANT LoadsExactly
PROPERTY ParsesBack
PROPERTY AlarmsAreReal
PROPERTY FaultsRefused
CHECK_DEADLOCK FALSE
