SPECIFICATION Spec
CONSTANTS
  W = 5
  N = 3
  Regs <- Registers
  Junk = 13
  Bodies <- AllBodies
  Envs <- AllEnvs
  Quirks = {"r10"}
  Fuel = 40
PROPERTY LeftKept
CHECK_DEADLOCK FALSE
