SPECIFICATION Spec
CONSTANTS
  W = 5
  N = 3
  Regs <- Registers
  Junk = 13
  Bodies <- AllBodies
  Envs <- AllEnvs
  Quirks = {}
  Fuel = 40
PROPERTY MeaningKept
PROPERTY BackEndsAgree
PROPERTY Balanced
PROPERTY BodyWhole
PROPERTY MirFaithful
CHECK_DEADLOCK FALSE
