SPECIFICATION PartsSpec
CONSTANTS
  None = None
  Bad = Bad
  Clients = {c1}
  Publishers = {p1, p2}
  Names <- TwoNames
  Versions <- TwoPres
  Contents = {"A", "B"}
  Parts <- PartsOf
  Manifests <- SomeManifests
  Signatures <- OneSigner
  Faults = {"network", "republish", "crash", "edit", "checkout", "lockfile"}
  MaxPublish = 3
  MaxInstall = 2
  MaxFault = 2
INVARIANT BuildsWhole
INVARIANT OnlySigned
INVARIANT LockExact
INVARIANT IndexExact
PROPERTY InstallTakes
CHECK_DEADLOCK FALSE
