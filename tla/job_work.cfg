SPECIFICATION Spec
CONSTANTS
  a = a
  b = b
  Tasks = {a, b}
  MaxWorkers = 2
  Integration = integration
  User = user
  MaxRetries = 1
  Settings <- AllSettings
INVARIANTS
  TypeOK
  LedgerTruthful
  SuccessIsReal
  ActingIsRegistered
  NoOrphanBesideEngine
  DependenciesFirst
  OneWriterInRoot
  WorkKept
  ApprovedIsLanded
PROPERTIES
  UserWorkKept
  LandsWhole
  NoBlindRepeat
  KeepsPromise
  EngineEnds
