SPECIFICATION FairSpec
CONSTANTS
  c1 = c1
  c2 = c2
  c3 = c3
  c4 = c4
  c5 = c5
  c6 = c6
  Clients = {c1, c2, c3, c4, c5, c6}
  Cmd <- EveryKind
  Casts <- SteerOrCancel
  Workers = {w1, w2}
  Interruptible = {w1, w2}
  Main = main
  NoTask = notask
  Waves = 2
  Retries = 0
INVARIANTS
  TypeOK
  QueueOK
  TerminalQuiet
  ReplaceReplanned
  SteeringReported
  CancelNeverCompletes
PROPERTY EngineStops
