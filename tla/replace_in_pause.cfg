SPECIFICATION Spec
CONSTANTS
  c1 = c1
  c2 = c2
  c3 = c3
  c4 = c4
  c5 = c5
  c6 = c6
  Clients = {c1, c2, c3}
  Cmd <- PauseReplaceResume
  Casts <- Everyone
  Workers = {w1}
  Interruptible = {w1}
  Main = main
  NoTask = notask
  Waves = 1
  Retries = 0
INVARIANT ReplaceReplanned
