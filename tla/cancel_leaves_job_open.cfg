SPECIFICATION FairSpec
CONSTANTS
  k1 = k1
  k2 = k2
  k3 = k3
  k4 = k4
  k5 = k5
  Clients = {k1, k2}
  Role <- CancelPause
  StartModes = {"start"}
  Casts <- Everyone
  Controllers = {p}
  Uis = {}
  Foreground = fg
  Starter = starter
  None = None
  Waves = 1
  Crashes = FALSE
PROPERTY CancelEnds
