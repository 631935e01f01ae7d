SPECIFICATION Spec
CONSTANTS
  k1 = k1
  k2 = k2
  k3 = k3
  k4 = k4
  k5 = k5
  Clients = {k1}
  Role <- Resume
  StartModes = {"run"}
  Casts <- Everyone
  Controllers = {p}
  Uis = {}
  Foreground = fg
  Starter = starter
  None = None
  Waves = 1
  Crashes = FALSE
INVARIANT OneEngine
