SPECIFICATION Spec
CONSTANTS
  k1 = k1
  k2 = k2
  k3 = k3
  k4 = k4
  k5 = k5
  Clients = {k1, k2, k3, k4, k5}
  Role <- EveryRole
  StartModes = {"start", "start-setup", "run", "run-setup"}
  Casts <- Crowd
  Controllers = {p, q, r}
  Uis = {u, v}
  Foreground = fg
  Starter = starter
  None = None
  Waves = 1
  Crashes = TRUE
INVARIANTS
  TypeOK
  OneController
PROPERTY KeepsPromise
SYMMETRY Symmetry
