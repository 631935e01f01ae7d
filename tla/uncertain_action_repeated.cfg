SPECIFICATION Spec
CONSTANTS
  a = a
  b = b
  Tasks = {a, b}
  MaxWorkers = 2
  Integration = integration
  User = user
  MaxRetries = 1
  Settings <- Disturbance
PROPERTY NeverRepeatUncertain
