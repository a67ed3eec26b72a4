SPECIFICATION Spec
CONSTANTS
  Spaces <- MCSpaces
  Default = "default"
  SpaceOf <- MCSpaceOf
  Settings <- MCSettings
  Defaults <- MCDefaults
  Batch = 2
  MaxConcurrent = 1
  Allowance = 30000
  Margin = 60000
  Heartbeat = 30000
  MaxChanges = 2
PROPERTY HeldNeverRun
CHECK_DEADLOCK FALSE
