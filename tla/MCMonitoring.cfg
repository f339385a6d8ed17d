SPECIFICATION Spec
CONSTANTS
  Feeds = {f1}
  Configs <- MCConfigs
  NoConfig = {none}
  MaxChanges = 2
  MaxGenerations = 3
  Exporters = 2
  BufferCapacity = 1
  MaxExports = 3
INVARIANTS
  OneGeneration
  CleanupLast
PROPERTIES
  ConfigFollowed
  ShutdownCompletes
CHECK_DEADLOCK FALSE
