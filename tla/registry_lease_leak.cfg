\* A load refused although nobody has a runtime.
SPECIFICATION RegistrySpec
CONSTANTS
  Servers = {s1, s2}
  NoServer = NoServer
  StartPaused = FALSE
PROPERTIES ConflictNamesAWriter
