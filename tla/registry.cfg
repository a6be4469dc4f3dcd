\* Three server processes, one repository.
SPECIFICATION RegistrySpec
CONSTANTS
  Servers = {s1, s2, s3}
  NoServer = NoServer
  StartPaused = FALSE
INVARIANTS WorkHoldsLease SoleWriter PausedMeansClosed
SYMMETRY ServerSymmetry
