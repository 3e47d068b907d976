SPECIFICATION Spec
CONSTANTS
  Procs <- MCProcs
  Root = 1
  Addrs <- MCAddrs
  Sizes <- MCSizes
  CloseArgs <- MCCloseArgs
  NShMax = 2
  a1 = a1
  a2 = a2
  a3 = a3
PROPERTIES
  CloseReleases
