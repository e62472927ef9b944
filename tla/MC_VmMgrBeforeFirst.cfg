CONSTANTS
  NumPages = 10
  EnclaveBase = 1
  EnclaveEnd = 10
  UserBase = 4
  UserEnd = 7
  Lens = {1, 2}
  Addrs = {1, 4, 5, 8}
  Hints <- MCHints
  Prots <- MCProts
  Tags = {"Reserve"}
  LoaderRegions <- MCLoaderRegions
  HostFaults = FALSE
  MaxEmas = 3
  NONE = NONE
SPECIFICATION Spec
CONSTRAINT NodeBound
VIEW StateView
INVARIANT EmasDisjoint
