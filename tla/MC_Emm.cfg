CONSTANTS
  NumPages = 14
  EnclaveBase = 1
  EnclaveEnd = 14
  UserBase = 5
  UserEnd = 13
  Lens = {1, 2}
  Addrs = {3, 9}
  Hints <- MCHints
  Prots <- MCProts
  Tags = {"Reserve"}
  LoaderRegions <- MCLoaderRegions
  HostFaults = TRUE
  MaxEmas = 5
  NONE = NONE
  ChunkPages = 1
  GuardPages = 1
  RsizePages = 1
  NodesPerChunk = 3
  StaticNodes = 12
SPECIFICATION Spec
CHECK_DEADLOCK FALSE
VIEW StateView
INVARIANT TypeOK
INVARIANT HeapGuarded
