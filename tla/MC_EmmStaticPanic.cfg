CONSTANTS
  NumPages = 14
  EnclaveBase = 1
  EnclaveEnd = 14
  UserBase = 5
  UserEnd = 13
  Lens = {1, 2}
  Addrs = {3, 8, 9}
  Hints <- MCHints
  Prots <- MCProts
  Tags = {"Reserve"}
  LoaderRegions <- MCLoaderRegions
  HostFaults = FALSE
  MaxEmas = 6
  NONE = NONE
  ChunkPages = 1
  GuardPages = 1
  RsizePages = 1
  NodesPerChunk = 3
  StaticNodes = 6
SPECIFICATION Spec
VIEW StateView
INVARIANT NoPanic
