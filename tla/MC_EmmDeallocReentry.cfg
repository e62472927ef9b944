CONSTANTS
  NumPages = 15
  EnclaveBase = 1
  EnclaveEnd = 15
  UserBase = 5
  UserEnd = 14
  Lens = {1, 2, 3, 5}
  Addrs = {8, 9}
  Hints <- MCHints
  Prots <- MCProts
  Tags = {"Reserve"}
  LoaderRegions <- MCLoaderRegions
  HostFaults = FALSE
  MaxEmas = 6
  NONE = NONE
  ChunkPages = 1
  GuardPages = 1
  RsizePages = 1
  NodesPerChunk = 5
  StaticNodes = 12
SPECIFICATION Spec
CHECK_DEADLOCK FALSE
CONSTRAINT EmasDisjoint
VIEW StateView
INVARIANT HeapGuarded
