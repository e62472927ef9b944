CONSTANTS
  NumPages = 15
  EnclaveBase = 1
  EnclaveEnd = 15
  UserBase = 4
  UserEnd = 7
  Lens = {1, 2}
  Addrs = {5, 8, 13}
  Hints <- MCHints
  Prots <- MCProts
  Tags = {"Reserve"}
  LoaderRegions <- MCNoRegions
  HostFaults = FALSE
  MaxEmas = 10
  NONE = NONE
  ImageBase = 1
  Phdrs <- MCPhdrs
  TextRelo = TRUE
  Table <- MCThreadTable
SPECIFICATION BootSpec
CONSTRAINT BootHeadroom
CONSTRAINT NodeBound
VIEW BootView
PROPERTY LayoutEstablished
