SPECIFICATION FairSpec
CONSTANTS
  Node = {n1, n2, n3}
  NoNode = NoNode
  NoFd = NoFd
  Handle = {1, 2, 3, 4}
  Root = 1
  InitTree <- MCInitTree
  Paths <- MCPaths
  OtherNames <- MCOtherNames
  Names <- MCNames
  Counts = {2}
  MAX_OPEN_FILES = 3
  MAX_READ_DATA = 1
  MAX_WRITE_DATA = 1
  MAX_FILE_NAME_SIZE = 4
  MaxFileSize = 1
  EntrySize = 2
INVARIANTS
  TypeOK
  
  ListMatchesCount
PROPERTIES
  ImplementsTable
  
