SPECIFICATION Spec
CONSTANTS
  Icons = {"a", "b", "c", "m"}
  Missing = {"m"}
  Rows = {"r1", "r2", "r3"}
  Pages = {1, 2}
  PageOf <- MCPageOf
  Names <- MCNames
  Kind <- MCKind
  Threads = 1
  MaxPools = 2
  Chunk = 1
  MaxParts = 3
  Lists <- MCLists
  Input <- MCInput
  Separator = ";"
  BlockSize = 2
  ReadSize = 3
  DirectoryAt <- MCDirectoryAt
  Top <- MCTop
  Contents <- MCContents
  Batch = 1
  PipeSize = 2
  NumModes = 2
  MaxEntries = 2
  MaxKeys = 2
  Growing = {0}
  Texts = {"a"}
  Fits <- MCFits
  DelayLimit = 2
  DialogMotion = TRUE
  AutoSelect = FALSE
  Answers <- MCAnswers
INVARIANTS FilterExact RowsArePrefix
PROPERTIES IconsShown ReaderDelivers ScanExact DialogServes
CHECK_DEADLOCK FALSE
