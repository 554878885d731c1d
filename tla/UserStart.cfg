SPECIFICATION USpec
CONSTANTS
  FrameSize = 4
  Layouts <- Maps
  MaxPages = 16
  Entries = 5
  MmioSlots = 1
  Bases = {0, 3}
  Lapic = 27
  Tramp = 2
  Mail = 3
  Infos <- Machines
  MaxCpus = 3
  Ids = {3, 4, 5, 7}
  Bsp = 7
  AddrSize = 140
  TextPage = 20
  CapPage = 25
  Files <- Names
  FileLen <- Sizes
  TestFile = "hello.txt"
  TestBuf = 7
  FlatLens = {2, 4, 6}
  Fds = 2
  ReadMax = 4
  WriteMax = 2
  Pointers <- SomePointers
  Lengths = {1, 2, 5}
INVARIANT UserRuns
CHECK_DEADLOCK FALSE
