SPECIFICATION Spec
CONSTANTS
  Granules = 8
  Align = 16
  Requests = {0, 16, 17, 40, 200}
  Null = Null
  Junk = Junk
INVARIANTS TypeOK BlocksTile ListEnds
PROPERTIES ImplementsAllocator
