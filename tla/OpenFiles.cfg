CONSTANTS
  FTABLE_ENTRIES = 3
  MAX_OFFSET = 1
  Offsets <- MCOffsets
  Flags = {0, 1}
  MAX_LOST = 2
  FDTABLE_ENTRIES = 3
SPECIFICATION OpenFilesSpec
INVARIANTS
  OpenedArePresent
  DescriptorsDistinct
PROPERTIES
  EntriesStay
  ImplementsSlotAllocator
CHECK_DEADLOCK FALSE
