SPECIFICATION Spec
CONSTANTS
  Sectors = 7
  SectorBytes = 2
  IndexSize = 2
  CreateLengths = {1, 5}
  Offsets = {1, 8}
  Sizes = {2}
  Byte = {1}
  Zero = 0
  MaxOpen = 2
INVARIANTS TypeOK OwnedOnce NothingLost
PROPERTY FilesKept
