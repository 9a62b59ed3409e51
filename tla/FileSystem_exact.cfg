SPECIFICATION Spec
CONSTANTS
  Sectors = 7
  SectorBytes = 2
  IndexSize = 2
  CreateLengths = {4}
  Offsets = {1, 4}
  Sizes = {2}
  Byte = {1}
  Zero = 0
  MaxOpen = 1
PROPERTY FilesKept
