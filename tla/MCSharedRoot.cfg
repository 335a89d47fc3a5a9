SPECIFICATION RootSpec
CONSTANTS
  Keys = {k1, k2, k3, k4}
  MaxSegments = 3
  SegmentKeys = 2
  Uses <- CareUses
INVARIANTS FlushedIsDurable IndexMatchesData StoredOnce ReadBack ReaderServed
PROPERTIES KeptOnDisk FolderImplements PackWrittenOnce
