SPECIFICATION RootSpec
CONSTANTS
  Keys = {k1, k2, k3}
  MaxSegments = 2
  SegmentKeys = 2
  Uses <- FreeUses
PROPERTIES PackWrittenOnce
