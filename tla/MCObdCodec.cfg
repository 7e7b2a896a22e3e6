SPECIFICATION FairCodecSpec
CONSTANTS
  BufSize = 12
  Texts <- CheckedTexts
  Unset = Unset
INVARIANTS
  FrameDecoded
PROPERTIES
  DecodeEnds
CHECK_DEADLOCK FALSE
