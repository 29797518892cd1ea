\* Bodies of up to 12 letters; streams of up to four chunks.
SPECIFICATION Spec
CONSTANTS
  s1 = s1
  s2 = s2
  t1 = t1
  t2 = t2
  padding = padding
  dollar = dollar
  heading = heading
  Std <- MCStd
  Custom <- MCCustom
  Body <- MCBody
  Letter <- MCLetter
  Heading <- MCHeading
  Chunk <- MCChunk
  Pad = padding
  WirePad = dollar
  NoHead = NoHead
  NoReason = NoReason
  Stop = "stop"
  MaxChunks = 4
INVARIANTS
  TypeOK
  ReadBack
  SameAnswer
  CallsInOrder
  OneContentKey
  DoneMeansAll
CHECK_DEADLOCK FALSE
