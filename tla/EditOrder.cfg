\* Two edits are enough for one to shift the span of the other.
CONSTANTS
  Width <- SomeWidth
  Texts <- ShortTexts
  News <- SomeNews
  MaxEdits <- TwoEdits
SPECIFICATION Spec
INVARIANT OffsetsNeverShift
CHECK_DEADLOCK FALSE
