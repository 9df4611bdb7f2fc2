SPECIFICATION Spec
CONSTANTS
  Strings = {s1, s2, s3}
  Blocks = {b1, b2, b3, b4}
  Free = free
  Null = null
  Gone = gone
  Texts <- SomeTexts
  Codes <- SomeCodes
  MaxLength = 3
SYMMETRY Symmetry
CHECK_DEADLOCK FALSE
INVARIANTS TypeOK OwnsItsArray OnlyEmptyLost HoldsItsText
