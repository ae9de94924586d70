SPECIFICATION Spec
CONSTANTS
  r1 = r1  r2 = r2
  NS = 3
  Rank = {r1, r2}
  Struct <- Dense3
  Owner <- OwnerC
  LDL = TRUE
INVARIANTS CountersExact AnnouncedIsFinal PivotBufferPresent CleanReturn
PROPERTY RightLookingSpec
