SPECIFICATION FairSpec
CONSTANTS
  r1 = r1  r2 = r2
  NS = 4
  Rank = {r1, r2}
  Struct <- Sparse4
  Owner <- OwnerB
  LDL = FALSE
PROPERTIES RightLookingSpec Returns
