SPECIFICATION FairSpec
CONSTANTS
  r1 = r1  r2 = r2
  NS = 4
  Rank = {r1, r2}
  Struct <- Dense4
  Owner <- Split
  LDL = TRUE
  Quiesce = TRUE
INVARIANTS CountersExact ReadsFinal SolutionExact NothingOwed
PROPERTIES Returns SubstitutionSpec NoWriteUnderFetch
