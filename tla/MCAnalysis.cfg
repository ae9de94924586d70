SPECIFICATION Spec
SYMMETRY RankSymmetry
CONSTANTS
  N = 5
  NP = 3
  Options <- OptionSet
  Rank = {r1, r2}
  MaxSup = 4
INVARIANTS CountsAreExact StructureIsExact BlocksTile GroupsFair SignalsMatchDeps EdgesSound ForwardFirst
