SPECIFICATION FairSpec
CONSTANTS
  NS = 6
  Struct <- Tree6
  all_np = 4
  type = "WRAP2D"
  Rank <- Ranks
  Map <- Mapped
  MaxIrecv = 1
INVARIANTS PhasesApart CountersExact AnnouncedIsFinal CleanExit SolutionExact
PROPERTIES FactorizationSpec Returns
