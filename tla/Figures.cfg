SPECIFICATION Spec
CONSTANTS
  Periods <- AllPeriods
  TaxonomyOrder <- Alphabet
  Changes <- AllChanges
  Flaggable <- AllFlaggable
  Seed <- Figures
  MaxChanges = 3
CHECK_DEADLOCK FALSE
INVARIANTS
  MetricsFitTogether
  AdviceSuffices
PROPERTIES
  GrowthComparesLikeWithLike
