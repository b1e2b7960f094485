SPECIFICATION FairOccSpec
CONSTANTS
  NbBin = 3
  NbNotBin = 3
  MaxLevel = 3
INVARIANTS OccTypeOK ListExact SavedExact
PROPERTIES LoopsEnd Backtracks
