\* A FIFO of four edges holds one passage of a train; one that does not keep
\* apart and is faster than the monitor overflows it.
CONSTANTS
  QuietLimit = 3
  BatchSize = 2
  FifoCap = 4
  IntMax = 4
SPECIFICATION FairSpec
INVARIANTS TrainTypeOK OccupiedIsSeen
PROPERTIES LeftBecomesEmpty HeldBecomesEntered ImplementsTrackZone
