CONSTANTS
  Train = {1, 2, 3}
  Sample = {s1, s2}
  AirSize = 1
SPECIFICATION FairSpec
INVARIANTS TypeOK RowsAreTrue
PROPERTIES RoundsGoOn HeardIsShown
