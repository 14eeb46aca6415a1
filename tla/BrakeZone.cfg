\* Any sensor may change at any time; three polls stand for 500, a FIFO of
\* three edges overflows, and the counter wraps at four.
CONSTANTS
  QuietLimit = 3
  BatchSize = 2
  FifoCap = 3
  IntMax = 4
SPECIFICATION Spec
INVARIANTS TypeOK QuietCountSound CoverNotLost
PROPERTIES EmptyOnlyWhenUncovered
