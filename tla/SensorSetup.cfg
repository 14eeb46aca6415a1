\* The four zones of main.  Its part ends with the threads or the process.
CONSTANTS
  NumZones = 4
SPECIFICATION Spec
INVARIANTS TypeOK GivesBackWhatItTook RideIsWatched
CHECK_DEADLOCK FALSE
