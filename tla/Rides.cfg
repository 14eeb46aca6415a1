\* As many trains as the ride has, all but one of its zones.
CONSTANTS
  Train = {t1, t2, t3}
  PanelModes = {0, 3}
  ShortReads = FALSE
  Timely = {"liftHill", "ride", "preStation", "station"}
SPECIFICATION FairSpec
PROPERTIES RideRuns StopStopsMotors
