\* The operator works on the track with one train on it and presses the
\* emergency stop.
CONSTANTS
  Train = {t1}
  PanelModes = {2, 3}
  ShortReads = FALSE
  Timely = {"liftHill", "ride", "preStation", "station"}
SPECIFICATION FairSpec
PROPERTIES StopStopsMotors
