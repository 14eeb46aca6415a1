\* One train and one mode are enough to get to the commented branch.
CONSTANTS
  Train = {t1}
  PanelModes = {0}
  ShortReads = FALSE
  Timely = {"liftHill", "ride", "preStation", "station"}
SPECIFICATION Spec
PROPERTIES RideMovesForward
