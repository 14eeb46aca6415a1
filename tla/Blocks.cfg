\* Three trains on four zones, replies that may be read in part, and every
\* mode in which the controller is in charge.
CONSTANTS
  Train = {t1, t2, t3}
  PanelModes = {0, 1, 3, 4}
  ShortReads = TRUE
  Timely = {"liftHill", "ride", "preStation", "station"}
SPECIFICATION Spec
INVARIANTS TypeOK OneTrainPerBlock
PROPERTIES DispatchConfirmed ImplementsBlockSystem ImplementsTrackZones
SYMMETRY TrainSymmetry
