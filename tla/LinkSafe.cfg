CONSTANTS
  Together = TRUE
  Followed = {4, 5}
  Lossy = FALSE
  LateReplies = FALSE
  Exits = TRUE
  InboxSize = 1
SPECIFICATION FairSpec
INVARIANTS HillOffUntilCheckout
PROPERTIES EStopStopsMotors
