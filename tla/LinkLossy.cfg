CONSTANTS
  Together = FALSE
  Followed = {}
  Lossy = TRUE
  LateReplies = TRUE
  Exits = TRUE
  InboxSize = 1
SPECIFICATION Spec
INVARIANTS TypeOK
PROPERTIES ModeIsFresh StartConfirmed
