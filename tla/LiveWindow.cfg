SPECIFICATION FairSpec
CONSTANTS
  Originals = 1
  LIVE_POLL_SECONDS = 1
  LIVE_WINDOW_SECONDS = 2
  LIVE_BATCH_TIMEOUT_SECONDS = 1
  Expiry = 6
  MaxMono = 5
  MaxStart = 1
  MaxLag = 1
  Never = Never
  Nothing = Nothing
  Sent = Sent
INVARIANTS Inv StableWindow
PROPERTIES Terminates
CHECK_DEADLOCK FALSE
