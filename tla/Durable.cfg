SPECIFICATION HistorySpec
CONSTANTS
  Txns = {t1, t2}
  Scopes = {a}
  SessionIds = {s}
  ReservationIds = {r}
  OutboxIds = {o1, o2}
  Contents = {x}
  FirstSessions <- MCFirst
  Timestamps = {1, 2}
  MaxSessionRevision = 3
  MaxGeneration = 3
  None = None
  NoTxn = NoTxn
INVARIANTS Inv
PROPERTIES SessionsFollowLifecycle OutboxIsKept IsSerial
SYMMETRY Symmetry
CONSTRAINT Bounded
