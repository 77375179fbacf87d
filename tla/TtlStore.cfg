SPECIFICATION Spec
CONSTANTS
  Callers = {c1, c2}
  Scopes = {a, b}
  Keys = {k}
  Values = {v}
  Ttls = {0, 1, 2, 5}
  Advances = {0, 1, 2, 4}
  TicksPerMilli = 2
  MaxMillis = 2
  MaxRevision = 2
  Absent = Absent
  Idle = Idle
  NoSlot = NoSlot
  NoValue = NoValue
INVARIANTS Inv AnswersAreTrue
PROPERTIES PurgeOnlyExpired RenewalNeverRewinds KeepsPromise
SYMMETRY Symmetry
