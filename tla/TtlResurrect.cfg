SPECIFICATION Spec
CONSTANTS
  Callers = {c1, c2}
  Scopes = {a}
  Keys = {k}
  Values = {v}
  Ttls = {2, 4}
  Advances = {2}
  TicksPerMilli = 2
  MaxMillis = 3
  MaxRevision = 2
  Absent = Absent
  Idle = Idle
  NoSlot = NoSlot
  NoValue = NoValue
PROPERTIES NeverResurrects
