SPECIFICATION TicketSpec
CONSTANTS
  Callers = {c1, c2}
  Scopes = {a}
  Keys = {d1, d2}
  Values <- MCValues
  Requests <- MCRequests
  Ttls = {2}
  TicketTtl = 2
  Advances = {2}
  TicksPerMilli = 2
  MaxMillis = 2
  MaxRevision = 2
  Absent = Absent
  Idle = Idle
  NoSlot = NoSlot
  NoValue = NoValue
  NoTask = NoTask
  a = a
  b = b
  p1 = p1
  p2 = p2
  ses = ses
  asr = asr
  None = None
  tls = tls
INVARIANTS ConsumedOnce IssuedIsBacked
PROPERTIES TakenOnlyByOwner FailedIssueLeavesNoTicket
SYMMETRY Symmetry
