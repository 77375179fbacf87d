SPECIFICATION MCSpec
CONSTANTS
  common = common
  oneTime = oneTime
  minor = minor
  COMMON_RESIDUAL_IDS = {common}
  ONE_TIME_RESIDUAL_IDS = {oneTime}
  OtherIds = {minor}
  Severity <- MCSeverity
  Reviewers = {r1, r2}
  Inputs = {asked}
  Target = "governance-bootstrap"
  Repaired <- MCRepaired
  RESIDUAL_VALID_UNTIL = 3
  MaxTime = 3
  MaxHeads = 2
  MaxMoves = 0
  MaxTasks = 2
  MaxEdits = 3
  Nothing = Nothing
INVARIANTS TypeOK TwoOpinions AttestedAsJudged DispositionsAreFresh
CONSTRAINT FewEntries
CHECK_DEADLOCK FALSE
SYMMETRY Tasks
