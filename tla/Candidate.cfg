SPECIFICATION MCSpec
CONSTANTS
  rust = rust
  extra = extra
  doc = doc
  lint = lint
  unit = unit
  fixtures = fixtures
  p1 = p1
  p2 = p2
  Absent = Absent
  Nothing = Nothing
  None = None
  Files = {"a", "b"}
  Status = "ACTIVE"
  Activation = FALSE
  MaxMain = 3
  MaxHeads = 3
  MaxRuns = 3
  Kinds = {"pull_request"}
  Paths = {rust, extra, doc}
  Contents = {0, 1}
  WORKFLOWS = {rust, extra}
  Frozen <- MCFrozen
  SOURCES = {doc}
  TreeOrders <- MCTreeOrders
  MaxTrunk = 2
  MaxPushes = 3
  MaxTurns = 3
  MaxDiff = 1
  REQUIRED_CONTEXTS = {lint, unit, fixtures}
  CONTEXT_WORKFLOW_PATHS <- MCPaths
  JobOrders <- MCJobOrders
  MaxCandidates = 2
  MaxMoves = 1
  MaxAttempts = 2
  ReviewOrders <- MCReviewOrders
  MaxTime = 2
  MaxSteps = 4
  Ids = {1, 2}
  Texts = {"", "a"}
  Missing = "missing"
  Null = "null"
  MaxEdits = 1
  MaxRedone = 1
  Fields <- MCFields
  Domain = {1, 2}
  Schemas <- MCSchemas
  MaxLength = 4
  Pulls = {p1, p2}
  Docs = {"readme", "plan"}
  RequiredDocs = {"readme"}
  EditedCrates = {"gateway", "testkit"}
  Fixtures = {"happy"}
  Operations = {"sessions"}
  LintedFiles = {"key"}
  ScannedPlaces = {"crates"}
  OtherPlaces = {"target"}
  EditKinds = {"link", "unlink", "delete", "operation", "fixture", "depend", "forgo", "drop", "leak", "move"}
  MaxMerges = 3
INVARIANTS TestedIsTheCandidate CheckoutInv VerdictsAreInContext ViewInv OneItemPerIdentity TreeInv ExecutionInv DiscussionInv BundleInv LintInv
CONSTRAINT Bounded
CHECK_DEADLOCK FALSE
