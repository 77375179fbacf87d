SPECIFICATION FairSpec
CONSTANTS
  Prs = {p19, p20}
  EXPECTED_GOVERNANCE_PR = p19
  CheckDemandsEvidence = TRUE
  MaxMain = 3
  MaxPushes = 2
  NoPr = NoPr
  NoDec = NoDec
  NoBranch = NoBranch
  p19 = p19
  p20 = p20
  p21 = p21
PROPERTIES ReadyActivates
CHECK_DEADLOCK FALSE
