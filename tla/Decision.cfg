SPECIFICATION Spec
CONSTANTS
  Prs = {p19, p20, p21}
  EXPECTED_GOVERNANCE_PR = p19
  CheckDemandsEvidence = FALSE
  MaxMain = 4
  MaxPushes = 5
  NoPr = NoPr
  NoDec = NoDec
  NoBranch = NoBranch
  p19 = p19
  p20 = p20
  p21 = p21
INVARIANTS Inv EffectiveIsTheBootstrap
PROPERTIES KeepsDecision
SYMMETRY Symmetry
CHECK_DEADLOCK FALSE
