SPECIFICATION MCSpec
CONSTANT Nothing = Nothing
INVARIANTS ScanInv JsonInv
PROPERTIES VerdictComes AcceptedAtLast
CHECK_DEADLOCK FALSE
