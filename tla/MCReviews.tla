------------------------------- MODULE MCReviews -------------------------------
(***************************************************************************)
(* Small instances of the agent reviews with the finding ledger.  A        *)
(* behaviour is one of three, which bound different things.                *)
(***************************************************************************)
EXTENDS FindingLedger, TLC

CONSTANTS common, oneTime, minor

\* A common and a one-time residual, and a P2 finding; the second head repairs two.
MCSeverity == [f \in Ids |-> IF f = minor THEN "P2" ELSE "P1"]
MCRepaired == {<<minor, 2>>, <<common, 2>>}

VARIABLE part      \* which of the instances below

\* The ledger of an ordinary pull request while its candidate moves and tasks are
\* started over; "window" has one candidate and the whole procedure.
Fresh == INSTANCE FindingLedger WITH
  Target <- "ordinary", MaxTime <- 2, MaxMoves <- 1, MaxTasks <- 4, MaxEdits <- 1
\* Both fixed findings are accepted while a task is started over: its first report may
\* come back as the other's.
Again == INSTANCE FindingLedger WITH
  MaxTime <- 2, MaxTasks <- 3, MaxEdits <- 2

-----------------------------------------------------------------------------
MCInit == Init /\ part \in {"window", "fresh", "again"}

MCNext ==
  \/ part = "window" /\ Next /\ UNCHANGED part
  \/ part = "fresh" /\ Fresh!Next /\ UNCHANGED part
  \/ part = "again" /\ Again!Next /\ UNCHANGED part

MCSpec == MCInit /\ [][MCNext]_<<part, vars>>

\* The two tasks are alike.
Tasks == Permutations(Reviewers)

\* Bounds: where the candidate moves, one residual is entered and no package follows
\* the pre-attestation; where a task is started over, reviewers accept and findings are
\* accepted.
FewEntries ==
  /\ part = "fresh" => window = <<>> /\ \A f \in Ids \ {common} : ledger[f] = Nothing
  /\ part = "again" => /\ ledger[minor] = Nothing
                       /\ \A f \in Listed(ledger) : ledger[f].status = "Accepted-Residual"
                       /\ \A r \in Reviewers : reviews[r] = Nothing \/ reviews[r].verdict # "REJECT"
=============================================================================
