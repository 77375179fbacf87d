------------------------------ MODULE Decision ------------------------------
(***************************************************************************)
(* What the governance rules promise about the decision on main, with no   *)
(* branches, checks or merges: it is proposed once together with the files *)
(* that control it, may become active once, and nothing else ever changes  *)
(* the decision or its controls.                                           *)
(***************************************************************************)
CONSTANTS Controls,    \* contents of the controlling files
          Commits,     \* commits a decision may name as effective
          NoControls, NoCommit

VARIABLES status, controls, effective

decisionVars == <<status, controls, effective>>

Init ==
    /\ status = "ABSENT"
    /\ controls = NoControls
    /\ effective = NoCommit

Propose(c) ==
    /\ status = "ABSENT"
    /\ status' = "PROPOSED"
    /\ controls' = c
    /\ UNCHANGED effective

Activate(e) ==
    /\ status = "PROPOSED"
    /\ status' = "ACTIVE"
    /\ effective' = e
    /\ UNCHANGED controls

Next ==
    \/ \E c \in Controls : Propose(c)
    \/ \E e \in Commits : Activate(e)

Spec == Init /\ [][Next]_decisionVars
=============================================================================
