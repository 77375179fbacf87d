---------------------------- MODULE CheckoutContext ----------------------------
(***************************************************************************)
(* What a run of scripts/validate_governance_state.py was run on: the      *)
(* context an event or the command line names, the commit that is checked  *)
(* out, and the verdict.  A run begins with the event of a moment and a    *)
(* test merge GitHub makes at another, and may be started again when main  *)
(* and head have long moved.  Main is protected, strictly: a pull request  *)
(* is merged when its head has the tip of main and a check on that head    *)
(* succeeded, on whatever merge it ran.                                    *)
(*                                                                         *)
(* A tree is the set of files with their new content; main is linear, and  *)
(* "on" is the newest of its commits that a head has in its history.       *)
(***************************************************************************)
EXTENDS Integers, Sequences, FiniteSets

CONSTANTS
  Files,
  Status,                \* of the decision: PROPOSED or ACTIVE
  Activation,            \* the pull request is the activating one
  Kinds,                 \* the kinds of runs of an instance
  MaxMain, MaxHeads, MaxRuns,   \* its bounds
  Nothing

ASSUME StatusAssumption == Status \in {"PROPOSED", "ACTIVE"} /\ Activation \in BOOLEAN
ASSUME NothingAssumption == Nothing \notin [base : Nat, head : Nat]
ASSUME BoundsAssumption == {MaxMain, MaxHeads, MaxRuns} \subseteq Nat \ {0}

VARIABLES
  main,       \* the trees of the main branch
  heads,      \* the heads pushed: a tree, and "on"
  event,      \* the payload of the newest event of the pull request
  testMerge,  \* refs/pull/N/merge
  run,        \* a run of the validator: its inputs
  passed,     \* the runs with a good verdict
  squashed    \* of the pull request, the head and the parent, when it is merged

vars == <<main, heads, event, testMerge, run, passed, squashed>>

-----------------------------------------------------------------------------
Tip == Len(main)
Newest == Len(heads)
\* A three-way merge, file by file.
Merged(base, ours, theirs) ==
  {f \in Files : IF (f \in theirs) # (f \in base) THEN f \in theirs ELSE f \in ours}
MergeOf(b, h) == [commit |-> "merge", base |-> b, head |-> h,
                  tree |-> Merged(main[heads[h].on], main[b], heads[h].tree)]
HeadCommit(h) == [commit |-> "head", base |-> heads[h].on, head |-> h, tree |-> heads[h].tree]

\* The options of a run, and which of them go together.  A live one that is given an
\* event besides the arguments requires the two to agree: it is the cli one.
Options == [evidence : BOOLEAN, require_merge_ready : BOOLEAN, live_merge_ready : BOOLEAN]
CompatibleOptions(kind, o) ==
  /\ ~(o.require_merge_ready /\ o.live_merge_ready)
  /\ o.require_merge_ready => o.evidence
  /\ o.live_merge_ready => o.evidence /\ kind = "cli"
  /\ kind = "push" => ~o.evidence /\ ~o.require_merge_ready

-----------------------------------------------------------------------------
\* The rules, over a run r: its kind, the context it was given, the checkout.

event_context(r) ==
  IF r.kind = "pull_request" THEN r.event
  ELSE IF r.kind = "cli" THEN r.arguments ELSE Nothing

\* Mutant: the parents of the test merge are right, its tree is not looked at.
ParentsOnly(r, c) ==
  r.clean /\ (r.checkout.commit = "head" => r.checkout.head = c.head)
  /\ (r.checkout.commit = "merge" => r.checkout.base = c.base /\ r.checkout.head = c.head)

\* Mutant: what is checked out is some candidate, and has its tree.
SelfConsistent(r, c) == r.clean /\ r.checkout.tree = heads[r.checkout.head].tree

\* The checkout is the candidate, or its test merge on the base, and has its tree.
CheckoutIsTheCandidate(r, c) ==
  /\ r.clean
  /\ r.checkout.tree = heads[c.head].tree
  /\ \/ r.checkout.commit = "head" /\ r.checkout.head = c.head
     \/ r.checkout.commit = "merge" /\ r.checkout.base = c.base /\ r.checkout.head = c.head

\* The base is in the history of what is checked out.
reachable_history_changes(r, c) == r.checkout.base >= c.base

validate_repository(r) ==
  LET c == event_context(r) IN
    c # Nothing => CheckoutIsTheCandidate(r, c) /\ reachable_history_changes(r, c)

require_complete_current_context(r) == event_context(r) # Nothing

\* Mutant: the evidence is of the same base only.
SameBase(r) == require_complete_current_context(r) /\ r.evidence.base = event_context(r).base

\* The packages are judged with the context of the run, by other modules; here
\* they are of some head and base, and no tree but that head's.
EvidenceAccepted(r) ==
  /\ require_complete_current_context(r)
  /\ r.evidence = [base |-> event_context(r).base, head |-> event_context(r).head]

Verdict(r) ==
  /\ CompatibleOptions(r.kind, r.options)
  /\ validate_repository(r)
  /\ r.options.evidence => EvidenceAccepted(r)
  /\ r.options.live_merge_ready => Status = "ACTIVE" /\ ~Activation
  /\ ~r.options.evidence => ~(Status = "ACTIVE" /\ Activation /\ event_context(r) # Nothing)

-----------------------------------------------------------------------------
Init ==
  /\ main = <<{}>> /\ heads = <<>>
  /\ event = Nothing /\ testMerge = Nothing /\ run = Nothing /\ passed = {} /\ squashed = Nothing

github == <<main, heads, event, testMerge>>
Open == squashed = Nothing

\* A push: files are changed on top of a commit of main, or main merged in.
Push(tree, on) ==
  /\ Open /\ Newest < MaxHeads
  /\ heads' = Append(heads, [tree |-> tree, on |-> on])
  /\ event' = [base |-> Tip, head |-> Newest + 1]
  /\ UNCHANGED <<main, testMerge, run, passed, squashed>>

\* Other pull requests.
MoveMain(f) ==
  /\ Open /\ Tip < MaxMain
  /\ main' = Append(main, IF f \in main[Tip] THEN main[Tip] \ {f} ELSE main[Tip] \cup {f})
  /\ UNCHANGED <<heads, event, testMerge, run, passed, squashed>>

\* GitHub makes the test merge anew in its own time.
MergeAnew ==
  /\ Open /\ Newest > 0 /\ testMerge # MergeOf(Tip, Newest)
  /\ testMerge' = MergeOf(Tip, Newest)
  /\ UNCHANGED <<main, heads, event, run, passed, squashed>>

Commits == {HeadCommit(h) : h \in DOMAIN heads} \cup ({testMerge} \ {Nothing})
Contexts == [base : DOMAIN main, head : DOMAIN heads]

MayRun(kind) == run = Nothing /\ kind \in Kinds /\ Cardinality(passed) < MaxRuns

\* A run of Actions takes the event and the merge there is; one by hand has a
\* checkout, a context and evidence of its owner's choosing.
StartActions ==
  /\ MayRun("pull_request") /\ event # Nothing /\ testMerge # Nothing
  /\ run' = [kind |-> "pull_request", event |-> event, checkout |-> testMerge, clean |-> TRUE,
             options |-> [evidence |-> FALSE, require_merge_ready |-> FALSE, live_merge_ready |-> FALSE]]
  /\ UNCHANGED <<github, passed, squashed>>
StartPush ==
  /\ MayRun("push")
  /\ \E o \in Options : run' = [kind |-> "push", clean |-> TRUE, options |-> o]
  /\ UNCHANGED <<github, passed, squashed>>
StartByHand ==
  /\ MayRun("cli")
  /\ \E c \in Commits, a, e \in Contexts, o \in Options, clean \in BOOLEAN :
       /\ ~o.evidence => e = a
       /\ run' = [kind |-> "cli", arguments |-> a, checkout |-> c, clean |-> clean, options |-> o,
                  evidence |-> e]
  /\ UNCHANGED <<github, passed, squashed>>

Finish ==
  /\ run # Nothing /\ passed' = IF Verdict(run) THEN passed \cup {run} ELSE passed
  /\ run' = Nothing
  /\ UNCHANGED <<github, squashed>>

\* GitHub looks at the head a check ran for, and at the head's history.
SquashMerge ==
  /\ Open /\ Newest > 0 /\ Tip < MaxMain
  /\ \E r \in passed : r.kind = "pull_request" /\ r.event.head = Newest
  /\ heads[Newest].on = Tip
  /\ squashed' = [head |-> Newest, parent |-> Tip]
  /\ main' = Append(main, MergeOf(Tip, Newest).tree)
  /\ UNCHANGED <<heads, event, testMerge, run, passed>>

Next ==
  \/ \E tree \in SUBSET Files : \E on \in DOMAIN main : Push(tree, on)
  \/ \E f \in Files : MoveMain(f)
  \/ MergeAnew \/ StartActions \/ StartPush \/ StartByHand \/ Finish \/ SquashMerge
Spec == Init /\ [][Next]_vars

-----------------------------------------------------------------------------
\* The shape of the state.
TypeOK ==
  /\ \A i \in DOMAIN main : main[i] \subseteq Files
  /\ \A h \in DOMAIN heads : heads[h].tree \subseteq Files /\ heads[h].on \in DOMAIN main
  /\ \A r \in passed : r.options \in Options /\ CompatibleOptions(r.kind, r.options)
  /\ squashed # Nothing => squashed.head \in DOMAIN heads

\* A run that passed on the test merge of a pull request tested the very files of its
\* head, and the head misses nothing of the base it names, though event, merge and
\* main were read at three moments.
TestedIsTheCandidate ==
  \A r \in passed : r.kind # "push" =>
    LET c == event_context(r) IN
      /\ r.checkout.tree = heads[c.head].tree
      /\ r.checkout.commit = "merge" =>
           Merged(main[heads[c.head].on], main[c.base], heads[c.head].tree) = heads[c.head].tree

\* What is merged is what was tested: a check looked at by head alone, of any earlier
\* run on any earlier main, leaves no tree on main that no run has seen.
MainWasTested ==
  squashed # Nothing =>
    \E r \in passed : r.kind = "pull_request" /\ r.event.head = squashed.head
                      /\ r.checkout.tree = main[squashed.parent + 1]

\* A verdict on evidence is for the candidate that was checked out, with all of its
\* context: no run on a push gives one, and none on another head's evidence.
VerdictsAreInContext ==
  \A r \in passed : r.options.evidence \/ r.options.require_merge_ready \/ r.options.live_merge_ready =>
    r.kind # "push" /\ r.evidence.head = r.checkout.head /\ r.clean

\* The checkout: the types, and that every tree a merge brings to main is one that a
\* run passed (main(), the strict protection).
CheckoutInv == TypeOK /\ MainWasTested
=============================================================================
