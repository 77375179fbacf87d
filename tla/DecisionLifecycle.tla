-------------------------- MODULE DecisionLifecycle --------------------------
(***************************************************************************)
(* How DEC-20260829-001 gets onto main and becomes ACTIVE                  *)
(* (scripts/validate_governance_state.py: parse_triplet,                   *)
(* validate_activation_diff, validate_repository, main).                   *)
(*                                                                         *)
(* Authors push to pull requests; the required check runs the validator on *)
(* a head and the main it finds; the owner runs it again with evidence for *)
(* an activation; a squash merge puts the branch on main.  GitHub has no   *)
(* compare-and-swap on the base (accepted as residual GVN-P1-002), so main *)
(* may have moved since the check: the model does not rely on strict=true. *)
(* Before the proposal is merged main has no validator to check anything.  *)
(*                                                                         *)
(* A tree maps the files the rules name to their contents, the plan with   *)
(* its state label apart from its text.  main is its first-parent chain    *)
(* and a commit is its position there; commit 1 is SOURCE_COMMIT.          *)
(***************************************************************************)
EXTENDS Naturals, Sequences

CONSTANTS Prs,
          EXPECTED_GOVERNANCE_PR,
          CheckDemandsEvidence,  \* whether the required check fails an activation
                                 \* for want of evidence, which it is never given
          MaxMain, MaxPushes,    \* bounds
          NoPr, NoDec, NoBranch

ASSUME PrAssumption ==
    /\ EXPECTED_GOVERNANCE_PR \in Prs /\ NoPr \notin Prs
    /\ CheckDemandsEvidence \in BOOLEAN
    /\ MaxMain \in Nat \ {0} /\ MaxPushes \in Nat

VARIABLES main,      \* merged trees and the pull request each came from
          branch,    \* what each open pull request offers
          checked,   \* whether the required check passed for its head
          verified,  \* whether the owner's run with evidence passed for its head
          postmerge, \* commit the post-merge evidence of the proposal is about, or 0
          pushes     \* how often authors pushed (bounded)

vars == <<main, branch, checked, verified, postmerge, pushes>>

SOURCE_COMMIT == 1

GOVERNANCE_PATHS == {"dec", "plan", "index"}
BOOTSTRAP_PATHS == GOVERNANCE_PATHS \cup {"workflow", "validator"}
FrozenControls == {"dec", "workflow", "validator"}

Commits == 1..MaxMain
Label == [status : {"ABSENT", "PROPOSED", "ACTIVE"}, effective : 0..MaxMain]
Dec == [status : {"PROPOSED", "ACTIVE"}, effective : 0..MaxMain, activation_pr : Prs \cup {NoPr},
        body : {1, 2}, validator_blob : {1, 2}]
Tree == [dec : Dec \cup {NoDec}, plan_label : Label, plan_text : {1, 2}, index_label : Label,
         workflow : 0..2, validator : 0..2, other : {1, 2}]
Branch == [base : Commits, tree : Tree, touched : SUBSET (BOOTSTRAP_PATHS \cup {"other"})]

ASSUME NoneAssumption == NoDec \notin Dec /\ NoBranch \notin Branch

NoLabel == [status |-> "ABSENT", effective |-> 0]

Source == [dec |-> NoDec, plan_label |-> NoLabel, plan_text |-> 1, index_label |-> NoLabel,
           workflow |-> 0, validator |-> 0, other |-> 1]

Init ==
    /\ main = <<[tree |-> Source, pr |-> NoPr, exact |-> TRUE]>>
    /\ branch = [p \in Prs |-> NoBranch]
    /\ checked = [p \in Prs |-> FALSE]
    /\ verified = [p \in Prs |-> FALSE]
    /\ postmerge = 0
    /\ pushes = 0

Tip == main[Len(main)].tree
Open(p) == branch[p] # NoBranch
Merged(p) == \E i \in DOMAIN main : main[i].pr = p

PathOf(field) == CASE field \in {"plan_label", "plan_text"} -> "plan"
                   [] field = "index_label" -> "index"
                   [] OTHER -> field

\* The paths two trees differ in: cumulative_name_status, one diff-tree.
Diff(t, u) == {PathOf(f) : f \in {g \in DOMAIN t : t[g] # u[g]}}

\* A three-way merge of two trees over their common ancestor.
Conflict(base, ours, theirs) ==
    \E f \in DOMAIN base : /\ ours[f] # base[f]
                           /\ theirs[f] # base[f]
                           /\ ours[f] # theirs[f]

Combine(base, ours, theirs) ==
    [f \in DOMAIN base |-> IF theirs[f] # base[f] THEN theirs[f] ELSE ours[f]]

-----------------------------------------------------------------------------
(* parse_triplet *)

LabelOf(dec) == [status |-> dec.status, effective |-> dec.effective]

\* Mutant: the copies of the state in the plan and the index are not compared.
DecisionOnly(t) ==
    /\ t.dec # NoDec
    /\ t.dec.status = "PROPOSED" => t.dec.effective = 0 /\ t.dec.activation_pr = NoPr
    /\ t.dec.status = "ACTIVE" => /\ t.dec.effective # 0
                                  /\ t.dec.activation_pr \notin {NoPr, EXPECTED_GOVERNANCE_PR}

parse_triplet(t) ==
    /\ t.dec # NoDec
    /\ t.dec.status = "PROPOSED" => t.dec.effective = 0 /\ t.dec.activation_pr = NoPr
    /\ t.dec.status = "ACTIVE" => /\ t.dec.effective # 0
                                  /\ t.dec.activation_pr \notin {NoPr, EXPECTED_GOVERNANCE_PR}
    /\ t.plan_label = LabelOf(t.dec)
    /\ t.index_label = LabelOf(t.dec)

-----------------------------------------------------------------------------
(* validate_activation_diff: base is commit b of main, t the candidate tree, *)
(* history every path some commit of the candidate touched, also when a      *)
(* later commit undid it.                                                    *)

validate_bootstrap_diff(b, p, t, history) ==
    /\ t.dec.status = "PROPOSED"
    /\ p = EXPECTED_GOVERNANCE_PR
    /\ b = SOURCE_COMMIT
    /\ history \subseteq BOOTSTRAP_PATHS
    /\ Diff(main[b].tree, t) = BOOTSTRAP_PATHS

validate_active_diff(b, t, history) ==
    /\ t.dec = main[b].tree.dec
    /\ FrozenControls \cap history = {}

\* Mutant: the controls are frozen only once the decision is ACTIVE.
AnyDiff(b, p, history) == p = EXPECTED_GOVERNANCE_PR => b = SOURCE_COMMIT

validate_proposed_diff(b, p, history) ==
    /\ p = EXPECTED_GOVERNANCE_PR => b = SOURCE_COMMIT
    /\ BOOTSTRAP_PATHS \cap history = {}

\* normalize_frozen: all but the mutable lines of the three files.
Frozen(t) == <<t.dec.body, t.dec.validator_blob, t.plan_text>>

validate_first_parent_lineage_untouched(e, b) ==
    \A i \in (e + 1)..b :
        BOOTSTRAP_PATHS \cap Diff(main[i - 1].tree, main[i].tree) = {}

validate_activation(b, p, t, history) ==
    LET base == main[b].tree
        e == t.dec.effective
    IN  /\ t.dec.activation_pr = p
        /\ Diff(base, t) = GOVERNANCE_PATHS
        /\ history \subseteq GOVERNANCE_PATHS
        /\ Frozen(t) = Frozen(base)
        /\ e <= b
        /\ validate_first_parent_lineage_untouched(e, b)
        /\ main[e].tree.dec # NoDec /\ main[e].tree.dec.status = "PROPOSED"

validate_activation_diff(b, p, t, history) ==
    LET base == main[b].tree IN
    \/ base.dec = NoDec /\ validate_bootstrap_diff(b, p, t, history)
    \/ /\ base.dec # NoDec
       /\ parse_triplet(base)
       /\ \/ base.dec.status = "ACTIVE" /\ validate_active_diff(b, t, history)
          \/ /\ base.dec.status = "PROPOSED" /\ t.dec.status # "ACTIVE"
             /\ validate_proposed_diff(b, p, history)
          \/ /\ base.dec.status = "PROPOSED" /\ t.dec.status = "ACTIVE"
             /\ validate_activation(b, p, t, history)

\* validate_repository for the head of p against the present main.  The tree
\* checked out is GitHub's merge of both; it must be the candidate's own.
validate_repository(p) ==
    LET c == branch[p]
        b == Len(main)
        t == c.tree
    IN  /\ ~Conflict(main[c.base].tree, Tip, t)
        /\ Combine(main[c.base].tree, Tip, t) = t
        /\ parse_triplet(t)
        /\ t.validator = t.dec.validator_blob
        /\ validate_activation_diff(b, p, t, c.touched \cup Diff(Tip, t))

\* The candidate is the transition to ACTIVE, by its own account.
IsActivation(p) ==
    LET dec == branch[p].tree.dec IN
    dec # NoDec /\ dec.status = "ACTIVE" /\ dec.activation_pr = p

-----------------------------------------------------------------------------
(* Authors *)

Put(p, c) ==
    /\ branch' = [branch EXCEPT ![p] = c]
    /\ checked' = [checked EXCEPT ![p] = FALSE]
    /\ verified' = [verified EXCEPT ![p] = FALSE]
    /\ pushes' = pushes + 1
    /\ UNCHANGED <<main, postmerge>>

Proposal(t) ==
    [t EXCEPT !.dec = [status |-> "PROPOSED", effective |-> 0, activation_pr |-> NoPr,
                       body |-> 1, validator_blob |-> 1],
              !.plan_label = [status |-> "PROPOSED", effective |-> 0],
              !.index_label = [status |-> "PROPOSED", effective |-> 0],
              !.workflow = 1, !.validator = 1]

Activation(t, e, p) ==
    [t EXCEPT !.dec = [@ EXCEPT !.status = "ACTIVE", !.effective = e, !.activation_pr = p],
              !.plan_label = [status |-> "ACTIVE", effective |-> e],
              !.index_label = [status |-> "ACTIVE", effective |-> e]]

\* Every single file in its other version, and the two sets of changes the
\* decision document describes, right and wrong ones.
Edits(t) ==
    {[t EXCEPT !.other = 3 - @], [t EXCEPT !.plan_text = 3 - @],
     [t EXCEPT !.workflow = IF @ = 1 THEN 2 ELSE 1],
     [t EXCEPT !.validator = IF @ = 1 THEN 2 ELSE 1],
     Proposal(t)}
    \cup {Activation(Proposal(t), 1, q) : q \in Prs}
    \cup IF t.dec = NoDec THEN {}
         ELSE {Activation(t, e, q) : e \in DOMAIN main, q \in Prs}
              \cup {[t EXCEPT !.dec.body = 3 - @],
                    [t EXCEPT !.dec.validator_blob = 3 - @, !.validator = 3 - @],
                    [t EXCEPT !.dec = NoDec],
                    [t EXCEPT !.index_label = NoLabel]}

OpenPr(p) ==
    /\ ~Open(p) /\ ~Merged(p) /\ pushes < MaxPushes
    /\ \E t \in Edits(Tip) :
          Put(p, [base |-> Len(main), tree |-> t, touched |-> Diff(Tip, t)])

Push(p) ==
    /\ Open(p) /\ pushes < MaxPushes
    /\ \E t \in Edits(branch[p].tree) :
          Put(p, [branch[p] EXCEPT !.tree = t, !.touched = @ \cup Diff(branch[p].tree, t)])

\* Merging main into the branch: a commit that differs from each of its parents.
Update(p) ==
    LET c == branch[p]
        t == Combine(main[c.base].tree, c.tree, Tip)
    IN  /\ Open(p) /\ pushes < MaxPushes
        /\ c.base < Len(main)
        /\ ~Conflict(main[c.base].tree, c.tree, Tip)
        /\ Put(p, [base |-> Len(main), tree |-> t,
                   touched |-> c.touched \cup Diff(c.tree, t) \cup Diff(Tip, t)])

-----------------------------------------------------------------------------
(* Checks and merges *)

\* The required check: main() in the workflow, with no evidence files.
Check(p) ==
    /\ Open(p) /\ ~checked[p]
    /\ validate_repository(p)
    /\ ~(IsActivation(p) /\ CheckDemandsEvidence)
    /\ checked' = [checked EXCEPT ![p] = TRUE]
    /\ UNCHANGED <<main, branch, verified, postmerge, pushes>>

\* Post-merge evidence of the proposal: the merge commit is still the tip, its
\* parent the frozen source and its tree the candidate's.
CollectPostMerge ==
    LET m == Len(main) IN
    /\ postmerge = 0
    /\ main[m].pr = EXPECTED_GOVERNANCE_PR
    /\ main[m].exact /\ m = SOURCE_COMMIT + 1
    /\ postmerge' = m
    /\ UNCHANGED <<main, branch, checked, verified, pushes>>

\* Mutant: the digests of the governance evidence are not bound to the merge.
AnyEvidence(p) == TRUE

validate_activation_evidence_binding(p) ==
    /\ postmerge # 0
    /\ branch[p].tree.dec.effective = postmerge

\* main() with --evidence-json for an activation: the evidence holds the
\* successful required checks, and the bound evidence of the proposal.
VerifyActivation(p) ==
    /\ Open(p) /\ ~verified[p]
    /\ IsActivation(p)
    /\ checked[p]
    /\ validate_repository(p)
    /\ validate_activation_evidence_binding(p)
    /\ verified' = [verified EXCEPT ![p] = TRUE]
    /\ UNCHANGED <<main, branch, checked, postmerge, pushes>>

Squash(p) ==
    LET c == branch[p]
        t == Combine(main[c.base].tree, Tip, c.tree)
    IN  /\ Open(p) /\ Len(main) < MaxMain
        /\ ~Conflict(main[c.base].tree, Tip, c.tree)
        /\ main' = Append(main, [tree |-> t, pr |-> p,
                                 exact |-> c.base = Len(main) /\ t = c.tree])
        /\ branch' = [branch EXCEPT ![p] = NoBranch]
        /\ checked' = [checked EXCEPT ![p] = FALSE]
        /\ verified' = [verified EXCEPT ![p] = FALSE]
        /\ UNCHANGED <<postmerge, pushes>>

\* The owner merges a checked head, an activation only when verified.
Merge(p) ==
    /\ checked[p]
    /\ IsActivation(p) => verified[p]
    /\ Squash(p)

\* Without a validator on main and in the branch there is nothing to pass.
MergeUngoverned(p) ==
    /\ Tip.validator = 0
    /\ Open(p) /\ branch[p].tree.validator = 0 /\ branch[p].tree.dec = NoDec
    /\ Squash(p)

Author(p) == OpenPr(p) \/ Push(p) \/ Update(p)
Owner(p) == Check(p) \/ VerifyActivation(p) \/ Merge(p)

Next ==
    \/ \E p \in Prs : Author(p) \/ Owner(p) \/ MergeUngoverned(p)
    \/ CollectPostMerge

Spec == Init /\ [][Next]_vars

\* Checks run, and the owner does what the decision document asks for.
FairSpec == Spec /\ WF_vars(CollectPostMerge) /\ \A p \in Prs : WF_vars(Owner(p))

-----------------------------------------------------------------------------
\* The state has its types, and a result of a check belongs to an open head and
\* an owner's verification (main with evidence) to a checked one.
TypeOK ==
    /\ main \in Seq([tree : Tree, pr : Prs \cup {NoPr}, exact : BOOLEAN])
    /\ Len(main) \in Commits
    /\ branch \in [Prs -> Branch \cup {NoBranch}]
    /\ checked \in [Prs -> BOOLEAN] /\ verified \in [Prs -> BOOLEAN]
    /\ \A p \in Prs : (checked[p] => Open(p)) /\ (verified[p] => checked[p])
    /\ postmerge \in 0..MaxMain /\ pushes \in 0..MaxPushes

\* parse_triplet, validate_active_diff: the plan and the index repeat the state
\* of the decision on main, also after the decision is immutable while they go
\* on changing, and after merges of changes checked against another main.
CopiesAgree ==
    LET state == IF Tip.dec = NoDec THEN NoLabel
                 ELSE [status |-> Tip.dec.status, effective |-> Tip.dec.effective]
    IN  Tip.plan_label = state /\ Tip.index_label = state

\* The types, and the agreement of the three files, on every main there is.
Inv == TypeOK /\ CopiesAgree

\* validate_activation_evidence_binding: an ACTIVE decision names the merge of
\* the governance pull request onto the frozen source, whatever else was merged
\* around it and however the pull requests were pushed and updated.
EffectiveIsTheBootstrap ==
    (Tip.dec # NoDec /\ Tip.dec.status = "ACTIVE") =>
        /\ Tip.dec.effective = SOURCE_COMMIT + 1
        /\ main[Tip.dec.effective].pr = EXPECTED_GOVERNANCE_PR
        /\ main[Tip.dec.effective].exact

ControlsOf(t) == <<t.workflow, t.validator, t.dec.body, t.dec.validator_blob>>

Promised == INSTANCE Decision WITH
    Controls <- (0..2) \X (0..2) \X {1, 2} \X {1, 2}, NoControls <- NoDec,
    NoCommit <- 0,
    status <- IF Tip.dec = NoDec THEN "ABSENT" ELSE Tip.dec.status,
    controls <- IF Tip.dec = NoDec THEN NoDec ELSE ControlsOf(Tip),
    effective <- IF Tip.dec = NoDec THEN 0 ELSE Tip.dec.effective

\* validate_activation_diff: main keeps the promise of Decision.  It is proposed
\* once and active once, and neither the decision nor its controls otherwise
\* change, with no help from the base being up to date at the merge.
KeepsDecision == Promised!Spec

\* An activation the rules admit: up to date, valid, and naming the commit the
\* post-merge evidence is about.
ReadyToActivate(p) ==
    /\ Open(p) /\ IsActivation(p)
    /\ branch[p].base = Len(main) /\ Len(main) < MaxMain
    /\ validate_repository(p)
    /\ validate_activation_evidence_binding(p)

\* The state machine of the decision document (section 9: the evidence PR passes
\* the ordinary protected merge, then ACTIVE): an activation that stays ready is
\* merged in the end.  main() refuses it in the required check.
ReadyActivates ==
    \A p \in Prs : <>[]ReadyToActivate(p) => <>(Tip.dec # NoDec /\ Tip.dec.status = "ACTIVE")
=============================================================================
