----------------------- MODULE DecisionLifecycleProofs -----------------------
(***************************************************************************)
(* That main keeps the promise of Decision, for every number of pull       *)
(* requests, pushes and merges.  A check is the only thing a merge looks   *)
(* at, and main may have moved since; the invariant remembers of a checked *)
(* head the commit of main it was checked against, and of main that the    *)
(* decision and its controls, once there, changed by one activation only.  *)
(***************************************************************************)
EXTENDS DecisionLifecycle, TLAPS

\* A tree main may have: labels that repeat the decision, and a validator with it.
Consistent(t) ==
    IF t.dec = NoDec
    THEN t.validator = 0 /\ t.plan_label = NoLabel /\ t.index_label = NoLabel
    ELSE /\ t.validator # 0
         /\ t.plan_label = LabelOf(t.dec) /\ t.index_label = LabelOf(t.dec)
         /\ t.dec.status = "PROPOSED" => t.dec.effective = 0

\* What the decision of t may still become in u, and what is fixed with it.
Keeps(t, u) ==
    t.dec # NoDec =>
        /\ u.dec # NoDec
        /\ ControlsOf(u) = ControlsOf(t)
        /\ t.dec.status = "ACTIVE" \/ u.dec.status = "PROPOSED" => u.dec = t.dec

\* A tree of an author has nothing of the decision without a validator.
Plain(t) == t.validator = 0 => t.dec = NoDec /\ t.plan_label = NoLabel /\ t.index_label = NoLabel

MainInv ==
    /\ \A i \in DOMAIN main : Consistent(main[i].tree)
    /\ \A i, j \in DOMAIN main : i <= j => Keeps(main[i].tree, main[j].tree)
    /\ \A i \in DOMAIN main : main[i].tree.dec # NoDec => Merged(EXPECTED_GOVERNANCE_PR)
    /\ \A i \in DOMAIN main : main[i].tree.dec # NoDec /\ main[i].tree.dec.status = "ACTIVE" =>
          /\ Merged(main[i].tree.dec.activation_pr)
          /\ postmerge # 0 /\ main[i].tree.dec.effective = postmerge
    /\ postmerge # 0 =>
          /\ postmerge = SOURCE_COMMIT + 1 /\ postmerge \in DOMAIN main
          /\ main[postmerge].pr = EXPECTED_GOVERNANCE_PR /\ main[postmerge].exact

BranchInv ==
    \A p \in Prs : Open(p) =>
        /\ ~Merged(p)
        /\ branch[p].base \in DOMAIN main
        /\ Plain(branch[p].tree)
        /\ main[branch[p].base].tree.validator # 0 => branch[p].tree.validator # 0

\* The head of p passed the rules against commit b of main.
PassedOn(p, b) ==
    LET c == branch[p] IN
    /\ c.base <= b
    /\ parse_triplet(c.tree) /\ c.tree.validator = c.tree.dec.validator_blob
    /\ validate_activation_diff(b, p, c.tree, c.touched \cup Diff(main[b].tree, c.tree))

CheckInv ==
    \A p \in Prs :
        /\ checked[p] => \E b \in DOMAIN main : PassedOn(p, b)
        /\ verified[p] => postmerge # 0 /\ branch[p].tree.dec.effective = postmerge

IInv == TypeOK /\ MainInv /\ BranchInv /\ CheckInv

-----------------------------------------------------------------------------
(* Trees *)

\* The governed part of a tree: all that the labels, the decision and its controls are.
Agree(t, u) ==
    /\ t.dec = u.dec /\ t.plan_label = u.plan_label /\ t.index_label = u.index_label
    /\ t.workflow = u.workflow /\ t.validator = u.validator

\* A tree has its fields.
LEMMA TreeFields ==
  ASSUME NEW t \in Tree
  PROVE  /\ t.dec \in Dec \cup {NoDec}
         /\ t.plan_label \in Label /\ t.index_label \in Label
         /\ t.plan_text \in {1, 2} /\ t.other \in {1, 2}
         /\ t.workflow \in 0..2 /\ t.validator \in 0..2
BY DEF Tree

\* A merge takes the change of one side, field by field.
LEMMA CombineFields ==
  ASSUME NEW base \in Tree, NEW ours \in Tree, NEW theirs \in Tree
  PROVE  LET t == Combine(base, ours, theirs) IN
         /\ t \in Tree
         /\ t.dec = IF theirs.dec # base.dec THEN theirs.dec ELSE ours.dec
         /\ t.plan_label = IF theirs.plan_label # base.plan_label
                           THEN theirs.plan_label ELSE ours.plan_label
         /\ t.index_label = IF theirs.index_label # base.index_label
                            THEN theirs.index_label ELSE ours.index_label
         /\ t.workflow = IF theirs.workflow # base.workflow THEN theirs.workflow ELSE ours.workflow
         /\ t.validator = IF theirs.validator # base.validator
                          THEN theirs.validator ELSE ours.validator
BY DEF Tree, Combine

\* Where both sides changed the decision, they changed it alike.
LEMMA NoConflict ==
  ASSUME NEW base \in Tree, NEW ours \in Tree, NEW theirs \in Tree, ~Conflict(base, ours, theirs)
  PROVE  ours.dec = base.dec \/ theirs.dec = base.dec \/ ours.dec = theirs.dec
BY DEF Tree, Conflict

\* A path is in the diff of two trees when a field of it is.
LEMMA DiffPaths ==
  ASSUME NEW t \in Tree, NEW u \in Tree
  PROVE  /\ Diff(t, u) \subseteq BOOTSTRAP_PATHS \cup {"other"}
         /\ "dec" \in Diff(t, u) <=> t.dec # u.dec
         /\ "plan" \in Diff(t, u) <=> t.plan_label # u.plan_label \/ t.plan_text # u.plan_text
         /\ "index" \in Diff(t, u) <=> t.index_label # u.index_label
         /\ "workflow" \in Diff(t, u) <=> t.workflow # u.workflow
         /\ "validator" \in Diff(t, u) <=> t.validator # u.validator
BY DEF Tree, Diff, PathOf, BOOTSTRAP_PATHS, GOVERNANCE_PATHS

\* The decision has its fields.
LEMMA DecFields ==
  ASSUME NEW d \in Dec
  PROVE  /\ d # NoDec
         /\ d.status \in {"PROPOSED", "ACTIVE"} /\ d.effective \in 0..MaxMain
         /\ d.activation_pr \in Prs \cup {NoPr}
         /\ d.body \in {1, 2} /\ d.validator_blob \in {1, 2}
         /\ LabelOf(d) \in Label /\ LabelOf(d) # NoLabel
<1>1. d # NoDec BY NoneAssumption
<1>2. /\ d.status \in {"PROPOSED", "ACTIVE"} /\ d.effective \in 0..MaxMain
      /\ d.activation_pr \in Prs \cup {NoPr} /\ d.body \in {1, 2} /\ d.validator_blob \in {1, 2}
  BY DEF Dec
<1> QED BY <1>1, <1>2 DEF LabelOf, NoLabel, Label

\* Main is a chain of trees.
LEMMA Chain ==
  ASSUME TypeOK
  PROVE  /\ Len(main) \in 1..MaxMain /\ DOMAIN main = 1..Len(main) /\ Len(main) \in DOMAIN main
         /\ \A i \in DOMAIN main : main[i].tree \in Tree /\ i \in 1..MaxMain
         /\ Tip \in Tree
<1> DEFINE Commit == [tree : Tree, pr : Prs \cup {NoPr}, exact : BOOLEAN]
<1>1. main \in Seq(Commit) /\ Len(main) \in 1..MaxMain /\ MaxMain \in Nat
  BY PrAssumption DEF TypeOK, Commits
<1>2. \A c \in Commit : c.tree \in Tree OBVIOUS
<1> HIDE DEF Commit
<1>3. \A i \in DOMAIN main : main[i] \in Commit BY <1>1
<1>4. DOMAIN main = 1..Len(main) /\ Len(main) \in Nat BY <1>1
<1> QED BY <1>1, <1>2, <1>3, <1>4 DEF Tip

\* What an author offers next is a tree, with a validator when it had one and
\* whenever there is anything of the decision in it.
LEMMA EditsAreTrees ==
  ASSUME IInv, NEW t \in Tree, Plain(t), NEW u \in Edits(t)
  PROVE  u \in Tree /\ Plain(u) /\ (t.validator # 0 => u.validator # 0)
<1>1. ASSUME NEW s \in Tree
      PROVE  Proposal(s) \in Tree /\ Proposal(s).dec \in Dec /\ Proposal(s).validator = 1
  <2> DEFINE d == [status |-> "PROPOSED", effective |-> 0, activation_pr |-> NoPr,
                   body |-> 1, validator_blob |-> 1]
  <2> DEFINE l == [status |-> "PROPOSED", effective |-> 0]
  <2>1. d \in Dec /\ l \in Label BY PrAssumption DEF Dec, Label
  <2>2. Proposal(s) = [s EXCEPT !.dec = d, !.plan_label = l, !.index_label = l,
                                !.workflow = 1, !.validator = 1]
    BY DEF Proposal
  <2> HIDE DEF d, l
  <2> DEFINE v == [s EXCEPT !.dec = d, !.plan_label = l, !.index_label = l]
  <2>3. v \in Tree /\ v.dec = d BY <1>1, <2>1 DEF Tree
  <2> HIDE DEF v
  <2> DEFINE w == [v EXCEPT !.workflow = 1]
  <2>4. w \in Tree /\ w.dec = d BY <2>3 DEF Tree
  <2>5. Proposal(s) = [w EXCEPT !.validator = 1] BY <2>2 DEF v
  <2> HIDE DEF w
  <2> QED BY <2>1, <2>4, <2>5 DEF Tree
<1>2. ASSUME NEW s \in Tree, s.dec \in Dec, NEW e \in 1..MaxMain, NEW q \in Prs
      PROVE  Activation(s, e, q) \in Tree /\ Activation(s, e, q).validator = s.validator
  <2> DEFINE d == [s.dec EXCEPT !.status = "ACTIVE", !.effective = e, !.activation_pr = q]
  <2> DEFINE l == [status |-> "ACTIVE", effective |-> e]
  <2>1. e \in 0..MaxMain BY PrAssumption
  <2>2. d \in Dec /\ l \in Label BY <1>2, <2>1 DEF Dec, Label
  <2>3. Activation(s, e, q) = [s EXCEPT !.dec = d, !.plan_label = l, !.index_label = l]
    BY DEF Activation
  <2> HIDE DEF d, l
  <2> QED BY <1>2, <2>1, <2>2, <2>3 DEF Tree
<1>3. CASE u = Proposal(t) BY <1>1, <1>3 DEF Plain
<1>4. CASE u \in {Activation(Proposal(t), 1, q) : q \in Prs}
  <2>1. PICK q \in Prs : u = Activation(Proposal(t), 1, q) BY <1>4
  <2>2. 1 \in 1..MaxMain BY PrAssumption
  <2> QED BY <1>1, <1>2, <2>1, <2>2 DEF Plain
<1>5. CASE t.dec # NoDec /\ u \in {Activation(t, e, q) : e \in DOMAIN main, q \in Prs}
  <2>1. PICK e \in DOMAIN main, q \in Prs : u = Activation(t, e, q) BY <1>5
  <2>2. e \in 1..MaxMain BY Chain DEF IInv
  <2>3. t.dec \in Dec BY <1>5, TreeFields
  <2> QED BY <1>2, <1>5, <2>1, <2>2, <2>3 DEF Plain
<1>6. CASE u \in {[t EXCEPT !.other = 3 - @], [t EXCEPT !.plan_text = 3 - @],
                  [t EXCEPT !.workflow = IF @ = 1 THEN 2 ELSE 1],
                  [t EXCEPT !.validator = IF @ = 1 THEN 2 ELSE 1]}
  BY <1>6 DEF Tree, Plain
<1>7. CASE t.dec # NoDec /\ u \in {[t EXCEPT !.dec.body = 3 - @], [t EXCEPT !.dec = NoDec],
                                   [t EXCEPT !.dec.validator_blob = 3 - @, !.validator = 3 - @],
                                   [t EXCEPT !.index_label = NoLabel]}
  <2>1. t.dec \in Dec /\ t.validator \in {1, 2}
    BY <1>7, TreeFields DEF Plain
  <2>2. CASE u = [t EXCEPT !.dec.body = 3 - @]
    <3>1. [t.dec EXCEPT !.body = 3 - @] \in Dec BY <2>1 DEF Dec
    <3> QED BY <2>1, <2>2, <3>1 DEF Tree, Plain
  <2>3. CASE u = [t EXCEPT !.dec.validator_blob = 3 - @, !.validator = 3 - @]
    <3> DEFINE d == [t.dec EXCEPT !.validator_blob = 3 - @]
    <3> DEFINE v == 3 - t.validator
    <3>1. d \in Dec BY <2>1 DEF Dec
    <3>2. v \in {1, 2} BY <2>1
    <3> DEFINE w == [t EXCEPT !.dec = d]
    <3>3. u = [w EXCEPT !.validator = v] BY <2>3, Zenon
    <3> HIDE DEF d, v
    <3>4. w \in Tree /\ w.dec \in Dec BY <3>1 DEF Tree
    <3> HIDE DEF w
    <3> QED BY <2>1, <3>2, <3>3, <3>4 DEF Tree, Plain
  <2>4. CASE u = [t EXCEPT !.dec = NoDec] BY <2>1, <2>4 DEF Tree, Plain
  <2>5. CASE u = [t EXCEPT !.index_label = NoLabel]
    <3>1. NoLabel \in Label BY PrAssumption DEF NoLabel, Label
    <3> QED BY <2>1, <2>5, <3>1 DEF Tree, Plain
  <2> QED BY <1>7, <2>2, <2>3, <2>4, <2>5
<1> QED BY <1>3, <1>4, <1>5, <1>6, <1>7 DEF Edits

-----------------------------------------------------------------------------
(* Authors, checks and evidence *)

\* What is offered is a branch.
LEMMA Offered ==
  ASSUME IInv, NEW p \in Prs, Open(p)
  PROVE  /\ branch[p] \in Branch
         /\ branch[p].tree \in Tree /\ branch[p].base \in DOMAIN main
         /\ main[branch[p].base].tree \in Tree
         /\ Plain(branch[p].tree) /\ ~Merged(p)
<1>1. branch[p] \in Branch BY DEF IInv, TypeOK, Open
<1>2. branch[p].tree \in Tree BY <1>1 DEF Branch
<1>3. branch[p].base \in DOMAIN main /\ Plain(branch[p].tree) /\ ~Merged(p) BY DEF IInv, BranchInv
<1> QED BY <1>1, <1>2, <1>3, Chain DEF IInv

\* The rules look at main up to the commit they were applied to, and at nothing else.
LEMMA PassedStays ==
  ASSUME IInv, NEW p \in Prs, Open(p), NEW b \in DOMAIN main, PassedOn(p, b),
         branch'[p] = branch[p], \A i \in 1..b : main'[i] = main[i]
  PROVE  PassedOn(p, b)'
<1> DEFINE c == branch[p]
<1> DEFINE t == branch[p].tree
<1> DEFINE history == c.touched \cup Diff(main[b].tree, t)
<1>1. b \in 1..MaxMain /\ main'[b] = main[b] BY Chain DEF IInv
<1>2. /\ c.base <= b /\ parse_triplet(t) /\ t.validator = t.dec.validator_blob
      /\ validate_activation_diff(b, p, t, history)
  BY DEF PassedOn
<1>3. ASSUME validate_activation(b, p, t, history), t.dec.status = "ACTIVE"
      PROVE  validate_activation(b, p, t, history)'
  <2> DEFINE e == t.dec.effective
  <2>1. t.dec \in Dec
    <3>1. t \in Tree BY Offered
    <3>2. t.dec # NoDec BY <1>2 DEF parse_triplet
    <3> QED BY <3>1, <3>2, TreeFields
  <2>2. e \in 1..b
    <3>1. e \in 0..MaxMain BY <2>1, DecFields
    <3>2. e # 0 BY <1>2, <1>3 DEF parse_triplet
    <3>3. e <= b BY <1>3 DEF validate_activation
    <3> QED BY <1>1, <3>1, <3>2, <3>3
  <2>3. \A i \in (e + 1)..b : main'[i] = main[i] /\ main'[i - 1] = main[i - 1] BY <1>1, <2>2
  <2>4. main'[e] = main[e] BY <2>2
  <2> QED BY <1>1, <1>3, <2>3, <2>4
          DEF validate_activation, validate_first_parent_lineage_untouched, Diff, PathOf
<1>4. validate_activation_diff(b, p, t, history)'
  <2>1. CASE main[b].tree.dec = NoDec
    BY <1>1, <1>2, <2>1 DEF validate_activation_diff, validate_bootstrap_diff, Diff, PathOf
  <2>2. CASE main[b].tree.dec # NoDec
    BY <1>1, <1>2, <1>3, <2>2
       DEF validate_activation_diff, validate_active_diff, validate_proposed_diff,
           parse_triplet, Diff, PathOf
  <2> QED BY <2>1, <2>2
<1> QED BY <1>1, <1>2, <1>4 DEF PassedOn, parse_triplet

\* A step that leaves main and the evidence alone leaves main good.
LEMMA MainStays == ASSUME MainInv, UNCHANGED <<main, postmerge>> PROVE MainInv'
BY DEF MainInv, Merged, Consistent, Keeps, ControlsOf, LabelOf

\* A new offer of p starts with no check passed; the others are as they were.
LEMMA PutInv ==
  ASSUME IInv, NEW p \in Prs, NEW c \in Branch, Put(p, c), pushes < MaxPushes,
         ~Merged(p), c.base \in DOMAIN main, Plain(c.tree),
         main[c.base].tree.validator # 0 => c.tree.validator # 0
  PROVE  IInv'
<1>1. /\ UNCHANGED <<main, postmerge>> /\ pushes' = pushes + 1
      /\ branch' = [branch EXCEPT ![p] = c]
      /\ checked' = [checked EXCEPT ![p] = FALSE] /\ verified' = [verified EXCEPT ![p] = FALSE]
  BY DEF Put
<1>2. TypeOK BY DEF IInv
<1>3. branch'[p] = c /\ checked'[p] = FALSE /\ verified'[p] = FALSE
  BY <1>1, <1>2 DEF TypeOK
<1>4. \A q \in Prs : q # p => branch'[q] = branch[q] /\ checked'[q] = checked[q]
                              /\ verified'[q] = verified[q]
  BY <1>1, <1>2 DEF TypeOK
<1>5. c # NoBranch BY NoneAssumption
<1>6. TypeOK'
  <2>1. branch' \in [Prs -> Branch \cup {NoBranch}] BY <1>1, <1>2 DEF TypeOK
  <2>2. checked' \in [Prs -> BOOLEAN] /\ verified' \in [Prs -> BOOLEAN] BY <1>1, <1>2 DEF TypeOK
  <2>3. pushes' \in 0..MaxPushes BY <1>1, <1>2, PrAssumption DEF TypeOK
  <2>4. ASSUME NEW q \in Prs PROVE (checked'[q] => Open(q)') /\ (verified'[q] => checked'[q])
    <3>1. CASE q = p BY <1>3, <3>1
    <3>2. CASE q # p BY <1>2, <1>4, <3>2 DEF TypeOK, Open
    <3> QED BY <3>1, <3>2
  <2> QED BY <1>1, <1>2, <2>1, <2>2, <2>3, <2>4 DEF TypeOK
<1>7. MainInv' BY <1>1, MainStays DEF IInv
<1>8. BranchInv'
  <2> SUFFICES ASSUME NEW q \in Prs, Open(q)'
               PROVE  /\ ~Merged(q)' /\ branch'[q].base \in DOMAIN main'
                      /\ Plain(branch'[q].tree)
                      /\ main'[branch'[q].base].tree.validator # 0 => branch'[q].tree.validator # 0
    BY DEF BranchInv, Plain
  <2>1. CASE q = p BY <1>1, <1>3, <2>1 DEF Merged
  <2>2. CASE q # p BY <1>1, <1>4, <2>2 DEF IInv, BranchInv, Merged, Open
  <2> QED BY <2>1, <2>2
<1>9. CheckInv'
  <2> SUFFICES ASSUME NEW q \in Prs
               PROVE  /\ checked'[q] => \E b \in DOMAIN main' : PassedOn(q, b)'
                      /\ verified'[q] => /\ postmerge' # 0
                                         /\ branch'[q].tree.dec.effective = postmerge'
    BY DEF CheckInv
  <2>1. CASE q = p BY <1>3, <2>1
  <2>2. CASE q # p
    <3>1. verified'[q] => postmerge' # 0 /\ branch'[q].tree.dec.effective = postmerge'
      BY <1>1, <1>4, <2>2 DEF IInv, CheckInv
    <3>2. ASSUME checked'[q] PROVE \E b \in DOMAIN main' : PassedOn(q, b)'
      <4>1. checked[q] /\ Open(q) BY <1>2, <1>4, <2>2, <3>2 DEF TypeOK
      <4>2. PICK b \in DOMAIN main : PassedOn(q, b) BY <4>1 DEF IInv, CheckInv
      <4>3. PassedOn(q, b)' BY <1>1, <1>4, <2>2, <4>1, <4>2, PassedStays
      <4> QED BY <1>1, <4>2, <4>3
    <3> QED BY <3>1, <3>2
  <2> QED BY <2>1, <2>2
<1> QED BY <1>6, <1>7, <1>8, <1>9 DEF IInv

\* A tree main has is one an author may start from.
LEMMA MainIsPlain == ASSUME IInv, NEW i \in DOMAIN main PROVE Plain(main[i].tree)
BY DEF IInv, MainInv, Consistent, Plain

\* Authors only ever put up a branch, and reset what was checked of it.
LEMMA AuthorInv == ASSUME IInv, NEW p \in Prs, Author(p) PROVE IInv'
<1>1. TypeOK /\ Tip \in Tree /\ Len(main) \in DOMAIN main /\ Len(main) \in Commits
  BY Chain DEF IInv, Commits
<1>2. CASE OpenPr(p)
  <2>1. PICK t \in Edits(Tip) :
          /\ Put(p, [base |-> Len(main), tree |-> t, touched |-> Diff(Tip, t)])
          /\ ~Merged(p) /\ pushes < MaxPushes
    BY <1>2 DEF OpenPr
  <2> DEFINE c == [base |-> Len(main), tree |-> t, touched |-> Diff(Tip, t)]
  <2>2. Plain(Tip) BY <1>1, MainIsPlain DEF Tip
  <2>3. t \in Tree /\ Plain(t) /\ (Tip.validator # 0 => t.validator # 0)
    BY <1>1, <2>1, <2>2, EditsAreTrees
  <2>4. Diff(Tip, t) \subseteq BOOTSTRAP_PATHS \cup {"other"} BY <1>1, <2>3, DiffPaths
  <2>5. c \in Branch BY <1>1, <2>3, <2>4 DEF Branch
  <2>6. c.base = Len(main) /\ c.tree = t OBVIOUS
  <2> HIDE DEF c
  <2>7. main[c.base].tree = Tip BY <2>6 DEF Tip
  <2> QED BY <1>1, <2>1, <2>3, <2>5, <2>6, <2>7, PutInv DEF c
<1>3. CASE Push(p)
  <2>1. PICK t \in Edits(branch[p].tree) :
          /\ Put(p, [branch[p] EXCEPT !.tree = t, !.touched = @ \cup Diff(branch[p].tree, t)])
          /\ Open(p) /\ pushes < MaxPushes
    BY <1>3 DEF Push
  <2> DEFINE touched == branch[p].touched \cup Diff(branch[p].tree, t)
  <2> DEFINE c == [branch[p] EXCEPT !.tree = t, !.touched = touched]
  <2>2. t \in Tree /\ Plain(t) /\ (branch[p].tree.validator # 0 => t.validator # 0)
    BY <2>1, Offered, EditsAreTrees
  <2>3. touched \in SUBSET (BOOTSTRAP_PATHS \cup {"other"})
    <3>1. Diff(branch[p].tree, t) \subseteq BOOTSTRAP_PATHS \cup {"other"}
      BY <2>1, <2>2, Offered, DiffPaths
    <3>2. branch[p].touched \subseteq BOOTSTRAP_PATHS \cup {"other"} BY <2>1, Offered DEF Branch
    <3> QED BY <3>1, <3>2
  <2>4. Put(p, c) BY <2>1
  <2> HIDE DEF touched
  <2>5. c \in Branch /\ c.base = branch[p].base /\ c.tree = t BY <2>1, <2>2, <2>3, Offered DEF Branch
  <2> HIDE DEF c
  <2>6. main[c.base].tree.validator # 0 => c.tree.validator # 0
    BY <2>1, <2>2, <2>5 DEF IInv, BranchInv
  <2> QED BY <2>1, <2>2, <2>4, <2>5, <2>6, Offered, PutInv
<1>4. CASE Update(p)
  <2> DEFINE base == main[branch[p].base].tree
  <2> DEFINE s == branch[p].tree
  <2> DEFINE t == Combine(base, s, Tip)
  <2> DEFINE touched == branch[p].touched \cup Diff(s, t) \cup Diff(Tip, t)
  <2> DEFINE c == [base |-> Len(main), tree |-> t, touched |-> touched]
  <2>1. Put(p, c) /\ Open(p) /\ pushes < MaxPushes BY <1>4 DEF Update
  <2>2. base \in Tree /\ s \in Tree /\ branch[p].base \in DOMAIN main /\ Plain(s)
    BY <2>1, Offered
  <2>3. /\ t \in Tree
        /\ t.dec = IF Tip.dec # base.dec THEN Tip.dec ELSE s.dec
        /\ t.plan_label = IF Tip.plan_label # base.plan_label THEN Tip.plan_label ELSE s.plan_label
        /\ t.index_label = IF Tip.index_label # base.index_label
                           THEN Tip.index_label ELSE s.index_label
        /\ t.validator = IF Tip.validator # base.validator THEN Tip.validator ELSE s.validator
    BY <1>1, <2>2, CombineFields
  <2>4. Consistent(base) /\ Consistent(Tip) /\ Keeps(base, Tip)
    <3>1. branch[p].base <= Len(main) BY <2>2, Chain DEF IInv
    <3> QED BY <1>1, <2>2, <3>1 DEF IInv, MainInv, Tip
  <2>5. base.validator # 0 => s.validator # 0 BY <2>1 DEF IInv, BranchInv
  <2>6. touched \in SUBSET (BOOTSTRAP_PATHS \cup {"other"})
    <3> HIDE DEF t, s
    <3>1. Diff(s, t) \subseteq BOOTSTRAP_PATHS \cup {"other"} BY <2>2, <2>3, DiffPaths
    <3>2. Diff(Tip, t) \subseteq BOOTSTRAP_PATHS \cup {"other"} BY <1>1, <2>3, DiffPaths
    <3>3. branch[p].touched \subseteq BOOTSTRAP_PATHS \cup {"other"} BY <2>1, Offered DEF Branch
    <3> QED BY <3>1, <3>2, <3>3
  <2> HIDE DEF t, s, base, touched
  <2>7. Plain(t) BY <2>2, <2>3, <2>4, <2>5 DEF Plain, Consistent, Keeps
  <2>8. Tip.validator # 0 => t.validator # 0 BY <2>3, <2>5
  <2>9. c \in Branch /\ c.base = Len(main) /\ c.tree = t BY <1>1, <2>3, <2>6 DEF Branch
  <2> HIDE DEF c
  <2>10. main[c.base].tree = Tip BY <2>9 DEF Tip
  <2> QED BY <1>1, <2>1, <2>7, <2>8, <2>9, <2>10, Offered, PutInv
<1> QED BY <1>2, <1>3, <1>4 DEF Author

\* What validate_repository found is what the invariant remembers.
LEMMA NowPassed ==
  ASSUME IInv, NEW p \in Prs, Open(p), validate_repository(p)
  PROVE  PassedOn(p, Len(main)) /\ Len(main) \in DOMAIN main
<1>1. branch[p].base <= Len(main) /\ Len(main) \in DOMAIN main BY Offered, Chain DEF IInv
<1> QED BY <1>1 DEF validate_repository, PassedOn, Tip

\* A check that passes is of the present main.
LEMMA CheckStepInv == ASSUME IInv, NEW p \in Prs, Check(p) PROVE IInv'
<1>1. /\ UNCHANGED <<main, branch, verified, postmerge, pushes>>
      /\ Open(p) /\ validate_repository(p)
      /\ checked' = [checked EXCEPT ![p] = TRUE]
  BY DEF Check
<1>2. TypeOK BY DEF IInv
<1>3. TypeOK' BY <1>1, <1>2 DEF TypeOK, Open
<1>4. MainInv' BY <1>1, MainStays DEF IInv
<1>5. BranchInv' BY <1>1 DEF IInv, BranchInv, Open, Merged, Plain
<1>6. CheckInv'
  <2> SUFFICES ASSUME NEW q \in Prs, checked'[q] PROVE \E b \in DOMAIN main : PassedOn(q, b)'
    BY <1>1 DEF IInv, CheckInv
  <2>1. \E b \in DOMAIN main : PassedOn(q, b) /\ Open(q)
    <3>1. CASE q = p BY <1>1, <3>1, NowPassed
    <3>2. CASE q # p BY <1>1, <1>2, <3>2 DEF TypeOK, IInv, CheckInv
    <3> QED BY <3>1, <3>2
  <2> QED BY <1>1, <2>1, PassedStays
<1> QED BY <1>3, <1>4, <1>5, <1>6 DEF IInv

\* The verification of the owner binds the head to the evidence.
LEMMA VerifyInv == ASSUME IInv, NEW p \in Prs, VerifyActivation(p) PROVE IInv'
<1>1. /\ UNCHANGED <<main, branch, checked, postmerge, pushes>> /\ Open(p) /\ checked[p]
      /\ postmerge # 0 /\ branch[p].tree.dec.effective = postmerge
      /\ verified' = [verified EXCEPT ![p] = TRUE]
  BY DEF VerifyActivation, validate_activation_evidence_binding
<1>2. TypeOK BY DEF IInv
<1>3. TypeOK' BY <1>1, <1>2 DEF TypeOK, Open
<1>4. MainInv' BY <1>1, MainStays DEF IInv
<1>5. BranchInv' BY <1>1 DEF IInv, BranchInv, Open, Merged, Plain
<1>6. CheckInv'
  <2>1. ASSUME NEW q \in Prs, checked'[q] PROVE \E b \in DOMAIN main' : PassedOn(q, b)'
    <3>1. PICK b \in DOMAIN main : PassedOn(q, b) BY <1>1, <2>1 DEF IInv, CheckInv
    <3>2. Open(q) BY <1>1, <1>2, <2>1 DEF TypeOK
    <3> QED BY <1>1, <3>1, <3>2, PassedStays
  <2>2. ASSUME NEW q \in Prs, verified'[q]
        PROVE  postmerge' # 0 /\ branch'[q].tree.dec.effective = postmerge'
    BY <1>1, <1>2, <2>2 DEF TypeOK, IInv, CheckInv
  <2> QED BY <2>1, <2>2 DEF CheckInv
<1> QED BY <1>3, <1>4, <1>5, <1>6 DEF IInv

\* The evidence is collected once, about the second commit, and no decision on main
\* is active before there is any.
LEMMA CollectInv == ASSUME IInv, CollectPostMerge PROVE IInv'
<1>1. /\ UNCHANGED <<main, branch, checked, verified, pushes>> /\ postmerge = 0
      /\ postmerge' = Len(main) /\ main[Len(main)].pr = EXPECTED_GOVERNANCE_PR
      /\ main[Len(main)].exact /\ Len(main) = SOURCE_COMMIT + 1
  BY DEF CollectPostMerge
<1>2. TypeOK BY DEF IInv
<1>3. Len(main) \in 1..MaxMain /\ Len(main) \in DOMAIN main BY <1>2, Chain
<1>4. TypeOK' BY <1>1, <1>2, <1>3, PrAssumption DEF TypeOK, Open
<1>5. MainInv' BY <1>1, <1>3 DEF IInv, MainInv, Merged, Consistent, Keeps, ControlsOf, LabelOf
<1>6. BranchInv' BY <1>1 DEF IInv, BranchInv, Open, Merged, Plain
<1>7. CheckInv'
  <2>1. ASSUME NEW q \in Prs, checked'[q] PROVE \E b \in DOMAIN main' : PassedOn(q, b)'
    <3>1. PICK b \in DOMAIN main : PassedOn(q, b) BY <1>1, <2>1 DEF IInv, CheckInv
    <3>2. Open(q) BY <1>1, <1>2, <2>1 DEF TypeOK
    <3> QED BY <1>1, <3>1, <3>2, PassedStays
  <2>2. \A q \in Prs : ~verified'[q] BY <1>1 DEF IInv, CheckInv
  <2> QED BY <2>1, <2>2 DEF CheckInv
<1> QED BY <1>4, <1>5, <1>6, <1>7 DEF IInv

-----------------------------------------------------------------------------
(* Merges *)

\* What a merge of p brings to the tip of main.
Squashed(p) == Combine(main[branch[p].base].tree, Tip, branch[p].tree)

\* That it is the next thing main may be.
MayFollow(p, t) ==
    /\ t \in Tree /\ Consistent(t) /\ Keeps(Tip, t)
    /\ Tip.dec = NoDec /\ t.dec # NoDec =>
          p = EXPECTED_GOVERNANCE_PR /\ t.dec.status = "PROPOSED"
    /\ t.dec # NoDec /\ t.dec.status = "ACTIVE" /\ t.dec # Tip.dec =>
          t.dec.activation_pr = p /\ postmerge # 0 /\ t.dec.effective = postmerge

\* What is known at the merge of an open p: of the commit it is based on, one it was
\* checked against, and the tip.
LEMMA AtMerge ==
  ASSUME IInv, NEW p \in Prs, Open(p), NEW b \in DOMAIN main, branch[p].base <= b
  PROVE  LET base == main[branch[p].base].tree
             B == main[b].tree
         IN  /\ base \in Tree /\ B \in Tree /\ Tip \in Tree
             /\ Consistent(base) /\ Consistent(B) /\ Consistent(Tip)
             /\ Keeps(base, B) /\ Keeps(base, Tip) /\ Keeps(B, Tip)
<1> DEFINE a == branch[p].base
<1>1. a \in DOMAIN main /\ Len(main) \in DOMAIN main /\ a <= Len(main) /\ b <= Len(main)
  BY Offered, Chain DEF IInv
<1>2. main[a].tree \in Tree /\ main[b].tree \in Tree /\ Tip \in Tree BY <1>1, Chain DEF IInv
<1> QED BY <1>1, <1>2 DEF IInv, MainInv, Tip

\* Merging what has the decision, the labels and the controls of the tip keeps them.
LEMMA AgreementStays ==
  ASSUME NEW base \in Tree, NEW ours \in Tree, NEW theirs \in Tree, Agree(theirs, ours)
  PROVE  Agree(Combine(base, ours, theirs), ours)
BY CombineFields DEF Agree

\* So a tree in agreement with the tip may follow it.
LEMMA AgreeingFollows ==
  ASSUME NEW t \in Tree, Agree(t, Tip), Consistent(Tip),
         Tip.dec # NoDec => t.dec # NoDec, NEW p
  PROVE  MayFollow(p, t)
BY DEF MayFollow, Agree, Consistent, Keeps, ControlsOf

\* A checked head may follow, by the rules it was checked with.
LEMMA MergeFollows == ASSUME IInv, NEW p \in Prs, Merge(p) PROVE MayFollow(p, Squashed(p))
<1>1. /\ checked[p] /\ Open(p) /\ ~Conflict(main[branch[p].base].tree, Tip, branch[p].tree)
      /\ IsActivation(p) => verified[p]
  BY DEF Merge, Squash
<1>2. PICK b \in DOMAIN main : PassedOn(p, b) BY <1>1 DEF IInv, CheckInv
<1> DEFINE base == main[branch[p].base].tree
<1> DEFINE B == main[b].tree
<1> DEFINE T == Tip
<1> DEFINE t == branch[p].tree
<1> DEFINE u == Squashed(p)
<1> DEFINE history == branch[p].touched \cup Diff(B, t)
<1>3. /\ t \in Tree /\ ~Merged(p) /\ branch[p].base <= b
      /\ parse_triplet(t) /\ t.validator = t.dec.validator_blob
      /\ validate_activation_diff(b, p, t, history)
  BY <1>1, <1>2, Offered DEF PassedOn
<1>4. /\ base \in Tree /\ B \in Tree /\ T \in Tree
      /\ Consistent(base) /\ Consistent(B) /\ Consistent(T)
      /\ Keeps(base, B) /\ Keeps(base, T) /\ Keeps(B, T)
  BY <1>1, <1>3, AtMerge
<1>5. /\ t.dec \in Dec /\ t.dec # NoDec /\ t.plan_label = LabelOf(t.dec)
      /\ t.index_label = LabelOf(t.dec)
      /\ t.dec.status \in {"PROPOSED", "ACTIVE"} /\ t.dec.validator_blob \in {1, 2}
      /\ t.plan_label # NoLabel /\ t.index_label # NoLabel
      /\ t.dec.status = "PROPOSED" => t.dec.effective = 0
  BY <1>3, TreeFields, DecFields DEF parse_triplet
<1>6. /\ u \in Tree
      /\ u.dec = IF t.dec # base.dec THEN t.dec ELSE T.dec
      /\ u.plan_label = IF t.plan_label # base.plan_label THEN t.plan_label ELSE T.plan_label
      /\ u.index_label = IF t.index_label # base.index_label THEN t.index_label ELSE T.index_label
      /\ u.workflow = IF t.workflow # base.workflow THEN t.workflow ELSE T.workflow
      /\ u.validator = IF t.validator # base.validator THEN t.validator ELSE T.validator
  BY <1>3, <1>4, CombineFields DEF Squashed
<1>7. T.dec = base.dec \/ t.dec = base.dec \/ T.dec = t.dec BY <1>1, <1>3, <1>4, NoConflict
<1>8. "dec" \in Diff(B, t) <=> B.dec # t.dec BY <1>3, <1>4, DiffPaths
<1>9. Diff(B, t) \subseteq history OBVIOUS
<1>10. ASSUME Agree(t, T) PROVE MayFollow(p, u)
  <2>1. Agree(u, T) BY <1>3, <1>4, <1>10, AgreementStays DEF Squashed
  <2> QED BY <1>4, <1>6, <2>1, AgreeingFollows DEF Agree
\* The decision of the commit checked against is that of the tip, or was activated since.
<1>11. B.dec # NoDec => T.dec # NoDec /\ T.workflow = B.workflow /\ T.validator = B.validator
                        /\ T.dec.body = B.dec.body /\ T.dec.validator_blob = B.dec.validator_blob
  BY <1>4 DEF Keeps, ControlsOf
<1>12. B.dec # NoDec => B.dec.status \in {"PROPOSED", "ACTIVE"} BY <1>4, TreeFields, DecFields
<1>13. T.dec # NoDec => T.dec.status \in {"PROPOSED", "ACTIVE"} BY <1>4, TreeFields, DecFields
<1>14. base.dec # NoDec => base.dec.status \in {"PROPOSED", "ACTIVE"} BY <1>4, TreeFields, DecFields
<1>15. "plan" \in Diff(B, t) <=> t.plan_label # B.plan_label \/ t.plan_text # B.plan_text
  BY <1>3, <1>4, DiffPaths
<1>16. /\ "index" \in Diff(B, t) <=> t.index_label # B.index_label
       /\ "workflow" \in Diff(B, t) <=> t.workflow # B.workflow
       /\ "validator" \in Diff(B, t) <=> t.validator # B.validator
  BY <1>3, <1>4, DiffPaths
<1>17. Len(main) \in DOMAIN main /\ T = main[Len(main)].tree BY Chain DEF IInv, Tip
<1>18. validate_activation_diff(b, p, t, history) BY <1>3
<1> SUFFICES MayFollow(p, u) OBVIOUS
<1> HIDE DEF base, B, T, t, u
<1>19. CASE B.dec = NoDec
  <2>1. /\ p = EXPECTED_GOVERNANCE_PR /\ t.dec.status = "PROPOSED"
    BY <1>18, <1>19 DEF validate_activation_diff, validate_bootstrap_diff, parse_triplet, B, t
  <2>2. T.dec = NoDec BY <1>3, <1>17, <2>1 DEF IInv, MainInv
  <2>3. base.dec = NoDec BY <1>4, <1>19 DEF Keeps
  <2>4. u.dec = t.dec /\ u.plan_label = t.plan_label /\ u.index_label = t.index_label
        /\ u.validator = t.validator
    BY <1>3, <1>4, <1>5, <1>6, <2>3 DEF Consistent
  <2> QED BY <1>3, <1>5, <1>6, <2>1, <2>2, <2>4 DEF MayFollow, Consistent, Keeps, T
<1>20. CASE B.dec # NoDec /\ B.dec.status = "ACTIVE"
  <2>1. t.dec = B.dec /\ "workflow" \notin history /\ "validator" \notin history
    BY <1>18, <1>20 DEF validate_activation_diff, validate_active_diff, FrozenControls, B, t
  <2>2. t.workflow = B.workflow /\ t.validator = B.validator BY <1>9, <1>16, <2>1
  <2>3. T.dec = B.dec BY <1>4, <1>20 DEF Keeps
  <2>4. Agree(t, T) BY <1>4, <1>5, <1>11, <1>20, <2>1, <2>2, <2>3 DEF Agree, Consistent
  <2> QED BY <1>10, <2>4
<1>21. CASE B.dec # NoDec /\ B.dec.status = "PROPOSED" /\ t.dec.status # "ACTIVE"
  <2>1. BOOTSTRAP_PATHS \cap history = {}
    BY <1>18, <1>21 DEF validate_activation_diff, validate_proposed_diff, B, t
  <2>2. t.dec = B.dec /\ t.plan_label = B.plan_label /\ t.index_label = B.index_label
        /\ t.workflow = B.workflow /\ t.validator = B.validator
    BY <1>8, <1>9, <1>15, <1>16, <2>1 DEF BOOTSTRAP_PATHS, GOVERNANCE_PATHS
  <2>3. CASE T.dec.status = "PROPOSED"
    <3>1. T.dec = B.dec BY <1>4, <1>21, <2>3 DEF Keeps
    <3>2. Agree(t, T) BY <1>4, <1>5, <1>11, <1>21, <2>2, <3>1 DEF Agree, Consistent
    <3> QED BY <1>10, <3>2
  <2>4. CASE T.dec.status = "ACTIVE"
    <3>1. base.dec = t.dec
      <4>1. CASE base.dec = NoDec BY <1>5, <1>7, <1>11, <1>21, <2>2, <2>4, <4>1
      <4>2. CASE base.dec # NoDec BY <1>4, <1>21, <2>2, <4>2 DEF Keeps
      <4> QED BY <4>1, <4>2
    <3>2. base.plan_label = t.plan_label /\ base.index_label = t.index_label
      BY <1>4, <1>5, <3>1 DEF Consistent
    <3>3. Agree(u, T) BY <1>6, <1>11, <1>21, <2>2, <3>1, <3>2 DEF Agree
    <3> QED BY <1>4, <1>6, <3>3, AgreeingFollows DEF Agree, T
  <2> QED BY <1>11, <1>13, <1>21, <2>3, <2>4
<1>22. CASE B.dec # NoDec /\ B.dec.status = "PROPOSED" /\ t.dec.status = "ACTIVE"
  <2>1. validate_activation(b, p, t, history)
    BY <1>18, <1>22 DEF validate_activation_diff, B, t
  <2>2. t.dec.activation_pr = p /\ Diff(B, t) = GOVERNANCE_PATHS
        /\ t.dec.body = B.dec.body /\ t.dec.validator_blob = B.dec.validator_blob
    BY <2>1 DEF validate_activation, Frozen, B
  <2>3. postmerge # 0 /\ t.dec.effective = postmerge
    BY <1>1, <1>5, <1>22, <2>2 DEF IsActivation, IInv, CheckInv, t
  <2>4. base.dec # NoDec => base.dec.status = "PROPOSED"
    BY <1>4, <1>14, <1>22 DEF Keeps
  <2>5. base.dec # t.dec BY <1>5, <1>22, <2>4
  <2>6. T.dec.status = "PROPOSED"
    <3>1. SUFFICES ASSUME T.dec.status = "ACTIVE" PROVE FALSE BY <1>11, <1>13, <1>22
    <3>2. T.dec = t.dec BY <1>5, <1>7, <1>11, <1>22, <2>4, <2>5, <3>1
    <3>3. Merged(p) BY <1>5, <1>17, <2>2, <3>1, <3>2 DEF IInv, MainInv
    <3> QED BY <1>3, <3>3
  <2>7. T.dec = B.dec BY <1>4, <1>22, <2>6 DEF Keeps
  <2>8. t.workflow = T.workflow /\ t.validator = T.validator
    BY <1>11, <1>16, <1>22, <2>2 DEF GOVERNANCE_PATHS
  <2>9. base.plan_label # t.plan_label /\ base.index_label # t.index_label
    BY <1>4, <1>5, <1>22, <2>4 DEF Consistent, LabelOf
  <2>10. /\ u.dec = t.dec /\ u.plan_label = t.plan_label /\ u.index_label = t.index_label
         /\ u.workflow = T.workflow /\ u.validator = T.validator
    BY <1>6, <2>5, <2>8, <2>9
  <2>11. ControlsOf(u) = ControlsOf(T) BY <1>11, <1>22, <2>2, <2>10 DEF ControlsOf
  <2>12. Keeps(T, u) BY <1>5, <1>22, <2>6, <2>10, <2>11 DEF Keeps
  <2>13. Consistent(u) BY <1>3, <1>5, <1>22, <2>8, <2>10 DEF Consistent
  <2> QED BY <1>6, <1>11, <1>22, <2>2, <2>3, <2>10, <2>12, <2>13 DEF MayFollow, T
<1> QED BY <1>12, <1>19, <1>20, <1>21, <1>22

\* Without a validator there is nothing of the decision on either side.
LEMMA UngovernedFollows ==
  ASSUME IInv, NEW p \in Prs, MergeUngoverned(p) PROVE MayFollow(p, Squashed(p))
<1> DEFINE base == main[branch[p].base].tree
<1> DEFINE t == branch[p].tree
<1>1. /\ Open(p) /\ Tip.validator = 0 /\ t.validator = 0 /\ Len(main) \in DOMAIN main
      /\ branch[p].base <= Len(main)
  BY Offered, Chain DEF MergeUngoverned, IInv
<1>2. /\ t \in Tree /\ base \in Tree /\ Tip \in Tree /\ Plain(t)
      /\ Consistent(base) /\ Consistent(Tip) /\ Keeps(base, Tip)
  BY <1>1, AtMerge, Offered
<1>3. Tip.dec = NoDec /\ base.dec = NoDec BY <1>1, <1>2 DEF Consistent, Keeps
<1>4. t.dec = NoDec /\ t.plan_label = NoLabel /\ t.index_label = NoLabel BY <1>1, <1>2 DEF Plain
<1>5. /\ Squashed(p) \in Tree /\ Squashed(p).dec = NoDec /\ Squashed(p).validator = 0
      /\ Squashed(p).plan_label = NoLabel /\ Squashed(p).index_label = NoLabel
  BY <1>1, <1>2, <1>3, <1>4, CombineFields DEF Squashed, Consistent
<1> QED BY <1>3, <1>5 DEF MayFollow, Consistent, Keeps

\* What is kept by one commit and the next is kept by both.
LEMMA KeepsOn == ASSUME NEW s, NEW t, NEW u, Keeps(s, t), Keeps(t, u) PROVE Keeps(s, u)
BY DEF Keeps

\* A merge that may follow keeps the chain and what is known of the other pull requests.
LEMMA SquashInv ==
  ASSUME IInv, NEW p \in Prs, Squash(p), MayFollow(p, Squashed(p))
  PROVE  /\ IInv'
         /\ Tip' = Squashed(p)
<1> DEFINE new == main'[Len(main) + 1]
<1> DEFINE u == Squashed(p)
<1> DEFINE Commit == [tree : Tree, pr : Prs \cup {NoPr}, exact : BOOLEAN]
<1> DEFINE exact == branch[p].base = Len(main) /\ u = branch[p].tree
<1>1. /\ Open(p) /\ Len(main) < MaxMain
      /\ main' = Append(main, [tree |-> u, pr |-> p, exact |-> exact])
      /\ branch' = [branch EXCEPT ![p] = NoBranch]
      /\ checked' = [checked EXCEPT ![p] = FALSE] /\ verified' = [verified EXCEPT ![p] = FALSE]
      /\ UNCHANGED <<postmerge, pushes>>
  BY DEF Squash, Squashed
<1>2. TypeOK BY DEF IInv
<1>3. Len(main) \in 1..MaxMain /\ DOMAIN main = 1..Len(main) /\ Len(main) \in DOMAIN main
  BY <1>2, Chain
<1>4. u \in Tree BY DEF MayFollow
<1>5. main \in Seq(Commit) BY <1>2 DEF TypeOK
<1>6. [tree |-> u, pr |-> p, exact |-> exact] \in Commit BY <1>4
<1> DEFINE commit == [tree |-> u, pr |-> p, exact |-> exact]
<1>7. main' = Append(main, commit) /\ commit \in Commit /\ commit.tree = u /\ commit.pr = p
  BY <1>1, <1>6
<1> HIDE DEF Commit, commit, exact
<1>8. /\ main' \in Seq(Commit) /\ Len(main') = Len(main) + 1
      /\ DOMAIN main' = 1..(Len(main) + 1)
      /\ main'[Len(main) + 1] = commit
      /\ \A i \in DOMAIN main : main'[i] = main[i]
  BY <1>3, <1>5, <1>7
<1>9. new.tree = u /\ new.pr = p BY <1>7, <1>8
<1>10. \A i \in DOMAIN main' : (i \in DOMAIN main /\ main'[i] = main[i]) \/ i = Len(main) + 1
  BY <1>3, <1>8
<1>11. branch'[p] = NoBranch /\ checked'[p] = FALSE /\ verified'[p] = FALSE
  BY <1>1, <1>2 DEF TypeOK
<1>12. \A q \in Prs : q # p => branch'[q] = branch[q] /\ checked'[q] = checked[q]
                               /\ verified'[q] = verified[q]
  BY <1>1, <1>2 DEF TypeOK
<1>13. \A q : (\E i \in DOMAIN main' : main'[i].pr = q) <=> Merged(q) \/ q = p
  BY <1>8, <1>9, <1>10 DEF Merged
<1>14. TypeOK'
  <2>1. main' \in Seq([tree : Tree, pr : Prs \cup {NoPr}, exact : BOOLEAN]) BY <1>8 DEF Commit
  <2>2. Len(main') \in Commits BY <1>1, <1>3, <1>8, PrAssumption DEF Commits
  <2>3. /\ branch' \in [Prs -> Branch \cup {NoBranch}]
        /\ checked' \in [Prs -> BOOLEAN] /\ verified' \in [Prs -> BOOLEAN]
    BY <1>1, <1>2 DEF TypeOK
  <2>4. ASSUME NEW q \in Prs PROVE (checked'[q] => Open(q)') /\ (verified'[q] => checked'[q])
    <3>1. CASE q = p BY <1>11, <3>1
    <3>2. CASE q # p BY <1>2, <1>12, <3>2 DEF TypeOK, Open
    <3> QED BY <3>1, <3>2
  <2> QED BY <1>1, <1>2, <2>1, <2>2, <2>3, <2>4 DEF TypeOK
<1>15. MainInv'
  <2> DEFINE At(i) == main[i].tree
  <2>1. ASSUME NEW i \in DOMAIN main' PROVE Consistent(main'[i].tree)
    <3>1. CASE i \in DOMAIN main BY <1>8, <3>1 DEF IInv, MainInv
    <3>2. CASE i = Len(main) + 1 BY <1>9, <3>2 DEF MayFollow
    <3> QED BY <1>10, <3>1, <3>2
  <2>2. ASSUME NEW i \in DOMAIN main', NEW j \in DOMAIN main', i <= j
        PROVE  Keeps(main'[i].tree, main'[j].tree)
    <3>1. CASE j \in DOMAIN main
      <4>1. i \in DOMAIN main BY <1>3, <1>8, <2>2, <3>1
      <4> QED BY <1>8, <2>2, <3>1, <4>1 DEF IInv, MainInv
    <3>2. CASE j = Len(main) + 1 /\ i \in DOMAIN main
      <4>1. i <= Len(main) BY <1>3, <3>2
      <4>2. Keeps(main[i].tree, Tip) BY <1>3, <3>2, <4>1 DEF IInv, MainInv, Tip
      <4>3. Keeps(Tip, u) BY DEF MayFollow
      <4>4. Keeps(main[i].tree, u) BY <4>2, <4>3, KeepsOn
      <4>5. main'[i] = main[i] /\ main'[j].tree = u BY <1>8, <1>9, <3>2
      <4> QED BY <4>4, <4>5
    <3>3. CASE i = Len(main) + 1 /\ j = Len(main) + 1 BY <3>3 DEF Keeps
    <3> QED BY <1>10, <3>1, <3>2, <3>3
  <2>3. ASSUME NEW i \in DOMAIN main', main'[i].tree.dec # NoDec
        PROVE  Merged(EXPECTED_GOVERNANCE_PR)'
    <3>1. CASE i \in DOMAIN main BY <1>8, <1>13, <2>3, <3>1 DEF IInv, MainInv, Merged
    <3>2. CASE i = Len(main) + 1 /\ Tip.dec # NoDec
      BY <1>3, <1>13, <3>2 DEF IInv, MainInv, Tip, Merged
    <3>3. CASE i = Len(main) + 1 /\ Tip.dec = NoDec
      BY <1>9, <1>13, <2>3, <3>3 DEF MayFollow, Merged
    <3> QED BY <1>10, <3>1, <3>2, <3>3
  <2>4. ASSUME NEW i \in DOMAIN main', main'[i].tree.dec # NoDec,
               main'[i].tree.dec.status = "ACTIVE"
        PROVE  /\ Merged(main[i].tree.dec.activation_pr)'
               /\ postmerge' # 0 /\ main'[i].tree.dec.effective = postmerge'
    <3>1. CASE i \in DOMAIN main
      <4>1. main'[i] = main[i] BY <1>8, <3>1
      <4>2. /\ Merged(main[i].tree.dec.activation_pr)
            /\ postmerge # 0 /\ main[i].tree.dec.effective = postmerge
        BY <2>4, <3>1, <4>1 DEF IInv, MainInv
      <4> QED BY <1>1, <1>13, <4>1, <4>2 DEF Merged
    <3>2. CASE i = Len(main) + 1 /\ u.dec = Tip.dec
      <4>1. /\ Merged(Tip.dec.activation_pr) /\ postmerge # 0 /\ Tip.dec.effective = postmerge
        BY <1>3, <1>9, <2>4, <3>2 DEF IInv, MainInv, Tip
      <4> QED BY <1>1, <1>9, <1>13, <3>2, <4>1 DEF Merged
    <3>3. CASE i = Len(main) + 1 /\ u.dec # Tip.dec
      BY <1>1, <1>9, <1>13, <2>4, <3>3 DEF MayFollow, Merged
    <3> QED BY <1>10, <3>1, <3>2, <3>3
  <2>5. postmerge' # 0 =>
          /\ postmerge' = SOURCE_COMMIT + 1 /\ postmerge' \in DOMAIN main'
          /\ main'[postmerge'].pr = EXPECTED_GOVERNANCE_PR /\ main'[postmerge'].exact
    BY <1>1, <1>3, <1>8 DEF IInv, MainInv
  <2> QED BY <2>1, <2>2, <2>3, <2>4, <2>5 DEF MainInv, Consistent, Keeps, ControlsOf, LabelOf
<1>16. BranchInv'
  <2> SUFFICES ASSUME NEW q \in Prs, Open(q)'
               PROVE  /\ ~Merged(q)' /\ branch'[q].base \in DOMAIN main'
                      /\ Plain(branch'[q].tree)
                      /\ main'[branch'[q].base].tree.validator # 0 => branch'[q].tree.validator # 0
    BY DEF BranchInv, Plain
  <2>1. q # p /\ branch'[q] = branch[q] /\ Open(q) BY <1>11, <1>12 DEF Open
  <2>2. /\ ~Merged(q) /\ branch[q].base \in DOMAIN main /\ Plain(branch[q].tree)
        /\ main[branch[q].base].tree.validator # 0 => branch[q].tree.validator # 0
    BY <2>1 DEF IInv, BranchInv
  <2>3. main'[branch[q].base] = main[branch[q].base] /\ branch[q].base \in DOMAIN main'
    BY <1>3, <1>8, <2>2
  <2> QED BY <1>13, <2>1, <2>2, <2>3 DEF Merged
<1>17. CheckInv'
  <2> SUFFICES ASSUME NEW q \in Prs
               PROVE  /\ checked'[q] => \E b \in DOMAIN main' : PassedOn(q, b)'
                      /\ verified'[q] => /\ postmerge' # 0
                                         /\ branch'[q].tree.dec.effective = postmerge'
    BY DEF CheckInv
  <2>1. CASE q = p BY <1>11, <2>1
  <2>2. CASE q # p
    <3>1. verified'[q] => postmerge' # 0 /\ branch'[q].tree.dec.effective = postmerge'
      BY <1>1, <1>12, <2>2 DEF IInv, CheckInv
    <3>2. ASSUME checked'[q] PROVE \E b \in DOMAIN main' : PassedOn(q, b)'
      <4>1. checked[q] /\ Open(q) BY <1>2, <1>12, <2>2, <3>2 DEF TypeOK
      <4>2. PICK b \in DOMAIN main : PassedOn(q, b) BY <4>1 DEF IInv, CheckInv
      <4>3. \A i \in 1..b : main'[i] = main[i] BY <1>3, <1>8
      <4>4. PassedOn(q, b)' BY <1>12, <2>2, <4>1, <4>2, <4>3, PassedStays
      <4>5. b \in DOMAIN main' BY <1>3, <1>8
      <4> QED BY <4>4, <4>5
    <3> QED BY <3>1, <3>2
  <2> QED BY <2>1, <2>2
<1>18. Tip' = u BY <1>8, <1>9 DEF Tip
<1> QED BY <1>14, <1>15, <1>16, <1>17, <1>18 DEF IInv

-----------------------------------------------------------------------------
(* Theorems *)

\* Main begins with the frozen source, and nothing offered.
LEMMA InitInv == Init => IInv
<1> SUFFICES ASSUME Init PROVE IInv OBVIOUS
<1>1. main = <<[tree |-> Source, pr |-> NoPr, exact |-> TRUE]>> /\ postmerge = 0 /\ pushes = 0
      /\ branch = [p \in Prs |-> NoBranch]
      /\ checked = [p \in Prs |-> FALSE] /\ verified = [p \in Prs |-> FALSE]
  BY DEF Init
<1>2. Source \in Tree /\ Consistent(Source) /\ Source.dec = NoDec
  <2>1. NoLabel \in Label BY PrAssumption DEF NoLabel, Label
  <2> QED BY <2>1 DEF Source, Tree, Consistent
<1>3. DOMAIN main = {1} /\ main[1].tree = Source /\ Len(main) = 1 BY <1>1
<1>4. TypeOK
  <2> DEFINE Commit == [tree : Tree, pr : Prs \cup {NoPr}, exact : BOOLEAN]
  <2> DEFINE commit == [tree |-> Source, pr |-> NoPr, exact |-> TRUE]
  <2>1. commit \in Commit BY <1>2
  <2>2. main = <<commit>> BY <1>1
  <2> HIDE DEF Commit, commit
  <2>3. main \in Seq(Commit) BY <2>1, <2>2
  <2>4. Len(main) \in Commits BY <1>3, PrAssumption DEF Commits
  <2> QED BY <1>1, <2>3, <2>4, PrAssumption DEF TypeOK, Commit
<1>5. MainInv BY <1>1, <1>2, <1>3 DEF MainInv, Keeps
<1>6. BranchInv BY <1>1 DEF BranchInv, Open
<1>7. CheckInv BY <1>1 DEF CheckInv
<1> QED BY <1>4, <1>5, <1>6, <1>7 DEF IInv

\* Every step keeps the invariant, and leaves main alone or brings it on by a tree
\* that may follow the tip.
LEMMA NextInv ==
  ASSUME IInv, [Next]_vars
  PROVE  IInv' /\ (main' = main \/ \E p \in Prs : MayFollow(p, Tip'))
<1>1. ASSUME NEW p \in Prs, Author(p) PROVE IInv' /\ main' = main
  BY <1>1, AuthorInv DEF Author, OpenPr, Push, Update, Put
<1>2. ASSUME NEW p \in Prs, Check(p) PROVE IInv' /\ main' = main
  BY <1>2, CheckStepInv DEF Check
<1>3. ASSUME NEW p \in Prs, VerifyActivation(p) PROVE IInv' /\ main' = main
  BY <1>3, VerifyInv DEF VerifyActivation
<1>4. ASSUME CollectPostMerge PROVE IInv' /\ main' = main
  BY <1>4, CollectInv DEF CollectPostMerge
<1>5. ASSUME NEW p \in Prs, Merge(p) PROVE IInv' /\ MayFollow(p, Tip')
  <2>1. Squash(p) /\ MayFollow(p, Squashed(p)) BY <1>5, MergeFollows DEF Merge
  <2>2. IInv' /\ Tip' = Squashed(p) BY <2>1, SquashInv
  <2> QED BY <2>1, <2>2
<1>6. ASSUME NEW p \in Prs, MergeUngoverned(p) PROVE IInv' /\ MayFollow(p, Tip')
  <2>1. Squash(p) /\ MayFollow(p, Squashed(p)) BY <1>6, UngovernedFollows DEF MergeUngoverned
  <2>2. IInv' /\ Tip' = Squashed(p) BY <2>1, SquashInv
  <2> QED BY <2>1, <2>2
<1>7. CASE UNCHANGED vars
  <2>1. UNCHANGED <<main, branch, checked, verified, postmerge, pushes>> BY <1>7 DEF vars
  <2>2. TypeOK' BY <2>1 DEF IInv, TypeOK, Open
  <2>3. MainInv' BY <2>1, MainStays DEF IInv
  <2>4. BranchInv' BY <2>1 DEF IInv, BranchInv, Open, Merged, Plain
  <2>5. CheckInv'
    <3>1. ASSUME NEW q \in Prs, checked'[q] PROVE \E b \in DOMAIN main' : PassedOn(q, b)'
      <4>1. PICK b \in DOMAIN main : PassedOn(q, b) BY <2>1, <3>1 DEF IInv, CheckInv
      <4>2. Open(q) BY <2>1, <3>1 DEF IInv, TypeOK
      <4> QED BY <2>1, <4>1, <4>2, PassedStays
    <3> QED BY <2>1, <3>1 DEF IInv, CheckInv
  <2> QED BY <2>1, <2>2, <2>3, <2>4, <2>5 DEF IInv
<1> QED BY <1>1, <1>2, <1>3, <1>4, <1>5, <1>6, <1>7 DEF Next, Owner

\* The invariant holds of every number of pull requests, pushes and merges.
THEOREM LifecycleInvariance == Spec => []IInv
<1>1. IInv /\ [Next]_vars => IInv' BY NextInv
<1> QED BY <1>1, InitInv, PTL DEF Spec

\* The state has its types, and the plan and the index repeat the state of the
\* decision on every main there is, although a merge is checked against an older one.
THEOREM Invariance == Spec => []Inv
<1>1. IInv => Inv
  <2> SUFFICES ASSUME IInv PROVE TypeOK /\ CopiesAgree BY DEF Inv
  <2>1. TypeOK /\ MainInv BY DEF IInv
  <2>2. Consistent(Tip) BY <2>1, Chain DEF MainInv, Tip
  <2> QED BY <2>1, <2>2 DEF CopiesAgree, Consistent, LabelOf
<1> QED BY <1>1, LifecycleInvariance, PTL

\* An ACTIVE decision on main names the merge of the governance pull request, for
\* the owner's verification bound it to the evidence collected about that merge.
THEOREM ActiveNamesTheBootstrap == Spec => []EffectiveIsTheBootstrap
<1>1. IInv => EffectiveIsTheBootstrap
  <2> SUFFICES ASSUME IInv, Tip.dec # NoDec, Tip.dec.status = "ACTIVE"
               PROVE  /\ Tip.dec.effective = SOURCE_COMMIT + 1
                      /\ main[Tip.dec.effective].pr = EXPECTED_GOVERNANCE_PR
                      /\ main[Tip.dec.effective].exact
    BY DEF EffectiveIsTheBootstrap
  <2>1. postmerge # 0 /\ Tip.dec.effective = postmerge BY Chain DEF IInv, MainInv, Tip
  <2> QED BY <2>1 DEF IInv, MainInv
<1> QED BY <1>1, LifecycleInvariance, PTL

\* The decision as Decision sees it.
StatusOf(t) == IF t.dec = NoDec THEN "ABSENT" ELSE t.dec.status
ControlsIn(t) == IF t.dec = NoDec THEN NoDec ELSE ControlsOf(t)
EffectiveIn(t) == IF t.dec = NoDec THEN 0 ELSE t.dec.effective

\* A tree that may follow the tip proposes the decision, activates it, or leaves it.
LEMMA FollowingIsPromised ==
  ASSUME IInv, IInv', NEW p \in Prs, MayFollow(p, Tip')
  PROVE  Promised!Next \/ UNCHANGED <<StatusOf(Tip), ControlsIn(Tip), EffectiveIn(Tip)>>
<1>1. Tip \in Tree /\ Tip' \in Tree /\ Consistent(Tip)
  BY Chain DEF IInv, MainInv, Tip, MayFollow
<1>2. Consistent(Tip') /\ Keeps(Tip, Tip') BY DEF MayFollow
<1>3. CASE Tip'.dec = Tip.dec
  <2>1. Tip.dec # NoDec => ControlsOf(Tip') = ControlsOf(Tip) BY <1>2 DEF Keeps
  <2> QED BY <1>3, <2>1 DEF StatusOf, ControlsIn, EffectiveIn
<1>4. CASE Tip.dec = NoDec /\ Tip'.dec # NoDec
  <2>1. Tip'.dec.status = "PROPOSED" /\ Tip'.dec.effective = 0
    BY <1>2, <1>4 DEF MayFollow, Consistent
  <2>2. ControlsOf(Tip') \in (0..2) \X (0..2) \X {1, 2} \X {1, 2}
    BY <1>1, <1>4, TreeFields, DecFields DEF ControlsOf
  <2>3. Promised!Propose(ControlsOf(Tip')) BY <1>4, <2>1 DEF Promised!Propose
  <2> QED BY <2>2, <2>3 DEF Promised!Next
<1>5. CASE Tip.dec # NoDec /\ Tip'.dec # Tip.dec
  <2>1. Tip'.dec # NoDec /\ ControlsOf(Tip') = ControlsOf(Tip)
        /\ Tip.dec.status # "ACTIVE" /\ Tip'.dec.status # "PROPOSED"
    BY <1>2, <1>5 DEF Keeps
  <2>2. Tip.dec.status = "PROPOSED" /\ Tip'.dec.status = "ACTIVE"
    BY <1>1, <1>5, <2>1, TreeFields, DecFields
  <2>3. Tip'.dec.effective \in Commits
    <3>1. postmerge # 0 /\ Tip'.dec.effective = postmerge BY <1>5, <2>1, <2>2 DEF MayFollow
    <3>2. postmerge \in DOMAIN main BY <3>1 DEF IInv, MainInv
    <3> QED BY <3>1, <3>2, Chain DEF IInv, Commits
  <2>4. Promised!Activate(Tip'.dec.effective) BY <1>5, <2>1, <2>2 DEF Promised!Activate
  <2> QED BY <2>3, <2>4 DEF Promised!Next
<1> QED BY <1>3, <1>4, <1>5

\* Main keeps the promise of Decision: it is proposed once, with the controls it keeps,
\* is active at most once, and nothing else ever changes it, although every merge was
\* checked against a main that may have moved since.
THEOREM MainKeepsThePromise == Spec => KeepsDecision
<1>1. Init => Promised!Init BY DEF Init, Promised!Init, Tip, Source
<1>2. IInv /\ IInv' /\ [Next]_vars
        => [Promised!Next]_<<StatusOf(Tip), ControlsIn(Tip), EffectiveIn(Tip)>>
  <2> SUFFICES ASSUME IInv, IInv', [Next]_vars
               PROVE  Promised!Next \/ UNCHANGED <<StatusOf(Tip), ControlsIn(Tip), EffectiveIn(Tip)>>
    OBVIOUS
  <2>1. CASE main' = main BY <2>1 DEF Tip, StatusOf, ControlsIn, EffectiveIn, ControlsOf
  <2> QED BY <2>1, NextInv, FollowingIsPromised
<1> QED BY <1>1, <1>2, LifecycleInvariance, PTL
        DEF Spec, KeepsDecision, Promised!Spec, Promised!decisionVars,
            StatusOf, ControlsIn, EffectiveIn
=============================================================================
