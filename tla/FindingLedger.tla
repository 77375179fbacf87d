---------------------------- MODULE FindingLedger ----------------------------
(***************************************************************************)
(* The findings of a pull request and the two agent reviews they rest on:  *)
(* how scripts/validate_governance_state.py judges the "finding" and       *)
(* "review" components of an evidence package.  The owner keeps the ledger *)
(* in a file, from one candidate to the next; reviewers are agent tasks    *)
(* that an orchestrator starts over whenever it likes; head and base move  *)
(* under both.  A head stands for its tree, a number for a report's text.  *)
(***************************************************************************)
EXTENDS Integers, Sequences

CONSTANTS
  COMMON_RESIDUAL_IDS, ONE_TIME_RESIDUAL_IDS,   \* the fixed findings, all P1
  OtherIds, Severity,                           \* further ids; the severity in an id
  Reviewers, Inputs,     \* the two agent tasks, and what they are asked
  Target,                \* what derive_evidence_target_type says of this pull request
  Repaired,              \* the <<finding, head>> whose diff has a repair of the finding
  RESIDUAL_VALID_UNTIL,  \* the instant every acceptance lapses
  MaxTime, MaxHeads, MaxMoves, MaxTasks, MaxEdits,   \* bounds of an instance
  Nothing

ONE_TIME_TARGET_TYPES == {"governance-bootstrap", "activation-evidence"}
RESIDUAL_IDS == COMMON_RESIDUAL_IDS \cup ONE_TIME_RESIDUAL_IDS
Ids   == RESIDUAL_IDS \cup OtherIds
Heads == 1..MaxHeads

ASSUME IdsAssumption ==
  /\ Severity \in [Ids -> {"P0", "P1", "P2"}] /\ \A f \in RESIDUAL_IDS : Severity[f] = "P1"
  /\ \E r, q \in Reviewers : r # q /\ Reviewers = {r, q}
ASSUME NumbersAssumption ==
  /\ {MaxTime, MaxHeads, RESIDUAL_VALID_UNTIL} \subseteq Nat \ {0}
  /\ {MaxMoves, MaxTasks, MaxEdits} \subseteq Nat
  /\ Nothing \notin Nat

VARIABLES
  clock, base, head,
  committed,  \* when each head was committed, 0 for one that is not yet there
  reviews,    \* what each reviewer's task last said, or that it runs
  reports,    \* the reports written so far: about which base and head, and by whom
  ledger,     \* the ledger file: an entry, or nothing, for every id
  moves, tasks, edits,   \* moves of head or base, tasks begun and edits so far
  pre,        \* the pre-attestation package, once one is accepted
  attestation,  \* what the owner published
  window      \* the accepted packages of the stable window, at most two

vars == <<clock, base, head, committed, reviews, reports, ledger, moves, tasks, edits,
          pre, attestation, window>>

-----------------------------------------------------------------------------
\* The rules.  "root" is the candidate, with a base, a head and a commit time.

Listed(l)   == {f \in Ids : l[f] # Nothing}
Accepted(l) == {f \in Listed(l) : l[f].status = "Accepted-Residual"}

\* Mutant: two reviewers are enough, whatever they hand in.
AnyTwoReviews(rs, root, cutoff) ==
  \A r \in Reviewers :
    /\ rs[r] # Nothing /\ rs[r].report # 0
    /\ rs[r].completed <= cutoff /\ rs[r].verdict = "ACCEPT"
    /\ rs[r].base = root.base /\ rs[r].head = root.head

validate_agent_reviews(rs, root, cutoff) ==
  /\ \A r \in Reviewers :
       /\ rs[r] # Nothing /\ rs[r].report # 0
       /\ root.committed <= rs[r].started
       /\ rs[r].started <= rs[r].completed /\ rs[r].completed <= cutoff
       /\ rs[r].base = root.base /\ rs[r].head = root.head
       /\ rs[r].verdict = "ACCEPT"
  /\ \A r, q \in Reviewers : rs[r].report = rs[q].report => r = q

agent_review_references(rs) == [r \in Reviewers |-> IF rs[r] = Nothing THEN 0 ELSE rs[r].report]

expected_residual_ids ==
  IF Target \in ONE_TIME_TARGET_TYPES THEN RESIDUAL_IDS ELSE COMMON_RESIDUAL_IDS

\* Mutant: the times of a transition are enough to tie it to the reviews.
TransitionUnreported(e, rs, root, cutoff) ==
  e.head = root.head /\ e.at <= cutoff /\ \A r \in Reviewers : rs[r].completed <= e.at

\* What every transition out of Open has in its evidence.
Transition(e, rs, root, cutoff) ==
  /\ e.head = root.head
  /\ \A r \in Reviewers : rs[r].completed <= e.at
  /\ e.at <= cutoff
  /\ e.reports = agent_review_references(rs)

\* The base of an entry is in its evidence for a one-time residual only.
AcceptedResidual(f, e, rs, root, cutoff) ==
  /\ Severity[f] = "P1" /\ f \in expected_residual_ids
  /\ cutoff < RESIDUAL_VALID_UNTIL
  /\ f \in ONE_TIME_RESIDUAL_IDS => e.base = root.base
  /\ Transition(e, rs, root, cutoff)

\* A digest over the finding, the candidate and the repairs in its diff.
resolution_patch_digest(f, c) == <<f, c.base, c.head>>

Resolved(f, e, rs, root, cutoff) ==
  /\ Transition(e, rs, root, cutoff)
  /\ <<f, root.head>> \in Repaired
  /\ resolution_patch_digest(f, e) = resolution_patch_digest(f, root)

DeferredP2(f, e, rs, root, cutoff) ==
  Severity[f] = "P2" /\ Transition(e, rs, root, cutoff)

AttestedAsListed(a, l) ==
  a.finding_ids = Listed(l) /\ a.accepted_residual_ids = Accepted(l)

validate_finding_ledger(l, rs, cutoff, root) ==
  /\ Target = "ordinary" => Listed(l) \cap ONE_TIME_RESIDUAL_IDS = {}
  /\ \A f \in Listed(l) :
       \/ l[f].status = "Accepted-Residual" /\ AcceptedResidual(f, l[f], rs, root, cutoff)
       \/ l[f].status = "Resolved" /\ Resolved(f, l[f], rs, root, cutoff)
       \/ l[f].status = "Deferred-P2" /\ DeferredP2(f, l[f], rs, root, cutoff)
  /\ expected_residual_ids \subseteq Listed(l)

\* The two components of a package, and that publication left them alone.
validate_pre_attestation(p) ==
  /\ validate_agent_reviews(p.reviews, p, p.cutoff)
  /\ validate_finding_ledger(p.ledger, p.reviews, p.cutoff, p)

\* Mutant: the ledger is what it was, so its judgement is too.
JudgedOnce(s, root, a) ==
  /\ s.cutoff > root.cutoff
  /\ AttestedAsListed(a, s.ledger)
  /\ s.reviews = root.reviews /\ s.ledger = root.ledger

validate_snapshot(s, root, a) ==
  /\ s.cutoff > root.cutoff
  /\ validate_agent_reviews(s.reviews, root, s.cutoff)
  /\ validate_finding_ledger(s.ledger, s.reviews, s.cutoff, root)
  /\ AttestedAsListed(a, s.ledger)
  /\ s.reviews = root.reviews /\ s.ledger = root.ledger

-----------------------------------------------------------------------------
Init ==
  /\ clock = 1 /\ base = 1 /\ head = 1
  /\ committed = [h \in Heads |-> IF h = 1 THEN 1 ELSE 0]
  /\ reviews = [r \in Reviewers |-> Nothing] /\ reports = <<>>
  /\ ledger = [f \in Ids |-> Nothing]
  /\ moves = 0 /\ tasks = 0 /\ edits = 0
  /\ pre = Nothing /\ attestation = Nothing /\ window = <<>>

Collected == <<pre, attestation, window>>
Candidate == <<base, head, committed>>
Counts    == <<moves, tasks, edits>>

Tick ==
  /\ clock < MaxTime /\ clock' = clock + 1
  /\ UNCHANGED <<Candidate, reviews, reports, ledger, Counts, Collected>>

\* A push, also a forced one back to an earlier head, which keeps its commit time.
Push(h) ==
  /\ h # head /\ moves < MaxMoves /\ moves' = moves + 1
  /\ head' = h
  /\ committed' = [committed EXCEPT ![h] = IF @ = 0 THEN clock ELSE @]
  /\ UNCHANGED <<clock, base, reviews, reports, ledger, tasks, edits, Collected>>

MoveBase ==
  /\ moves < MaxMoves /\ moves' = moves + 1 /\ base' = base + 1
  /\ UNCHANGED <<clock, head, committed, reviews, reports, ledger, tasks, edits, Collected>>

\* The orchestrator starts a task over for the candidate of the moment.
Assign(r, input) ==
  /\ tasks < MaxTasks /\ tasks' = tasks + 1
  /\ reviews' = [reviews EXCEPT ![r] =
       [input |-> input, base |-> base, head |-> head, started |-> clock,
        completed |-> clock, verdict |-> "none", report |-> 0]]
  /\ UNCHANGED <<clock, Candidate, reports, ledger, moves, edits, Collected>>

Running(r) == reviews[r] # Nothing /\ reviews[r].report = 0
Complete(r, verdict, n) ==
  reviews' = [reviews EXCEPT ![r].completed = clock, ![r].verdict = verdict, ![r].report = n]

Report(r, verdict) ==
  /\ Running(r)
  /\ reports' = Append(reports, [by |-> r, base |-> reviews[r].base, head |-> reviews[r].head])
  /\ Complete(r, verdict, Len(reports'))
  /\ UNCHANGED <<clock, Candidate, ledger, Counts, Collected>>

\* The text of one reviewer comes back as that of the other.
Repeat(r, q) ==
  /\ Running(r) /\ reviews[q] # Nothing /\ reviews[q].report # 0
  /\ reviews[q].base = reviews[r].base /\ reviews[q].head = reviews[r].head
  /\ Complete(r, reviews[q].verdict, reviews[q].report)
  /\ UNCHANGED <<clock, Candidate, reports, ledger, Counts, Collected>>

Edit(f, e) ==
  /\ edits < MaxEdits /\ edits' = edits + 1
  /\ ledger' = [ledger EXCEPT ![f] = e]
  /\ UNCHANGED <<clock, Candidate, reviews, reports, moves, tasks, Collected>>

\* An entry tells the candidate, the time and the reports of the moment.
Dispose(f, status) ==
  Edit(f, [status |-> status, base |-> base, head |-> head, at |-> clock,
           reports |-> agent_review_references(reviews)])
Drop(f) == ledger[f] # Nothing /\ Edit(f, Nothing)

\* A package the validator refuses is thrown away, and leaves nothing behind.
PreAttestation ==
  [base |-> base, head |-> head, committed |-> committed[head], cutoff |-> clock,
   reviews |-> reviews, ledger |-> ledger]

Collect ==
  /\ pre = Nothing /\ validate_pre_attestation(PreAttestation)
  /\ pre' = PreAttestation
  /\ UNCHANGED <<clock, Candidate, reviews, reports, ledger, Counts, attestation, window>>

\* Mutant: the owner attests before there is anything to attest.
AttestEarly ==
  /\ attestation = Nothing
  /\ attestation' = [finding_ids |-> Listed(ledger), accepted_residual_ids |-> Accepted(ledger)]
  /\ UNCHANGED <<clock, Candidate, reviews, reports, ledger, Counts, pre, window>>

\* The owner attests what is in the ledger then.
Attest ==
  /\ pre # Nothing /\ attestation = Nothing
  /\ attestation' = [finding_ids |-> Listed(ledger), accepted_residual_ids |-> Accepted(ledger)]
  /\ UNCHANGED <<clock, Candidate, reviews, reports, ledger, Counts, pre, window>>

Taken == [cutoff |-> clock, reviews |-> reviews, ledger |-> ledger]
Snapshot ==
  /\ attestation # Nothing /\ Len(window) < 2 /\ validate_snapshot(Taken, pre, attestation)
  /\ window' = Append(window, Taken)
  /\ UNCHANGED <<clock, Candidate, reviews, reports, ledger, Counts, pre, attestation>>

Next ==
  \/ Tick \/ MoveBase \/ Collect \/ Attest \/ Snapshot
  \/ \E h \in Heads : Push(h)
  \/ \E r \in Reviewers :
       \/ \E input \in Inputs : Assign(r, input)
       \/ \E verdict \in {"ACCEPT", "REJECT"} : Report(r, verdict)
       \/ \E q \in Reviewers : Repeat(r, q)
  \/ \E f \in Ids :
       \/ \E status \in {"Open", "Accepted-Residual", "Resolved", "Deferred-P2"} : Dispose(f, status)
       \/ Drop(f)

Spec == Init /\ [][Next]_vars

-----------------------------------------------------------------------------
Times == Nat
Review == [input : Inputs, base : Nat, head : Heads, started : Times, completed : Times,
           verdict : {"none", "ACCEPT", "REJECT"}, report : Nat]
Entry == [status : {"Open", "Accepted-Residual", "Resolved", "Deferred-P2"}, base : Nat,
          head : Heads, at : Times, reports : [Reviewers -> Nat]]
ReviewsType == [Reviewers -> Review \cup {Nothing}]
LedgerType  == [Ids -> Entry \cup {Nothing}]

\* The shape of the state, and that a review refers only to a report there is.
TypeOK ==
  /\ clock \in Nat /\ base \in Nat /\ head \in Heads /\ {moves, tasks, edits} \subseteq Nat
  /\ committed \in [Heads -> Nat]
  /\ reviews \in ReviewsType /\ ledger \in LedgerType
  /\ reports \in Seq([by : Reviewers, base : Nat, head : Heads])
  /\ pre = Nothing \/ pre \in [base : Nat, head : Heads, committed : Nat, cutoff : Nat,
                               reviews : ReviewsType, ledger : LedgerType]
  /\ \A r \in Reviewers : reviews[r] # Nothing => reviews[r].report <= Len(reports)
  /\ attestation # Nothing => pre # Nothing
  /\ Len(window) > 0 => attestation # Nothing

\* The ledger outlives candidates, and most entries name a head and no base.  Yet
\* what an accepted pre-attestation has in its ledger was decided, each entry, on
\* this base and head and with both reviews of exactly this candidate in hand.
DispositionsAreFresh ==
  pre # Nothing =>
    \A f \in Listed(pre.ledger) :
      /\ pre.ledger[f].base = pre.base /\ pre.ledger[f].head = pre.head
      /\ \A r \in Reviewers :
           LET n == pre.ledger[f].reports[r] IN
             n \in DOMAIN reports /\ reports[n].base = pre.base /\ reports[n].head = pre.head

\* An accepted window had two opinions: a reviewer's report is that reviewer's own text.
\* The other's can only come back when it is of an earlier run, and the other's task,
\* started over since, wrote the report that stands beside it.
TwoOpinions ==
  Len(window) = 2 =>
    \A r \in Reviewers :
      LET n == pre.reviews[r].report
          q == reports[n].by
      IN  q = r \/ (reports[pre.reviews[q].report].by = q /\ n < pre.reviews[q].report)

\* What the owner attested is what the packages hold, although the file was open to
\* changes from the pre-attestation to the last package: every fixed finding was
\* accepted in the attestation or is repaired by the head, and every acceptance
\* was still in force when the window closed.
AttestedAsJudged ==
  Len(window) = 2 =>
    /\ attestation.accepted_residual_ids # {} =>
         window[1].cutoff < RESIDUAL_VALID_UNTIL /\ window[2].cutoff < RESIDUAL_VALID_UNTIL
    /\ \A f \in expected_residual_ids :
         f \in attestation.accepted_residual_ids \/ <<f, pre.head>> \in Repaired
    /\ \A f \in attestation.accepted_residual_ids :
         pre.ledger[f].status = "Accepted-Residual" /\ f \in expected_residual_ids
=============================================================================
