------------------------- MODULE FindingLedgerProofs -------------------------
(***************************************************************************)
(* Whatever the ids, the reviewers and the bounds, an accepted             *)
(* pre-attestation has only dispositions of its own candidate, although    *)
(* all entries but those of one-time residuals leave the base out.  The    *)
(* base comes from the reports an entry cites: bases only go forward, so   *)
(* the entry was made no earlier than the reviews it cites began, and the  *)
(* package was collected no earlier than the entry was made.               *)
(***************************************************************************)
EXTENDS FindingLedger, TLAPS

\* A review, also one in an old package, cites a report about its own candidate.
Cites(rv) ==
  rv # Nothing /\ rv.report # 0 =>
    /\ rv.report \in DOMAIN reports
    /\ reports[rv.report].base = rv.base /\ reports[rv.report].head = rv.head

\* An entry cites reports about bases no newer than its own.
Follows(e) ==
  e # Nothing =>
    /\ e.base <= base
    /\ \A r \in Reviewers : e.reports[r] # 0 =>
         e.reports[r] \in DOMAIN reports /\ reports[e.reports[r]].base <= e.base

ReviewsInv == \A r \in Reviewers :
                Cites(reviews[r]) /\ (reviews[r] # Nothing => reviews[r].base <= base)
LedgerInv  == \A f \in Ids : Follows(ledger[f])
IInv == TypeOK /\ ReviewsInv /\ LedgerInv /\ DispositionsAreFresh

\* Nothing is reviewed, cited or collected at first.
LEMMA InitInv == Init => IInv
<1> SUFFICES ASSUME Init PROVE IInv
  OBVIOUS
<1>1. TypeOK
  BY NumbersAssumption DEF Init, TypeOK, Heads, ReviewsType, LedgerType
<1> QED BY <1>1 DEF Init, IInv, ReviewsInv, LedgerInv, Cites, Follows, DispositionsAreFresh

\* Steps that leave reviews, reports, ledger and packages alone, and only move the
\* candidate on.
LEMMA CandidateInv ==
  ASSUME IInv, base' >= base, TypeOK', UNCHANGED <<reviews, reports, ledger, pre>>
  PROVE  IInv'
<1>0. base \in Nat /\ base' \in Nat
  BY DEF IInv, TypeOK
<1>1. ReviewsInv'
  <2>1. ASSUME NEW r \in Reviewers, reviews[r] # Nothing PROVE reviews[r].base <= base'
    <3>1. reviews[r].base \in Nat /\ reviews[r].base <= base
      BY <2>1 DEF IInv, TypeOK, ReviewsType, Review, ReviewsInv
    <3> QED BY <1>0, <3>1
  <2> QED BY <2>1 DEF IInv, ReviewsInv, Cites
<1>2. LedgerInv'
  <2>1. ASSUME NEW f \in Ids, ledger[f] # Nothing PROVE ledger[f].base <= base'
    <3>1. ledger[f].base \in Nat /\ ledger[f].base <= base
      BY <2>1 DEF IInv, TypeOK, LedgerType, Entry, LedgerInv, Follows
    <3> QED BY <1>0, <3>1
  <2> QED BY <2>1 DEF IInv, LedgerInv, Follows
<1>3. DispositionsAreFresh'
  BY DEF IInv, DispositionsAreFresh, Listed
<1> QED BY <1>1, <1>2, <1>3 DEF IInv

\* A task started over has no report yet.
LEMMA AssignInv ==
  ASSUME IInv, NEW r \in Reviewers, NEW input \in Inputs, Assign(r, input)
  PROVE  IInv'
<1>1. TypeOK'
  BY DEF IInv, TypeOK, Assign, Collected, Candidate, Heads, ReviewsType, Review, Times
<1>2. ReviewsInv'
  BY DEF IInv, ReviewsInv, Cites, TypeOK, Assign, Candidate, ReviewsType, Review
<1>3. LedgerInv' /\ DispositionsAreFresh'
  BY DEF IInv, LedgerInv, Follows, DispositionsAreFresh, Listed, Assign, Candidate, Collected
<1> QED BY <1>1, <1>2, <1>3 DEF IInv

\* A new report changes no old one.
LEMMA ReportInv ==
  ASSUME IInv, NEW r \in Reviewers, NEW verdict \in {"ACCEPT", "REJECT"}, Report(r, verdict)
  PROVE  IInv'
<1> DEFINE new == [by |-> r, base |-> reviews[r].base, head |-> reviews[r].head]
<1>1. reviews[r] \in Review /\ reviews[r] # Nothing
  BY DEF Report, Running, IInv, TypeOK, ReviewsType
<1>2. /\ reports' = Append(reports, new) /\ new \in [by : Reviewers, base : Nat, head : Heads]
      /\ reports \in Seq([by : Reviewers, base : Nat, head : Heads])
  BY <1>1 DEF Report, IInv, TypeOK, Review
<1>3. /\ Len(reports') = Len(reports) + 1 /\ Len(reports) \in Nat
      /\ reports'[Len(reports')] = new
      /\ \A n \in DOMAIN reports : n \in DOMAIN reports' /\ reports'[n] = reports[n]
      /\ Len(reports') \in DOMAIN reports'
      /\ reports' \in Seq([by : Reviewers, base : Nat, head : Heads])
  BY <1>2
<1>4. /\ reviews' \in ReviewsType
      /\ \A q \in Reviewers : q # r => reviews'[q] = reviews[q]
      /\ reviews'[r].report = Len(reports') /\ reviews'[r].base = reviews[r].base
      /\ reviews'[r].head = reviews[r].head
  <2> DEFINE done == [reviews[r] EXCEPT !.completed = clock, !.verdict = verdict,
                                        !.report = Len(reports')]
  <2>1. reviews' = [reviews EXCEPT ![r] = done] /\ reviews \in ReviewsType
    BY <1>1 DEF Report, Complete, IInv, TypeOK, ReviewsType
  <2>2. /\ done \in Review /\ done.report = Len(reports')
        /\ done.base = reviews[r].base /\ done.head = reviews[r].head
    <3>1. Len(reports') \in Nat /\ clock \in Nat /\ reviews[r] \in Review
      BY <1>1, <1>3 DEF IInv, TypeOK
    <3> QED BY <3>1 DEF Review, Times
  <2> HIDE DEF done
  <2> QED BY <2>1, <2>2 DEF ReviewsType
<1>5. TypeOK'
  <2>1. \A q \in Reviewers : reviews'[q] # Nothing => reviews'[q].report <= Len(reports')
    <3>1. ASSUME NEW q \in Reviewers, q # r, reviews[q] # Nothing
          PROVE  reviews[q].report <= Len(reports) /\ reviews[q].report \in Nat
      BY <3>1 DEF IInv, TypeOK, ReviewsType, Review
    <3> QED BY <1>3, <1>4, <3>1
  <2> QED BY <1>3, <1>4, <2>1
          DEF IInv, TypeOK, Report, Candidate, Counts, Collected
<1>6. ReviewsInv'
  BY <1>1, <1>3, <1>4 DEF IInv, ReviewsInv, Cites, Report, Candidate
<1>7. LedgerInv'
  BY <1>3 DEF IInv, LedgerInv, Follows, Report, Candidate
<1>8. DispositionsAreFresh'
  <2>1. pre' = pre
    BY DEF Report, Collected
  <2>2. \A n \in DOMAIN reports : n \in DOMAIN reports' /\ reports'[n] = reports[n]
    BY <1>3
  <2>3. DispositionsAreFresh
    BY DEF IInv
  <2> QED BY <2>1, <2>2, <2>3 DEF DispositionsAreFresh, Listed
<1> QED BY <1>5, <1>6, <1>7, <1>8 DEF IInv

\* A text that comes back is about the candidate of both tasks.
LEMMA RepeatInv ==
  ASSUME IInv, NEW r \in Reviewers, NEW q \in Reviewers, Repeat(r, q)
  PROVE  IInv'
<1>1. reviews[r] \in Review /\ reviews[q] \in Review
  BY DEF Repeat, Running, IInv, TypeOK, ReviewsType
<1>2. /\ reviews' \in ReviewsType
      /\ \A p \in Reviewers : p # r => reviews'[p] = reviews[p]
      /\ reviews'[r].report = reviews[q].report /\ reviews'[r].base = reviews[q].base
      /\ reviews'[r].head = reviews[q].head
  BY <1>1 DEF Repeat, Complete, IInv, TypeOK, ReviewsType, Review, Times
<1>3. TypeOK'
  <2>1. \A p \in Reviewers : reviews'[p] # Nothing => reviews'[p].report <= Len(reports)
    BY <1>2 DEF IInv, TypeOK, Repeat
  <2> QED BY <1>2, <2>1 DEF IInv, TypeOK, Repeat, Candidate, Counts, Collected
<1>4. ReviewsInv'
  BY <1>2 DEF IInv, ReviewsInv, Cites, Repeat, Candidate
<1>5. LedgerInv' /\ DispositionsAreFresh'
  BY DEF IInv, LedgerInv, Follows, DispositionsAreFresh, Listed, Repeat, Candidate, Collected
<1> QED BY <1>3, <1>4, <1>5 DEF IInv

\* What every change of the ledger keeps, when the new entry is in order.
LEMMA EditInv ==
  ASSUME IInv, NEW f \in Ids, NEW e \in Entry \cup {Nothing}, Follows(e), Edit(f, e)
  PROVE  IInv'
<1>1. TypeOK'
  BY DEF IInv, TypeOK, Edit, Candidate, Collected, LedgerType
<1>2. LedgerInv'
  BY DEF IInv, LedgerInv, Follows, Edit, Candidate, TypeOK, LedgerType
<1>3. ReviewsInv' /\ DispositionsAreFresh'
  BY DEF IInv, ReviewsInv, Cites, DispositionsAreFresh, Listed, Edit, Candidate, Collected
<1> QED BY <1>1, <1>2, <1>3 DEF IInv

\* An entry cites the reports of the moment, which are not about a later base.
LEMMA DisposeInv ==
  ASSUME IInv, NEW f \in Ids,
         NEW status \in {"Open", "Accepted-Residual", "Resolved", "Deferred-P2"},
         Dispose(f, status)
  PROVE  IInv'
<1> DEFINE e == [status |-> status, base |-> base, head |-> head, at |-> clock,
                 reports |-> agent_review_references(reviews)]
<1>1. e \in Entry
  BY DEF Entry, Times, agent_review_references, IInv, TypeOK, ReviewsType, Review
<1>2. Follows(e)
  <2>1. e.base = base /\ base \in Nat
    BY DEF IInv, TypeOK
  <2>2. ASSUME NEW r \in Reviewers, e.reports[r] # 0
        PROVE  e.reports[r] \in DOMAIN reports /\ reports[e.reports[r]].base <= e.base
    BY <2>1, <2>2 DEF agent_review_references, IInv, ReviewsInv, Cites
  <2> QED BY <2>1, <2>2 DEF Follows
<1> QED BY <1>1, <1>2, EditInv DEF Dispose

\* The collected package: what it cites began on its own base, hence so did what
\* was decided between.
LEMMA CollectInv ==
  ASSUME IInv, Collect
  PROVE  IInv'
<1>1. TypeOK'
  BY DEF IInv, TypeOK, Collect, PreAttestation, Candidate, Counts
<1>2. ReviewsInv' /\ LedgerInv'
  BY DEF IInv, ReviewsInv, Cites, LedgerInv, Follows, Collect, Candidate
<1>3. /\ pre'.base = base /\ pre'.head = head /\ pre'.ledger = ledger
      /\ validate_agent_reviews(reviews, PreAttestation, clock)
      /\ validate_finding_ledger(ledger, reviews, clock, PreAttestation)
  BY DEF Collect, PreAttestation, validate_pre_attestation
<1>4. ASSUME NEW r \in Reviewers
      PROVE  /\ reviews[r].report \in DOMAIN reports
             /\ reports[reviews[r].report].base = base /\ reports[reviews[r].report].head = head
  BY <1>3 DEF validate_agent_reviews, PreAttestation, IInv, ReviewsInv, Cites
<1>5. ASSUME NEW f \in Listed(ledger)
      PROVE  /\ ledger[f].base = base /\ ledger[f].head = head
             /\ \A r \in Reviewers : ledger[f].reports[r] = reviews[r].report
  <2>1. Transition(ledger[f], reviews, PreAttestation, clock)
    BY <1>3, <1>5 DEF validate_finding_ledger, AcceptedResidual, Resolved, DeferredP2
  <2>2. \A r \in Reviewers : ledger[f].reports[r] = reviews[r].report
    BY <2>1, <1>3 DEF Transition, agent_review_references, validate_agent_reviews
  <2>3. PICK r \in Reviewers : TRUE
    BY IdsAssumption
  <2>4. reviews[r].report # 0 /\ Follows(ledger[f]) /\ f \in Ids /\ ledger[f] # Nothing
    BY <1>3, <1>5 DEF validate_agent_reviews, IInv, LedgerInv, Listed
  <2>5. base <= ledger[f].base /\ ledger[f].base <= base
    BY <1>4, <2>2, <2>3, <2>4 DEF Follows
  <2>6. ledger[f].base \in Nat /\ base \in Nat
    BY <2>4 DEF IInv, TypeOK, LedgerType, Entry
  <2>7. ledger[f].head = head
    BY <2>1 DEF Transition, PreAttestation
  <2> QED BY <2>2, <2>5, <2>6, <2>7
<1>6. DispositionsAreFresh'
  BY <1>3, <1>4, <1>5 DEF DispositionsAreFresh, Listed, Collect
<1> QED BY <1>1, <1>2, <1>6 DEF IInv

\* Every step keeps the invariant.
LEMMA NextInv == IInv /\ [Next]_vars => IInv'
<1> SUFFICES ASSUME IInv, [Next]_vars PROVE IInv'
  OBVIOUS
<1>1. CASE UNCHANGED vars
  <2>1. TypeOK'
    BY <1>1 DEF vars, IInv, TypeOK
  <2> QED BY <1>1, <2>1, CandidateInv DEF vars, IInv, TypeOK
<1>2. CASE Tick
  <2>1. TypeOK'
    BY <1>2 DEF Tick, IInv, TypeOK, Candidate, Counts, Collected
  <2> QED BY <1>2, <2>1, CandidateInv DEF Tick, Candidate, Collected, IInv, TypeOK
<1>3. CASE MoveBase
  <2>1. TypeOK'
    BY <1>3 DEF MoveBase, IInv, TypeOK, Collected
  <2> QED BY <1>3, <2>1, CandidateInv DEF MoveBase, Collected, IInv, TypeOK
<1>4. ASSUME NEW h \in Heads, Push(h) PROVE IInv'
  <2>1. TypeOK'
    BY <1>4 DEF Push, IInv, TypeOK, Collected
  <2> QED BY <1>4, <2>1, CandidateInv DEF Push, Collected, IInv, TypeOK
<1>5. CASE Attest
  <2>1. TypeOK'
    BY <1>5 DEF Attest, IInv, TypeOK, Candidate, Counts
  <2> QED BY <1>5, <2>1, CandidateInv DEF Attest, Candidate, IInv, TypeOK
<1>6. CASE Snapshot
  <2>1. TypeOK'
    BY <1>6 DEF Snapshot, IInv, TypeOK, Candidate, Counts
  <2> QED BY <1>6, <2>1, CandidateInv DEF Snapshot, Candidate, IInv, TypeOK
<1>7. ASSUME NEW f \in Ids, Drop(f) PROVE IInv'
  BY <1>7, EditInv DEF Drop, Follows
<1> QED BY <1>1, <1>2, <1>3, <1>4, <1>5, <1>6, <1>7,
           CollectInv, AssignInv, ReportInv, RepeatInv, DisposeInv DEF Next

-----------------------------------------------------------------------------
\* Reviews and entries cite reports of no later base than their own, in every
\* reachable state.
THEOREM Invariance == Spec => []IInv
BY InitInv, NextInv, PTL DEF Spec

\* The state keeps its shape, and no review cites a report that was never written.
THEOREM TypeCorrect == Spec => []TypeOK
<1>1. IInv => TypeOK
  BY DEF IInv
<1> QED BY <1>1, Invariance, PTL

\* No stale disposition is ever accepted: each one in an accepted pre-attestation was
\* made on its base and head, with both reports about this candidate in hand.
THEOREM OnlyFreshDispositions == Spec => []DispositionsAreFresh
<1>1. IInv => DispositionsAreFresh
  BY DEF IInv
<1> QED BY <1>1, Invariance, PTL

-----------------------------------------------------------------------------
(* Whose words a review is *)

\* The reviewers are two.
LEMMA Pair ==
  ASSUME NEW a \in Reviewers, NEW b \in Reviewers, NEW c \in Reviewers, a # c, b # c
  PROVE  a = b
BY IdsAssumption

\* Where the other's words came back, the other's task handed in the same, runs again, or
\* has written anew.
Opinion(rs, r) ==
  LET n == rs[r].report
      q == reports[n].by
  IN  q = r \/ rs[q].report \in {0, n} \/ (reports[rs[q].report].by = q /\ n < rs[q].report)

OpinionsInv == \A r \in Reviewers :
                 reviews[r] # Nothing /\ reviews[r].report # 0 => Opinion(reviews, r)

\* In a package all have handed in, and nobody the same.
PackageInv ==
  pre # Nothing =>
    \A r \in Reviewers :
      LET n == pre.reviews[r].report
          q == reports[n].by
      IN  /\ n \in DOMAIN reports
          /\ q = r \/ (reports[pre.reviews[q].report].by = q /\ n < pre.reviews[q].report)

OInv == IInv /\ OpinionsInv /\ PackageInv

\* A report says who wrote it.
LEMMA ReportTypes ==
  ASSUME IInv
  PROVE  /\ reports \in Seq([by : Reviewers, base : Nat, head : Heads])
         /\ Len(reports) \in Nat
         /\ \A n \in DOMAIN reports :
              /\ n \in Nat /\ n <= Len(reports)
              /\ reports[n].by \in Reviewers
<1>1. reports \in Seq([by : Reviewers, base : Nat, head : Heads])
  BY DEF IInv, TypeOK
<1>2. \A n \in DOMAIN reports : reports[n] \in [by : Reviewers, base : Nat, head : Heads]
  <2> DEFINE S == [by : Reviewers, base : Nat, head : Heads]
  <2>1. reports \in Seq(S)
    BY <1>1
  <2> HIDE DEF S
  <2>2. \A n \in DOMAIN reports : reports[n] \in S
    BY <2>1
  <2> QED BY <2>2 DEF S
<1>3. \A n \in DOMAIN reports : reports[n].by \in Reviewers
  BY <1>2
<1> QED BY <1>1, <1>3

\* A report written stays as it is.
LEMMA ReportsStay ==
  ASSUME IInv, [Next]_vars
  PROVE  \A n \in DOMAIN reports : n \in DOMAIN reports' /\ reports'[n] = reports[n]
<1>1. CASE reports' = reports
  BY <1>1
<1>2. ASSUME NEW r \in Reviewers, NEW verdict \in {"ACCEPT", "REJECT"}, Report(r, verdict)
      PROVE  \A n \in DOMAIN reports : n \in DOMAIN reports' /\ reports'[n] = reports[n]
  <2> DEFINE x == [by |-> r, base |-> reviews[r].base, head |-> reviews[r].head]
  <2>1. reports' = Append(reports, x)
    BY <1>2 DEF Report
  <2> HIDE DEF x
  <2> QED BY <2>1, ReportTypes
<1> QED BY <1>1, <1>2 DEF Next, vars, Tick, MoveBase, Collect, Attest, Snapshot, Push, Assign,
                          Repeat, Dispose, Drop, Edit

\* A step that leaves the reviews alone.
LEMMA OpinionsStay ==
  ASSUME OInv, [Next]_vars, UNCHANGED <<reviews, reports>>
  PROVE  OpinionsInv'
BY DEF OInv, OpinionsInv, Opinion

\* Starting over takes a report back, not what it said.
LEMMA AssignOpinions ==
  ASSUME OInv, NEW r \in Reviewers, NEW input \in Inputs, Assign(r, input)
  PROVE  OpinionsInv'
<1>1. /\ reports' = reports /\ reviews'[r].report = 0
      /\ \A d \in Reviewers : d # r => reviews'[d] = reviews[d]
  BY DEF OInv, IInv, TypeOK, ReviewsType, Assign
<1>2. ASSUME NEW d \in Reviewers, d # r, reviews[d] # Nothing, reviews[d].report # 0
      PROVE  reports[reviews[d].report].by \in Reviewers
  BY <1>2, ReportTypes DEF OInv, IInv, ReviewsInv, Cites
<1>3. ASSUME NEW d \in Reviewers, reviews'[d] # Nothing, reviews'[d].report # 0
      PROVE  Opinion(reviews, d)'
  BY <1>1, <1>2, <1>3 DEF OInv, OpinionsInv, Opinion
<1> QED BY <1>3 DEF OpinionsInv

\* What a reviewer writes is newer than all that is written.
LEMMA ReportOpinions ==
  ASSUME OInv, NEW r \in Reviewers, NEW verdict \in {"ACCEPT", "REJECT"}, Report(r, verdict)
  PROVE  OpinionsInv'
<1> DEFINE m == Len(reports) + 1
<1>1. /\ m \in Nat /\ reports'[m].by = r
      /\ \A n \in DOMAIN reports : n < m /\ reports'[n] = reports[n]
  <2> DEFINE x == [by |-> r, base |-> reviews[r].base, head |-> reviews[r].head]
  <2>1. reports' = Append(reports, x) /\ x.by = r
    BY DEF Report
  <2> HIDE DEF x
  <2> QED BY <2>1, ReportTypes DEF OInv
<1>2. /\ reviews'[r].report = m
      /\ \A d \in Reviewers : d # r => reviews'[d] = reviews[d]
  <2>1. Len(reports') = m
    BY DEF OInv, IInv, TypeOK, Report
  <2>2. reviews[r] \in Review
    BY DEF OInv, IInv, TypeOK, ReviewsType, Report, Running
  <2> QED BY <2>1, <2>2 DEF OInv, IInv, TypeOK, ReviewsType, Review, Report, Complete
<1>3. ASSUME NEW d \in Reviewers, d # r, reviews[d] # Nothing, reviews[d].report # 0
      PROVE  Opinion(reviews, d)'
  <2> DEFINE n == reviews[d].report
             q == reports[n].by
  <2>1. n \in DOMAIN reports /\ q \in Reviewers /\ reports'[n] = reports[n] /\ n < m
    BY <1>1, <1>3, ReportTypes DEF OInv, IInv, ReviewsInv, Cites
  <2>2. CASE q = r
    BY <1>1, <1>2, <1>3, <2>1, <2>2 DEF Opinion
  <2>3. CASE q # r
    <3>1. q = d
      BY <1>3, <2>1, <2>3, Pair
    <3> QED BY <1>2, <1>3, <2>1, <3>1 DEF Opinion
  <2> QED BY <2>2, <2>3
<1>4. Opinion(reviews, r)'
  BY <1>1, <1>2 DEF Opinion
<1> QED BY <1>2, <1>3, <1>4 DEF OpinionsInv

\* A text that comes back is then with both.
LEMMA RepeatOpinions ==
  ASSUME OInv, NEW r \in Reviewers, NEW p \in Reviewers, Repeat(r, p)
  PROVE  OpinionsInv'
<1>1. /\ reports' = reports /\ p # r /\ reviews[p] # Nothing /\ reviews[p].report # 0
      /\ reviews'[r].report = reviews[p].report
      /\ \A d \in Reviewers : d # r => reviews'[d] = reviews[d]
  BY DEF OInv, IInv, TypeOK, ReviewsType, Review, Repeat, Running, Complete
<1>2. reports[reviews[p].report].by \in Reviewers
  BY <1>1, ReportTypes DEF OInv, IInv, ReviewsInv, Cites
<1>3. Opinion(reviews, p)' /\ Opinion(reviews, r)'
  <2>1. reports[reviews[p].report].by \in {p, r}
    BY <1>1, <1>2, Pair
  <2> QED BY <1>1, <2>1 DEF Opinion
<1>4. \A d \in Reviewers : d \in {p, r}
  BY <1>1, Pair
<1> QED BY <1>3, <1>4 DEF OpinionsInv

\* Of two different texts handed in, one that came back is the older.
LEMMA CollectPackage ==
  ASSUME OInv, Collect
  PROVE  PackageInv'
<1>1. /\ pre'.reviews = reviews /\ reports' = reports
      /\ validate_agent_reviews(reviews, PreAttestation, clock)
  BY DEF Collect, PreAttestation, validate_pre_attestation
<1>2. ASSUME NEW r \in Reviewers
      PROVE  LET n == reviews[r].report
                 q == reports[n].by
             IN  /\ n \in DOMAIN reports
                 /\ q = r \/ (reports[reviews[q].report].by = q /\ n < reviews[q].report)
  <2>1. \A q \in Reviewers : /\ reviews[q] # Nothing /\ reviews[q].report # 0
                            /\ (reviews[q].report = reviews[r].report => q = r)
    BY <1>1 DEF validate_agent_reviews
  <2>2. /\ reviews[r].report \in DOMAIN reports
        /\ reports[reviews[r].report].by \in Reviewers
    BY <2>1, ReportTypes DEF OInv, IInv, ReviewsInv, Cites
  <2> QED BY <2>1, <2>2 DEF OInv, OpinionsInv, Opinion
<1> QED BY <1>1, <1>2 DEF PackageInv

\* Every step keeps the opinions apart.
LEMMA OpinionsNext == OInv /\ [Next]_vars => OInv'
<1> SUFFICES ASSUME OInv, [Next]_vars PROVE OInv'
  OBVIOUS
<1>1. IInv'
  BY NextInv DEF OInv
<1>2. OpinionsInv'
  <2>1. ASSUME NEW r \in Reviewers, NEW input \in Inputs, Assign(r, input) PROVE OpinionsInv'
    BY <2>1, AssignOpinions
  <2>2. ASSUME NEW r \in Reviewers, NEW verdict \in {"ACCEPT", "REJECT"}, Report(r, verdict)
        PROVE  OpinionsInv'
    BY <2>2, ReportOpinions
  <2>3. ASSUME NEW r \in Reviewers, NEW q \in Reviewers, Repeat(r, q) PROVE OpinionsInv'
    BY <2>3, RepeatOpinions
  <2>4. CASE UNCHANGED <<reviews, reports>>
    BY <2>4, OpinionsStay
  <2> QED BY <2>1, <2>2, <2>3, <2>4 DEF Next, vars, Tick, MoveBase, Collect, Attest, Snapshot,
                                       Push, Dispose, Drop, Edit
<1>3. PackageInv'
  <2>1. CASE Collect
    BY <2>1, CollectPackage
  <2>2. CASE pre' = pre
    <3>1. ASSUME pre # Nothing, NEW r \in Reviewers
          PROVE  LET n == pre.reviews[r].report
                     q == reports'[n].by
                 IN  /\ n \in DOMAIN reports'
                     /\ q = r \/ (reports'[pre.reviews[q].report].by = q /\ n < pre.reviews[q].report)
      BY <3>1, ReportsStay, ReportTypes DEF OInv, PackageInv
    <3> QED BY <2>2, <3>1 DEF PackageInv
  <2> QED BY <2>1, <2>2 DEF Next, vars, Tick, MoveBase, Attest, Snapshot, Push, Assign, Report,
                           Repeat, Dispose, Drop, Edit, Collected
<1> QED BY <1>1, <1>2, <1>3 DEF OInv

\* validate_agent_reviews asks for two different texts.  For two tasks that suffices: the
\* words of one never stand for both, however often they are started over.
THEOREM OpinionsAreTwo == Spec => []TwoOpinions
<1>1. Init => OInv
  BY InitInv DEF Init, OInv, OpinionsInv, PackageInv
<1>2. OInv => TwoOpinions
  <2>1. OInv /\ Len(window) = 2 => pre # Nothing
    BY DEF OInv, IInv, TypeOK
  <2> QED BY <2>1 DEF OInv, PackageInv, TwoOpinions
<1> QED BY <1>1, <1>2, OpinionsNext, PTL DEF Spec

-----------------------------------------------------------------------------
(* What the owner attested *)

Snapshots == [cutoff : Nat, reviews : ReviewsType, ledger : LedgerType]

\* Every package of the window was judged against this pre-attestation and this
\* attestation: neither is replaced once it stands.
WindowInv ==
  /\ window \in Seq(Snapshots)
  /\ \A i \in DOMAIN window : validate_snapshot(window[i], pre, attestation)

\* A window that stays, of packages judged as before.
LEMMA WindowStays ==
  ASSUME TypeOK, WindowInv, window' = window,
         Len(window) > 0 => pre' = pre /\ attestation' = attestation
  PROVE  WindowInv'
<1>1. CASE Len(window) > 0
  BY <1>1 DEF WindowInv, validate_snapshot
<1>2. CASE ~(Len(window) > 0)
  BY <1>2 DEF WindowInv
<1> QED BY <1>1, <1>2

\* A package joins the window when it is judged good.
LEMMA SnapshotWindow ==
  ASSUME TypeOK, WindowInv, Snapshot
  PROVE  WindowInv'
<1>1. Taken \in Snapshots
  BY DEF TypeOK, Taken, Snapshots
<1>2. /\ window' = Append(window, Taken) /\ pre' = pre /\ attestation' = attestation
      /\ validate_snapshot(Taken, pre, attestation) /\ window \in Seq(Snapshots)
  BY DEF Snapshot, WindowInv
<1>3. /\ window' \in Seq(Snapshots)
      /\ \A i \in DOMAIN window' : (i \in DOMAIN window /\ window'[i] = window[i]) \/ window'[i] = Taken
  <2> HIDE DEF Taken, Snapshots
  <2> QED BY <1>1, <1>2
<1>4. \A i \in DOMAIN window' : validate_snapshot(window'[i], pre, attestation)
  BY <1>2, <1>3 DEF WindowInv
<1> QED BY <1>2, <1>3, <1>4 DEF WindowInv

\* Every step keeps the window's packages judged.
LEMMA WindowNext == IInv /\ WindowInv /\ [Next]_vars => WindowInv'
<1> SUFFICES ASSUME IInv, WindowInv, [Next]_vars PROVE WindowInv'
  OBVIOUS
<1>1. /\ TypeOK
      /\ Len(window) > 0 => attestation # Nothing /\ pre # Nothing
  BY DEF IInv, TypeOK
<1>2. CASE Snapshot
  BY <1>1, <1>2, SnapshotWindow
<1>3. CASE window' = window /\ (pre' = pre \/ pre = Nothing)
            /\ (attestation' = attestation \/ attestation = Nothing)
  BY <1>1, <1>3, WindowStays
<1> QED BY <1>2, <1>3 DEF Next, vars, Tick, MoveBase, Collect, Attest, Push, Assign, Report,
                          Repeat, Dispose, Drop, Edit, Collected

\* What a package judged good says of the fixed findings.
LEMMA JudgedFindings ==
  ASSUME NEW s, NEW root, NEW a, validate_snapshot(s, root, a)
  PROVE  /\ a.accepted_residual_ids = Accepted(s.ledger) /\ s.ledger = root.ledger
         /\ \A f \in Accepted(s.ledger) :
              /\ s.cutoff < RESIDUAL_VALID_UNTIL /\ f \in expected_residual_ids
              /\ s.ledger[f].status = "Accepted-Residual"
         /\ \A f \in expected_residual_ids :
              f \in Accepted(s.ledger) \/ <<f, root.head>> \in Repaired
<1>1. /\ a.accepted_residual_ids = Accepted(s.ledger) /\ s.ledger = root.ledger
      /\ validate_finding_ledger(s.ledger, s.reviews, s.cutoff, root)
  BY DEF validate_snapshot, AttestedAsListed
<1>2. ASSUME NEW f \in Accepted(s.ledger)
      PROVE  /\ s.cutoff < RESIDUAL_VALID_UNTIL /\ f \in expected_residual_ids
             /\ s.ledger[f].status = "Accepted-Residual"
  BY <1>1, <1>2 DEF Accepted, validate_finding_ledger, AcceptedResidual
<1>3. ASSUME NEW f \in expected_residual_ids
      PROVE  f \in Accepted(s.ledger) \/ <<f, root.head>> \in Repaired
  <2>1. Severity[f] # "P2"
    BY IdsAssumption DEF expected_residual_ids, RESIDUAL_IDS
  <2>2. f \in Listed(s.ledger)
    BY <1>1 DEF validate_finding_ledger
  <2> QED BY <1>1, <2>1, <2>2 DEF validate_finding_ledger, Accepted, Resolved, DeferredP2
<1> QED BY <1>1, <1>2, <1>3

\* Between pre-attestation and the last package the ledger file is open to changes.
\* validate_snapshot still leaves only what the owner attested, in force throughout.
THEOREM AttestationIsJudged == Spec => []AttestedAsJudged
<1>1. Init => WindowInv
  BY DEF Init, WindowInv
<1>2. WindowInv => AttestedAsJudged
  <2> SUFFICES ASSUME WindowInv, Len(window) = 2 PROVE AttestedAsJudged
    BY DEF AttestedAsJudged
  <2>1. 1 \in DOMAIN window /\ 2 \in DOMAIN window
    BY DEF WindowInv
  <2>2. /\ validate_snapshot(window[1], pre, attestation)
        /\ validate_snapshot(window[2], pre, attestation)
    BY <2>1 DEF WindowInv
  <2> QED BY <2>2, JudgedFindings DEF AttestedAsJudged
<1> QED BY <1>1, <1>2, WindowNext, Invariance, PTL DEF Spec
=============================================================================
