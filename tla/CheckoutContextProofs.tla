------------------------- MODULE CheckoutContextProofs -------------------------
(***************************************************************************)
(* That a run that passed tested the files of its candidate, that no       *)
(* verdict is given out of its context, and that a merge brings to main a  *)
(* tree a run has seen, for repositories of any history.  The invariant    *)
(* says that every commit in hand is a head or a test merge of commits     *)
(* there are; main and heads only grow, so that it stays so.  MergedInv    *)
(* says what a merge added, and of which run, when GitHub looked at the    *)
(* head alone.                                                             *)
(***************************************************************************)
EXTENDS CheckoutContext, TLAPS

\* c is the context of some pull request there was.
Known(c) == c \in [base : Nat, head : Nat] /\ c.base \in DOMAIN main /\ c.head \in DOMAIN heads

\* A commit is what its name says.
Genuine(c) ==
  /\ c.head \in DOMAIN heads
  /\ c.commit \in {"head", "merge"}
  /\ c.commit = "merge" =>
       /\ c.base \in DOMAIN main
       /\ c.tree = Merged(main[heads[c.head].on], main[c.base], heads[c.head].tree)

Started(r) ==
  /\ r.kind \in {"pull_request", "cli", "push"} /\ r.options \in Options
  /\ r.kind # "push" => Genuine(r.checkout) /\ Known(event_context(r))

InContext(r) ==
  /\ CompatibleOptions(r.kind, r.options)
  /\ r.options.evidence \/ r.options.require_merge_ready \/ r.options.live_merge_ready =>
       r.kind # "push" /\ r.evidence.head = r.checkout.head /\ r.clean

HistoryInv == main \in Seq(SUBSET Files) /\ Len(main) > 0 /\ heads \in Seq([tree : SUBSET Files, on : Nat])
              /\ \A h \in DOMAIN heads : heads[h].on \in DOMAIN main
CommitsInv == /\ event # Nothing => Known(event)
              /\ testMerge # Nothing => Genuine(testMerge)
RunsInv == /\ run # Nothing => Started(run)
           /\ \A r \in passed : Started(r) /\ InContext(r)
                /\ (r.kind # "push" => CheckoutIsTheCandidate(r, event_context(r)))
IInv == HistoryInv /\ CommitsInv /\ RunsInv

\* What was merged is on main, has the tree of its head, and a run passed for that head.
MergedInv ==
  squashed # Nothing =>
    /\ squashed.head \in DOMAIN heads
    /\ squashed.parent + 1 \in DOMAIN main
    /\ main[squashed.parent + 1] = heads[squashed.head].tree
    /\ \E r \in passed : r.kind = "pull_request" /\ r.event.head = squashed.head

\* What a growing history leaves as it was.
Grown == /\ HistoryInv'
         /\ DOMAIN main \subseteq DOMAIN main' /\ \A i \in DOMAIN main : main'[i] = main[i]
         /\ DOMAIN heads \subseteq DOMAIN heads' /\ \A h \in DOMAIN heads : heads'[h] = heads[h]

\* A growing history leaves commits, contexts and runs what they were.
LEMMA GenuineStays == ASSUME HistoryInv, Grown, NEW c, Genuine(c) PROVE Genuine(c)'
PROOF
<1>1. c.head \in DOMAIN heads /\ c.head \in DOMAIN heads' /\ heads'[c.head] = heads[c.head]
  BY DEF Genuine, Grown
<1>2. main'[heads[c.head].on] = main[heads[c.head].on] BY <1>1 DEF HistoryInv, Grown
<1>3. ASSUME c.commit = "merge"
      PROVE  /\ c.base \in DOMAIN main'
             /\ c.tree = Merged(main'[heads'[c.head].on], main'[c.base], heads'[c.head].tree)
  <2>1. c.base \in DOMAIN main /\ c.tree = Merged(main[heads[c.head].on], main[c.base], heads[c.head].tree)
    BY <1>3 DEF Genuine
  <2>2. main'[c.base] = main[c.base] /\ c.base \in DOMAIN main' BY <2>1 DEF Grown
  <2>3. QED BY <1>1, <1>2, <2>1, <2>2
<1>4. c.commit \in {"head", "merge"} BY DEF Genuine
<1>5. QED BY <1>1, <1>3, <1>4 DEF Genuine, Merged

LEMMA KnownStays == ASSUME Grown, NEW c, Known(c) PROVE Known(c)'
PROOF BY DEF Known, Grown

LEMMA StartedStays == ASSUME HistoryInv, Grown, NEW r, Started(r) PROVE Started(r)'
PROOF
<1>1. ASSUME r.kind # "push" PROVE Genuine(r.checkout)' /\ Known(event_context(r))'
  <2>1. Genuine(r.checkout) /\ Known(event_context(r)) BY <1>1 DEF Started
  <2>2. QED BY <2>1, GenuineStays, KnownStays
<1>2. QED BY <1>1 DEF Started, event_context

\* A verdict stays right, for its commits are still there and what they were.
LEMMA PassedStays ==
  ASSUME HistoryInv, Grown, NEW r, Started(r), r.kind # "push", CheckoutIsTheCandidate(r, event_context(r))
  PROVE  CheckoutIsTheCandidate(r, event_context(r))'
PROOF
<1>1. event_context(r).head \in DOMAIN heads BY DEF Started, Known
<1>2. heads'[event_context(r).head] = heads[event_context(r).head] BY <1>1 DEF Grown
<1>3. QED BY <1>2 DEF CheckoutIsTheCandidate, event_context

\* The runs are as good after a step that only lets the history grow.
LEMMA RunsStay == ASSUME IInv, Grown, UNCHANGED <<run, passed>> PROVE RunsInv'
PROOF
<1>1. HistoryInv /\ RunsInv BY DEF IInv
<1>2. run' # Nothing => Started(run)' BY <1>1, StartedStays DEF RunsInv, Started, event_context
<1>3. ASSUME NEW r \in passed PROVE Started(r)' /\ InContext(r)'
             /\ (r.kind # "push" => CheckoutIsTheCandidate(r, event_context(r))')
  <2>1. Started(r) /\ InContext(r) BY <1>1, <1>3 DEF RunsInv
  <2>2. Started(r)' BY <1>1, <2>1, StartedStays
  <2>3. r.kind # "push" => CheckoutIsTheCandidate(r, event_context(r))'
    BY <1>1, <1>3, <2>1, PassedStays DEF RunsInv
  <2>4. QED BY <2>1, <2>2, <2>3 DEF InContext
<1>4. QED BY <1>2, <1>3 DEF RunsInv

\* Growing includes staying the same.
LEMMA SameHistory == ASSUME HistoryInv, UNCHANGED <<main, heads>> PROVE Grown
PROOF BY DEF HistoryInv, Grown

LEMMA InitInv == Init => IInv
PROOF BY DEF Init, IInv, HistoryInv, CommitsInv, RunsInv

\* A new commit of main.
LEMMA MainGrows ==
  ASSUME HistoryInv, NEW tree \in SUBSET Files, main' = Append(main, tree), UNCHANGED heads
  PROVE  Grown
PROOF
<1>1. main' \in Seq(SUBSET Files) /\ Len(main') = Len(main) + 1 /\ Len(main) \in Nat BY DEF HistoryInv
<1>2. DOMAIN main = 1 .. Len(main) /\ DOMAIN main' = 1 .. Len(main') BY <1>1 DEF HistoryInv
<1>3. \A i \in DOMAIN main : i \in DOMAIN main' /\ main'[i] = main[i] BY <1>1, <1>2 DEF HistoryInv
<1>4. \A h \in DOMAIN heads : heads[h].on \in DOMAIN main' BY <1>3 DEF HistoryInv
<1>5. QED BY <1>1, <1>3, <1>4 DEF HistoryInv, Grown

LEMMA PushInv ==
  ASSUME IInv, NEW tree \in SUBSET Files, NEW on \in DOMAIN main, Push(tree, on) PROVE IInv'
PROOF
<1>1. HistoryInv /\ CommitsInv BY DEF IInv
<1>2. DEFINE new == [tree |-> tree, on |-> on]
<1>3. UNCHANGED <<main, testMerge, run, passed>> /\ heads' = Append(heads, new)
      /\ event' = [base |-> Len(main), head |-> Len(heads) + 1]
  BY DEF Push, Newest, Tip
<1>4. on \in Nat /\ Len(main) \in DOMAIN main /\ Len(main) \in Nat /\ Len(heads) \in Nat
      /\ DOMAIN heads = 1 .. Len(heads)
  <2>1. main \in Seq(SUBSET Files) /\ heads \in Seq([tree : SUBSET Files, on : Nat]) BY <1>1 DEF HistoryInv
  <2>2. DOMAIN main = 1 .. Len(main) /\ Len(main) \in Nat BY <2>1
  <2>3. QED BY <2>1, <2>2
<1>5. heads' \in Seq([tree : SUBSET Files, on : Nat]) /\ DOMAIN heads' = 1 .. Len(heads) + 1
      /\ \A h \in DOMAIN heads : heads'[h] = heads[h]
  <2>1. new \in [tree : SUBSET Files, on : Nat] BY <1>4
  <2>2. QED BY <1>1, <1>3, <1>4, <2>1 DEF HistoryInv
<1>6. heads'[Len(heads) + 1] = new BY <1>1, <1>3 DEF HistoryInv
<1>7. \A h \in DOMAIN heads' : heads'[h].on \in DOMAIN main
  <2>1. ASSUME NEW h \in DOMAIN heads' PROVE heads'[h].on \in DOMAIN main
    <3>1. CASE h \in DOMAIN heads BY <1>1, <1>5, <3>1 DEF HistoryInv
    <3>2. CASE h = Len(heads) + 1 BY <1>6, <3>2
    <3>3. QED BY <1>4, <1>5, <2>1, <3>1, <3>2
  <2>2. QED BY <2>1
<1>8. Grown BY <1>1, <1>3, <1>4, <1>5, <1>7 DEF HistoryInv, Grown
<1>9. RunsInv' BY <1>3, <1>8, RunsStay
<1>10. Known(event)' BY <1>3, <1>4, <1>5 DEF Known
<1>11. testMerge' # Nothing => Genuine(testMerge)'
  <2>1. ASSUME testMerge # Nothing PROVE Genuine(testMerge)'
    <3>1. Genuine(testMerge) BY <1>1, <2>1 DEF CommitsInv
    <3>2. main' = main BY <1>3
    <3>3. testMerge.head \in DOMAIN heads' /\ heads'[testMerge.head] = heads[testMerge.head]
      BY <3>1, <1>4, <1>5 DEF Genuine
    <3>4. QED BY <1>3, <3>1, <3>2, <3>3 DEF Genuine, Merged
  <2>2. QED BY <1>3, <2>1
<1>12. QED BY <1>8, <1>9, <1>10, <1>11 DEF IInv, CommitsInv, Grown

\* Main grows, by others or by this pull request.
LEMMA MainInv ==
  ASSUME IInv, NEW tree \in SUBSET Files, main' = Append(main, tree),
         UNCHANGED <<heads, event, testMerge, run, passed>>
  PROVE  IInv'
PROOF
<1>1. HistoryInv /\ CommitsInv BY DEF IInv
<1>2. Grown BY <1>1, MainGrows
<1>3. RunsInv' BY <1>2, RunsStay
<1>4. event' # Nothing => Known(event)' BY <1>1, <1>2 DEF CommitsInv, Known, Grown
<1>5. ASSUME testMerge # Nothing PROVE Genuine(testMerge)'
  <2>1. Genuine(testMerge) BY <1>1, <1>5 DEF CommitsInv
  <2>2. heads' = heads /\ testMerge' = testMerge OBVIOUS
  <2>3. heads[testMerge.head].on \in DOMAIN main BY <1>1, <2>1 DEF HistoryInv, Genuine
  <2>4. main'[heads[testMerge.head].on] = main[heads[testMerge.head].on] BY <1>2, <2>3 DEF Grown
  <2>5. testMerge.commit = "merge" =>
          testMerge.base \in DOMAIN main' /\ main'[testMerge.base] = main[testMerge.base]
    BY <1>2, <2>1 DEF Grown, Genuine
  <2>6. QED BY <2>1, <2>2, <2>4, <2>5 DEF Genuine, Merged
<1>6. QED BY <1>2, <1>3, <1>4, <1>5 DEF IInv, CommitsInv, Grown

LEMMA MoveMainInv == ASSUME IInv, NEW f \in Files, MoveMain(f) PROVE IInv'
PROOF
<1>1. main[Len(main)] \in SUBSET Files BY DEF IInv, HistoryInv
<1>2. (IF f \in main[Tip] THEN main[Tip] \ {f} ELSE main[Tip] \cup {f}) \in SUBSET Files
  BY <1>1 DEF Tip
<1>3. UNCHANGED <<heads, event, testMerge, run, passed>>
      /\ main' = Append(main, IF f \in main[Tip] THEN main[Tip] \ {f} ELSE main[Tip] \cup {f})
  BY DEF MoveMain
<1>4. QED BY <1>2, <1>3, MainInv

LEMMA SquashMergeInv == ASSUME IInv, SquashMerge PROVE IInv'
PROOF
<1>1. MergeOf(Tip, Newest).tree \in SUBSET Files BY DEF MergeOf, Merged
<1>2. main' = Append(main, MergeOf(Tip, Newest).tree)
      /\ UNCHANGED <<heads, event, testMerge, run, passed>>
  BY DEF SquashMerge
<1>3. QED BY <1>1, <1>2, MainInv

LEMMA MergeAnewInv == ASSUME IInv, MergeAnew PROVE IInv'
PROOF
<1>1. HistoryInv /\ CommitsInv BY DEF IInv
<1>2. UNCHANGED <<main, heads, event, run, passed>> /\ testMerge' = MergeOf(Tip, Newest) /\ Newest > 0
  BY DEF MergeAnew
<1>3. Grown BY <1>1, <1>2, SameHistory
<1>4. RunsInv' BY <1>2, <1>3, RunsStay
<1>5. Tip \in DOMAIN main /\ Newest \in DOMAIN heads BY <1>1, <1>2 DEF HistoryInv, Tip, Newest
<1>6. Genuine(MergeOf(Tip, Newest)) BY <1>5 DEF Genuine, MergeOf
<1>7. Genuine(testMerge)' BY <1>2, <1>6 DEF Genuine, Merged
<1>8. event' # Nothing => Known(event)' BY <1>1, <1>2 DEF CommitsInv, Known
<1>9. QED BY <1>3, <1>4, <1>7, <1>8 DEF IInv, CommitsInv, Grown

\* A step of the validator, that leaves GitHub alone.
LEMMA LocalInv == ASSUME IInv, UNCHANGED github, RunsInv' PROVE IInv'
PROOF
<1>1. HistoryInv /\ CommitsInv BY DEF IInv
<1>2. UNCHANGED <<main, heads, event, testMerge>> BY DEF github
<1>3. HistoryInv' BY <1>1, <1>2 DEF HistoryInv
<1>4. CommitsInv' BY <1>1, <1>2 DEF CommitsInv, Known, Genuine, Merged
<1>5. QED BY <1>3, <1>4 DEF IInv

\* A run that begins well leaves the runs that passed as they were.
LEMMA BeginInv ==
  ASSUME IInv, UNCHANGED <<github, passed>>, Started(run') PROVE IInv'
PROOF
<1>1. HistoryInv /\ RunsInv BY DEF IInv
<1>2. UNCHANGED <<main, heads>> BY DEF github
<1>3. Grown BY <1>1, <1>2, SameHistory
<1>4. Started(run)' BY <1>2 DEF Started, Genuine, Known, Merged, event_context
<1>5. ASSUME NEW r \in passed
      PROVE  /\ Started(r)' /\ InContext(r)'
             /\ r.kind # "push" => CheckoutIsTheCandidate(r, event_context(r))'
  <2>1. Started(r) /\ InContext(r) BY <1>1, <1>5 DEF RunsInv
  <2>2. Started(r)' BY <1>1, <1>3, <2>1, StartedStays
  <2>3. r.kind # "push" => CheckoutIsTheCandidate(r, event_context(r))'
    BY <1>1, <1>3, <1>5, <2>1, PassedStays DEF RunsInv
  <2>4. QED BY <2>1, <2>2, <2>3 DEF InContext
<1>6. RunsInv' BY <1>4, <1>5 DEF RunsInv
<1>7. QED BY <1>6, LocalInv

LEMMA StartActionsInv == ASSUME IInv, StartActions PROVE IInv'
PROOF
<1>1. CommitsInv BY DEF IInv
<1>2. UNCHANGED <<github, passed>> /\ event # Nothing /\ testMerge # Nothing
      /\ run'.kind = "pull_request" /\ run'.event = event /\ run'.checkout = testMerge
      /\ run'.options \in Options
  BY DEF StartActions, Options
<1>3. Known(event) /\ Genuine(testMerge) BY <1>1, <1>2 DEF CommitsInv
<1>4. event_context(run') = event BY <1>2 DEF event_context
<1>5. Started(run') BY <1>2, <1>3, <1>4 DEF Started
<1>6. QED BY <1>2, <1>5, BeginInv

LEMMA StartPushInv == ASSUME IInv, StartPush PROVE IInv'
PROOF
<1>1. UNCHANGED <<github, passed>> /\ run'.kind = "push" /\ run'.options \in Options
  BY DEF StartPush
<1>2. Started(run') BY <1>1 DEF Started
<1>3. QED BY <1>1, <1>2, BeginInv

LEMMA StartByHandInv == ASSUME IInv, StartByHand PROVE IInv'
PROOF
<1>1. HistoryInv /\ CommitsInv BY DEF IInv
<1>2. PICK c \in Commits, a \in Contexts :
        run'.kind = "cli" /\ run'.arguments = a /\ run'.checkout = c /\ run'.options \in Options
  BY DEF StartByHand
<1>3. UNCHANGED <<github, passed>> BY DEF StartByHand
<1>4. Genuine(c)
  <2>1. CASE c \in {testMerge} \ {Nothing} BY <1>1, <2>1 DEF CommitsInv
  <2>2. CASE c \in {HeadCommit(h) : h \in DOMAIN heads}
    <3>1. PICK h \in DOMAIN heads : c = HeadCommit(h) BY <2>2
    <3>2. c.commit = "head" /\ c.head = h BY <3>1 DEF HeadCommit
    <3>3. QED BY <3>2 DEF Genuine
  <2>3. QED BY <1>2, <2>1, <2>2 DEF Commits
<1>5. Known(a)
  <2>1. DOMAIN main \subseteq Nat /\ DOMAIN heads \subseteq Nat BY <1>1 DEF HistoryInv
  <2>2. QED BY <1>2, <2>1 DEF Known, Contexts
<1>6. event_context(run') = a BY <1>2 DEF event_context
<1>7. Started(run') BY <1>2, <1>4, <1>5, <1>6 DEF Started
<1>8. QED BY <1>3, <1>7, BeginInv

\* What a good verdict says of a run.
LEMMA VerdictIsRight ==
  ASSUME NEW r, Started(r), Verdict(r)
  PROVE  InContext(r) /\ (r.kind # "push" => CheckoutIsTheCandidate(r, event_context(r)))
PROOF
<1>1. ASSUME r.kind # "push" PROVE CheckoutIsTheCandidate(r, event_context(r))
  <2>1. event_context(r) # Nothing BY <1>1, NothingAssumption DEF Started, Known
  <2>2. QED BY <2>1 DEF Verdict, validate_repository
<1>2. ASSUME r.options.evidence \/ r.options.require_merge_ready \/ r.options.live_merge_ready
      PROVE  r.kind # "push" /\ r.evidence.head = r.checkout.head /\ r.clean
  <2>1. r.options.evidence BY <1>2 DEF Verdict, CompatibleOptions
  <2>2. r.kind # "push" BY <2>1 DEF Verdict, CompatibleOptions
  <2>3. r.evidence.head = event_context(r).head BY <2>1 DEF Verdict, EvidenceAccepted
  <2>4. CheckoutIsTheCandidate(r, event_context(r)) BY <1>1, <2>2
  <2>5. QED BY <2>2, <2>3, <2>4 DEF CheckoutIsTheCandidate
<1>3. CompatibleOptions(r.kind, r.options) BY DEF Verdict
<1>4. QED BY <1>1, <1>2, <1>3 DEF InContext

LEMMA FinishInv == ASSUME IInv, Finish PROVE IInv'
PROOF
<1>1. HistoryInv /\ RunsInv BY DEF IInv
<1>2. UNCHANGED github /\ UNCHANGED <<main, heads>> /\ run # Nothing /\ run' = Nothing
      /\ passed' = IF Verdict(run) THEN passed \cup {run} ELSE passed
  BY DEF Finish, github
<1>3. Grown BY <1>1, <1>2, SameHistory
<1>4. ASSUME NEW r \in passed'
      PROVE  /\ Started(r) /\ InContext(r)
             /\ r.kind # "push" => CheckoutIsTheCandidate(r, event_context(r))
  <2>1. CASE r \in passed BY <1>1, <2>1 DEF RunsInv
  <2>2. CASE r = run /\ Verdict(run) BY <1>1, <1>2, <2>2, VerdictIsRight DEF RunsInv
  <2>3. QED BY <1>2, <1>4, <2>1, <2>2
<1>5. ASSUME NEW r \in passed'
      PROVE  /\ Started(r)' /\ InContext(r)'
             /\ r.kind # "push" => CheckoutIsTheCandidate(r, event_context(r))'
  <2>1. Started(r) /\ InContext(r) BY <1>4, <1>5
  <2>2. Started(r)' BY <1>1, <1>3, <2>1, StartedStays
  <2>3. r.kind # "push" => CheckoutIsTheCandidate(r, event_context(r))'
    BY <1>1, <1>3, <1>4, <1>5, <2>1, PassedStays
  <2>4. QED BY <2>1, <2>2, <2>3 DEF InContext
<1>6. RunsInv' BY <1>2, <1>5 DEF RunsInv
<1>7. QED BY <1>2, <1>6, LocalInv

LEMMA NextInv == ASSUME IInv, [Next]_vars PROVE IInv'
PROOF
<1>1. CASE \E tree \in SUBSET Files : \E on \in DOMAIN main : Push(tree, on) BY <1>1, PushInv
<1>2. CASE \E f \in Files : MoveMain(f) BY <1>2, MoveMainInv
<1>3. CASE MergeAnew BY <1>3, MergeAnewInv
<1>4. CASE StartActions BY <1>4, StartActionsInv
<1>5. CASE StartPush BY <1>5, StartPushInv
<1>6. CASE StartByHand BY <1>6, StartByHandInv
<1>7. CASE Finish BY <1>7, FinishInv
<1>8. CASE SquashMerge BY <1>8, SquashMergeInv
<1>9. CASE UNCHANGED vars
  <2>1. HistoryInv /\ UNCHANGED <<main, heads, event, testMerge, run, passed>> BY <1>9 DEF IInv, vars
  <2>2. Grown BY <2>1, SameHistory
  <2>3. RunsInv' BY <2>1, <2>2, RunsStay
  <2>4. QED BY <2>1, <2>3, LocalInv DEF github
<1>10. QED BY <1>1, <1>2, <1>3, <1>4, <1>5, <1>6, <1>7, <1>8, <1>9 DEF Next

\* A step that leaves GitHub's history alone loses no run that passed.
LEMMA MergedStays ==
  ASSUME MergedInv, UNCHANGED <<main, heads, squashed>>, passed \subseteq passed' PROVE MergedInv'
PROOF BY DEF MergedInv

LEMMA TreesAreFiles == HistoryInv => \A h \in DOMAIN heads : heads[h].tree \in SUBSET Files
PROOF
<1>1. SUFFICES ASSUME HistoryInv, NEW h \in DOMAIN heads PROVE heads[h].tree \in SUBSET Files
  OBVIOUS
<1>2. DEFINE Heads == [tree : SUBSET Files, on : Nat]
<1>3. heads \in Seq(Heads) BY <1>1 DEF HistoryInv
<1>4. heads[h] \in Heads
  <2>1. HIDE DEF Heads
  <2>2. QED BY <1>1, <1>3
<1>5. QED BY <1>4

\* The head that is merged has the tip of main, so that the merge adds nothing to it.
LEMMA SquashMergeMerged == ASSUME IInv, SquashMerge PROVE MergedInv'
PROOF
<1>1. HistoryInv BY DEF IInv
<1>2. UNCHANGED <<heads, passed>> /\ main' = Append(main, MergeOf(Tip, Newest).tree)
      /\ squashed' = [head |-> Newest, parent |-> Tip] /\ Newest > 0 /\ heads[Newest].on = Tip
      /\ \E r \in passed : r.kind = "pull_request" /\ r.event.head = Newest
  BY DEF SquashMerge
<1>3. Newest \in DOMAIN heads /\ heads[Newest].tree \in SUBSET Files
  BY <1>1, <1>2, TreesAreFiles DEF HistoryInv, Newest
<1>4. MergeOf(Tip, Newest).tree = Merged(main[Tip], main[Tip], heads[Newest].tree)
  BY <1>2 DEF MergeOf
<1>5. MergeOf(Tip, Newest).tree = heads[Newest].tree BY <1>3, <1>4 DEF Merged
<1>6. Tip + 1 \in DOMAIN main' /\ main'[Tip + 1] = heads[Newest].tree
  <2>1. main \in Seq(SUBSET Files) /\ heads[Newest].tree \in SUBSET Files BY <1>1, <1>3 DEF HistoryInv
  <2>2. main' = Append(main, heads[Newest].tree) BY <1>2, <1>5
  <2>3. QED BY <2>1, <2>2 DEF Tip
<1>7. QED BY <1>2, <1>3, <1>6 DEF MergedInv

LEMMA NextMerged == ASSUME IInv, MergedInv, [Next]_vars PROVE MergedInv'
PROOF
<1>1. CASE \E tree \in SUBSET Files : \E on \in DOMAIN main : Push(tree, on)
  <2>1. squashed' = Nothing BY <1>1 DEF Push, Open
  <2>2. QED BY <2>1 DEF MergedInv
<1>2. CASE \E f \in Files : MoveMain(f)
  <2>1. squashed' = Nothing BY <1>2 DEF MoveMain, Open
  <2>2. QED BY <2>1 DEF MergedInv
<1>3. CASE MergeAnew BY <1>3, MergedStays DEF MergeAnew
<1>4. CASE StartActions BY <1>4, MergedStays DEF StartActions, github
<1>5. CASE StartPush BY <1>5, MergedStays DEF StartPush, github
<1>6. CASE StartByHand BY <1>6, MergedStays DEF StartByHand, github
<1>7. CASE Finish BY <1>7, MergedStays DEF Finish, github
<1>8. CASE SquashMerge BY <1>8, SquashMergeMerged
<1>9. CASE UNCHANGED vars BY <1>9, MergedStays DEF vars
<1>10. QED BY <1>1, <1>2, <1>3, <1>4, <1>5, <1>6, <1>7, <1>8, <1>9 DEF Next

LEMMA Invariant == Spec => [](IInv /\ MergedInv)
PROOF
<1>1. Init => MergedInv BY DEF Init, MergedInv
<1>2. QED BY <1>1, InitInv, NextInv, NextMerged, PTL DEF Spec

\* The invariant says more than the properties.
LEMMA InvIsEnough == IInv => TestedIsTheCandidate /\ VerdictsAreInContext
PROOF
<1>1. SUFFICES ASSUME IInv PROVE TestedIsTheCandidate /\ VerdictsAreInContext OBVIOUS
<1>2. VerdictsAreInContext BY <1>1 DEF IInv, RunsInv, InContext, VerdictsAreInContext
<1>3. ASSUME NEW r \in passed, r.kind # "push"
      PROVE  /\ r.checkout.tree = heads[event_context(r).head].tree
             /\ r.checkout.commit = "merge" =>
                  Merged(main[heads[event_context(r).head].on], main[event_context(r).base],
                         heads[event_context(r).head].tree) = heads[event_context(r).head].tree
  <2>1. Genuine(r.checkout) BY <1>1, <1>3 DEF IInv, RunsInv, Started
  <2>2. CheckoutIsTheCandidate(r, event_context(r)) BY <1>1, <1>3 DEF IInv, RunsInv
  <2>3. r.checkout.tree = heads[event_context(r).head].tree BY <2>2 DEF CheckoutIsTheCandidate
  <2>4. ASSUME r.checkout.commit = "merge"
        PROVE  r.checkout.base = event_context(r).base /\ r.checkout.head = event_context(r).head
    BY <2>2, <2>4 DEF CheckoutIsTheCandidate
  <2>5. QED BY <2>1, <2>3, <2>4 DEF Genuine
<1>4. TestedIsTheCandidate BY <1>3 DEF TestedIsTheCandidate
<1>5. QED BY <1>2, <1>4

\* A run that passed on a test merge has tested the files of its head, and the head
\* misses nothing of its base, in every repository and every order of event, merge,
\* main and run: validate_repository compares the tree of the checkout with the head's.
THEOREM RunsTestTheCandidate == Spec => []TestedIsTheCandidate
PROOF BY Invariant, InvIsEnough, PTL

\* A verdict on evidence is about the head that is checked out, whatever options and
\* evidence main() of the validator was started with.
THEOREM VerdictsKeepTheirContext == Spec => []VerdictsAreInContext
PROOF BY Invariant, InvIsEnough, PTL

LEMMA MergedIsEnough == IInv /\ MergedInv => CheckoutInv
PROOF
<1>1. SUFFICES ASSUME IInv, MergedInv PROVE TypeOK /\ MainWasTested BY DEF CheckoutInv
<1>2. HistoryInv /\ RunsInv BY <1>1 DEF IInv
<1>3. TypeOK
  <2>1. \A i \in DOMAIN main : main[i] \subseteq Files BY <1>2 DEF HistoryInv
  <2>2. \A h \in DOMAIN heads : heads[h].tree \subseteq Files /\ heads[h].on \in DOMAIN main
    BY <1>2, TreesAreFiles DEF HistoryInv
  <2>3. \A r \in passed : r.options \in Options /\ CompatibleOptions(r.kind, r.options)
    BY <1>2 DEF RunsInv, Started, InContext
  <2>4. QED BY <1>1, <2>1, <2>2, <2>3 DEF TypeOK, MergedInv
<1>4. ASSUME squashed # Nothing
      PROVE  \E r \in passed : r.kind = "pull_request" /\ r.event.head = squashed.head
                               /\ r.checkout.tree = main[squashed.parent + 1]
  <2>1. PICK r \in passed : r.kind = "pull_request" /\ r.event.head = squashed.head
    BY <1>1, <1>4 DEF MergedInv
  <2>2. r.checkout.tree = heads[r.event.head].tree
    BY <1>2, <2>1 DEF RunsInv, CheckoutIsTheCandidate, event_context
  <2>3. main[squashed.parent + 1] = heads[squashed.head].tree BY <1>1, <1>4 DEF MergedInv
  <2>4. QED BY <2>1, <2>2, <2>3
<1>5. QED BY <1>3, <1>4 DEF MainWasTested

\* No merge brings a tree to main that no run has seen, for every history: the strict
\* protection looks at a head and its history only, and leaves the rest to the
\* comparison of checkout and head in validate_repository.
THEOREM MergesAreTested == Spec => []CheckoutInv
PROOF BY Invariant, MergedIsEnough, PTL
==============================================================================
