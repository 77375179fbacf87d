--------------------------- MODULE ReviewDiscussion ---------------------------
(***************************************************************************)
(* What people say of a candidate on GitHub: the reviews and the threads   *)
(* that validate_package_response_semantics takes from the "review" and    *)
(* "discussion" components.  A review stays tied to the head it was        *)
(* submitted for; a push carries a thread over to the new head or leaves   *)
(* it outdated.  The owner reads reviews and threads at different moments, *)
(* and all of it twice; several things may happen within one tick.         *)
(***************************************************************************)
EXTENDS Integers, Sequences, FiniteSets, TLC

CONSTANTS Orders,                             \* the orders of the owner's reads
          MaxTime, MaxHeads, MaxSteps,        \* bounds of an instance
          Nothing
BoundsAssumption == {MaxTime, MaxHeads, MaxSteps} \subseteq Nat /\ MaxTime # 0

VARIABLES
  clock, head,
  committed,   \* when each head was committed
  reviews,     \* the submitted reviews
  threads,     \* the review threads; "made" is the head a thread was opened on
  steps,       \* steps of others so far
  draft, package, window,   \* the package being read, the first one, the end of the window
  opened       \* the reviews and threads as the last package was begun; no guard reads it

github == <<head, committed, reviews, threads>>
vars == <<clock, github, steps, draft, package, window, opened>>

-----------------------------------------------------------------------------
LABELS == {"pull", "candidate-commit", "github-reviews", "review-threads"}
Response(l) ==
  CASE l = "pull" -> head
    [] l = "candidate-commit" -> [head |-> head, committed |-> committed[head]]
    [] l = "github-reviews" -> reviews
    [] l = "review-threads" -> [head |-> head, threads |-> threads]

\* Mutant: reviews of earlier heads are history.
CurrentReviews(b, cutoff) ==
  \A i \in DOMAIN b["github-reviews"] :
    LET review == b["github-reviews"][i] IN
      review.head = b["pull"] => review.state \in {"APPROVED", "COMMENTED"} /\ review.at <= cutoff

\* A review that is pending, dismissed, asks for changes or is of another head is
\* refused, however old it is.
GitHubReviews(b, cutoff) ==
  \A i \in DOMAIN b["github-reviews"] :
    LET review == b["github-reviews"][i] IN
      /\ review.state \in {"APPROVED", "COMMENTED"}
      /\ review.head = b["pull"]
      /\ b["candidate-commit"].committed <= review.at /\ review.at <= cutoff

\* The comments of a thread are outdated together, or all of the candidate.
ReviewThreads(b, cutoff) ==
  /\ b["review-threads"].head = b["pull"]
  /\ \A i \in DOMAIN b["review-threads"].threads :
       LET thread == b["review-threads"].threads[i] IN
         /\ thread.resolved /\ thread.comments # <<>>
         /\ thread.outdated = (thread.head # b["pull"])
         /\ \A n \in DOMAIN thread.comments :
              LET comment == thread.comments[n] IN
                /\ comment.created <= comment.updated /\ comment.updated <= cutoff
                /\ ~thread.outdated => b["candidate-commit"].committed <= comment.created

validate_package_response_semantics(b, cutoff) ==
  /\ b["candidate-commit"].head = b["pull"]
  /\ GitHubReviews(b, cutoff) /\ ReviewThreads(b, cutoff)

StableWindow(b) == b = package

-----------------------------------------------------------------------------
NoResponses == [l \in {} |-> Nothing]
Init ==
  /\ clock = 1 /\ head = 1 /\ committed = <<1>> /\ reviews = <<>> /\ threads = <<>> /\ steps = 0
  /\ draft = NoResponses /\ package = Nothing /\ window = FALSE /\ opened = Nothing

owner == <<draft, package, window, opened>>
Tick == clock < MaxTime /\ clock' = clock + 1 /\ UNCHANGED <<github, steps, owner>>
Step == steps < MaxSteps /\ steps' = steps + 1 /\ UNCHANGED <<clock, owner>>

\* A push, also one back to an earlier head.  A thread whose lines are still there is
\* carried over to the new head.
Push(h, carried) ==
  /\ Step /\ h # head /\ head' = h
  /\ committed' = IF h \in DOMAIN committed THEN committed ELSE Append(committed, clock)
  /\ threads' = [i \in DOMAIN threads |->
       IF i \in carried THEN [threads[i] EXCEPT !.head = h, !.outdated = FALSE]
                        ELSE [threads[i] EXCEPT !.outdated = threads[i].head # h]]
  /\ UNCHANGED reviews

Comment == [created |-> clock, updated |-> clock]
Review(state) == Append(reviews, [head |-> head, state |-> state, at |-> clock])
Submit(state) ==
  /\ Step /\ reviews' = Review(state) /\ UNCHANGED <<head, committed, threads>>

\* Every comment on the diff is part of a review.
OpenThread ==
  /\ Step /\ reviews' = Review("COMMENTED")
  /\ threads' = Append(threads, [made |-> head, head |-> head, outdated |-> FALSE,
                                 resolved |-> FALSE, comments |-> <<Comment>>])
  /\ UNCHANGED <<head, committed>>
Reply(i) ==
  /\ Step /\ reviews' = Review("COMMENTED")
  /\ threads' = [threads EXCEPT ![i].comments = Append(@, Comment)]
  /\ UNCHANGED <<head, committed>>

EditComment(i, n) ==
  /\ Step /\ threads' = [threads EXCEPT ![i].comments[n].updated = clock]
  /\ UNCHANGED <<head, committed, reviews>>
Resolve(i) ==
  /\ Step /\ threads' = [threads EXCEPT ![i].resolved = ~@]
  /\ UNCHANGED <<head, committed, reviews>>
Dismiss(i) ==
  /\ Step /\ reviews[i].state \in {"APPROVED", "CHANGES_REQUESTED"}
  /\ reviews' = [reviews EXCEPT ![i].state = "DISMISSED"]
  /\ UNCHANGED <<head, committed, threads>>

Read(l) ==
  /\ ~window /\ l \in LABELS \ DOMAIN draft
  /\ \E o \in Orders : \E n \in DOMAIN o : o[n] = l /\ DOMAIN draft = {o[i] : i \in 1 .. n - 1}
  /\ draft' = [k \in DOMAIN draft \cup {l} |-> IF k = l THEN Response(l) ELSE draft[k]]
  /\ opened' = IF draft = NoResponses /\ package # Nothing
               THEN [reviews |-> reviews, threads |-> threads] ELSE opened
  /\ UNCHANGED <<clock, github, steps, package, window>>

Complete == DOMAIN draft = LABELS

\* A package that is refused is thrown away.
Seal ==
  /\ Complete /\ package = Nothing /\ validate_package_response_semantics(draft, clock)
  /\ package' = draft /\ draft' = NoResponses
  /\ UNCHANGED <<clock, github, steps, window, opened>>
SealLast ==
  /\ Complete /\ package # Nothing
  /\ validate_package_response_semantics(draft, clock) /\ StableWindow(draft)
  /\ window' = TRUE /\ UNCHANGED <<clock, github, steps, draft, package, opened>>

Next ==
  \/ Tick \/ OpenThread \/ Seal \/ SealLast
  \/ \E h \in 1..MaxHeads : \E carried \in SUBSET DOMAIN threads :
       h <= Len(committed) + 1 /\ Push(h, carried)
  \/ \E state \in {"APPROVED", "COMMENTED", "CHANGES_REQUESTED"} : Submit(state)
  \/ \E i \in DOMAIN threads : Reply(i) \/ Resolve(i) \/ \E n \in DOMAIN threads[i].comments : EditComment(i, n)
  \/ \E i \in DOMAIN reviews : Dismiss(i)
  \/ \E l \in LABELS : Read(l)

Spec == Init /\ [][Next]_vars

-----------------------------------------------------------------------------
\* The shape of the state: no thread is without the review that opened it.
TypeOK ==
  /\ clock \in 1..MaxTime /\ head \in DOMAIN committed /\ steps \in 0..MaxSteps
  /\ \A i \in DOMAIN reviews : reviews[i].head \in DOMAIN committed /\ reviews[i].at <= clock
  /\ \A i \in DOMAIN threads :
       /\ threads[i].outdated = (threads[i].head # head)
       /\ \E n \in DOMAIN reviews : reviews[n].head = threads[i].made
  /\ DOMAIN draft \subseteq LABELS /\ (window => package # Nothing)

\* One package may hold a thread without its review, or a review whose thread is gone
\* from the diff.  An accepted window does not: when its last package was begun, every
\* review and every thread that anybody ever left on the pull request was about the
\* candidate itself, none older, dismissed or asking for changes.
NoStaleOpinion ==
  window =>
    /\ \A i \in DOMAIN opened.reviews :
         /\ opened.reviews[i].head = package["pull"]
         /\ opened.reviews[i].state \in {"APPROVED", "COMMENTED"}
    /\ \A i \in DOMAIN opened.threads : opened.threads[i].made = package["pull"]
=============================================================================
