------------------------- MODULE ExecutionProvenance -------------------------
(***************************************************************************)
(* Which executions a candidate's checks stand for: the "checks" and       *)
(* "runner" components of an evidence package, as                          *)
(* validate_package_response_semantics judges them.  GitHub starts one run *)
(* of every workflow on the merge of base and head whenever the pull       *)
(* request gets a head or is reopened; runs are attempted again, in part   *)
(* or in whole; the base moves under them.  The owner reads check runs,    *)
(* runs, jobs and logs one after the other, and all of it twice.           *)
(***************************************************************************)
EXTENDS Integers, Sequences, FiniteSets, SequencesExt, TLC

CONSTANTS
  REQUIRED_CONTEXTS, CONTEXT_WORKFLOW_PATHS,   \* the checks, and the workflow of each
  Orders,                                      \* the orders of the owner's reads
  MaxHeads, MaxMoves, MaxAttempts,             \* bounds of an instance
  Nothing

Workflows == {CONTEXT_WORKFLOW_PATHS[c] : c \in REQUIRED_CONTEXTS}
ContextsOf(w) == {c \in REQUIRED_CONTEXTS : CONTEXT_WORKFLOW_PATHS[c] = w}

ContextsAssumption ==
  /\ IsFiniteSet(REQUIRED_CONTEXTS) /\ REQUIRED_CONTEXTS # {}
  /\ DOMAIN CONTEXT_WORKFLOW_PATHS = REQUIRED_CONTEXTS
\* The pull request is read first: it says which head the other endpoints are asked for.
OrdersAssumption ==
  \A o \in Orders : \A n \in DOMAIN o : o[n] # "pull" => \E i \in 1 .. n - 1 : o[i] = "pull"
BoundsAssumption == {MaxHeads, MaxMoves, MaxAttempts} \subseteq Nat

VARIABLES
  base, head,  \* the tip of main, and the head of the pull request
  fork,        \* the base whose tree each pushed head contains
  runs,        \* the runs: what is executed, the attempt, and for every job its
               \* executions, oldest first
  moves,       \* pushes, reopenings and moves of the base so far
  draft,       \* the responses of the package being collected
  package,     \* the first package of the window
  window,      \* the last package of the window has been accepted
  sealed, opened   \* the runs as the first package was complete and as the last one
                   \* was begun; no guard reads them

vars == <<base, head, fork, runs, moves, draft, package, window, sealed, opened>>

-----------------------------------------------------------------------------
\* GitHub.

MergeTree(b, h) == IF fork[h] = b THEN <<h>> ELSE <<b, h>>
Tree(h) == <<h>>

\* A job has the number of its run, its context and the attempt that started it.
Job(i, c) == [run |-> i, context |-> c, attempt |-> Last(runs[i].jobs[c]).attempt,
              state |-> Last(runs[i].jobs[c]).state]
States(i)  == {Last(runs[i].jobs[c]).state : c \in DOMAIN runs[i].jobs}
Ended(i)   == "running" \notin States(i)
RunsOf(h)  == {i \in DOMAIN runs : runs[i].head = h}
JobsOf(h)  == UNION {{Job(i, c) : c \in DOMAIN runs[i].jobs} : i \in RunsOf(h)}

LABELS == {"pull", "check-runs", "workflow-runs", "workflow-jobs", "workflow-logs"}

\* Lists are of the latest attempts, and of the head that they are asked for.
Response(l, h) ==
  CASE l = "pull" -> [base |-> base, head |-> head]
    [] l \in {"check-runs", "workflow-jobs"} -> JobsOf(h)
    [] l = "workflow-runs" ->
         {[run |-> i, workflow |-> runs[i].workflow, attempt |-> runs[i].attempt,
           state |-> IF States(i) = {"success"} THEN "success"
                     ELSE IF Ended(i) THEN "failure" ELSE "running"] : i \in RunsOf(h)}
    [] l = "workflow-logs" ->
         {[run |-> j.run, context |-> j.context, attempt |-> j.attempt,
           tree |-> MergeTree(runs[j.run].base, h), parents |-> <<runs[j.run].base, h>>]
            : j \in JobsOf(h)}

-----------------------------------------------------------------------------
\* The rules, over the responses b of one package of the candidate root.

Candidate(b) == [base |-> b["pull"].base, head |-> b["pull"].head, tree |-> Tree(b["pull"].head)]

\* Every required context exactly once, nothing else, and all of them successful.
RequiredChecks(b) ==
  /\ Cardinality(b["check-runs"]) = Cardinality(REQUIRED_CONTEXTS)
  /\ {k.context : k \in b["check-runs"]} = REQUIRED_CONTEXTS
  /\ \A k \in b["check-runs"] : k.state = "success"

\* The run an execution names is the run of its check run's details URL; its attempt
\* is the one that the run has.
WorkflowRun(b, k) ==
  \E r \in b["workflow-runs"] :
    /\ r.run = k.run /\ r.workflow = CONTEXT_WORKFLOW_PATHS[k.context]
    /\ r.state = "success"

NoOtherRuns(b) == {r.run : r \in b["workflow-runs"]} = {k.run : k \in b["check-runs"]}

\* Jobs carry no attempt of their own, but ids that no two executions share.
WorkflowJobs(b) == b["workflow-jobs"] = b["check-runs"]

Log(l) == [run |-> l.run, context |-> l.context, attempt |-> l.attempt]
\* Mutant: any merge of the head that has its tree will do.
LogsOfTheTree(b, root) ==
  /\ {Log(l) : l \in b["workflow-logs"]} = {Log(k) : k \in b["check-runs"]}
  /\ \A l \in b["workflow-logs"] : l.tree = root.tree

ExecutionLogs(b, root) ==
  /\ {Log(l) : l \in b["workflow-logs"]} = {Log(k) : k \in b["check-runs"]}
  /\ \A l \in b["workflow-logs"] :
       l.tree = root.tree /\ l.parents = <<root.base, root.head>>

validate_package_response_semantics(b) ==
  /\ RequiredChecks(b)
  /\ \A k \in b["check-runs"] : WorkflowRun(b, k)
  /\ NoOtherRuns(b) /\ WorkflowJobs(b) /\ ExecutionLogs(b, Candidate(b))

StableWindow(b) == b = package

-----------------------------------------------------------------------------
NewRun(w, b, h) ==
  [workflow |-> w, base |-> b, head |-> h, attempt |-> 1,
   jobs |-> [c \in ContextsOf(w) |-> <<[attempt |-> 1, state |-> "running"]>>]]
NewRuns(b, h) ==
  LET ws == SetToSeq(Workflows) IN [n \in DOMAIN ws |-> NewRun(ws[n], b, h)]

NoResponses == [l \in {} |-> Nothing]

Init ==
  /\ base = 1 /\ head = 1 /\ fork = <<1>> /\ runs = NewRuns(1, 1) /\ moves = 0
  /\ draft = NoResponses /\ package = Nothing /\ window = FALSE
  /\ sealed = Nothing /\ opened = Nothing

owner == <<draft, package, window, sealed, opened>>
Move == moves < MaxMoves /\ moves' = moves + 1 /\ UNCHANGED owner

\* The pull request gets a head, on the tip of main or as it was; or an earlier head
\* once more.  Closing and reopening it leaves the head.
Push(h, from) ==
  /\ Move /\ h # head
  /\ fork' = IF h \in DOMAIN fork THEN fork ELSE Append(fork, from)
  /\ head' = h /\ runs' = runs \o NewRuns(base, h) /\ UNCHANGED base
Reopen == Move /\ runs' = runs \o NewRuns(base, head) /\ UNCHANGED <<base, head, fork>>

\* A merge into main starts no run of the pull request.
MoveBase == Move /\ base' = base + 1 /\ UNCHANGED <<head, fork, runs>>

Finish(i, c, state) ==
  /\ Last(runs[i].jobs[c]).state = "running"
  /\ runs' = [runs EXCEPT ![i].jobs[c][Len(runs[i].jobs[c])].state = state]
  /\ UNCHANGED <<base, head, fork, moves, owner>>

\* All jobs of a finished run are attempted again, or the failed ones only.  Every
\* attempt executes the merge the run was made for.
Again(i, cs) ==
  /\ cs # {} /\ Ended(i) /\ runs[i].attempt < MaxAttempts
  /\ runs' = [runs EXCEPT ![i].attempt = @ + 1,
       ![i].jobs = [c \in DOMAIN @ |->
          IF c \in cs THEN Append(@[c], [attempt |-> runs[i].attempt + 1, state |-> "running"])
                      ELSE @[c]]]
  /\ UNCHANGED <<base, head, fork, moves, owner>>
RerunAll(i)    == Again(i, DOMAIN runs[i].jobs)
RerunFailed(i) == Again(i, {c \in DOMAIN runs[i].jobs : Last(runs[i].jobs[c]).state = "failure"})

Read(l) ==
  /\ ~window /\ l \notin DOMAIN draft
  /\ \E o \in Orders : \E n \in DOMAIN o : o[n] = l /\ DOMAIN draft = {o[i] : i \in 1 .. n - 1}
  /\ LET r == Response(l, IF l = "pull" THEN head ELSE draft["pull"].head)
     IN draft' = [k \in DOMAIN draft \cup {l} |-> IF k = l THEN r ELSE draft[k]]
  /\ opened' = IF draft = NoResponses /\ package # Nothing THEN runs ELSE opened
  /\ UNCHANGED <<base, head, fork, runs, moves, package, window, sealed>>

Complete == DOMAIN draft = LABELS

\* A package that is refused is thrown away.
Seal ==
  /\ Complete /\ draft' = NoResponses
  /\ UNCHANGED <<base, head, fork, runs, moves>>
  /\ IF validate_package_response_semantics(draft) /\ package = Nothing
     THEN package' = draft /\ sealed' = runs /\ UNCHANGED <<window, opened>>
     ELSE /\ window' = (package # Nothing /\ StableWindow(draft))
          /\ UNCHANGED <<package, sealed, opened>>

Next ==
  \/ Reopen \/ MoveBase \/ Seal
  \/ \E h \in 1..MaxHeads : \E from \in 1..base : h <= Len(fork) + 1 /\ Push(h, from)
  \/ \E i \in DOMAIN runs :
       \/ \E c \in DOMAIN runs[i].jobs : \E state \in {"success", "failure"} : Finish(i, c, state)
       \/ RerunAll(i) \/ RerunFailed(i)
  \/ \E l \in LABELS : Read(l)

Spec == Init /\ [][Next]_vars

-----------------------------------------------------------------------------
\* The shape of the state: a run has at most one execution of a job per attempt, and
\* nothing of it runs but what its newest attempt began.
TypeOK ==
  /\ head \in DOMAIN fork /\ moves \in 0..MaxMoves
  /\ \A i \in DOMAIN runs : \A c \in DOMAIN runs[i].jobs :
       LET js == runs[i].jobs[c] IN
         /\ Len(js) \in 1..runs[i].attempt
         /\ \A n \in DOMAIN js : js[n].state = "running" => js[n].attempt = runs[i].attempt
  /\ DOMAIN draft \subseteq LABELS
  /\ window => package # Nothing

\* An accepted package proves of its candidate: every required context has run on the
\* merge of this very base and head and passed, that merge has the tree of the head,
\* and no run the package lists was on another merge, whatever base moves, reopenings
\* and reruns there were between the reads.
TestedExactly ==
  package # Nothing =>
    LET root == Candidate(package) IN
      /\ fork[root.head] = root.base
      /\ \A c \in REQUIRED_CONTEXTS : \E k \in package["check-runs"] :
           /\ k.context = c /\ runs[k.run].workflow = CONTEXT_WORKFLOW_PATHS[c]
           /\ \E n \in DOMAIN runs[k.run].jobs[c] :
                runs[k.run].jobs[c][n] = [attempt |-> k.attempt, state |-> "success"]
      /\ \A r \in package["workflow-runs"] :
           runs[r.run].base = root.base /\ runs[r.run].head = root.head

\* One package may mix attempts: a rerun between two of its reads leaves old check
\* runs next to a newer attempt.  An accepted window cannot: from the end of the
\* first package to the start of the last one the packages were the whole truth, all
\* runs of the head and their latest results.
ChecksHeld ==
  window =>
    \A world \in {sealed, opened} :
      LET mine == {i \in DOMAIN world : world[i].head = package["pull"].head} IN
        /\ {[run |-> i, attempt |-> world[i].attempt] : i \in mine}
             = {[run |-> r.run, attempt |-> r.attempt] : r \in package["workflow-runs"]}
        /\ \A k \in package["check-runs"] :
             /\ k.run \in mine
             /\ Last(world[k.run].jobs[k.context]) = [attempt |-> k.attempt, state |-> "success"]
=============================================================================
