---------------------------- MODULE CandidateTree ----------------------------
(***************************************************************************)
(* The files of a candidate: the "pr", "paths" and "control" evidence that *)
(* validate_package_response_semantics holds against one Git tree.  The    *)
(* tree is asked for by its hash and never changes; the pull request and   *)
(* the list of its files are asked for by number, and follow head and main *)
(* as they move; validator, workflows and lockfiles are taken from a local *)
(* checkout.  The owner reads all of it twice.                             *)
(***************************************************************************)
EXTENDS Integers, Sequences, FiniteSets, TLC

CONSTANTS
  Paths, Contents,         \* the files there may be, and their blobs
  WORKFLOWS, Frozen,       \* the workflow paths, and the reviewed bytes of each
  SOURCES,                 \* the validator and the lockfiles, which must be there
  Orders,                  \* the orders of the owner's reads
  MaxMain, MaxHeads, MaxMoves, MaxDiff,   \* bounds of an instance
  Absent, Nothing

PathsAssumption ==
  /\ WORKFLOWS \cup SOURCES \subseteq Paths /\ DOMAIN Frozen \subseteq Paths
  /\ Absent \notin Contents /\ Contents # {} /\ \A p \in DOMAIN Frozen : Frozen[p] \in Contents
\* The owner keeps to one procedure: the list of files is always asked for after the pull
\* request, or always before it.
OrdersAssumption ==
  \/ \A o \in Orders : \A n \in DOMAIN o : o[n] = "pull-files" => \E i \in 1 .. n - 1 : o[i] = "pull"
  \/ \A o \in Orders : \A n \in DOMAIN o : o[n] = "pull" => \E i \in 1 .. n - 1 : o[i] = "pull-files"
BoundsAssumption == {MaxMain, MaxHeads, MaxMoves, MaxDiff} \subseteq Nat

VARIABLES
  main,     \* the trees of the main branch
  heads,    \* what was pushed: a tree, and the commit of main it is built on
  head,     \* the head of the pull request
  checkout, \* the head checked out locally
  updated,  \* a stamp that grows with every push
  moves,
  draft, package, window   \* the package being read, the first one, the end of the window

github == <<main, heads, head, updated>>
vars == <<github, checkout, moves, draft, package, window>>

-----------------------------------------------------------------------------
Trees == [Paths -> Contents \cup {Absent}]
Tip == Len(main)
TreeOf(h) == heads[h].tree
Workflows(tree) == {p \in WORKFLOWS : tree[p] # Absent}

\* What a head changes since the commit of main it is built on.
Diff(h) ==
  LET from == main[heads[h].from]  to == TreeOf(h)
  IN {[filename |-> p, sha |-> to[p],
       status |-> IF from[p] = Absent THEN "added" ELSE IF to[p] = Absent THEN "removed" ELSE "modified"]
        : p \in {q \in Paths : from[q] # to[q]}}

\* Main is strictly protected: a head is clean when it has the tip of main.
Clean(h) == heads[h].from = Tip

LABELS == {"pull", "pull-files", "sources", "workflow-blobs"}
Response(l) ==
  CASE l = "pull" -> [head |-> head, base |-> Tip, clean |-> Clean(head),
                      changed_files |-> Cardinality(Diff(head)), updated |-> updated]
    [] l = "pull-files" -> Diff(head)
    [] l = "sources" -> [head |-> checkout, files |-> [p \in SOURCES |-> TreeOf(checkout)[p]]]
    [] l = "workflow-blobs" ->
         [head |-> checkout,
          files |-> [p \in Workflows(TreeOf(checkout)) |-> TreeOf(checkout)[p]]]

-----------------------------------------------------------------------------
\* The rules, over a package b; "tree" is that of the candidate.

Pull(b) == b["pull"].clean

\* A listed file has the blob of the tree, or is not in it when it was removed.
PullFiles(b, tree) ==
  /\ b["pull"].changed_files = Cardinality(b["pull-files"])
  /\ \A file \in b["pull-files"] :
       IF file.status = "removed" THEN tree[file.filename] = Absent
                                  ELSE tree[file.filename] = file.sha

ValidatorSource(b, tree) ==
  /\ b["sources"].head = b["pull"].head
  /\ \A p \in SOURCES : tree[p] # Absent /\ b["sources"].files[p] = tree[p]

\* Mutant: the tree may have workflows besides the frozen ones.
WorkflowsListed(b, tree) ==
  /\ b["workflow-blobs"].head = b["pull"].head
  /\ \A p \in DOMAIN Frozen : tree[p] = Frozen[p]

\* The tree has the frozen workflows, no other, and the evidence holds their bytes.
WorkflowBlobs(b, tree) ==
  /\ b["workflow-blobs"].head = b["pull"].head
  /\ Workflows(tree) = DOMAIN Frozen
  /\ DOMAIN b["workflow-blobs"].files = DOMAIN Frozen
  /\ \A p \in DOMAIN Frozen : b["workflow-blobs"].files[p] = Frozen[p] /\ tree[p] = Frozen[p]

validate_package_response_semantics(b) ==
  LET tree == TreeOf(b["pull"].head) IN
    Pull(b) /\ PullFiles(b, tree) /\ ValidatorSource(b, tree) /\ WorkflowBlobs(b, tree)

StableWindow(b) == b = package

-----------------------------------------------------------------------------
\* Main begins with the frozen workflows and no other.
First == [p \in Paths |-> IF p \in WORKFLOWS \ DOMAIN Frozen THEN Absent
                          ELSE CHOOSE c \in Contents : p \in DOMAIN Frozen => c = Frozen[p]]
NoResponses == [l \in {} |-> Nothing]

Init ==
  /\ main = <<First>> /\ heads = <<[tree |-> First, from |-> 1]>>
  /\ head = 1 /\ checkout = 1 /\ updated = 1 /\ moves = 0
  /\ draft = NoResponses /\ package = Nothing /\ window = FALSE

owner == <<draft, package, window>>
Move == moves < MaxMoves /\ moves' = moves + 1 /\ UNCHANGED owner

\* A push of a new head with any tree, on any commit of main, or back to an old head.
Push(tree, from) ==
  /\ Move /\ Len(heads) < MaxHeads
  /\ Cardinality({p \in Paths : tree[p] # main[from][p]}) <= MaxDiff
  /\ heads' = Append(heads, [tree |-> tree, from |-> from]) /\ head' = Len(heads')
  /\ updated' = updated + 1 /\ UNCHANGED <<main, checkout>>
PushBack(h) ==
  /\ Move /\ h # head /\ head' = h
  /\ updated' = updated + 1 /\ UNCHANGED <<main, heads, checkout>>

\* Other pull requests change one file of main at a time.
MoveMain(p, c) ==
  /\ Move /\ Tip < MaxMain /\ c # main[Tip][p]
  /\ main' = Append(main, [main[Tip] EXCEPT ![p] = c])
  /\ UNCHANGED <<heads, head, checkout, updated>>

Checkout == checkout # head /\ checkout' = head /\ UNCHANGED <<github, moves, owner>>

Read(l) ==
  /\ ~window /\ l \in LABELS \ DOMAIN draft
  /\ \E o \in Orders : \E n \in DOMAIN o : o[n] = l /\ DOMAIN draft = {o[i] : i \in 1 .. n - 1}
  /\ draft' = [k \in DOMAIN draft \cup {l} |-> IF k = l THEN Response(l) ELSE draft[k]]
  /\ UNCHANGED <<github, checkout, moves, package, window>>

\* A package that is refused is thrown away.
Accepted == DOMAIN draft = LABELS /\ validate_package_response_semantics(draft)
Seal ==
  /\ package = Nothing /\ Accepted
  /\ package' = draft /\ draft' = NoResponses /\ UNCHANGED <<github, checkout, moves, window>>
SealLast ==
  /\ package # Nothing /\ Accepted /\ StableWindow(draft)
  /\ window' = TRUE /\ UNCHANGED <<github, checkout, moves, draft, package>>

Next ==
  \/ Checkout \/ Seal \/ SealLast
  \/ \E tree \in Trees : \E from \in DOMAIN main : Push(tree, from)
  \/ \E h \in DOMAIN heads : PushBack(h)
  \/ \E p \in Paths : \E c \in Contents \cup {Absent} : MoveMain(p, c)
  \/ \E l \in LABELS : Read(l)

Spec == Init /\ [][Next]_vars

-----------------------------------------------------------------------------
\* The shape of the state.
TypeOK ==
  /\ \A i \in DOMAIN main : main[i] \in Trees
  /\ \A h \in DOMAIN heads : heads[h].tree \in Trees /\ heads[h].from \in DOMAIN main
  /\ head \in DOMAIN heads /\ checkout \in DOMAIN heads /\ updated \in Nat
  /\ moves \in 0..MaxMoves /\ DOMAIN draft \subseteq LABELS /\ (window => package # Nothing)

\* The files that reviewers and path rules go by are all there are: an accepted window
\* lists exactly the paths in which the candidate differs from the base it names, with
\* the candidate's blobs, although list, pull request and tree are three responses and
\* one package alone may hold a list of an earlier head.
FilesAreTheDiff ==
  window =>
    LET tree == TreeOf(package["pull"].head)  base == main[package["pull"].base]
    IN /\ {file.filename : file \in package["pull-files"]} = {p \in Paths : tree[p] # base[p]}
       /\ \A file \in package["pull-files"] : file.sha = tree[file.filename]

\* Every accepted package is evidence of the candidate's own validator and lockfiles,
\* not of those of another checkout, and its tree has no workflow but the frozen ones.
ControlsAreTheCandidates ==
  package # Nothing =>
    LET tree == TreeOf(package["pull"].head) IN
      /\ package["sources"].files = [p \in SOURCES |-> tree[p]]
      /\ \A p \in WORKFLOWS : IF p \in DOMAIN Frozen THEN tree[p] = Frozen[p] ELSE tree[p] = Absent
=============================================================================
