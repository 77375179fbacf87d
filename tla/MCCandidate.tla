------------------------------ MODULE MCCandidate ------------------------------
(***************************************************************************)
(* Small instances of what is known of a candidate: the checkout a run     *)
(* judges, the contents of a package about it, and the lints that keep     *)
(* main in order.  The parts share no state: a behaviour has one of them   *)
(* go on, and the others stay as they began.                               *)
(***************************************************************************)
EXTENDS CheckoutContext, PackageContents

CONSTANTS rust, extra, doc, lint, unit, fixtures, p1, p2

VARIABLE part     \* which of them goes on

\* A main that moves and is merged into, a pull request that is pushed to again and
\* again, and every kind of run, on fewer commits.
Merges == INSTANCE CheckoutContext WITH MaxHeads <- 2
Pushes == INSTANCE CheckoutContext WITH MaxMain <- 2
Verdicts == INSTANCE CheckoutContext WITH
  Kinds <- {"push", "cli", "pull_request"}, MaxMain <- 2, MaxHeads <- 2, MaxRuns <- 1

\* Pull requests that edit documents and what belongs to them, or crates and other files.
Workspace == {"depend", "forgo", "drop", "leak", "move"}
OnDocuments == INSTANCE RepositoryLints WITH main <- mainline, Files <- LintedFiles, Kinds <- EditKinds \ Workspace
OnWorkspace == INSTANCE RepositoryLints WITH main <- mainline, Files <- LintedFiles, Kinds <- Workspace

-----------------------------------------------------------------------------
\* One frozen workflow, a path for another one, and a source.
MCFrozen == rust :> 0
MCTreeOrders == {<<"pull-files", "pull", "workflow-blobs", "sources">>}

\* Two jobs in one workflow and a third one in another.
MCPaths == (lint :> "rust") @@ (unit :> "rust") @@ (fixtures :> "design")
MCJobOrders == {<<"pull", "check-runs", "workflow-runs", "workflow-jobs", "workflow-logs">>}

MCReviewOrders == {<<"pull", "candidate-commit", "github-reviews", "review-threads">>,
                   <<"github-reviews", "review-threads", "pull", "candidate-commit">>}

\* Items of an id, a name and the rest, ordered by a key that begins with the
\* identity, as all the validator's do, and by two more general ones, for which the
\* canonical text of the item has to decide.
MCFields == <<"body", "id", "name">>
MCSchemas == {[primary |-> <<"id">>, unique |-> <<"id">>],
              [primary |-> <<"id", "name">>, unique |-> <<"id">>],
              [primary |-> <<"name", "body">>, unique |-> <<"id">>],
              [primary |-> <<"name">>, unique |-> <<"id">>]}

-----------------------------------------------------------------------------
treeVars == <<trunk, candidates, newest, checkout, updated, turns, listing, listed, relisted>>
jobVars  == <<base, head, fork, runs, moves, draft, package, window, sealed, opened>>
talkVars == <<clock, current, committed, reviews, threads, steps, heard, said, held, begun>>
bundleVars == <<posts, edits, responses, redone, bundles>>
viewVars == <<values, schema, index, seen, decorated, view, outcome>>
lintVars == <<mainline, merges, edit, checked>>

NoPosts == \A l \in Bundle!LABELS : posts[l] = <<>>
NoItems == values = <<>> /\ schema = [primary |-> <<"id">>, unique |-> <<"id">>]

MCInit ==
  /\ part \in {"merges", "pushes", "verdicts", "tree", "execution", "discussion", "bundle", "view",
               "documents", "workspace"}
  /\ Init /\ Tree!Init /\ Execution!Init /\ Discussion!Init
  /\ Bundle!Init /\ (part # "bundle" => NoPosts)
  /\ View!Init /\ (part # "view" => NoItems)
  /\ Lints!Init

MCNext ==
  \/ /\ \/ part = "merges" /\ Merges!Next
        \/ part = "pushes" /\ Pushes!Next
        \/ part = "verdicts" /\ Verdicts!Next
     /\ UNCHANGED <<part, treeVars, jobVars, talkVars, bundleVars, viewVars, lintVars>>
  \/ /\ part = "tree" /\ Tree!Next
     /\ UNCHANGED <<part, vars, jobVars, talkVars, bundleVars, viewVars, lintVars>>
  \/ /\ part = "execution" /\ Execution!Next
     /\ UNCHANGED <<part, vars, treeVars, talkVars, bundleVars, viewVars, lintVars>>
  \/ /\ part = "discussion" /\ Discussion!Next
     /\ UNCHANGED <<part, vars, treeVars, jobVars, bundleVars, viewVars, lintVars>>
  \/ /\ part = "bundle" /\ Bundle!Next
     /\ UNCHANGED <<part, vars, treeVars, jobVars, talkVars, viewVars, lintVars>>
  \/ /\ part = "view" /\ View!Next
     /\ UNCHANGED <<part, vars, treeVars, jobVars, talkVars, bundleVars, lintVars>>
  \/ /\ \/ part = "documents" /\ OnDocuments!Next
        \/ part = "workspace" /\ OnWorkspace!Next
     /\ UNCHANGED <<part, vars, treeVars, jobVars, talkVars, bundleVars, viewVars>>

MCSpec == MCInit /\ [][MCNext]_<<part, vars, treeVars, jobVars, talkVars, bundleVars, viewVars, lintVars>>

\* Bounds: jobs of the second workflow succeed at once, and where head or base move before
\* others end, none of which is run again; a pull request has up to two reviews, and the
\* last step of others is after the first package of a window; heads and main of a tree do
\* not both grow to their full length.
Bounded ==
  /\ \A i \in DOMAIN runs :
       /\ "design" = runs[i].workflow => runs[i].attempt = 1 /\ Execution!States(i) # {"failure"}
       /\ moves > 0 => runs[i].attempt = 1
       /\ moves > 0 /\ "rust" = runs[i].workflow /\ Execution!States(i) # {"running"} =>
            \A j \in DOMAIN runs : runs[j].workflow = "design" => Execution!States(j) = {"success"}
  /\ Len(reviews) <= 2
  /\ steps = MaxSteps => said # None
  /\ Len(trunk) + Len(candidates) <= 4

-----------------------------------------------------------------------------
\* Main, whatever pull requests are open at the same time: the types, no dead link
\* (validate_markdown_links), no credential where the scan looks, written or moved
\* (validate_secret_regressions).
LintInv == part \in {"documents", "workspace"} => Lints!MainIsClean
=============================================================================
