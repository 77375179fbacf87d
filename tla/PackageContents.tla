---------------------------- MODULE PackageContents ----------------------------
(***************************************************************************)
(* What an evidence package holds, part by part: the files of the          *)
(* candidate's tree, the jobs executed on it, what people said of it, the  *)
(* bundle that holds the responses of a component, and the arrays in the   *)
(* responses.  The rules of validate_package_response_semantics judge each *)
(* part by itself: the modules share no variable.  Beside them stand the   *)
(* lints, which every tree that becomes main has passed.                   *)
(***************************************************************************)
EXTENDS Integers, Sequences, FiniteSets, TLC

CONSTANTS
  \* CandidateTree
  Paths, Contents, WORKFLOWS, Frozen, SOURCES, TreeOrders, MaxTrunk, MaxPushes, MaxTurns, MaxDiff, Absent,
  \* ExecutionProvenance
  REQUIRED_CONTEXTS, CONTEXT_WORKFLOW_PATHS, JobOrders, MaxCandidates, MaxMoves, MaxAttempts,
  \* ReviewDiscussion
  ReviewOrders, MaxTime, MaxSteps,
  \* EndpointBundle
  Ids, Texts, Missing, Null, MaxEdits, MaxRedone,
  \* StableView
  Fields, Domain, Schemas, MaxLength,
  \* RepositoryLints
  Pulls, Docs, RequiredDocs, EditedCrates, Fixtures, Operations, LintedFiles, ScannedPlaces, OtherPlaces,
  EditKinds, MaxMerges,
  None

VARIABLES
  trunk, candidates, newest, checkout, updated, turns, listing, listed, relisted,  \* CandidateTree
  base, head, fork, runs, moves, draft, package, window, sealed, opened,           \* ExecutionProvenance
  clock, current, committed, reviews, threads, steps, heard, said, held, begun,    \* ReviewDiscussion
  posts, edits, responses, redone, bundles,                                        \* EndpointBundle
  values, schema, index, seen, decorated, view, outcome,                           \* StableView
  mainline, merges, edit, checked                                                   \* RepositoryLints

Tree == INSTANCE CandidateTree WITH
  Nothing <- None, Orders <- TreeOrders, MaxMain <- MaxTrunk, MaxHeads <- MaxPushes, MaxMoves <- MaxTurns,
  main <- trunk, heads <- candidates, head <- newest, moves <- turns,
  draft <- listing, package <- listed, window <- relisted

Execution == INSTANCE ExecutionProvenance WITH
  Nothing <- None, Orders <- JobOrders, MaxHeads <- MaxCandidates

Discussion == INSTANCE ReviewDiscussion WITH
  Nothing <- None, Orders <- ReviewOrders, MaxHeads <- MaxCandidates,
  head <- current, draft <- heard, package <- said, window <- held, opened <- begun

Bundle == INSTANCE EndpointBundle WITH Nothing <- None

View == INSTANCE StableView WITH Nothing <- None

Lints == INSTANCE RepositoryLints WITH main <- mainline, Files <- LintedFiles, Kinds <- EditKinds

ASSUME TreeAssumption == Tree!PathsAssumption /\ Tree!OrdersAssumption /\ Tree!BoundsAssumption
ASSUME ExecutionAssumption ==
  Execution!ContextsAssumption /\ Execution!OrdersAssumption /\ Execution!BoundsAssumption
ASSUME DiscussionAssumption == Discussion!BoundsAssumption
ASSUME BundleAssumption == Bundle!TextAssumption /\ Bundle!IdsAssumption /\ Bundle!BoundsAssumption
ASSUME ViewAssumption == View!SchemaAssumption
ASSUME LintAssumption == Lints!DocsAssumption /\ Lints!PlacesAssumption /\ Lints!CratesAssumption

-----------------------------------------------------------------------------
\* An array: the state has its types, and a view depends on the set of items alone; no
\* view holds two items of one identity (derive_stable_array_view).
ViewInv == View!TypeOK /\ View!ViewIsOfTheSet
OneItemPerIdentity == View!OneItemPerIdentity

\* The files: the types; an accepted window lists exactly the files in which the
\* candidate differs from the base it names; sources and workflows of an accepted
\* package are the candidate's own and the frozen ones
\* (validate_merge_ready_sources, the path and control rules).
TreeInv == Tree!TypeOK /\ Tree!FilesAreTheDiff /\ Tree!ControlsAreTheCandidates

\* The executions: the types; an accepted package proves that every required context
\* passed on the merge of this very base and head; an accepted window has no attempt
\* mixed with another (the check, run, job and log rules).
ExecutionInv == Execution!TypeOK /\ Execution!TestedExactly /\ Execution!ChecksHeld

\* Reviews and threads: the types, and that no opinion of an earlier head, dismissed or
\* asking for changes, survives in an accepted window (the review and thread rules of
\* validate_package_response_semantics).
DiscussionInv == Discussion!TypeOK /\ Discussion!NoStaleOpinion

\* A component's bundle (validate_endpoint_bundle_v3, derive_human_body_hashes): the
\* types; hashes of two bundles are equal when all words are; no digest is left over
\* from an answer that was replaced.
BundleInv == Bundle!TypeOK /\ Bundle!HashesAreTheWords /\ Bundle!DigestsAreOfOneAnswer
=============================================================================
