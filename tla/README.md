# QingYin: formal models

TLA+ models of the stateful core of QingYin, the TLC configurations that check
them and the TLAPS proofs about them. Paths below are relative to the root of the
repository; `PROJECT.json` maps every definition to the lines it models.

## 1. The system

QingYin is a speech gateway at the stage where its ports, in-memory adapters,
session tickets and governance tooling exist and its network services do not yet.

| Component | State it keeps | Operations | Modelled by |
|---|---|---|---|
| Ephemeral TTL store: `qingyin-testkit/src/ttl.rs`, contract in `qingyin-state/src/store.rs` | a mutex over a map from (tenant, key) to value, revision and expiry, and a revision counter | `put_if_absent`, `get`, `compare_and_extend`, `compare_and_take`, `remove` | `TtlStore`, promise in `RevisionLedger` |
| Clock: `testkit/src/clock.rs`, `state/src/time.rs` | a monotonic instant in milliseconds | `now`, `advance`, `checked_add` | `TtlStore` |
| Session tickets: `qingyin-security/src/ticket/` | none of its own, tickets are values of the TTL store | `issue`, `consume`, `revoke` | `TicketService` |
| Principals: `qingyin-security/src/principal.rs` | immutable | `authorize_resource`, construction | guard in `TicketService` |
| Durable store: `testkit/src/durable.rs`, `state/src/model.rs` | generation, sessions, reservations, outbox with its order; per transaction a clone, a dirty flag, a state | `begin`, the inserts, `transition_session`, `append_outbox`, `acknowledge_outbox`, `pending_outbox`, `commit`, `rollback` | `DurableStore` |
| Session lifecycle: `qingyin-types/src/lib.rs`, `SessionRecord` | state, revision, update time | `can_transition_to`, `transitioned` | `SessionLifecycle` |
| Live merge-ready window: end of `scripts/validate_governance_state.py` | one window, one batch deadline, what GitHub serves | `validate_live_merge_ready`, `verify_live_snapshot`, `LiveGitHubReader` | `LiveWindow` |
| Governance decision lifecycle: `parse_triplet` to `validate_activation_diff`, `validate_repository`, `main` of that script | git: `main`, pull requests, their check results; the evidence an owner keeps | the required check, the owner's run with evidence, merges | `DecisionLifecycle`, promise in `Decision` |
| Evidence sequence: `validate_evidence_package_v2` to `validate_evidence_sequence` | the packages of a pull request, its comments, `main` | pre-attestation, attestation, start and end of the window, merge, post-merge | `EvidenceSequence` |
| Findings and agent reviews: `validate_agent_reviews`, `validate_finding_transition` | the ledger file, reports, the attestation | assign, report, dispose, attest, judge each package | `FindingLedger` |
| Responses of a package: `validate_package_response_semantics` | what GitHub has of executions, reviews, threads, files, trees | collect, then judge one response against another | `ExecutionProvenance`, `ReviewDiscussion`, `CandidateTree` |
| Endpoint bundle: `validate_endpoint_bundle_v3`, `human_body_hash_entry` | responses, digests and hashes of what people wrote | collect, repeat a request, hash, accept | `EndpointBundle` |
| Stable view, canonical JSON: `derive_stable_array_view`, `canonical_json_v1`, `parse_json_strict` | none, loops over arrays and texts | order, refuse duplicates, digest | `StableView`, `CanonicalJson` |
| Evidence file: `read_evidence_package_file`, `scan_evidence_payload` | a file that may change, a stack of archives | read up to the limit, expand, scan | `EvidenceScan` |
| Checkout and context: `main`, the candidate's context and parents | event, checkout, options, GitHub's test merge | start by event, on a push or by hand, judge, merge | `CheckoutContext` |
| Lint scripts: `validate_workspace_boundaries.py`, `validate_contract_fixtures.py`, `validate_design_assets.py`, `validate_markdown_links.py`, `validate_secret_regressions.py` | the tree of `main`, open changes | check a merge, merge what was checked | `RepositoryLints` |
| Secrets, identifiers, DTOs, observability | immutable values | validation, formatting, zeroizing | no, no state |
| Admission, gateway, provider, mock provider | none | none: their sources are one doc comment each | no, no code |
| Public contracts and fixtures | none | read by the lint scripts | as inputs of `RepositoryLints` |

### How the parts interact

`TicketService` calls a `TtlStore` through its trait: an issue is a put and then a
get, a consume is a get and then a take, a revoke is a remove. The service holds no
lock across two calls. The store asks its clock for the time *before* it asks for
its mutex. The durable store and the TTL store share nothing: tickets name
sessions by identifier, and nothing in the code joins a session's end to its
tickets. A durable transaction touches the shared store twice, to clone it and to
replace it. The live validator is one process and its environment: GitHub, the
monotonic clock, UTC and the scheduler. The decision's rules run as a required check
on every pull request and once more, with evidence files, on the owner's machine;
what they guard is `main`, which other merges move in the meantime.

An evidence package is made of components (pull request, discussion, review,
checks, runner, paths, controls and more), each an endpoint bundle of responses
that were read one after another. Their arrays are brought into a stable order, their
texts parsed strictly and digested, and the file they are in is scanned before
anything in it is believed. Two packages with equal digests, a window apart,
make the candidate ready; the same owner merges it and collects a last one.

### What is hard

* **Time sampled outside the lock.** A call can be held up for any time between its
  clock sample and its critical section, and meet entries granted or expired since.
* **Two store calls per ticket operation.** Everything may happen between them:
  expiry, another consume, a revoke, the digest issued again.
* **Optimistic transactions.** Lost updates, a clean commit that does not look at
  the store, two outbox structures written separately, counters at their limit.
* **No compare-and-swap at GitHub.** A batch is many reads of a changing world; a
  stalled process can miss every poll; the clock is read three times around one
  deadline. A candidate is checked against one `main` and merged into another.
* **Evidence after the fact.** The validator never sees GitHub, only packages whose
  responses are of different moments. What was changed and changed back between
  two reads must be excluded by stamps, by equal digests, or not be claimed.
* **Ledgers that outlive what they are about.** Findings, reviews, threads, runs and jobs
  of earlier heads stay on record while head and base move.
* **Inputs that change or lie.** A file grows while it is read, an archive declares
  less than it holds, a text has two readings, a request is answered twice.
* **Rules that must hold together.** The decision is one state in three files, and
  the check, the evidence and the merge rules each see a part of its history.

`PROJECT.json` lists these hazards at their lines with the properties that watch
them.

### What correct means

* TTL store: a revision is given out once, lives in one slot, is ended by exactly
  one thing, and never lives again. No holder loses granted time to a slow caller.
* Tickets: used at most once, by the holder of the binding they were issued for;
  the stated validity is the enforced one; a failed issue leaves nothing behind.
* Durable store: its transactions might as well run one after another; no committed
  transition or record is lost, sessions only move along the lifecycle, what a caller was
  told stands, the outbox dispatches each entry in order.
* Live window: a verdict means what the window was introduced for, stability from
  its start to its end, and a verdict or a failure always comes.
* Evidence sequence: an accepted window is evidence of an interval, not of two
  moments; what is merged is the attested candidate on the attested base.
* Findings and reviews: nothing is disposed of on the word of a report about another
  candidate; two opinions are two; no open objection is missed.
* Executions, files and controls: what is on record is of exactly this merge of this
  head, from one attempt, with the candidate's own files.
* Reading: equal digests are equal values, the order of an array tells nothing, all
  bytes of an accepted file were scanned, within bounded memory, and a verdict comes.
* Checkout and lints: what was tested is what is merged, and `main` stays navigable
  and free of credentials, whatever changes meet on it.
* Decision: proposed once with its controls, activated once for the commit that
  proposed it, frozen otherwise, and the same in the three files.

## 2. The modules

```
RevisionLedger         SessionLifecycle <-- SerialStore    LiveWindow      Decision
   ^ implemented by         ^ extended by       ^              ^               ^ implemented by
TtlStore               DurableStore             |          MCLiveWindow    DecisionLifecycle
   ^ extended by            ^                   |                             ^
TicketService          DurableHistory ----------+                          MCDecisionLifecycle
   ^                        ^          implements
MCTicketService        MCDurableStore

PackageContents: instances of CandidateTree,
   ^             ExecutionProvenance, ReviewDiscussion, EndpointBundle, StableView,
   ^             RepositoryLints
   ^ extended by
MCCandidate, which also extends CheckoutContext

EvidenceSequence   <-- MCEvidenceSequence, MCReading (the owner who collects anew)
CanonicalJson, EvidenceScan                                     <-- MCReading
FindingLedger                                                   <-- MCReviews

TicketServiceProofs      of TicketService and of TtlStore, which it extends
DurableStoreProofs       LiveWindowProofs         DecisionLifecycleProofs
EvidenceSequenceProofs   FindingLedgerProofs      CheckoutContextProofs   PackageContentsProofs
```

Each proof module extends the module it is named for, `DurableStoreProofs` by way of
`DurableHistory`.

An MC module of several modules has one instance of each
and a variable `part` that says which of them a behaviour is about. The instances share no state; the
others keep the state they began with. Such a run asks of each module what
a run of its own would ask.

**`RevisionLedger`** is the promise: no clock, no lock, no threads. A revision is
unissued, live, or ended (renewed, taken, removed, expired).

**`TtlStore`** is the code. `clock`, `next_revision` and `entries` are the fields of
`VirtualClock` and `TtlData`; `call[c]` holds what caller `c` sampled before asking
for the lock, `reply[c]` its last answer, and `ledger` records the fate of each
revision, which the code does not keep and no guard reads. `BeginPut`, `BeginExtend`,
`BeginTake` and `BeginPlain` are the part of an operation before the lock; the
actions named as in the code are the critical sections, each beginning with
`purge_if_expired`. A caller may name any revision the counter has reached, also
revisions of other slots or ended ones. Time is in ticks, `TicksPerMilli` to a
millisecond, so that durations below a millisecond occur. A refused ttl returns
before the lock (`RefuseTtl`). An answer of the model carries slot, revision, value and expiry where
an answer of the code carries a part of them.

**`TicketService`** extends `TtlStore`: each of its steps is a store step joined with
what the service does on the answer, so interleavings are those of the store. A
secret is represented by its HMAC digest, and entropy by any choice of digest, so
that collisions happen. `consumed` counts successful consumptions. The service keeps
tickets in a namespace of its own, hence `ValuesAssumption`.

**`SessionLifecycle`** has the transition relation and `transitioned`;
`Joined(from, to, n)` says that a path of exactly `n` transitions leads from one state to
another.

**`DurableStore`** has one action per operation that can change something or that answers
with a session. An operation that is refused, that reads reservations or entries, or
that finds the record it would insert already there changes nothing, and is left out. A
handle is reused after its transaction is finalized; the working copy is dropped then, since
`ensure_active` keeps everyone from it. `moves`, `moved` and `told` are history: the
transitions applied inside a transaction, those of committed ones, and the session records
last answered in a transaction. `transition_session` answers a caller who finds the session
where it was to go before the expected revision is compared (line 120 of `durable.rs`), however late
the caller is: `AnswersHold` says that what a transaction was told, and then committed, the store has
or has moved on from along the lifecycle. A client may insert any record the constructors
give, in a state and with a revision of `FirstSessions`. `Contents` stands for the immutable rest
of a record.

**`SerialStore`** is the promise of the durable store: no snapshots, no generations, no
conflicts. A commit is a run of operations, the first of which saw what is stored at that
moment; what the last left is stored from then on. Its operations say what a write does
to what it sees, with the same `CanMove` and `transitioned` for sessions.

**`DurableHistory`** adds to every step of `DurableStore` what the open transactions have had
before them, `sights[t]`: the snapshot, and the working copy after each write. No guard
reads it and every step determines it, so its behaviours are those of `DurableStore`.
Reads and retries need no entry of their own, since one between two writes
returns from the copy the first of them left. `IsSerial` is `SerialStore` with the store,
generation apart, for its contents. A transaction that writes nothing is not a commit of
`SerialStore`: it read the store as it was when it began, in one piece.

**`LiveWindow`** has one action per point of the script at which time or the world
matter: each request and each answer, each reading of the clock, the sleep and the
wake-up. `_request` checks the batch deadline, `Serve` takes the value as GitHub has
it when the request arrives, `Receive` checks the deadline again and compares.
The originals are in the order of the script, main first and last. Of an original
only "as in the evidence" or not is kept. `Suspend` moves UTC on and leaves the
monotonic clock, as a suspended machine does; `Tick` moves both.

**`Decision`** is the promise about the decision on `main`: absent, proposed with
its controls, active with an effective commit, and no other change.

**`DecisionLifecycle`** is how it is kept. `main` is the first-parent chain of trees,
a commit is a position in it and commit 1 is `SOURCE_COMMIT`. A tree maps the files
the rules name to contents, the plan's and the index's state labels apart from the
rest. `branch[p]` is the head of a pull request with every path its commits touched,
also those a later commit restored. `Check` is `main()` as the workflow runs it,
`VerifyActivation` is `main()` with evidence, and both evaluate
`validate_repository` against the `main` of that moment. The operators carry the names of
the functions. `Merge` may happen any time later: GitHub's `strict` protection is
not relied on, since the decision document itself accepts (`GVN-P1-002`) that the base
can move after it was read. What abstracts from git:
the two workflows are one file; a merge combines whole files; the merge tree and
parent the decision names are determined by its effective commit, as
`validate_activation_diff` requires, and are left out. Before the proposal nothing on
`main` checks anything, so pull requests without the validator merge freely
(`MergeUngoverned`). A head that alters the validator is judged by the rules as they
stand in this repository: that a hostile validator could approve itself is a
matter of review, not of these rules.

The modules about evidence have two sides. What GitHub, people and the
owner can do is external and only as free as the code's use of it shows; the operators
named after the script's functions are its rules. History variables (`past`, `reports`,
`opened`, `passed` and the like) say what was true when it was read; no rule reads them.

**`EvidenceSequence`**: a package is read response by response in one of `Orders`, while
others push, comment, edit, close and merge. `validate_evidence_package_v2` judges one
package, `validate_publication_delta_v1` what publishing the attestation may have
changed, `StableWindow` two packages, `validate_merge_response_semantics` the merge.
Stamps are of one tick, and several things happen within one, as within GitHub's
second. `habit` says how the owner reads: each package within one tick (`"prompt"`),
or as slowly as may be (`"any"`). `"diligent"` is prompt, too, and waits for nothing
else than time. `Retries` lets an owner start again, leaving a comment behind each time.

**`FindingLedger`**: `Assign`, `Report` and `Repeat` are the reviewers' tasks, which the owner
restarts; `Edit`, `Dispose` and `Attest` the owner's file; `Collect` judges a package by
`validate_agent_reviews`, `Transition` and `validate_snapshot`. A head stands for its
tree, a number for the text of a report. The findings reviewers report under their own
ids are never compared with the ledger by the code (lines 1888-1896), so
they are not in the model.

**`PackageContents`** puts side by side what the rules of
`validate_package_response_semantics` judge by itself each: the next three modules, `EndpointBundle` and `StableView`. Beside them stands
`RepositoryLints`. They share no variable. It states what the run checks of them and the theorems prove.

**`ExecutionProvenance`**: GitHub starts a run of every workflow on the merge of base and
head; jobs finish, are run again in part or in whole. The rules compare check runs,
runs, jobs and logs of one package, and `StableWindow` two packages. A rerun
executes the same merge, so that after a move of the base or a reopening
a head can be beyond acceptance until it is pushed anew. Attempts mixed within one package
are only excluded by the second.

**`ReviewDiscussion`**: a review stays with its head, a push carries a thread over or
outdates it, people resolve, dismiss and edit. The rule for outdated threads (from
line 1786) is reached only by a package whose responses are of different moments.
One review on an earlier head keeps later heads from acceptance for good.

**`CandidateTree`**: tree, file list and pull request at three moments, and sources from a
checkout that may be of another head. `OrdersAssumption` has the owner read the pull request
always before the list of its files, or always after it (section 4 says why); that of
`ExecutionProvenance` has it read first, since the requests for checks and runs name its head.

**`StableView`** is `derive_stable_array_view` an item at a time. **`CanonicalJson`** is a
document parsed and digested: an object of a text is a sequence of pairs, that of a
value a function. **`EndpointBundle`** is one component collected twice while
people edit; requests are repeated and a record may be remade in part.
**`EvidenceScan`** is the file read in chunks and the stack of archives. Whether a payload is
opened goes by its media type, as in the code; a zip that is declared as something else
is refused by line 1382 for every label but the workflow logs, and the run's payloads have none.
`CanonicalJson` and `EvidenceScan` have recursive operators and are for TLC only.

**`CheckoutContext`**: a run takes its event, the checked out commit and `main` at three
moments. `Finish` evaluates `main()` for its options; documents are read from the
worktree before its cleanness is checked, as in the code. A run by hand next to an
event is a `cli` run: where both give a context, the code requires them to be equal. `SquashMerge` relies on a
check of the head, as GitHub does.

**`RepositoryLints`**: a change edits links, documents, dependencies and members, fixtures,
operations, places of files or credentials in them; `Check` runs the five scripts on its merge with the `main` of that
moment, and `Merge` needs that `main` unmoved, the strict protection the scripts
rely on.


## 3. The runs

| Run | What it checks | Shows |
|---|---|---|
| `ttl_store` | `Inv`, `AnswersAreTrue`, `PurgeOnlyExpired`, `RenewalNeverRewinds`, `KeepsPromise` | two racing callers, two tenants with the same key, every refusal and limit: the store implements the promise, answers about the asker's slot only, and lets one caller take a revision |
| `ttl_resurrect` | `NeverResurrects`, violated | a divergence of section 6 |
| `ticket_service` | `ConsumedOnce`, `IssuedIsBacked`, `TakenOnlyByOwner`, `FailedIssueLeavesNoTicket` | two callers issue, consume and revoke over colliding digests while tickets expire |
| `ticket_liveness` | `CallsReturn` | with a single digest every second issue collides until its attempts are used up, and still returns |
| `durable_store` | `Inv`, `SessionsFollowLifecycle`, `OutboxIsKept`, `IsSerial` | two transactions insert, read and move one session up to both counters' limits, retry what was done, or append, acknowledge and reserve: whatever the interleaving, the store is one of serial transactions |
| `live_window` | `Inv`, `StableWindow`, `Terminates` | originals that drift or change back: what a verdict means with and without reverts, and that a verdict or a failure always comes |
| `decision_lifecycle` | `Inv`, `EffectiveIsTheBootstrap`, `KeepsDecision` | three pull requests, right and wrong changes, a moving `main`: the promise of `Decision` is kept |
| `decision_activates` | `ReadyActivates`, violated | a divergence of section 6 |
| `reading` | `ScanInv`, `VerdictComes`, `JsonInv`, `AcceptedAtLast` | how a file is read and its texts digested, and that the owner who collects again what others made stale is accepted in the end |
| `reviews` | `TypeOK`, `TwoOpinions`, `AttestedAsJudged`, `DispositionsAreFresh` | the ledger from one candidate to the next, through a whole window, and with a task started over whose text comes back as the other's |
| `candidate` | `TestedIsTheCandidate`, `CheckoutInv`, `VerdictsAreInContext`, `TreeInv`, `ExecutionInv`, `DiscussionInv`, `BundleInv`, `ViewInv`, `OneItemPerIdentity`, `LintInv` | that what was tested and linted is what reaches `main`; what an accepted package and an accepted window say of files, executions, reviews and posts, whose responses are of different moments |
| `evidence_sequence` | `WindowHeld`, `OnlyTheCandidateWasMerged` | a slow and a prompt owner, and others who push, talk, edit and merge: what an accepted window and an accepted merge say |

The names that end in `Inv` are conjunctions of named parts, beginning with the type
invariant of their module:

| Invariant | Parts beside `TypeOK` |
|---|---|
| `TtlStore!Inv` | `EntriesMatchLedger`, `SamplesInThePast` |
| `DurableStore!Inv` | `CleanMeansUnchanged`, `OutboxOrderIsComplete`, `OneWriterPerGeneration`, `NoLostTransition`, `AnswersHold` |
| `LiveWindow!Inv` | `Bracketed`, `LastReadsTogether` |
| `DecisionLifecycle!Inv` | `CopiesAgree` |
| `ViewInv` | `ViewIsOfTheSet` |
| `ScanInv` | `HeldBytesAreBounded`, `NothingIsUnscanned` |
| `JsonInv` | `DigestIsTheValue`, `ReadersAgree` |
| `BundleInv` | `HashesAreTheWords`, `DigestsAreOfOneAnswer` |
| `DiscussionInv` | `NoStaleOpinion` |
| `CheckoutInv` | `MainWasTested` |
| `TreeInv` | `FilesAreTheDiff`, `ControlsAreTheCandidates` |
| `ExecutionInv` | `TestedExactly`, `ChecksHeld` |
| `LintInv` | `MainIsNavigable`, `NoCredentialInSight` (`RepositoryLints!MainIsClean`) |
| `WindowHeld` | `ConversationHeld`, and `HeldForTheWindow`, which is about a prompt owner |

`AnswersAreTrue` is `RepliesAreTrue` and `OneTaker`; `OutboxIsKept` is `NothingTakenBack`
and `PendingKeepsOrder`.

Each property has a mutant in `PROJECT.json`: an operator, preceded by a `Mutant`
comment, that replaces a definition by the way a plausible bug would write it and
makes TLC refute the property in the same run.

### Bounds, and why they are enough

* **Callers, transactions: 2.** Every property relates one revision, session or
  outbox entry to at most two actors. What a third one could do, the first can do
  again after its call, since callers and handles are reused.
* **Keys and tenants.** The store handles a slot without looking at another one; two
  tenants with the same key are enough for its invariants and for leaks between them.
  Tickets run with two digests, so that an issue can collide and can also avoid it.
* **`MaxRevision` 2 or 3, `MaxMillis` 1 to 3.** The bounds are the code's own u64 limits made
  small, not guards added to the model: the behaviour at the limit is the code's.
  Two revisions allow a grant and its renewal or regrant and the refusal after it.
  `Ttls = {0, 1, 2, 5}` with two ticks to a millisecond has the zero ttl, the
  sub-millisecond one, an exact one and one that ends between milliseconds.
* **`MaxGeneration = 3`, `MaxSessionRevision = 3`.** Also limits of the code. Three
  commits let a transaction begin, be overtaken, retry, and meet the limit.
* **`OneKind`.** Sessions, reservations and outbox meet only in the generation, the dirty
  flag and the whole-store commit. A behaviour is followed while it has sessions
  alone, through four commits, or reservations and outbox, through three, of at most two
  writes each: two transactions that both append, acknowledge what the other appended, or
  reserve, and a third that meets what they left.
* **`FirstSessions`.** Clients may insert a record in any state it can have reached: here a
  new one, and one that became active by a transition before it was stored, from which
  the revision bound reaches the retry loop and an end of the chain.
* **Live window.** A poll and a batch last one unit of time, the window two, so
  that polls end before, at and after the deadline and batches can time out.
  `MaxMono` and `MaxStart` bound time and the start of the window; `TimeAssumption`
  says the window can always end. In the code a poll is 30 s, a batch 180 s and the window
  600 s: the same order, other ratios.
* **Decision.** Three pull requests: the proposal, the activation, and one that
  interferes with either or comes after both. `MaxMain = 4` is the length of `main`
  when all are merged; `MaxPushes = 5` gives the three two pushes to spare for a push
  that is taken back, an update from `main` or a second attempt. Each push changes one
  file, or makes the set of changes of a proposal or an activation, right or wrong.
  `CheckDemandsEvidence` is `TRUE` in the code and in `decision_activates`. It is `FALSE` in
  `decision_lifecycle`, which allows every behaviour the code has and also those
  after an activation, which the code never reaches (section 6): what holds
  there holds of the code, and says what would hold once the check is repaired.
* **Evidence sequence.** The window is one tick, the page four or five entries: two
  attestations and somebody's comments fill it. Two heads and two acts of others are
  what every refusal needs. `Hopeful` leaves a behaviour where a package was refused for good
  or no time is left for a window, since all that is claimed is about accepted
  ones; the slow owner reads in the order of the inventory, the prompt one in that order or
  its reverse, and both go on to the merge. Ten ticks give the owner who retries time for
  an attempt after the last disturbance there can be.
* **Reviews.** Two heads, of which the second repairs two findings; one common and one
  one-time residual and one of lesser severity; acceptances lapse within the
  run. One of two tasks is started over once in the part `again`, which accepts both fixed findings and
  nothing else. Where the candidate moves, `FewEntries` follows one ledger entry and no
  window, since an entry is judged without looking at the others.
* **Candidate.** Up to three commits of `main`, two heads, or two and three, and three runs: a run
  from before a push, one from after it, and one started over. Two open changes with three merges for
  the lints.
* **Package contents** (in `candidate`). A frozen workflow, a path for another one and a source,
  with two contents, and two commits of `main` with two heads or one with three: a push, an update from `main` and a switch of the checkout can fall between
  any two reads. Two jobs in one workflow and one in another, two attempts, one move of head or
  base. `Bounded` has the other workflow succeed at once, and no job run again where something
  moves, since the moved head has runs of its own. Reviews and threads take four steps of others on
  two heads, the last of them after the first package, with up to two reviews. Two posts of two texts, one edit and one repeated request for
  the bundle. Arrays of up to four items over three fields of two values have every tie of
  every prefix of a key.
* **Reading.** Texts are scalars, lists and objects of up to two
  members and a few nested ones. The file is up to twice the limit, in chunks of
  two thirds of it, with archives down to one level more than allowed.

Symmetry is used over callers, tenants, transactions, outbox identifiers and reviewers
in runs without a liveness property. `CHECK_DEADLOCK FALSE` is set where the
system ends: the live window after its verdict, pull requests when merged or closed,
packages, files and arrays when judged. The TTL store, the tickets and
the durable store must be able to go on for ever, and TLC checks it.

### Fairness

* `FairTicketSpec`: weak fairness of `Work(c)` for each caller. A thread inside a call
  runs on, and the mutex guards short sections without waits, so it is obtained in
  the end. Nothing obliges a client to call or time to pass.
* `LiveWindow!FairSpec`: weak fairness of the process's `Step` (it is scheduled
  again, and each request has a transport timeout) and of `Tick`. None for
  suspension, for answers or for changes at GitHub: a request that is not answered
  ends as a lost one.
* `EvidenceSequence!FairSpec`: weak fairness of `Tick` (time passes) and `Collect` (a
  diligent owner goes on with the next read). None for anyone else at GitHub.
* `EvidenceScan!FairSpec`: weak fairness of `Reader`, a loop that never waits. Nothing
  keeps the file from growing for ever.
* `DecisionLifecycle!FairSpec`: weak fairness of `Owner(p)` (checks run on every
  push, and the owner merges what is ready) and of `CollectPostMerge`. Authors are
  free to do nothing.

## 4. What is proved

The proofs hold for any values of the constants that satisfy the named assumptions of
their module, which TLC evaluates in the runs. Every inductive invariant below was checked
by TLC on the run of its module before it was proved.

**TTL store** (`TicketServiceProofs`, first part), from `BoundsAssumption` (limits and
durations are naturals, a millisecond is at least one tick) and `ModelValueAssumption`
(the markers for "nothing" differ from real values):

* **`Invariance`** (`Spec => []Inv`, the `Inv` of the run), and of its parts `TypeCorrect`,
  `MapIsTheLiveRevisions`, `SamplesAreOld`. The inductive
  invariant is `Inv == TypeOK /\ EntriesMatchLedger /\ SamplesInThePast`. No part stands alone:
  granting a revision keeps the map and the ledger in step only
  because the counter is above every used revision (`EntriesMatchLedger`), and that
  a renewal starts after the lease it names needs that revision to have been
  issued when the call began. There is one lemma per
  critical section shape (`DeletePreservesInv`, `GrantPreservesInv`,
  `LookPreservesInv`); `ReturnCases` shows that each of the five operations ends in
  one of them.
* **`PurgesAreDue`, `RenewalsNeverRewind`.** From `HowARevisionEnds`: a live revision is
  ended only by a delete of its entry or by a grant over it, in the slot it
  belongs to. What the delayed sample then allows follows from `SamplesInThePast`.
* **`AnswersHold`** (`Spec => []AnswersAreTrue`): what a caller was told of a revision
  stays true of the revision's record, and of racing callers one is told `Taken`. Added to the
  invariant is `ToldOfIssued`: no answer names a revision that is still to be handed out,
  so that a later grant cannot make it false.
* **`StoreKeepsPromise`** (`Spec => KeepsPromise`): the refinement. The ledger forgets the
  instant of the grant; every critical section maps to `End`, `Issue`, `Renew` or a
  stutter, everything else to a stutter. `IsNext` in the promise is where
  uniqueness of revisions is used.
* **`OneLive`, `EndsAreFinal`**, of the store itself: one live revision per slot, and an
  ended revision stays ended.

**Tickets** (`TicketServiceProofs`, second part), from the above and `PolicyAssumption`,
`ValuesAssumption` (the namespace holds tickets and nothing else) and `NoTaskAssumption`.
`TicketService` holds no lock, so that any call may run between two store operations of
one issue or consumption.

* **`TicketInvariance`**. `TicketInv` adds to the store's `Inv`: `Standing`, what each
  caller learnt in its last store operation and relies on in the next; `Backed`, the
  same of an issued ticket; `PolicyKept`, every entry lives for the policy's time from its
  grant; `TakesCounted`. `Standing` is stable because a record of the ledger never
  changes its slot, value or grant, which one lemma says once for all steps.
* **`ServiceUsesTheStore`** (`TicketSpec => Spec`): every step of the service is a step of
  the store or none, so every theorem above holds of the store under the service.
  `consume` passes a revision it was told of; that it names a revision the counter has
  reached is `Standing`, which is why the refinement needs the invariant.
* **`ConsumedAtMostOnce`, `TicketsAreBacked`**, and the action properties
  **`OwnersTake`** and **`FailuresLeaveNothing`**: a take that succeeds returns the ticket to the
  binding it was issued for, and an issue that fails after its put leaves no live ticket.

**Durable store** (`DurableStoreProofs`), from `StoreBounds` and `NoneAssumption`:
**`Invariance`** (with `NoLostTransition`), **`LifecycleIsFollowed`** (`SessionsFollowLifecycle`),
**`PublishedStays`** (`NothingTakenBack`) and the refinement **`Serializable`**
(`HistorySpec => IsSerial`). A commit replaces the
whole store, so nothing can be said of it without saying what a working copy may
be. `IInv` says it of the copies that can still be committed (`OnStore`):
`CountsAgree`, revisions count the committed and the pending transitions; `WorkExtends`, the copy
is the store with records added, acknowledged or moved along the lifecycle. `Behind` says
that a commit that wrote has moved the generation on, so that all other
copies cease to be `OnStore` and are owed nothing. Paths of the lifecycle are
concatenated explicitly (`Joined`), which needs no induction.

`Serializable` adds `Runs` to that invariant: the sights of an active transaction are a
run of serial operations that ends with its working copy, and begins with what is
stored for as long as its generation is the store's. Each write appends one
operation (`WriteRuns`, one lemma per operation); a commit that replaces the store leaves all
others behind (`Behind`), so that the second half is owed to none of them; and one
that may replace it is `OnStore`, so that its run begins with the store and is a
`Commit` of `SerialStore`. The comparison of generations is all that makes it so:
without it TLC refutes `IsSerial` with two transactions that write on one snapshot.

`AnswersHold` is proved with `ToldInv`: what an active transaction was told, its working copy has or
has moved on from; what a committed one was told, the store has or has moved on from. The first
becomes the second with the commit (`commitTold`), also of a transaction that wrote nothing and
commits without a look at a store that went on from its snapshot: of a clean copy `Told` keeps
that the store's sessions follow its own, which every commit of others preserves.

**Live window** (`LiveWindowProofs`), from `TimeAssumption` and `MarkAssumption`:
**`Invariance`** and **`WindowIsStable`**, for any number of originals, any window, poll and
batch time. `Inv` and `StableWindow` speak of the verdict; the inductive
invariant has to follow the batch under way: `ReadBefore`, of the opening batch, what it
served before the window began; `ReadAfter`, of the ending one, that it began after
the deadline and serves everything within one batch's time; `Unchanged`, that an answer
as in the evidence, while nothing reverted, excludes an earlier change.

**Decision** (`DecisionLifecycleProofs`), from `PrAssumption` and `NoneAssumption`:
**`LifecycleInvariance`**, **`Invariance`**, **`ActiveNamesTheBootstrap`** and the refinement
**`MainKeepsThePromise`** (`Spec => KeepsDecision`), for any number of pull requests, pushes and
merges. A merge looks at an earlier check only. `CheckInv` therefore remembers, of a checked head,
some commit of `main` it passed on (`PassedOn`), and `MainInv` says how `main` can
have moved since: any later tree keeps what an earlier one decided (`Keeps`), and an
activation is the merge of the pull request the decision names, which happens
once. `BranchInv` says that no branch lacks the validator its base had.

**Evidence sequence** (`EvidenceSequenceProofs`), from `WindowAssumption` and `BoundsAssumption`:
**`WindowsAreHeld`** (`Spec => []WindowHeld`) and **`CandidatesAreMerged`**
(`Spec => []OnlyTheCandidateWasMerged`), for any owner, orders of reads, page, window and number of
acts of others. No read is atomic and a package holds no history. The inductive invariant is
in two parts.

* `WorldInv` says what stamps are worth: since the stamp of the pull request nothing of it or of its
  conversation has changed (`Held`); and of any earlier tick `Surviving`, that if a comment
  old enough to have been there now stands at the last place of that tick's conversation,
  the conversation is the same up to there. Comments
  are only appended, changed or removed, and a removal moves the later ones down, so a
  count that agrees leaves room for one history only. This, and not the stamp, is what
  excludes a comment retracted and another written between two reads.
* `OwnerInv` says what each read told: `LastReads` has the two facts above for the responses
  of the last package, and holds whichever of them was read first. Forced pushes, further
  ticks and the merge leave it true (`OwnerStays`).

`AcceptedReads` collects what `validate_evidence_package_v2` and `StableWindow` add. For the merge,
`MergeInv` says that `main` had not passed the merge's parent before, `PreInv` that
it had reached the reviewed base.

**Finding ledger** (`FindingLedgerProofs`), from `NumbersAssumption` and `IdsAssumption` (two reviewers,
and the residuals are P1): **`TypeCorrect`**; **`OnlyFreshDispositions`**, that no
accepted pre-attestation disposes of a finding on the word of a report about another
candidate; **`OpinionsAreTwo`** and **`AttestationIsJudged`**. Most entries name a head and no base;
the base comes from the reports an entry cites. The invariant therefore adds `ReviewsInv`, a
review cites a report about its own candidate, and `LedgerInv`, an entry cites reports about
bases no newer than its own. Bases only go forward, so the entry was made no earlier than the
reviews it cites began, and the package was collected no earlier than the entry was made.
`OpinionsInv` and `PackageInv` follow a text that comes back as the other reviewer's: while the other's
task stands by the same text the package is refused, and once it has been
started over the text beside it is a newer one. `WindowInv` says that every package of the window
was judged against the pre-attestation and the attestation as they still are.

**Package contents** (`PackageContentsProofs`), of each component by itself. Files, executions and
discussion share an argument: what is at GitHub only grows, a response tells what was there when it was
read, and two equal packages tell what was there in between. The other orders of reads and the
numbers of files, runs, reviews, posts and moves are arbitrary.

* **`FilesAreKnown`** (`Tree!Spec => []TreeInv`), from `TreeAssumption`. `PullWasRead` says of a
  response that its head was the head until the stamp moves on, `SourcesWereRead` that its
  sources and workflows are of the commit the checkout was at. A list of files is read with the pull
  request on one side of it only; the other package's equal pull request closes the other side.
  `PullFirstInv` and `FilesFirstInv` say which side is which for the two ways of an owner, and
  need `OrdersAssumption`. It is needed: with owners who mix the orders
  TLC finds an accepted window that lists the files of a head between two pushes,
  the second of which takes the first back. The first package reads the list before the pull request and the second after
  it, or the reverse, and the equal pull requests are then both on the same side of both
  lists. `COMPONENT_INVENTORY` (lines 243-257 of the script) has one fixed order, with `pr`
  before `paths`, and the decision document repeats it (line 254), but neither the script nor a
  package records in which order the reads were made.
* **`TestsAreOfTheCandidate`** (`Execution!Spec => []ExecutionInv`), from `ExecutionAssumption`, for
  every order of reads that begins with the pull request. `SeenBefore` says what the elements of a response
  still say of runs that have grown since, `SealedInv` that of the first package when it is
  complete, and `OpenedInv` of the runs as they were when the last package was begun. `RunsGrow` is the order they grow in: runs
  are added, jobs end or are started again, and nothing is taken back. A run or an
  attempt that both packages lack was then not there in between (`WindowInv`).
* **`NoOpinionIsStale`** (`Discussion!Spec => []DiscussionInv`), from `DiscussionAssumption`. Reviews
  become more or dismissed (`LaterReviews`), and every thread was opened by a review of its
  head, so that a review that is left out of the threads is still in the reviews, whichever was read
  first (`SinceBegun`).
* **`HashesTellWhatWasSaid`** (`Bundle!Spec => []BundleInv`), from `BundleAssumption`. A record that is remade in
  part never is accepted (`RecordSound`, `BundleSound`), and two items of one label with the same entry are
  the same item, so that entries and words are counted alike.
* **`MainStaysClean`** (`Lints!Spec => []Lints!MainIsClean`), from `LintAssumption`, for any pull
  requests, docs, files and edits. `ChecksAreOfTheTip` says what a check that stands is a check of:
  the very tree the merge would make. A merge takes all other checks away, which is the
  strict protection; with `Loose` the lemma `PullMerged` fails.
* **`OneIdentityEach`**, for arrays of any length and every schema. The
  invariant says that `seen` is the set of identities of the examined part of the array and
  that they are distinct, so that what is accepted has one item of each and what is refused has
  a repetition.

**Checkout** (`CheckoutContextProofs`): **`RunsTestTheCandidate`**,
**`VerdictsKeepTheirContext`** and **`MergesAreTested`**. The invariant `IInv` is in three parts:
`HistoryInv`, `main` and heads only grow; `CommitsInv`, the event and the test merge at hand are a
known candidate and a real merge; `RunsInv`, every run began with such a commit, and what
passed agreed with its event. `MergedInv` adds that a squash merge put on `main` the tree of a
head for which a run had passed. `Grown` and the lemmas `...Stays` carry all of them over
pushes and merges.

## 5. What is only model-checked

* `CallsReturn`, `Terminates`, `VerdictComes`, `AcceptedAtLast`: liveness needs fairness and
  `ENABLED`, which the prover does not handle.
* `PendingKeepsOrder` of `OutboxIsKept` speaks of `SelectSeq`, and `ViewIsOfTheSet` of a sort: what
  they compute for every sequence needs induction over data, out of the prover's
  reach. The other part of `OutboxIsKept` is `NothingTakenBack` and proved.
* What `CanonicalJson` and `EvidenceScan` say: their operators are recursive
  (`JsonInv`, `ScanInv`).

## 6. Divergences between documents and code

**Resurrection.** `crates/qingyin-state/src/store.rs:97-98` asks implementations to treat
`now >= expires_at` as absent and never to resurrect an expired value.
`compare_and_extend` (`crates/qingyin-testkit/src/ttl.rs:123`) samples the clock
before it takes the lock. If the clock reaches the expiry in between, the entry is
live by the old sample and gets a later expiry: `ttl_resurrect` shows a
value with expiry 1 renewed to 2 when the clock already stands at 1. No other
caller need have seen it absent; if one had, its purge would have removed it. What
does hold is `RenewalNeverRewinds`: the new lease is counted from the sample, so a delayed
renewal cannot gain time by being late.

**Activation.** The decision document (`docs/04-delivery/QingYin_DEC-20260829-001_单维护者合并治理.md`,
section 9) lets the evidence pull request pass the ordinary protected merge, after
which the decision is `ACTIVE`. The required check `contract-fixtures` runs
`validate_governance_state.py --self-test` without evidence
(`.github/workflows/design-contracts.yml:37`), and `main()` fails an activation that brings none
(lines 8464-8465). The evidence could not be supplied either: it has to hold a
successful run of that same check (line 1965). `decision_activates` shows a correct
activation waiting for ever; with `CheckDemandsEvidence = FALSE` and otherwise the
same configuration `ReadyActivates` holds.

**The same input twice.** The decision document asks of the two agent reviews that reviewers,
inputs and reports differ
(`docs/04-delivery/QingYin_DEC-20260829-001_单维护者合并治理.md:145`). `validate_agent_reviews`
compares the reviewers' ids and the hashes of the reports (lines 1907-1908 of
the script) and not the inputs. `FindingLedger` models the code; `TwoOpinions` is what
holds without it. Nor can the script tell a text that comes back: line 139 of the document says that a
report handed in again does not count, but of a task that was started over, the report of its earlier
run may be handed in as the other reviewer's, and differs from the one beside
it.

**The exact graph.** The docstrings of `scripts/validate_workspace_boundaries.py` (lines 2 and
37) promise the exact internal dependency graph. Line 58 reads the `dependencies`
table alone, and `crates/qingyin-security/Cargo.toml:28` already has a dev-dependency
on `qingyin-testkit` that is not in the expected graph. `validate_workspace_boundaries` is
modelled with the edges the script does read, each crate's compared with the table by itself: nothing
that several changes do together can lead to a graph that the table does not have.

### What the code accepts knowingly

The 600 seconds of the window are between two declared cutoffs and not between reads. For an
owner who is slow, what holds is `ConversationHeld`, an interval that ends with the
first read of the last package; the full length needs one who reads promptly
(`HeldForTheWindow`). The decision document lists this as `GVN-P1-005`. Protection settings
have no stamp, and may be changed and changed back between two reads unseen. Each
attempt leaves a comment, and a conversation that fills its first page of 100
can never be accepted again: `AcceptedAtLast` says so.

## 7. What is not modelled

* Poisoned mutexes: a panic inside a critical section of the in-memory adapters
  makes every later call fail with a fixed error and change nothing.
* HMAC, base64 and zeroizing: only equality of digests matters to the service.
* Limits on the length of keys, values and records, refused at construction.
* Field formats of GitHub's answers (ids, hashes, timestamps, URLs), identities, security
  settings and lockfile contents: comparisons of one field with one constant.
* What a credential looks like: a file or a member has one or not. Packages nested in
  strings of other packages and the scan of Python literals (lines 3529-3555).
* The self-tests of the governance script (lines 3800 to 8286): they build documents and
  mutate them to test the rules that are modelled, and have no behaviour of their own.
* Secrets, identifiers, DTOs, observability: immutable values, validated or formatted; the
  public contracts, which describe interfaces; the placeholder crates, without code.
* Crashes: the stores are in memory, and nothing survives the process. Evidence is in
  files that are judged anew each time.

## 8. Plan

Done: the store with its promise, tickets over it, the durable store with its promise, the
live window, the decision lifecycle, the evidence sequence, the finding ledger, the checkout and
the contents of a package, with their safety properties proved, and the lints; scans, canonical JSON and the order
of a view checked. What is left is a reader of recorded packages that compares the
moments of their reads, should the script come to record them; `OrdersAssumption` would then be
a rule.
