-------------------------- MODULE EvidenceSequence --------------------------
(***************************************************************************)
(* The evidence an owner collects about one pull request, and the rules of *)
(* scripts/validate_governance_state.py that accept or refuse it.  GitHub  *)
(* moves while the owner reads it response by response: a pre-attestation  *)
(* package, an attestation published as a comment, a package at the start  *)
(* and one at the end of the stable window, the merge, a post-merge        *)
(* package.  The validator sees the packages only, never GitHub.           *)
(*                                                                         *)
(* A digest stands for what it digests.  Stamps have the resolution of one *)
(* tick, and several things may happen within a tick, as within a second.  *)
(***************************************************************************)
EXTENDS Integers, Sequences, FiniteSets, SequencesExt

CONSTANTS
  Window,           \* the stable window, 600 seconds in the code
  PageSize,         \* entries of a page, 100 in the code
  Target,           \* what derive_evidence_target_type says of this pull request
  Habits,           \* of owners: a "prompt" one makes all the reads of a package in one
                    \* tick, a "diligent" one also keeps to the procedure, "any" neither
  Orders,           \* the orders of those reads
  Retries,          \* the owner collects anew what is refused
  MaxTime, MaxHeads, MaxForeign,   \* bounds of an instance
  Nothing           \* no value

ONE_TIME_TARGET_TYPES == {"governance-bootstrap", "activation-evidence"}

ASSUME WindowAssumption == Window \in Nat \ {0} /\ PageSize \in Nat \ {0}
ASSUME BoundsAssumption ==
  /\ {MaxTime, MaxHeads} \subseteq Nat \ {0} /\ MaxForeign \in Nat
  /\ Retries \in BOOLEAN /\ Habits \subseteq {"any", "prompt", "diligent"}
  /\ Target \in ONE_TIME_TARGET_TYPES \cup {"ordinary"}

VARIABLES
  clock,      \* UTC, in ticks
  main,       \* the commits of the main branch, each the set of changes in its tree
  trees,      \* the tree of every commit pushed to the pull request
  pull,       \* the pull request
  comments,   \* its conversation, oldest first
  lastId,     \* the id given to the newest comment
  strict,     \* the protection settings are the expected ones
  merged,     \* the merge of the pull request
  foreign,    \* steps of others so far
  habit,      \* of the owner
  stage,      \* what the owner is collecting
  draft,      \* the responses read for it
  pre,        \* the pre-attestation package
  start, end, post,       \* the other packages
  past,       \* for every past tick, the world as the tick ended
  readAt      \* the tick of the first read of the newest package before the merge; no
              \* guard reads these two

github == <<main, trees, pull, comments, lastId, strict, merged>>
owner  == <<habit, stage, draft, pre, start, end, post>>
history == <<past, readAt>>
vars   == <<clock, github, foreign, owner, history>>

-----------------------------------------------------------------------------
\* What a read returns, and what a package is made of.

Tip == Len(main)
Other == 0       \* a change that is not of this pull request
FirstPage(s) == SubSeq(s, 1, IF Len(s) < PageSize THEN Len(s) ELSE PageSize)
PullResponse == [head |-> pull.head, base |-> Tip, body |-> pull.body, open |-> pull.open,
                 updated |-> pull.updated, comments |-> Len(comments)]
Metadata == [head |-> pull.head, base |-> Tip, updated |-> pull.updated]
\* The list endpoint and the single endpoint represent a comment differently.
Native(c, form) == [comment |-> c, form |-> form]
Attestation == {i \in DOMAIN comments : pre # Nothing /\ comments[i].says = pre}

\* The components that may not change across publication are one response,
\* requested for the head of that moment.
Rest == [of |-> pull.head, strict |-> strict]

COMPONENTS(s) ==
  CASE s = "pre" -> {"pull", "metadata", "comments", "rest"}
    [] s \in {"start", "end"} -> {"pull", "metadata", "comments", "rest", "attestation"}
    [] s = "post" -> {"main-ref", "merged"}
    [] OTHER -> {}

Response(l) ==
  CASE l = "pull"        -> {PullResponse}
    [] l = "metadata"    -> {Metadata}
    [] l = "comments"    -> {FirstPage([i \in DOMAIN comments |-> Native(comments[i], "list")])}
    [] l = "rest"        -> {Rest}
    [] l = "attestation" -> {Native(comments[i], "single") : i \in Attestation}
    [] l = "main-ref"    -> {Tip}
    [] l = "merged"      -> {merged} \ {Nothing}

-----------------------------------------------------------------------------
\* The rules.  A package is [phase, pre, snapshot, merge, cutoff]; its
\* pre-attestation is [head, base, tree, cutoff, bundles].

validate_package_request_bindings(b, root) ==
  /\ b["rest"].of = root.head
  /\ Len(b["comments"]) < PageSize

PullValid(b, root, cutoff) ==
  /\ b["pull"].open /\ b["pull"].head = root.head /\ b["pull"].base = root.base
  /\ b["pull"].updated <= cutoff

\* GraphQL and REST speak of the pull request at one moment.
MetadataValid(b, root) ==
  b["metadata"] = [head |-> root.head, base |-> root.base, updated |-> b["pull"].updated]

IssueCommentsValid(b, cutoff) ==
  \A i, j \in DOMAIN b["comments"] :
    /\ b["comments"][i].comment.id = b["comments"][j].comment.id => i = j
    /\ b["comments"][i].comment.updated <= cutoff

SettingsValid(b) == b["rest"].strict

validate_package_response_semantics(b, root, cutoff) ==
  PullValid(b, root, cutoff) /\ MetadataValid(b, root) /\ IssueCommentsValid(b, cutoff)
    /\ SettingsValid(b)

validate_issue_comment_endpoint_equivalence(listed, single) == listed.comment = single.comment

\* Mutant: the stamp of the pull request is not held against the comment's.
DeltaUnstamped(p) ==
  LET before == p.pre.bundles
      after  == p.snapshot
      n      == Len(before["comments"])
      single == after["attestation"]
  IN /\ after["rest"] = before["rest"]
     /\ [after["pull"] EXCEPT !.updated = 0, !.comments = 0]
          = [before["pull"] EXCEPT !.updated = 0, !.comments = 0]
     /\ Len(after["comments"]) = n + 1
     /\ SubSeq(after["comments"], 1, n) = before["comments"]
     /\ Last(after["comments"]).comment = single.comment
     /\ single.comment.by = "owner" /\ single.comment.says = p.pre
     /\ p.pre.cutoff < single.comment.created /\ single.comment.updated <= p.cutoff

\* From before to after publication: the appended attestation and nothing else.
validate_publication_delta_v1(p) ==
  LET before == p.pre.bundles
      after  == p.snapshot
      n      == Len(before["comments"])
      single == after["attestation"]
  IN /\ after["rest"] = before["rest"]
     /\ [after["pull"] EXCEPT !.updated = 0, !.comments = 0]
          = [before["pull"] EXCEPT !.updated = 0, !.comments = 0]
     /\ [after["metadata"] EXCEPT !.updated = 0] = [before["metadata"] EXCEPT !.updated = 0]
     /\ after["metadata"].updated = after["pull"].updated
     /\ before["pull"].comments = n /\ after["pull"].comments = n + 1
     /\ Len(after["comments"]) = n + 1
     /\ SubSeq(after["comments"], 1, n) = before["comments"]
     /\ validate_issue_comment_endpoint_equivalence(Last(after["comments"]), single)
     /\ single.comment.by = "owner" /\ single.comment.rev = 0 /\ single.comment.says = p.pre
     /\ after["pull"].updated = single.comment.updated
     /\ p.pre.cutoff < single.comment.created
     /\ single.comment.created <= single.comment.updated
     /\ single.comment.updated <= p.cutoff

\* Mutant: the parent of the merge is not asked for.
MergeOnAnyBase(m, root, cutoff) ==
  LET done == m["merged"]
  IN /\ m["main-ref"] = done.commit /\ done.tree = root.tree
     /\ done.by = "owner" /\ done.head = root.head
     /\ done.checks # Nothing /\ done.at <= done.checks /\ done.checks <= cutoff

validate_merge_response_semantics(m, root, cutoff) ==
  LET done == m["merged"]
  IN /\ m["main-ref"] = done.commit
     /\ done.tree = root.tree
     /\ done.parent = root.base
     /\ done.by = "owner" /\ done.head = root.head
     /\ done.checks # Nothing
     /\ done.at <= done.checks /\ done.checks <= cutoff

\* Mutant: a package that has an earlier attestation in it is refused.
OneAttestation(p) ==
  /\ validate_package_response_semantics(p.pre.bundles, p.pre, p.pre.cutoff)
  /\ \A i \in DOMAIN p.pre.bundles["comments"] : p.pre.bundles["comments"][i].comment.by # "owner"
  /\ p.phase # "pre" => validate_publication_delta_v1(p)

\* Packages are of this pull request, and all but the first one are complete.
validate_evidence_package_v2(p) ==
  /\ validate_package_request_bindings(p.pre.bundles, p.pre)
  /\ validate_package_response_semantics(p.pre.bundles, p.pre, p.pre.cutoff)
  /\ p.phase # "pre" =>
       /\ validate_package_request_bindings(p.snapshot, p.pre)
       /\ validate_package_response_semantics(p.snapshot, p.pre, p.cutoff)
       /\ p.phase = "post" => validate_merge_response_semantics(p.merge, p.pre, p.cutoff)
       /\ p.cutoff > p.pre.cutoff
       /\ validate_publication_delta_v1(p)

require_merge_ready_freshness(target) == target \in ONE_TIME_TARGET_TYPES

\* The sequences a window is judged by; a lone pre-attestation is judged alone.
StableWindow(s, e) ==
  /\ s.pre = e.pre
  /\ s.snapshot = e.snapshot
  /\ e.cutoff - s.cutoff >= Window

PostMerge(e, q) ==
  /\ q.pre = e.pre
  /\ q.snapshot = e.snapshot
  /\ e.cutoff < q.cutoff
  /\ e.cutoff < q.merge["merged"].at /\ q.merge["merged"].at <= q.cutoff

validate_evidence_sequence(ps) ==
  /\ \A i \in DOMAIN ps : validate_evidence_package_v2(ps[i])
  /\ \/ Len(ps) = 1 /\ ps[1].phase = "pre"
     \/ /\ Len(ps) \in {2, 3}
        /\ StableWindow(ps[1], ps[2])
        /\ Len(ps) = 3 => PostMerge(ps[2], ps[3])

\* What --require-merge-ready adds: the current candidate and a one-time target.
MergeReady(context) ==
  /\ require_merge_ready_freshness(Target)
  /\ validate_evidence_sequence(<<start, end>>)
  /\ context = [head |-> start.pre.head, base |-> start.pre.base, tree |-> start.pre.tree]

WindowAccepted   == end # Nothing /\ validate_evidence_sequence(<<start, end>>)
SequenceAccepted == post # Nothing /\ validate_evidence_sequence(<<start, end, post>>)

-----------------------------------------------------------------------------
World == [pull |-> pull, comments |-> comments, tip |-> Tip]
NoResponses == [l \in {} |-> Nothing]

Init ==
  /\ clock = 1 /\ foreign = 0 /\ past = <<>> /\ readAt = 1
  /\ main = <<{}>> /\ trees = <<{1}>>
  /\ pull = [head |-> 1, body |-> 0, open |-> TRUE, updated |-> 1]
  /\ comments = <<[id |-> 1, by |-> "other", says |-> Nothing, rev |-> 0,
                   created |-> 1, updated |-> 1]>>
  /\ lastId = 1 /\ strict = TRUE /\ merged = Nothing
  /\ habit \in Habits /\ stage = "pre" /\ draft = NoResponses /\ pre = Nothing
  /\ start = Nothing /\ end = Nothing /\ post = Nothing

\* What the validator says of the newest package.
Candidate == [head |-> pull.head, base |-> Tip, tree |-> trees[pull.head]]
Refused ==
  \/ stage = "start" /\ ~validate_evidence_package_v2([phase |-> "pre", pre |-> pre])
  \/ stage = "end" /\ ~validate_evidence_package_v2(start)
  \/ stage = "verify" /\ ~MergeReady(Candidate)

Waiting ==
  \/ stage = "start" /\ clock = pre.cutoff /\ ~Refused
  \/ stage = "end" /\ clock < start.cutoff + Window /\ ~Refused

\* A tick ends, for a diligent owner when there is something to wait for.
Tick ==
  /\ clock < MaxTime
  /\ habit # "any" => draft = NoResponses
  /\ habit = "diligent" => Waiting
  /\ clock' = clock + 1
  /\ past' = Append(past, World)
  /\ UNCHANGED <<github, foreign, owner, readAt>>

\* Others.  GitHub stamps the pull request with every change of its conversation.
Foreign == foreign < MaxForeign /\ foreign' = foreign + 1 /\ UNCHANGED <<clock, owner, history>>
Stamped(p) == pull' = [p EXCEPT !.updated = clock]

\* A push, also a forced one that goes back to an earlier head.
Push(h) ==
  /\ Foreign /\ pull.open /\ h # pull.head
  /\ trees' = IF h \in DOMAIN trees THEN trees ELSE Append(trees, Last(main) \cup {h})
  /\ Stamped([pull EXCEPT !.head = h])
  /\ UNCHANGED <<main, comments, lastId, strict, merged>>

EditBody ==
  /\ Foreign /\ Stamped([pull EXCEPT !.body = 1 - @])
  /\ UNCHANGED <<main, trees, comments, lastId, strict, merged>>

NewComment(by, says) ==
  /\ lastId' = lastId + 1 /\ Stamped(pull)
  /\ comments' = Append(comments, [id |-> lastId', by |-> by, says |-> says, rev |-> 0,
                                   created |-> clock, updated |-> clock])
  /\ UNCHANGED <<main, trees, strict, merged>>

Remark == Foreign /\ NewComment("other", Nothing)

Amend(i) ==
  /\ Foreign /\ Stamped(pull)
  /\ comments' = [comments EXCEPT ![i].rev = 1, ![i].updated = clock]
  /\ UNCHANGED <<main, trees, lastId, strict, merged>>

Retract(i) ==
  /\ Foreign /\ Stamped(pull) /\ comments' = RemoveAt(comments, i)
  /\ UNCHANGED <<main, trees, lastId, strict, merged>>

Reconfigure ==
  /\ Foreign /\ strict' = ~strict
  /\ UNCHANGED <<main, trees, pull, comments, lastId, merged>>

\* Another pull request is merged into main, or the last such merge reverted.
MoveMain ==
  /\ Foreign
  /\ main' = Append(main, IF Other \in Last(main) THEN Last(main) \ {Other}
                                                   ELSE Last(main) \cup {Other})
  /\ UNCHANGED <<trees, pull, comments, lastId, strict, merged>>

\* A squash merge carries the change of the head over to the main of the moment.
Squash(by) ==
  /\ pull.open
  /\ main' = Append(main, Last(main) \cup {pull.head})
  /\ merged' = [commit |-> Len(main'), tree |-> Last(main'), parent |-> Tip, by |-> by,
                head |-> pull.head, at |-> clock, checks |-> Nothing]
  /\ Stamped([pull EXCEPT !.open = FALSE])
  /\ UNCHANGED <<trees, comments, lastId, strict>>

MergeByOther == Foreign /\ Squash("other")

\* The checks that a push to main starts.
PostChecks ==
  /\ merged # Nothing /\ merged.checks = Nothing
  /\ merged' = [merged EXCEPT !.checks = clock]
  /\ UNCHANGED <<clock, main, trees, pull, comments, lastId, strict, foreign, owner, history>>

\* The owner.  A package begins with no response of an earlier one, and the
\* owner goes on with what the validator accepts.
Read(l) ==
  /\ l \in COMPONENTS(stage) \ DOMAIN draft
  /\ \E o \in Orders : \E n \in DOMAIN o :
       o[n] = l /\ DOMAIN draft = {o[i] : i \in 1 .. n - 1} \cap COMPONENTS(stage)
  /\ ~Refused
  /\ habit = "diligent" => ~Waiting /\ (stage = "start" => Attestation # {})
  /\ \E r \in Response(l) :
       draft' = [k \in DOMAIN draft \cup {l} |-> IF k = l THEN r ELSE draft[k]]
  /\ readAt' = IF draft = NoResponses /\ stage # "post" THEN clock ELSE readAt
  /\ UNCHANGED <<clock, github, foreign, habit, stage, pre, start, end, post, past>>

Complete == COMPONENTS(stage) # {} /\ DOMAIN draft = COMPONENTS(stage)
Seal(next) == stage' = next /\ draft' = NoResponses
              /\ UNCHANGED <<clock, github, foreign, habit, history>>

SealPre ==
  /\ stage = "pre" /\ Complete
  /\ pre' = [head |-> draft["pull"].head, base |-> draft["pull"].base,
             tree |-> trees[draft["pull"].head], cutoff |-> clock, bundles |-> draft]
  /\ Seal("start") /\ UNCHANGED <<start, end, post>>

Publish ==
  /\ stage = "start" /\ Attestation = {} /\ ~Refused
  /\ habit = "diligent" => ~Waiting
  /\ NewComment("owner", pre)
  /\ UNCHANGED <<clock, foreign, owner, history>>

Package(phase) == [phase |-> phase, pre |-> pre, snapshot |-> draft, cutoff |-> clock]

SealStart ==
  /\ stage = "start" /\ Complete
  /\ start' = Package("start") /\ Seal("end") /\ UNCHANGED <<pre, end, post>>

SealEnd ==
  /\ stage = "end" /\ Complete
  /\ end' = Package("end") /\ Seal("verify") /\ UNCHANGED <<pre, start, post>>

Verify ==
  /\ stage = "verify"
  /\ MergeReady(Candidate)
  /\ stage' = "merge"
  /\ UNCHANGED <<clock, github, foreign, habit, draft, pre, start, end, post, history>>

\* PUT .../merge names the reviewed head, and GitHub refuses any other.
MergeByOwner ==
  /\ stage = "merge" /\ pull.head = pre.head
  /\ Squash("owner") /\ stage' = "post"
  /\ UNCHANGED <<clock, foreign, habit, draft, pre, start, end, post, history>>

SealPost ==
  /\ stage = "post" /\ Complete
  /\ post' = [phase |-> "post", pre |-> pre, snapshot |-> end.snapshot, merge |-> draft,
              cutoff |-> clock]
  /\ Seal("done") /\ UNCHANGED <<pre, start, end>>

\* What is refused, or can no longer be read or merged, is collected anew.
Restart ==
  /\ Retries
  /\ \/ Refused
     \/ stage = "end" /\ Attestation = {}
     \/ stage = "merge" /\ pull.head # pre.head
  /\ stage' = "pre" /\ draft' = NoResponses
  /\ pre' = Nothing /\ start' = Nothing /\ end' = Nothing
  /\ UNCHANGED <<clock, github, foreign, habit, post, history>>

Next ==
  \/ Tick \/ EditBody \/ Remark \/ Reconfigure \/ MoveMain \/ MergeByOther \/ PostChecks
  \/ \E h \in 1..MaxHeads : h <= Len(trees) + 1 /\ Push(h)
  \/ \E i \in DOMAIN comments : Amend(i) \/ Retract(i)
  \/ \E l \in COMPONENTS(stage) : Read(l)
  \/ SealPre \/ Publish \/ SealStart \/ SealEnd \/ Verify \/ MergeByOwner \/ SealPost
  \/ Restart

Spec == Init /\ [][Next]_vars

\* The owner and time do not stop.  Others may do nothing at all.
Collect ==
  \/ \E l \in COMPONENTS(stage) : Read(l)
  \/ SealPre \/ Publish \/ SealStart \/ SealEnd \/ Verify \/ Restart
FairSpec == Spec /\ WF_vars(Tick) /\ WF_vars(Collect)

-----------------------------------------------------------------------------
\* The shape of the state, and the stages in their order.
TypeOK ==
  /\ clock \in 1..MaxTime /\ Len(past) = clock - 1 /\ readAt \in 1..clock
  /\ foreign \in 0..MaxForeign
  /\ pull.head \in DOMAIN trees /\ Len(trees) <= MaxHeads
  /\ stage \in {"pre", "start", "end", "verify", "merge", "post", "done"}
  /\ DOMAIN draft \subseteq COMPONENTS(stage)
  /\ IF stage = "pre" THEN pre = Nothing ELSE pre.cutoff \in 1 .. clock
  /\ IF stage \in {"pre", "start"} THEN start = Nothing ELSE start.cutoff \in pre.cutoff .. clock
  /\ IF stage \in {"pre", "start", "end"} THEN end = Nothing ELSE end.cutoff \in start.cutoff .. clock
  /\ IF stage # "done" THEN post = Nothing ELSE post.cutoff \in end.cutoff .. clock

Attested == Last(start.snapshot["comments"]).comment
Evident ==
  [pull |-> [head |-> start.pre.head, body |-> start.snapshot["pull"].body, open |-> TRUE,
             updated |-> Attested.updated],
   comments |-> [i \in DOMAIN start.snapshot["comments"] |-> start.snapshot["comments"][i].comment]]
HeldFrom(from, to) ==
  \A t \in from .. to - 1 :
    t \in DOMAIN past /\ past[t].pull = Evident.pull /\ past[t].comments = Evident.comments

\* An accepted window is evidence of an interval and not of two moments, though no
\* read is atomic: from the second of the publication to the first read of the
\* last package, head, text and conversation were those of the packages.
ConversationHeld == WindowAccepted => HeldFrom(Attested.created, readAt)

\* When the owner reads each package within one tick, the interval is as long as
\* the stable window is meant to be.
HeldForTheWindow ==
  WindowAccepted /\ habit # "any" => HeldFrom(start.cutoff, start.cutoff + Window)

\* The state keeps its shape, and an accepted window holds the conversation and the
\* candidate for as long as its reads allow (validate_evidence_sequence).
WindowHeld == TypeOK /\ ConversationHeld /\ HeldForTheWindow

\* An accepted sequence shows more than that the merge has the reviewed tree:
\* main stood still from the pre-attestation to the merge, and the commit after
\* it is the candidate as it was when the attestation stood below it, and nothing
\* else, unless all was read in the very tick of the publication.
OnlyTheCandidateWasMerged ==
  SequenceAccepted =>
    /\ \A t \in pre.cutoff .. merged.at - 1 : past[t].tip = pre.base
    /\ main[pre.base + 1] = trees[pre.head]
    /\ Attested.created < readAt => main[pre.base + 1] = trees[past[Attested.created].pull.head]

\* A refusal is never for good: a diligent owner who collects again after each
\* disturbance, over the comments of the earlier attempts, is accepted at last,
\* unless the pull request is closed, its protection left in disorder, or its
\* conversation, which every attempt lengthens, has filled a page.
AcceptedAtLast ==
  <>(WindowAccepted \/ ~pull.open \/ Len(comments) >= PageSize \/ [](~strict))
=============================================================================
