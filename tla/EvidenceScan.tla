------------------------------ MODULE EvidenceScan ------------------------------
(***************************************************************************)
(* How an evidence file is taken in: read_evidence_package_file and the    *)
(* scan of scripts/validate_governance_state.py, which looks for credential*)
(* patterns in every response, and in the members of archives in archives. *)
(* The file may grow or shrink while it is read, and an archive may declare*)
(* other sizes than its members have.                                      *)
(*                                                                         *)
(* A payload is a node: whether it is an archive, what a pattern finds in  *)
(* its own bytes, names or comments, its declared and its actual size, and *)
(* its members.  "mask" is the value GitHub writes over a credential.      *)
(***************************************************************************)
EXTENDS Integers, Sequences, FiniteSets, SequencesExt

CONSTANTS
  MAX_EVIDENCE_BYTES, MAX_EVIDENCE_ARCHIVE_DEPTH, MAX_MEMBERS,
  Chunk,           \* of a read; sizes are counted in units of an instance
  MaxFile,         \* bound: the size of the file
  Payloads,        \* the responses of an instance
  MaxResponses     \* bound: responses of a package

LimitsAssumption ==
  {MAX_EVIDENCE_BYTES, MAX_EVIDENCE_ARCHIVE_DEPTH, MAX_MEMBERS, Chunk, MaxFile, MaxResponses} \subseteq Nat \ {0}

VARIABLES
  package,    \* the responses that are in the file
  size,       \* of the file
  evidence_size,  \* what was read of it
  stage,      \* "stat", "reading", "scanning", "accepted" or "refused"
  pending,    \* payloads still to scan, innermost first, each with its depth
              \* and with whether it may hold masks
  expanded    \* what the innermost archives have expanded to, one count each

vars == <<package, size, evidence_size, stage, pending, expanded>>

-----------------------------------------------------------------------------
scan_secret_bytes(node) == node.found = "secret" \/ node.found = "mask"

\* In the log of a job, the exact mask is no secret.
require_no_workflow_log_secret(node) == node.found # "secret"

\* Mutant: a mask is allowed wherever the archive of logs is opened.
MaskAnywhere(task) ==
  IF task.masked THEN require_no_workflow_log_secret(task.node) ELSE ~scan_secret_bytes(task.node)

Clean(task) ==
  IF task.masked /\ task.depth = 1 /\ task.node.numeric /\ ~task.archive
  THEN require_no_workflow_log_secret(task.node)
  ELSE ~scan_secret_bytes(task.node)

Total(node) == FoldSeq(LAMBDA m, sum : m.declared + sum, 0, node.members)

\* The archive is looked over before it is opened.
preflight_zip_archive(node) == Len(node.members) <= MAX_MEMBERS

Opens(task) ==
  /\ task.depth < MAX_EVIDENCE_ARCHIVE_DEPTH
  /\ preflight_zip_archive(task.node)
  /\ Total(task.node) <= MAX_EVIDENCE_BYTES

\* Members are expanded, and counted, a chunk at a time.
ExpansionHolds(task) ==
  FoldSeq(LAMBDA m, sum : m.actual + sum, 0, task.node.members) <= MAX_EVIDENCE_BYTES

Task(node, depth, archive, masked) == [node |-> node, depth |-> depth, archive |-> archive, masked |-> masked]

\* A member is an archive by its bytes, whatever its name; a log may be one too.
Members(task) ==
  [i \in DOMAIN task.node.members |->
     Task(task.node.members[i], task.depth + 1, task.node.members[i].zip, task.masked)]

-----------------------------------------------------------------------------
Init ==
  /\ package \in UNION {[1..n -> Payloads] : n \in 1..MaxResponses}
  /\ size \in 1..MaxFile /\ evidence_size = 0 /\ stage = "stat"
  /\ pending = <<>> /\ expanded = 0

\* Another process writes to the file.
Rewrite(n) ==
  /\ stage \in {"stat", "reading"} /\ n # size /\ size' = n
  /\ UNCHANGED <<package, evidence_size, stage, pending, expanded>>

fstat ==
  /\ stage = "stat"
  /\ stage' = IF size <= MAX_EVIDENCE_BYTES THEN "reading" ELSE "refused"
  /\ UNCHANGED <<package, size, evidence_size, pending, expanded>>

\* A read may be short.
read ==
  /\ stage = "reading" /\ evidence_size < size
  /\ \E n \in 1..Chunk : evidence_size + n <= size /\ evidence_size' = evidence_size + n
  /\ stage' = IF evidence_size' <= MAX_EVIDENCE_BYTES THEN stage ELSE "refused"
  /\ UNCHANGED <<package, size, pending, expanded>>

\* Mutant: the end is where the file is as long as what was read.
EndAtSize ==
  /\ stage = "reading" /\ evidence_size = size
  /\ stage' = "scanning"
  /\ pending' = [i \in DOMAIN package |-> Task(package[i].node, 0, package[i].media = "zip", package[i].logs)]
  /\ UNCHANGED <<package, size, evidence_size, expanded>>

\* What was read may be no package at all.
EndOfFile ==
  /\ stage = "reading" /\ evidence_size >= size
  /\ \/ stage' = "refused" /\ UNCHANGED pending
     \/ /\ stage' = "scanning"
        /\ pending' = [i \in DOMAIN package |->
                         Task(package[i].node, 0, package[i].media = "zip", package[i].logs)]
  /\ UNCHANGED <<package, size, evidence_size, expanded>>

scan_evidence_payload ==
  /\ stage = "scanning" /\ pending # <<>>
  /\ LET task == Head(pending)  nested == IF task.archive THEN Members(task) ELSE <<>>
     IN IF Clean(task) /\ (task.archive => Opens(task) /\ ExpansionHolds(task))
        THEN /\ pending' = nested \o Tail(pending) /\ stage' = stage
             /\ expanded' = IF task.archive THEN FoldSeq(LAMBDA m, sum : m.actual + sum, 0, task.node.members)
                                            ELSE expanded
        ELSE stage' = "refused" /\ UNCHANGED <<pending, expanded>>
  /\ UNCHANGED <<package, size, evidence_size>>

Accept ==
  /\ stage = "scanning" /\ pending = <<>> /\ stage' = "accepted"
  /\ UNCHANGED <<package, size, evidence_size, pending, expanded>>

Reader == fstat \/ read \/ EndOfFile \/ scan_evidence_payload \/ Accept
Next == Reader \/ \E n \in 1..MaxFile : Rewrite(n)
Spec == Init /\ [][Next]_vars
\* The validator runs on; the writer does what it likes.
FairSpec == Spec /\ WF_vars(Reader)

-----------------------------------------------------------------------------
\* The shape of the state.
TypeOK ==
  /\ size \in 1..MaxFile /\ stage \in {"stat", "reading", "scanning", "accepted", "refused"}
  /\ (pending # <<>> => stage \in {"scanning", "refused"})
  /\ \A i \in DOMAIN pending : pending[i].depth \in 0..MAX_EVIDENCE_ARCHIVE_DEPTH

\* Neither a file that grows while it is read nor an archive that declares less than
\* it holds makes the validator hold more than the limit and one chunk.
HeldBytesAreBounded ==
  evidence_size <= MAX_EVIDENCE_BYTES + Chunk /\ expanded <= MAX_EVIDENCE_BYTES

\* All that an accepted response holds, however deep, with the depth.
RECURSIVE Parts(_, _)
Parts(node, depth) ==
  {[node |-> node, depth |-> depth]} \cup UNION {Parts(node.members[i], depth + 1) : i \in DOMAIN node.members}

\* An accepted package has no credential in any member of any archive at any depth,
\* and a mask only where GitHub puts one: in a job's log in the archive of the logs.
NothingIsUnscanned ==
  stage = "accepted" =>
    \A i \in DOMAIN package : \A p \in Parts(package[i].node, 0) :
      /\ p.node.found # "secret"
      /\ p.node.found = "mask" => package[i].logs /\ p.depth = 1 /\ p.node.numeric /\ ~p.node.zip

\* A verdict comes, though the file may grow for as long as it is read.
VerdictComes == <>(stage \in {"accepted", "refused"})
=============================================================================
