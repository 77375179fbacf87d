------------------------------- MODULE MCReading -------------------------------
(***************************************************************************)
(* Small instances of how evidence packages come about and are read: a     *)
(* diligent owner collects them until they are accepted, their file is     *)
(* read and scanned, and its documents are parsed and digested.  The three *)
(* share no state: a behaviour has one of them go on, and the others stay  *)
(* where they were.                                                        *)
(***************************************************************************)
EXTENDS Integers, Sequences, FiniteSets, TLC

CONSTANT Nothing

VARIABLES
  part,                                                             \* which of them runs
  package, size, evidence_size, stage, pending, expanded,           \* EvidenceScan
  first, second,                                                    \* CanonicalJson
  clock, main, trees, pull, comments, lastId, strict, merged,       \* EvidenceSequence
  foreign, habit, step, draft, pre, start, end, post, past, readAt

scanVars   == <<package, size, evidence_size, stage, pending, expanded>>
jsonVars   == <<first, second>>
packageVars == <<clock, main, trees, pull, comments, lastId, strict, merged, foreign, habit, step, draft,
                 pre, start, end, post, past, readAt>>
allVars    == <<part, scanVars, jsonVars, packageVars>>

-----------------------------------------------------------------------------
\* A letter, and another one written in two ways; lists and objects of up to two
\* scalars, and a few of these nested.
Strings == {"a", "composed", "decomposed"}
NFC == [s \in Strings |-> IF s = "decomposed" THEN "composed" ELSE s]
Rank == [s \in Strings |-> CASE s = "a" -> 1 [] s = "decomposed" -> 2 [] OTHER -> 3]

UpTo2(S) == {<<>>} \cup {<<x>> : x \in S} \cup {<<x, y>> : x, y \in S}
Scalars == {<<"null">>, <<"true">>, <<"-0">>, <<"float">>, <<"NaN">>}
           \cup {<<"int", n>> : n \in {0, 1, 9, -9}} \cup {<<"str", s>> : s \in Strings}
Some == {<<"int", 1>>, <<"str", "composed">>, <<"str", "decomposed">>}
Lists == {<<"list", s>> : s \in UpTo2(Some)}
Objects == {<<"obj", s>> : s \in UpTo2({<<k, v>> : k \in Strings, v \in Some})}
Nested == {<<"list", <<x>>>> : x \in Lists \cup Objects} \cup {<<"list", <<<<"list", <<>>>>, x>>>> : x \in Lists}

\* JSON and archives of up to two members, and archives in archives down to one
\* level more than is allowed.
Leaf(found, numeric, declared, actual) ==
  [zip |-> FALSE, found |-> found, numeric |-> numeric, declared |-> declared, actual |-> actual, members |-> <<>>]
Archive(members, numeric, found) ==
  [zip |-> TRUE, found |-> found, numeric |-> numeric, declared |-> 1, actual |-> 1, members |-> members]
Leaves == {Leaf(f, n, 1, a) : f \in {"none", "mask", "secret"}, n \in BOOLEAN, a \in {1, 3}}
Zips1 == {Archive(<<x>>, n, "none") : x \in Leaves, n \in BOOLEAN} \cup {Archive(<<x, y>>, TRUE, "none") : x, y \in Leaves}
Zips2 == {Archive(<<x>>, n, f) : x \in Zips1, n \in BOOLEAN, f \in {"none", "mask"}}
Zips3 == {Archive(<<x>>, FALSE, "none") : x \in Zips2}
Zips4 == {Archive(<<x>>, FALSE, "none") : x \in {z \in Zips3 : z.members[1].found = "none"}}
Payloads ==
  {[media |-> "json", logs |-> FALSE, node |-> x] : x \in {l \in Leaves : ~l.numeric}}
  \cup {[media |-> "zip", logs |-> l, node |-> z] : l \in BOOLEAN, z \in Zips1 \cup Zips2 \cup Zips3 \cup Zips4}

Scan == INSTANCE EvidenceScan WITH
  MAX_EVIDENCE_BYTES <- 3, MAX_EVIDENCE_ARCHIVE_DEPTH <- 3, MAX_MEMBERS <- 2,
  Chunk <- 2, MaxFile <- 6, MaxResponses <- 1
Json == INSTANCE CanonicalJson WITH
  SAFE_INTEGER_LIMIT <- 8, Texts <- Scalars \cup Lists \cup Objects \cup Nested
\* The pull request is read first or last, and the last attempt can begin in time.
InventoryOrder == <<"pull", "metadata", "rest", "comments", "attestation", "main-ref", "merged">>
Packages == INSTANCE EvidenceSequence WITH
  stage <- step, Window <- 1, PageSize <- 5, Target <- "governance-bootstrap", Habits <- {"diligent"},
  Orders <- {InventoryOrder, [i \in DOMAIN InventoryOrder |-> InventoryOrder[8 - i]]},
  Retries <- TRUE, MaxTime <- 10, MaxHeads <- 2, MaxForeign <- 2

ASSUME Scan!LimitsAssumption
ASSUME Json!NFCAssumption

-----------------------------------------------------------------------------
ScanIdle   == package = <<>> /\ size = 1 /\ evidence_size = 0 /\ stage = "stat" /\ pending = <<>> /\ expanded = 0
JsonIdle   == first = Nothing /\ second = Nothing

PackagesIdle ==
  /\ clock = 1 /\ main = <<>> /\ trees = <<>> /\ pull = [open |-> TRUE] /\ comments = <<>> /\ lastId = 1
  /\ strict = TRUE /\ merged = Nothing /\ foreign = 0 /\ habit = "diligent" /\ step = "pre" /\ draft = <<>> /\ pre = Nothing
  /\ start = Nothing /\ end = Nothing /\ post = Nothing /\ past = <<>> /\ readAt = 1

MCInit ==
  \/ part = "scan"     /\ Scan!Init     /\ JsonIdle /\ PackagesIdle
  \/ part = "json"     /\ Json!Init     /\ ScanIdle /\ PackagesIdle
  \/ part = "packages" /\ Packages!Init /\ ScanIdle /\ JsonIdle

MCNext ==
  \/ part = "scan"     /\ Scan!Next     /\ UNCHANGED <<part, jsonVars, packageVars>>
  \/ part = "json"     /\ Json!Next     /\ UNCHANGED <<part, scanVars, packageVars>>
  \/ part = "packages" /\ Packages!Next /\ UNCHANGED <<part, scanVars, jsonVars>>

\* The fairness of EvidenceScan and EvidenceSequence (FairSpec); the others may stop.
ScanReader == part = "scan" /\ Scan!Reader /\ UNCHANGED <<part, jsonVars, packageVars>>
Time    == part = "packages" /\ Packages!Tick /\ UNCHANGED <<part, scanVars, jsonVars>>
Collect == part = "packages" /\ Packages!Collect /\ UNCHANGED <<part, scanVars, jsonVars>>
MCSpec == /\ MCInit /\ [][MCNext]_allVars
          /\ WF_allVars(ScanReader) /\ WF_allVars(Time) /\ WF_allVars(Collect)

-----------------------------------------------------------------------------
\* A file and its archives (read_evidence_package_file, scan_evidence_payload): the
\* types; neither a growing file nor an archive that declares less than it holds makes
\* the reader hold more than the limit; nothing is accepted with a credential in any
\* member at any depth, or with a mask where GitHub puts none.
ScanInv == part = "scan" => Scan!TypeOK /\ Scan!HeldBytesAreBounded /\ Scan!NothingIsUnscanned
\* A verdict comes, though the file may grow for as long as it is read.
VerdictComes == part = "scan" => Scan!VerdictComes

\* Documents (parse_json_strict, canonical_json_v1): the types; equal digests are equal
\* values, and the reverse; no two readers disagree on a digested document.
JsonInv == Json!TypeOK /\ Json!DigestIsTheValue /\ Json!ReadersAgree

\* A diligent owner's packages are accepted at last (validate_evidence_sequence), unless
\* the pull request is closed, its protection in disorder or a page of comments full.
AcceptedAtLast == part = "packages" => Packages!AcceptedAtLast
=============================================================================
