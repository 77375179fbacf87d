---------------------------- MODULE EndpointBundle ----------------------------
(***************************************************************************)
(* An endpoint bundle: the responses of one component of the evidence,     *)
(* with their digests and with a hash of everything a person wrote in      *)
(* them, as validate_endpoint_bundle_v3 of                                 *)
(* scripts/validate_governance_state.py accepts it.  The component is the  *)
(* discussion.  People write, edit and delete while the collector reads;   *)
(* a request whose answer was lost is repeated.  Two bundles are made.     *)
(*                                                                         *)
(* A digest stands for the value it digests.                               *)
(***************************************************************************)
EXTENDS Integers, Sequences, FiniteSets, SequencesExt, TLC

CONSTANTS
  Ids, Texts,          \* decimal ids, and what people write
  Missing, Null,       \* no body at all, and a null one
  MaxEdits, MaxRedone, \* bounds of an instance
  Nothing

TextAssumption == {Missing, Null} \cap Texts = {} /\ Missing # Null /\ "" \in Texts
IdsAssumption == IsFiniteSet(Ids)
BoundsAssumption == {MaxEdits, MaxRedone} \subseteq Nat

\* The component's inventory, in order, and the request of each label.
COMPONENT_INVENTORY == <<"issue-comments", "review-threads">>
LABELS == Range(COMPONENT_INVENTORY)
LABEL_REQUEST_RULES == [l \in LABELS |-> IF l = "issue-comments" THEN "GET" ELSE "POST"]
Kind == [l \in LABELS |-> IF l = "issue-comments" THEN "issue-comment-rest"
                                                  ELSE "review-thread-comment-graphql"]

VARIABLES
  posts,      \* of each label, what people have written: a function from ids to bodies
  edits,      \* changes so far
  responses,  \* the records of the bundle in hand
  redone,     \* repeated requests so far
  bundles     \* the accepted bundles

vars == <<posts, edits, responses, redone, bundles>>

-----------------------------------------------------------------------------
\* REST counts its items, GraphQL names them; the same digits may be both.
WireId(label, id) == IF label = "issue-comments" THEN <<"number", id>> ELSE <<"string", id>>
canonical_human_body_id(wire) == wire[2]

Orders(S) == {p \in [1..Cardinality(S) -> S] : \A x \in S : \E i \in DOMAIN p : p[i] = x}
\* The response bodies that show a label's items, in any order.
Shown(label, content) ==
  {[i \in DOMAIN o |-> [id |-> WireId(label, o[i]), body |-> content[o[i]]]] : o \in Orders(DOMAIN content)}

\* Mutant: what is missing or null is hashed as the empty string.
BodyOrEmpty(kind, item) ==
  [kind |-> kind, immutable_id |-> canonical_human_body_id(item.id), state |-> "string",
   sha256 |-> IF item.body \in Texts THEN item.body ELSE ""]

human_body_hash_entry(kind, item) ==
  [kind |-> kind, immutable_id |-> canonical_human_body_id(item.id),
   state  |-> IF item.body = Missing THEN "missing" ELSE IF item.body = Null THEN "null" ELSE "string",
   sha256 |-> IF item.body \in Texts THEN item.body ELSE Nothing]

\* Entries are sorted by kind and id, and no two are alike in these: a set.
derive_human_body_hashes(label, body) ==
  {human_body_hash_entry(Kind[label], body[i]) : i \in DOMAIN body}

OneIdEach(body) == \A i, j \in DOMAIN body :
  canonical_human_body_id(body[i].id) = canonical_human_body_id(body[j].id) => i = j

ResponseValid(r) ==
  /\ r.request = LABEL_REQUEST_RULES[r.label] /\ r.request_sha256 = r.request
  /\ r.body_sha256 = r.body /\ r.canonical_sha256 = r.body
  /\ OneIdEach(r.body)
  /\ r.human_body_hashes = derive_human_body_hashes(r.label, r.body)

validate_endpoint_bundle_v3(rs) ==
  /\ \A i \in DOMAIN rs : ResponseValid(rs[i])
  /\ [i \in DOMAIN rs |-> rs[i].label] = COMPONENT_INVENTORY

-----------------------------------------------------------------------------
Init ==
  /\ posts \in [LABELS -> UNION {[I -> Texts] : I \in SUBSET Ids}]
  /\ edits = 0 /\ responses = <<>> /\ redone = 0 /\ bundles = <<>>

\* People.  A body may come or go altogether, as when it is minimised.
Write(l, id, b) ==
  /\ edits < MaxEdits /\ edits' = edits + 1
  /\ posts' = [posts EXCEPT ![l] = [i \in DOMAIN @ \cup {id} |-> IF i = id THEN b ELSE @[i]]]
  /\ UNCHANGED <<responses, redone, bundles>>
Delete(l, id) ==
  /\ edits < MaxEdits /\ edits' = edits + 1
  /\ posts' = [posts EXCEPT ![l] = [i \in DOMAIN @ \ {id} |-> @[i]]]
  /\ UNCHANGED <<responses, redone, bundles>>

\* The collector.
Collect ==
  /\ Len(bundles) < 2 /\ Len(responses) < Len(COMPONENT_INVENTORY)
  /\ LET l == COMPONENT_INVENTORY[Len(responses) + 1] IN
     \E body \in Shown(l, posts[l]) :
       responses' = Append(responses,
         [label |-> l, request |-> LABEL_REQUEST_RULES[l], request_sha256 |-> LABEL_REQUEST_RULES[l],
          body |-> body, body_sha256 |-> body, canonical_sha256 |-> body,
          human_body_hashes |-> derive_human_body_hashes(l, body)])
  /\ UNCHANGED <<posts, edits, redone, bundles>>

\* A request is repeated, and only some of its record is made anew.
Redo(i) ==
  /\ redone < MaxRedone /\ redone' = redone + 1
  /\ \E body \in Shown(responses[i].label, posts[responses[i].label]), digested \in BOOLEAN :
       responses' = [responses EXCEPT ![i].body = body,
                       ![i].body_sha256 = IF digested THEN body ELSE @,
                       ![i].canonical_sha256 = IF digested THEN body ELSE @]
  /\ UNCHANGED <<posts, edits, bundles>>

Complete == Len(responses) = Len(COMPONENT_INVENTORY)
Accept ==
  /\ Complete /\ validate_endpoint_bundle_v3(responses)
  /\ bundles' = Append(bundles, responses) /\ responses' = <<>>
  /\ UNCHANGED <<posts, edits, redone>>
Refuse ==
  /\ Complete /\ ~validate_endpoint_bundle_v3(responses)
  /\ responses' = <<>> /\ UNCHANGED <<posts, edits, redone, bundles>>

Next ==
  \/ \E l \in LABELS, id \in Ids, b \in Texts \cup {Missing, Null} : Write(l, id, b)
  \/ \E l \in LABELS : \E id \in DOMAIN posts[l] : Delete(l, id)
  \/ Collect \/ (\E i \in DOMAIN responses : Redo(i)) \/ Accept \/ Refuse
Spec == Init /\ [][Next]_vars

-----------------------------------------------------------------------------
\* The shape of the state: responses are collected in the inventory's order.
TypeOK ==
  /\ edits \in 0..MaxEdits /\ redone \in 0..MaxRedone /\ Len(bundles) <= 2
  /\ \A l \in LABELS : DOMAIN posts[l] \subseteq Ids
  /\ IsPrefix([i \in DOMAIN responses |-> responses[i].label], COMPONENT_INVENTORY)
  /\ Len(bundles) = 2 => responses = <<>>

\* What a response says, whoever hashed it.
Words(r) == {[id |-> r.body[i].id, body |-> r.body[i].body] : i \in DOMAIN r.body}

\* Reviewers compare the hashes of two bundles to see whether anything was
\* rewritten.  They are equal exactly when every person's words are, post by post,
\* though the order of the posts may differ, and though nothing, null and the
\* empty text look the same on the page.
HashesAreTheWords ==
  Len(bundles) = 2 =>
    \A i \in DOMAIN COMPONENT_INVENTORY :
      LET r == bundles[1][i]  s == bundles[2][i]
      IN (r.human_body_hashes = s.human_body_hashes) = (Words(r) = Words(s))

\* No digest of an accepted bundle is left over from an answer that was replaced.
DigestsAreOfOneAnswer ==
  \A n \in DOMAIN bundles : \A i \in DOMAIN COMPONENT_INVENTORY :
    LET r == bundles[n][i] IN
      /\ r.label = COMPONENT_INVENTORY[i] /\ r.body_sha256 = r.body
      /\ Cardinality(r.human_body_hashes) = Cardinality(Words(r))
      /\ \A e \in r.human_body_hashes : \E w \in Words(r) :
           e.immutable_id = w.id[2] /\ (e.state = "string" => e.sha256 = w.body)
=============================================================================
