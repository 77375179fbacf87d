------------------------------ MODULE StableView ------------------------------
(***************************************************************************)
(* derive_stable_array_view of scripts/validate_governance_state.py, an    *)
(* item at a time.  GitHub returns labels, reviews, threads, comments,     *)
(* checks, runs and rulesets in an order it does not promise.              *)
(*                                                                         *)
(* An item is a function from its fields; canonical_json_v1 of it, the     *)
(* last part of its order key, is the sequence of its fields' values.      *)
(***************************************************************************)
EXTENDS Integers, Sequences, FiniteSets, TLC

CONSTANTS
  Fields,      \* the fields of an item, in the canonical order of their names
  Domain,      \* the values of every field, as the numbers they are ordered by
  Schemas,     \* what a call may name: [primary, unique], two sequences of fields
  MaxLength,   \* bound: items of an array
  Nothing

FieldSet == {Fields[i] : i \in DOMAIN Fields}
SchemaAssumption ==
  /\ Domain \subseteq Int /\ MaxLength \in Nat
  /\ \A s \in Schemas : s.primary \in Seq(FieldSet) /\ s.primary # <<>>
                        /\ s.unique \in Seq(FieldSet) /\ s.unique # <<>>

VARIABLES
  values,      \* the array as the provider returned it
  schema,      \* the keys the caller gives
  index,       \* items examined
  seen,        \* their identities
  decorated,   \* they with their order keys
  view,        \* the items in order
  outcome

vars == <<values, schema, index, seen, decorated, view, outcome>>

-----------------------------------------------------------------------------
Items == [FieldSet -> Domain]
Key(item, fields) == [i \in DOMAIN fields |-> item[fields[i]]]
canonical_json_v1(item) == Key(item, Fields)

Before(a, b) ==
  \E n \in DOMAIN a : a[n] < b[n] /\ \A i \in 1 .. n - 1 : a[i] = b[i]

\* Mutant: items with the same primary key are left as they came.
PrimaryOnly(item) == Key(item, schema.primary)

OrderKey(item) == Key(item, schema.primary) \o canonical_json_v1(item)

\* Mutant: only a repeated item is a duplicate.
WholeItem(item) == canonical_json_v1(item)

Identity(item) == Key(item, schema.unique)

Sorted(entries) == SortSeq(entries, LAMBDA a, b : Before(a.key, b.key))

-----------------------------------------------------------------------------
Arrays == UNION {[1..n -> Items] : n \in 0..MaxLength}

Init ==
  /\ values \in Arrays /\ schema \in Schemas
  /\ index = 0 /\ seen = {} /\ decorated = <<>>
  /\ view = Nothing /\ outcome = "examining"

Examine ==
  /\ outcome = "examining" /\ index < Len(values)
  /\ LET item == values[index + 1] IN
       /\ Identity(item) \notin seen
       /\ index' = index + 1 /\ seen' = seen \cup {Identity(item)}
       /\ decorated' = Append(decorated, [key |-> OrderKey(item), item |-> item])
  /\ UNCHANGED <<values, schema, view, outcome>>

Refuse ==
  /\ outcome = "examining" /\ index < Len(values)
  /\ Identity(values[index + 1]) \in seen
  /\ outcome' = "refused"
  /\ UNCHANGED <<values, schema, index, seen, decorated, view>>

Return ==
  /\ outcome = "examining" /\ index = Len(values)
  /\ LET sorted == Sorted(decorated) IN view' = [i \in DOMAIN sorted |-> sorted[i].item]
  /\ outcome' = "accepted"
  /\ UNCHANGED <<values, schema, index, seen, decorated>>

Next == Examine \/ Refuse \/ Return
Spec == Init /\ [][Next]_vars

-----------------------------------------------------------------------------
\* The shape of the state: what was examined is what was remembered.
TypeOK ==
  /\ index \in 0..Len(values) /\ Len(decorated) = index
  /\ seen = {Key(values[i], schema.unique) : i \in 1..index}
  /\ outcome \in {"examining", "refused", "accepted"}
  /\ (view = Nothing) = (outcome # "accepted")

\* The order in which GitHub returns an array never reaches a conclusion: the view
\* of an array is that of every other order of the same items, also where the
\* primary key of the call leaves items equal.
ViewIsOfTheSet ==
  outcome = "accepted" =>
    \A p \in Permutations(DOMAIN values) :
      LET other == [i \in DOMAIN values |-> values[p[i]]]
          again == Sorted([i \in DOMAIN other |-> [key |-> OrderKey(other[i]), item |-> other[i]]])
      IN view = [i \in DOMAIN again |-> again[i].item]

\* No view holds two items of one immutable identity, and none is refused that does
\* not: a difference in other fields never masks a repetition, and neither does
\* the distance of the two.
OneItemPerIdentity ==
  LET repeated == \E i, j \in DOMAIN values :
                    i # j /\ \A n \in DOMAIN schema.unique :
                               values[i][schema.unique[n]] = values[j][schema.unique[n]]
  IN /\ outcome = "accepted" => ~repeated
     /\ outcome = "refused" => repeated
=============================================================================
