----------------------------- MODULE CanonicalJson -----------------------------
(***************************************************************************)
(* From the text of a JSON document to the bytes that are digested:        *)
(* parse_json_strict and canonical_json_v1 of                              *)
(* scripts/validate_governance_state.py.  Every digest of the evidence is  *)
(* one of such bytes, and the validator takes a digest for the value.      *)
(*                                                                         *)
(* A text is a tagged tuple: <<"str", s>>, <<"int", n>>, <<"list", texts>>,*)
(* <<"obj", pairs>> or a bare word.  An object of a text keeps its keys as *)
(* they are written; that of a value is a function.                        *)
(***************************************************************************)
EXTENDS Integers, Sequences, FiniteSets, SequencesExt

CONSTANTS
  Strings, NFC,      \* the strings there are, and the normal form of each
  Rank,              \* the place of each in UTF-16 order
  SAFE_INTEGER_LIMIT,
  Texts,             \* the documents of an instance
  Nothing

NFCAssumption ==
  /\ NFC \in [Strings -> Strings] /\ \A s \in Strings : NFC[NFC[s]] = NFC[s]
  /\ Rank \in [Strings -> Nat] /\ \A s, t \in Strings : Rank[s] = Rank[t] => s = t

VARIABLES first, second      \* two documents, each with what the validator makes of it
vars == <<first, second>>

Refused == <<"refused">>
Tag(x) == x[1]

-----------------------------------------------------------------------------
\* Reading.
Keys(pairs) == [i \in DOMAIN pairs |-> pairs[i][1]]
Distinct(s) == \A i, j \in DOMAIN s : s[i] = s[j] => i = j

\* Mutant: the last of equal keys wins, as in json.loads.
LastKeyWins(pairs) == TRUE

strict_object(pairs) ==
  LET normalized == [i \in DOMAIN pairs |-> NFC[pairs[i][1]]]
  IN Distinct(Keys(pairs)) /\ Distinct(normalized)

\* The value of the last of the pairs with a key, which is all there is when
\* strict_object holds.
Object(pairs) ==
  [k \in Range(Keys(pairs)) |->
     pairs[CHOOSE i \in DOMAIN pairs : pairs[i][1] = k /\ \A j \in DOMAIN pairs : pairs[j][1] = k => j <= i][2]]

RECURSIVE parse_json_strict(_)
parse_json_strict(text) ==
  CASE Tag(text) = "int" ->
         IF -SAFE_INTEGER_LIMIT <= text[2] /\ text[2] <= SAFE_INTEGER_LIMIT THEN text ELSE Refused
    [] Tag(text) \in {"-0", "float", "NaN"} -> Refused
    [] Tag(text) = "list" ->
         LET items == [i \in DOMAIN text[2] |-> parse_json_strict(text[2][i])]
         IN IF Refused \in Range(items) THEN Refused ELSE <<"list", items>>
    [] Tag(text) = "obj" ->
         LET pairs == [i \in DOMAIN text[2] |-> <<text[2][i][1], parse_json_strict(text[2][i][2])>>]
         IN IF strict_object(pairs) /\ \A i \in DOMAIN pairs : pairs[i][2] # Refused
            THEN <<"obj", Object(pairs)>> ELSE Refused
    [] OTHER -> text

-----------------------------------------------------------------------------
\* Writing, as a sequence of tokens.
Joined(parts) == FlattenSeq([i \in DOMAIN parts |-> IF i = 1 THEN parts[i] ELSE <<",">> \o parts[i]])

validate_scalar(s) == IF NFC[s] = s THEN <<"string", s>> ELSE Refused

RECURSIVE canonical_json_v1(_)
canonical_json_v1(value) ==
  CASE value = Refused -> Refused
    [] Tag(value) = "str" -> validate_scalar(value[2])
    [] Tag(value) = "int" -> <<"number", value[2]>>
    [] Tag(value) = "list" ->
         LET parts == [i \in DOMAIN value[2] |-> canonical_json_v1(value[2][i])]
         IN IF Refused \in Range(parts) THEN Refused ELSE <<"[">> \o Joined(parts) \o <<"]">>
    [] Tag(value) = "obj" ->
         LET keys == SetToSortSeq(DOMAIN value[2], LAMBDA a, b : Rank[a] < Rank[b])
             named == [i \in DOMAIN keys |-> validate_scalar(keys[i])]
             parts == [i \in DOMAIN keys |-> canonical_json_v1(value[2][keys[i]])]
         IN IF Refused \in Range(named) \cup Range(parts) THEN Refused
            ELSE <<"{">> \o Joined([i \in DOMAIN keys |-> named[i] \o <<":">> \o parts[i]]) \o <<"}">>
    [] OTHER -> value

-----------------------------------------------------------------------------
\* A document is read, its value digested.
Document(text) ==
  LET value == parse_json_strict(text)
  IN [text |-> text, value |-> value, digest |-> canonical_json_v1(value)]

Init == first = Nothing /\ second = Nothing
ReadFirst  == first = Nothing /\ \E t \in Texts : first' = Document(t) /\ UNCHANGED second
ReadSecond == first # Nothing /\ second = Nothing
              /\ \E t \in Texts : second' = Document(t) /\ UNCHANGED first
Next == ReadFirst \/ ReadSecond
Spec == Init /\ [][Next]_vars

-----------------------------------------------------------------------------
\* What another reader may make of a text: it keeps the first or the last of
\* equal keys, and normalises all strings or none.
RECURSIVE Reading(_, _, _)
Reading(text, latest, normal) ==
  LET N(s) == IF normal THEN NFC[s] ELSE s
      Chosen(pairs, k) ==
        LET I == {i \in DOMAIN pairs : N(pairs[i][1]) = k}
        IN pairs[CHOOSE i \in I : \A j \in I : IF latest THEN j <= i ELSE i <= j][2]
  IN CASE Tag(text) = "str" -> <<"str", N(text[2])>>
       [] Tag(text) = "list" -> <<"list", [i \in DOMAIN text[2] |-> Reading(text[2][i], latest, normal)]>>
       [] Tag(text) = "obj" ->
            <<"obj", [k \in {N(text[2][i][1]) : i \in DOMAIN text[2]} |-> Reading(Chosen(text[2], k), latest, normal)]>>
       [] OTHER -> text

\* Two documents are read one after the other.
TypeOK ==
  /\ first = Nothing => second = Nothing
  /\ \A d \in {first, second} \ {Nothing} : d.text \in Texts /\ (d.value = Refused => d.digest = Refused)

Digested == {d \in {first, second} \ {Nothing} : d.digest # Refused}

\* The validator compares digests where it means values: documents of equal
\* digests have equal values, and documents of equal values equal digests,
\* whatever the order in which their keys were written.
DigestIsTheValue == \A d, e \in Digested : (d.digest = e.digest) = (d.value = e.value)

\* A digested document has one reading.  The validator, the browser the owner
\* checks it in and a later reader cannot disagree on it over a key written
\* twice or a string written in two ways.
ReadersAgree ==
  \A d \in Digested : \A latest, normal \in BOOLEAN : Reading(d.text, latest, normal) = d.value
=============================================================================
