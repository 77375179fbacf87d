---------------------------- MODULE RepositoryLints ----------------------------
(***************************************************************************)
(* The scripts that lint a checkout of the repository (workspace           *)
(* boundaries, contract fixtures, design assets, Markdown links, secret    *)
(* regressions) as required checks of pull requests that are open at the   *)
(* same time.  A check sees the merge of a pull request with the main of   *)
(* the moment, as actions/checkout does.  Main is protected, and strictly: *)
(* what is merged was checked against the main it is merged into.          *)
(***************************************************************************)
EXTENDS Integers, Sequences, FiniteSets

CONSTANTS
  Pulls,               \* pull requests
  Docs, RequiredDocs,  \* Markdown files; those that must be there
  EditedCrates,        \* the crates that edits touch
  Fixtures, Operations,      \* the ids of the manifest and the operations of the contracts
  Files, ScannedPlaces, OtherPlaces,  \* files of other kinds, and places they may be in:
                             \* scanned, or in an excluded directory, too large, not UTF-8
  Kinds,               \* the kinds of edits of an instance
  MaxMerges            \* bound of an instance

DocsAssumption == RequiredDocs \subseteq Docs /\ MaxMerges \in Nat
PlacesAssumption == ScannedPlaces \cap OtherPlaces = {} /\ ScannedPlaces # {}

EXPECTED_INTERNAL_DEPENDENCIES ==
  [types |-> {}, contract |-> {"types"}, provider |-> {"contract", "types"}, state |-> {"types"},
   security |-> {"state", "types"}, admission |-> {"state", "types"},
   observe |-> {"security", "types"},
   gateway |-> {"admission", "contract", "observe", "provider", "state", "types"},
   mock_provider |-> {"provider", "types"}, testkit |-> {"contract", "state", "types"}]
Crates == DOMAIN EXPECTED_INTERNAL_DEPENDENCIES
CratesAssumption == EditedCrates \subseteq Crates
\* What a doc links to: a doc, or something that is not looked for.
External == "https://"
Targets == Docs \cup {External}

VARIABLES
  main,      \* the tree of the main branch
  merges,    \* merges so far
  edit,      \* of each open pull request, its change; <<>> when there is none
  checked    \* of each, whether the checks passed on the main of the moment

vars == <<main, merges, edit, checked>>

-----------------------------------------------------------------------------
\* A tree: the links of every doc there is, the members, the internal dependencies of
\* every crate (not the development ones), the manifest, the contracts, and where
\* the other files are and whether they hold a credential.
Places == ScannedPlaces \cup OtherPlaces
Trees ==
  [docs : UNION {[D -> SUBSET Targets] : D \in SUBSET Docs}, members : SUBSET Crates,
   deps : [Crates -> SUBSET Crates],
   fixtures : SUBSET Fixtures, operations : SUBSET Operations,
   place : [Files -> Places], credentials : SUBSET Files]

First ==
  [docs |-> [d \in RequiredDocs |-> {}], members |-> Crates,
   deps |-> EXPECTED_INTERNAL_DEPENDENCIES,
   fixtures |-> Fixtures, operations |-> Operations,
   place |-> [f \in Files |-> CHOOSE p \in ScannedPlaces : TRUE], credentials |-> {}]

Without(f, x) == [y \in DOMAIN f \ {x} |-> f[y]]

AllEdits ==
  ({"link"} \X Docs \X Targets) \cup ({"unlink", "delete"} \X Docs \X {""})
  \cup ({"depend", "forgo"} \X EditedCrates \X EditedCrates) \cup ({"drop"} \X EditedCrates \X {""})
  \cup ({"fixture"} \X Fixtures \X {""}) \cup ({"operation"} \X Operations \X {""})
  \cup ({"leak"} \X Files \X {""}) \cup ({"move"} \X Files \X Places)

Edits == {e \in AllEdits : e[1] \in Kinds}

\* An edit as a merge carries it over to a tree t.  A link may come with a new doc.
Apply(t, e) ==
  LET x == e[2]  y == e[3]
      linked == IF x \in DOMAIN t.docs THEN t.docs[x] ELSE {}
      member == x \in t.members
  IN CASE e[1] = "link"   -> [t EXCEPT !.docs = [d \in DOMAIN t.docs \cup {x} |->
                                                   IF d = x THEN linked \cup {y} ELSE t.docs[d]]]
       [] e[1] = "unlink" /\ x \in DOMAIN t.docs -> [t EXCEPT !.docs[x] = {}]
       [] e[1] = "delete" -> [t EXCEPT !.docs = Without(@, x)]
       [] e[1] = "depend" /\ member -> [t EXCEPT !.deps[x] = @ \cup {y}]
       [] e[1] = "forgo"  /\ member -> [t EXCEPT !.deps[x] = @ \ {y}]
       [] e[1] = "drop"   -> [t EXCEPT !.members = @ \ {x}]
       [] e[1] = "fixture" -> [t EXCEPT !.fixtures = @ \ {x}]
       [] e[1] = "operation" -> [t EXCEPT !.operations = @ \ {x}]
       [] e[1] = "leak" -> [t EXCEPT !.credentials = @ \cup {x}]
       [] e[1] = "move" -> [t EXCEPT !.place[x] = y]
       [] OTHER -> t

-----------------------------------------------------------------------------
\* The scripts.

validate_workspace_boundaries(t) ==
  /\ t.members = Crates
  /\ \A c \in Crates : t.deps[c] = EXPECTED_INTERNAL_DEPENDENCIES[c]

validate_contract_fixtures(t) == t.fixtures = Fixtures

validate_design_assets(t) == RequiredDocs \subseteq DOMAIN t.docs /\ Operations \subseteq t.operations

is_external(target) == target = External

validate_markdown_links(t) ==
  /\ RequiredDocs \subseteq DOMAIN t.docs
  /\ \A d \in DOMAIN t.docs : \A target \in t.docs[d] : is_external(target) \/ target \in DOMAIN t.docs

candidate_files(t) == {f \in Files : t.place[f] \in ScannedPlaces}

validate_secret_regressions(t) == candidate_files(t) \cap t.credentials = {}

\* What the required checks run on a tree to which e was applied.
Scan(t, e) == validate_secret_regressions(t)

Lints(t, e) ==
  /\ validate_workspace_boundaries(t) /\ validate_contract_fixtures(t)
  /\ validate_design_assets(t) /\ validate_markdown_links(t) /\ Scan(t, e)

-----------------------------------------------------------------------------
Init == main = First /\ merges = 0 /\ edit = [p \in Pulls |-> <<>>] /\ checked = [p \in Pulls |-> FALSE]

\* A pull request is opened, or pushed to; its checks begin anew.
Push(p, e) ==
  /\ edit[p] # e
  /\ edit' = [edit EXCEPT ![p] = e] /\ checked' = [checked EXCEPT ![p] = FALSE]
  /\ UNCHANGED <<main, merges>>

Check(p) ==
  /\ edit[p] # <<>> /\ ~checked[p]
  /\ Lints(Apply(main, edit[p]), edit[p])
  /\ checked' = [checked EXCEPT ![p] = TRUE]
  /\ UNCHANGED <<main, merges, edit>>

\* Mutant: main is protected, but not strictly.
Loose(p) == [checked EXCEPT ![p] = FALSE]

\* The checks of the others were of a main that is no more the tip.
AfterMerge(p) == [q \in Pulls |-> FALSE]

Merge(p) ==
  /\ checked[p] /\ merges < MaxMerges /\ merges' = merges + 1
  /\ main' = Apply(main, edit[p])
  /\ edit' = [edit EXCEPT ![p] = <<>>] /\ checked' = AfterMerge(p)

Next == \E p \in Pulls : (\E e \in Edits : Push(p, e)) \/ Check(p) \/ Merge(p)
Spec == Init /\ [][Next]_vars

-----------------------------------------------------------------------------
\* The shape of the state.
TypeOK ==
  /\ main \in Trees /\ merges \in 0..MaxMerges /\ edit \in [Pulls -> Edits \cup {<<>>}]
  /\ checked \in [Pulls -> BOOLEAN] /\ \A p \in Pulls : checked[p] => edit[p] # <<>>

\* A reader of main never meets a dead link, also when one pull request deletes the
\* doc to which another, open at the same time, has added the link.
MainIsNavigable ==
  /\ RequiredDocs \subseteq DOMAIN main.docs
  /\ \A d \in DOMAIN main.docs : main.docs[d] \subseteq DOMAIN main.docs \cup {External}

\* No credential of a file comes into the scanned part of main, neither by the change
\* that writes it nor by another one that moves the file from where nobody looked.
NoCredentialInSight == candidate_files(main) \cap main.credentials = {}

\* Main is in order.
MainIsClean == TypeOK /\ MainIsNavigable /\ NoCredentialInSight
=============================================================================
