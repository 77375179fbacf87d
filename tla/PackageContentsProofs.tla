------------------------ MODULE PackageContentsProofs ------------------------
(***************************************************************************)
(* What an accepted package, and an accepted window of two, say of a       *)
(* candidate: proved of every component by itself, for every number of     *)
(* files, runs, reviews and posts.  The files, the executions and the      *)
(* discussion have the same argument: the world only grows, a response     *)
(* tells what it was at the read, and two equal packages tell what it was  *)
(* in between.                                                             *)
(***************************************************************************)
EXTENDS PackageContents, FiniteSetTheorems, TLAPS

-----------------------------------------------------------------------------
(* The arrays of a response.  The invariant says what the examined part of *)
(* an array has: its identities are those seen, and they are all distinct. *)

IdentityAt(i) == View!Key(values[i], schema.unique)

SeenInv ==
  /\ values \in Seq(View!Items)
  /\ index \in 0 .. Len(values)
  /\ seen = {IdentityAt(i) : i \in 1 .. index}
  /\ \A i, j \in 1 .. index : IdentityAt(i) = IdentityAt(j) => i = j
  /\ outcome = "accepted" => index = Len(values)
  /\ outcome = "refused" => index < Len(values) /\ IdentityAt(index + 1) \in seen

\* Two items have the same identity exactly when they agree in all its fields.
LEMMA KeyIsItsFields ==
  ASSUME NEW a, NEW b, NEW fields
  PROVE  View!Key(a, fields) = View!Key(b, fields) <=> \A n \in DOMAIN fields : a[fields[n]] = b[fields[n]]
PROOF
<1>1. ASSUME View!Key(a, fields) = View!Key(b, fields), NEW n \in DOMAIN fields
      PROVE  a[fields[n]] = b[fields[n]]
  <2>1. View!Key(a, fields)[n] = a[fields[n]] /\ View!Key(b, fields)[n] = b[fields[n]]
    BY DEF View!Key
  <2>2. QED BY <1>1, <2>1
<1>2. ASSUME \A n \in DOMAIN fields : a[fields[n]] = b[fields[n]]
      PROVE  View!Key(a, fields) = View!Key(b, fields)
  BY <1>2 DEF View!Key
<1>3. QED BY <1>1, <1>2

\* Arrays are sequences.
LEMMA ArraysAreSequences == \A s \in View!Arrays : s \in Seq(View!Items)
PROOF
<1>1. SUFFICES ASSUME NEW n \in 0 .. MaxLength, NEW s \in [1 .. n -> View!Items] PROVE s \in Seq(View!Items)
  BY DEF View!Arrays
<1>2. n \in Nat OBVIOUS
<1>3. QED BY <1>2

LEMMA ViewInit == View!Init => SeenInv
PROOF
<1>1. SUFFICES ASSUME View!Init PROVE SeenInv OBVIOUS
<1>2. values \in Seq(View!Items) BY <1>1, ArraysAreSequences DEF View!Init
<1>3. Len(values) \in Nat BY <1>2
<1>4. index = 0 /\ seen = {} /\ outcome = "examining" BY <1>1 DEF View!Init
<1>5. 1 .. index = {} BY <1>4
<1>6. index \in 0 .. Len(values) BY <1>3, <1>4
<1>7. seen = {IdentityAt(i) : i \in 1 .. index} BY <1>4, <1>5
<1>8. QED BY <1>2, <1>4, <1>5, <1>6, <1>7 DEF SeenInv

\* Examining an item whose identity was not seen keeps all identities distinct.
LEMMA ExamineInv == SeenInv /\ View!Examine => SeenInv'
PROOF
<1>1. SUFFICES ASSUME SeenInv, View!Examine PROVE SeenInv' OBVIOUS
<1>2. /\ UNCHANGED <<values, schema>> /\ index' = index + 1 /\ index < Len(values)
      /\ IdentityAt(index + 1) \notin seen /\ seen' = seen \cup {IdentityAt(index + 1)}
      /\ outcome = "examining" /\ outcome' = "examining"
  BY <1>1 DEF View!Examine, View!Identity, IdentityAt
<1>3. Len(values) \in Nat /\ index \in Nat BY <1>1 DEF SeenInv
<1>4. \A i : IdentityAt(i)' = IdentityAt(i) BY <1>2 DEF IdentityAt
<1>5. index' \in 0 .. Len(values)' BY <1>2, <1>3
<1>6. 1 .. index' = (1 .. index) \cup {index + 1} BY <1>2, <1>3
<1>7. seen' = {IdentityAt(i)' : i \in 1 .. index'}
  <2>1. seen = {IdentityAt(i) : i \in 1 .. index} BY <1>1 DEF SeenInv
  <2>2. {IdentityAt(i)' : i \in 1 .. index'} = {IdentityAt(i) : i \in (1 .. index) \cup {index + 1}}
    BY <1>4, <1>6
  <2>3. QED BY <1>2, <2>1, <2>2
<1>8. \A i, j \in 1 .. index' : IdentityAt(i)' = IdentityAt(j)' => i = j
  <2>1. SUFFICES ASSUME NEW i \in 1 .. index', NEW j \in 1 .. index', IdentityAt(i) = IdentityAt(j) PROVE i = j
    BY <1>4
  <2>2. \A k \in 1 .. index : IdentityAt(k) \in seen BY <1>1 DEF SeenInv
  <2>3. CASE i \in 1 .. index /\ j \in 1 .. index BY <1>1, <2>1, <2>3 DEF SeenInv
  <2>4. CASE i = index + 1 /\ j \in 1 .. index BY <1>2, <2>1, <2>2, <2>4
  <2>5. CASE i \in 1 .. index /\ j = index + 1 BY <1>2, <2>1, <2>2, <2>5
  <2>6. QED BY <1>6, <2>3, <2>4, <2>5
<1>9. values' \in Seq(View!Items) BY <1>1, <1>2 DEF SeenInv
<1>10. QED BY <1>2, <1>5, <1>7, <1>8, <1>9 DEF SeenInv

\* Refusing and returning leave the examined part alone; stuttering leaves all.
LEMMA RestInv == SeenInv /\ (View!Refuse \/ View!Return \/ UNCHANGED View!vars) => SeenInv'
PROOF
<1>1. ASSUME SeenInv, View!Refuse PROVE SeenInv'
  <2>1. /\ UNCHANGED <<values, schema, index, seen>> /\ outcome' = "refused"
        /\ index < Len(values) /\ IdentityAt(index + 1) \in seen
    BY <1>1 DEF View!Refuse, View!Identity, IdentityAt
  <2>2. \A i : IdentityAt(i)' = IdentityAt(i) BY <2>1 DEF IdentityAt
  <2>3. QED BY <1>1, <2>1, <2>2 DEF SeenInv
<1>2. ASSUME SeenInv, View!Return PROVE SeenInv'
  <2>1. UNCHANGED <<values, schema, index, seen>> /\ outcome' = "accepted" /\ index = Len(values)
    BY <1>2 DEF View!Return
  <2>2. \A i : IdentityAt(i)' = IdentityAt(i) BY <2>1 DEF IdentityAt
  <2>3. QED BY <1>2, <2>1, <2>2 DEF SeenInv
<1>3. ASSUME SeenInv, UNCHANGED View!vars PROVE SeenInv'
  <2>1. UNCHANGED <<values, schema, index, seen, outcome>> BY <1>3 DEF View!vars
  <2>2. \A i : IdentityAt(i)' = IdentityAt(i) BY <2>1 DEF IdentityAt
  <2>3. QED BY <1>3, <2>1, <2>2 DEF SeenInv
<1>4. QED BY <1>1, <1>2, <1>3

\* What the invariant says of a finished call.
LEMMA InvIsEnough == SeenInv => OneItemPerIdentity
PROOF
<1>1. SUFFICES ASSUME SeenInv PROVE OneItemPerIdentity OBVIOUS
<1>2. DOMAIN values = 1 .. Len(values) /\ Len(values) \in Nat BY <1>1 DEF SeenInv
<1>3. \A i, j : IdentityAt(i) = IdentityAt(j) <=>
        \A n \in DOMAIN schema.unique : values[i][schema.unique[n]] = values[j][schema.unique[n]]
  BY KeyIsItsFields DEF IdentityAt
<1>4. ASSUME outcome = "accepted", NEW i \in DOMAIN values, NEW j \in DOMAIN values, i # j,
             \A n \in DOMAIN schema.unique : values[i][schema.unique[n]] = values[j][schema.unique[n]]
      PROVE  FALSE
  <2>1. IdentityAt(i) = IdentityAt(j) BY <1>3, <1>4
  <2>2. i \in 1 .. index /\ j \in 1 .. index BY <1>1, <1>2, <1>4 DEF SeenInv
  <2>3. QED BY <1>1, <1>4, <2>1, <2>2 DEF SeenInv
<1>5. ASSUME outcome = "refused"
      PROVE  \E i, j \in DOMAIN values : i # j /\
               \A n \in DOMAIN schema.unique : values[i][schema.unique[n]] = values[j][schema.unique[n]]
  <2>1. index < Len(values) /\ index \in Nat /\ IdentityAt(index + 1) \in seen
    BY <1>1, <1>2, <1>5 DEF SeenInv
  <2>2. PICK i \in 1 .. index : IdentityAt(i) = IdentityAt(index + 1) BY <1>1, <2>1 DEF SeenInv
  <2>3. i \in DOMAIN values /\ index + 1 \in DOMAIN values /\ i # index + 1 BY <1>2, <2>1
  <2>4. QED BY <1>3, <2>2, <2>3
<1>6. QED BY <1>4, <1>5 DEF OneItemPerIdentity, View!OneItemPerIdentity

\* No view holds two items of one immutable identity, and no array without a
\* repetition is refused, however long the array and whatever the keys.
THEOREM OneIdentityEach == View!Spec => []OneItemPerIdentity
PROOF
<1>1. View!Init => SeenInv BY ViewInit
<1>2. SeenInv /\ [View!Next]_View!vars => SeenInv' BY ExamineInv, RestInv DEF View!Next
<1>3. SeenInv => OneItemPerIdentity BY InvIsEnough
<1>4. QED BY <1>1, <1>2, <1>3, PTL DEF View!Spec

-----------------------------------------------------------------------------
(* The files of a candidate. *)

PullFirst ==
  \A o \in TreeOrders : \A n \in DOMAIN o : o[n] = "pull-files" => \E i \in 1 .. n - 1 : o[i] = "pull"
FilesFirst ==
  \A o \in TreeOrders : \A n \in DOMAIN o : o[n] = "pull" => \E i \in 1 .. n - 1 : o[i] = "pull-files"

TreeTypes ==
  /\ trunk \in Seq(Tree!Trees) /\ candidates \in Seq([tree : Tree!Trees, from : Nat])
  /\ Tree!TypeOK

\* What the responses of a package say, whatever was pushed and merged since.  The stamp
\* of the pull request tells whether its head is still the one that was read.
PullWasRead(b) ==
  "pull" \in DOMAIN b =>
    /\ b["pull"].head \in DOMAIN candidates /\ b["pull"].base \in DOMAIN trunk
    /\ b["pull"].clean => candidates[b["pull"].head].from = b["pull"].base
    /\ b["pull"].updated \in Nat /\ b["pull"].updated <= updated
    /\ b["pull"].updated = updated => b["pull"].head = newest
SourcesWereRead(b) ==
  "sources" \in DOMAIN b =>
    /\ b["sources"].head \in DOMAIN candidates
    /\ b["sources"].files = [p \in SOURCES |-> Tree!TreeOf(b["sources"].head)[p]]

\* The files in which a head differs from the main it is built on, as they are in given
\* histories of main and heads.
DiffIn(mains, pushes, h) ==
  LET from == mains[pushes[h].from]  to == pushes[h].tree
  IN {[filename |-> p, sha |-> to[p],
       status |-> IF from[p] = Absent THEN "added" ELSE IF to[p] = Absent THEN "removed" ELSE "modified"]
        : p \in {q \in Paths : from[q] # to[q]}}

\* Files read after the pull request are those of its head, as long as its stamp is
\* the latest.
FilesAfterPull(b) ==
  {"pull", "pull-files"} \subseteq DOMAIN b /\ b["pull"].updated = updated =>
    b["pull-files"] = DiffIn(trunk, candidates, b["pull"].head)

\* The second package has confirmed the pull request of the first.
Confirmed == "pull" \in DOMAIN listing /\ listing["pull"] = listed["pull"]

PullFirstInv ==
  /\ "pull-files" \in DOMAIN listing => "pull" \in DOMAIN listing
  /\ FilesAfterPull(listing)
  /\ listed # None => FilesAfterPull(listed)
  /\ listed # None /\ Confirmed => listed["pull-files"] = DiffIn(trunk, candidates, listed["pull"].head)

FilesFirstInv ==
  /\ "pull" \in DOMAIN listing => "pull-files" \in DOMAIN listing
  /\ listed # None /\ "pull-files" \in DOMAIN listing
       /\ (listed["pull"].updated = updated \/ Confirmed) =>
         listing["pull-files"] = DiffIn(trunk, candidates, listed["pull"].head)

ListedInv ==
  listed # None =>
    /\ DOMAIN listed = Tree!LABELS /\ PullWasRead(listed) /\ listed["pull"].clean
    /\ Tree!ControlsAreTheCandidates

FilesInv ==
  /\ TreeTypes /\ PullWasRead(listing) /\ SourcesWereRead(listing) /\ ListedInv
  /\ PullFirst => PullFirstInv
  /\ FilesFirst => FilesFirstInv
  /\ relisted => listed # None /\ listing = listed

LEMMA OneOrTheOther == PullFirst \/ FilesFirst
PROOF BY TreeAssumption DEF PullFirst, FilesFirst, Tree!OrdersAssumption

\* Main begins with a tree.
LEMMA FirstIsATree == Tree!First \in Tree!Trees
PROOF
<1>1. ASSUME NEW p \in Paths
      PROVE  (CHOOSE c \in Contents : p \in DOMAIN Frozen => c = Frozen[p]) \in Contents
  <2>1. \E c \in Contents : p \in DOMAIN Frozen => c = Frozen[p]
    <3>1. CASE p \in DOMAIN Frozen BY <3>1, TreeAssumption DEF Tree!PathsAssumption
    <3>2. CASE p \notin DOMAIN Frozen BY <3>2, TreeAssumption DEF Tree!PathsAssumption
    <3>3. QED BY <3>1, <3>2
  <2>2. QED BY <2>1
<1>2. \A p \in Paths : Tree!First[p] \in Contents \cup {Absent} BY <1>1 DEF Tree!First
<1>3. QED BY <1>2 DEF Tree!First, Tree!Trees

LEMMA FilesInit == Tree!Init => FilesInv
PROOF
<1>1. SUFFICES ASSUME Tree!Init PROVE FilesInv OBVIOUS
<1>2. /\ trunk = <<Tree!First>> /\ candidates = <<[tree |-> Tree!First, from |-> 1]>>
      /\ newest = 1 /\ checkout = 1 /\ updated = 1 /\ turns = 0
      /\ DOMAIN listing = {} /\ listed = None /\ relisted = FALSE
  BY <1>1 DEF Tree!Init, Tree!NoResponses
<1>3. TreeTypes
  <2>1. trunk \in Seq(Tree!Trees) BY <1>2, FirstIsATree
  <2>2. candidates \in Seq([tree : Tree!Trees, from : Nat]) BY <1>2, FirstIsATree
  <2>3. Tree!TypeOK BY <1>2, FirstIsATree, TreeAssumption DEF Tree!TypeOK, Tree!BoundsAssumption
  <2>4. QED BY <2>1, <2>2, <2>3 DEF TreeTypes
<1>4. QED
  BY <1>2, <1>3 DEF FilesInv, PullWasRead, SourcesWereRead, ListedInv, PullFirstInv, FilesFirstInv, FilesAfterPull

-----------------------------------------------------------------------------
\* Nothing that was pushed or merged is ever unmade, and the stamp tells a push.
Grows ==
  /\ \A i \in DOMAIN trunk : i \in DOMAIN trunk' /\ trunk'[i] = trunk[i]
  /\ \A h \in DOMAIN candidates : h \in DOMAIN candidates' /\ candidates'[h] = candidates[h]
  /\ updated' \in Nat
  /\ (updated' = updated /\ newest' = newest) \/ updated' > updated

LEMMA DiffStays ==
  ASSUME Grows, TreeTypes, NEW h \in DOMAIN candidates
  PROVE  DiffIn(trunk', candidates', h) = DiffIn(trunk, candidates, h)
PROOF
<1>1. candidates'[h] = candidates[h] /\ candidates[h].from \in DOMAIN trunk BY DEF Grows, TreeTypes, Tree!TypeOK
<1>2. trunk'[candidates[h].from] = trunk[candidates[h].from] BY <1>1 DEF Grows
<1>3. QED BY <1>1, <1>2 DEF DiffIn

LEMMA DiffIsDiffIn == ASSUME NEW h PROVE Tree!Diff(h) = DiffIn(trunk, candidates, h)
PROOF BY DEF Tree!Diff, Tree!TreeOf, DiffIn

LEMMA PullStaysRead ==
  ASSUME Grows, TreeTypes, NEW b, PullWasRead(b)
  PROVE  /\ "pull" \in DOMAIN b =>
              /\ b["pull"].head \in DOMAIN candidates' /\ b["pull"].base \in DOMAIN trunk'
              /\ b["pull"].clean => candidates'[b["pull"].head].from = b["pull"].base
              /\ b["pull"].updated \in Nat /\ b["pull"].updated <= updated'
              /\ b["pull"].updated = updated' => b["pull"].head = newest' /\ updated' = updated
PROOF
<1>1. updated \in Nat /\ updated' \in Nat BY DEF TreeTypes, Tree!TypeOK, Grows
<1>2. QED BY <1>1 DEF Grows, PullWasRead

LEMMA ControlsStay ==
  ASSUME FilesInv, Grows, listed' = listed
  PROVE  ListedInv'
PROOF
<1>1. SUFFICES ASSUME listed # None
               PROVE  /\ DOMAIN listed = Tree!LABELS /\ PullWasRead(listed)' /\ listed["pull"].clean
                      /\ Tree!ControlsAreTheCandidates'
  BY DEF ListedInv
<1>2. /\ DOMAIN listed = Tree!LABELS /\ PullWasRead(listed) /\ listed["pull"].clean
      /\ Tree!ControlsAreTheCandidates
  BY <1>1 DEF FilesInv, ListedInv
<1>3. PullWasRead(listed)' BY <1>2, PullStaysRead DEF PullWasRead, FilesInv
<1>4. listed["pull"].head \in DOMAIN candidates BY <1>2 DEF PullWasRead, Tree!LABELS
<1>5. candidates'[listed["pull"].head] = candidates[listed["pull"].head] BY <1>4 DEF Grows
<1>6. Tree!ControlsAreTheCandidates' BY <1>2, <1>5 DEF Tree!ControlsAreTheCandidates, Tree!TreeOf
<1>7. QED BY <1>2, <1>3, <1>6

\* Whatever happens at GitHub leaves the packages what they are.
LEMMA WorldStep ==
  ASSUME FilesInv, Grows, TreeTypes', UNCHANGED <<listing, listed, relisted>>
  PROVE  FilesInv'
PROOF
<1>1. TreeTypes /\ PullWasRead(listing) /\ SourcesWereRead(listing) BY DEF FilesInv
<1>2. PullWasRead(listing)' BY <1>1, PullStaysRead DEF PullWasRead
<1>3. SourcesWereRead(listing)'
  <2>1. SUFFICES ASSUME "sources" \in DOMAIN listing
                 PROVE  /\ listing["sources"].head \in DOMAIN candidates'
                        /\ listing["sources"].files = [p \in SOURCES |-> candidates'[listing["sources"].head].tree[p]]
    BY DEF SourcesWereRead, Tree!TreeOf
  <2>2. /\ listing["sources"].head \in DOMAIN candidates
        /\ listing["sources"].files = [p \in SOURCES |-> candidates[listing["sources"].head].tree[p]]
    BY <1>1, <2>1 DEF SourcesWereRead, Tree!TreeOf
  <2>3. candidates'[listing["sources"].head] = candidates[listing["sources"].head] BY <2>2 DEF Grows
  <2>4. QED BY <2>2, <2>3 DEF Grows
<1>4. ListedInv' BY ControlsStay
<1>5. \A b : PullWasRead(b) /\ FilesAfterPull(b)
                /\ {"pull", "pull-files"} \subseteq DOMAIN b /\ b["pull"].updated = updated' =>
              b["pull-files"] = DiffIn(trunk', candidates', b["pull"].head)
  <2>1. SUFFICES ASSUME NEW b, PullWasRead(b), FilesAfterPull(b),
                        {"pull", "pull-files"} \subseteq DOMAIN b, b["pull"].updated = updated'
                 PROVE  b["pull-files"] = DiffIn(trunk', candidates', b["pull"].head)
    OBVIOUS
  <2>2. updated' = updated /\ b["pull"].head \in DOMAIN candidates
    BY <1>1, <2>1, PullStaysRead DEF PullWasRead
  <2>3. b["pull-files"] = DiffIn(trunk, candidates, b["pull"].head) BY <2>1, <2>2 DEF FilesAfterPull
  <2>4. QED BY <1>1, <2>2, <2>3, DiffStays
<1>6. listed # None =>
        /\ PullWasRead(listed) /\ "pull" \in DOMAIN listed /\ listed["pull"].head \in DOMAIN candidates
        /\ listed["pull"].updated = updated' => updated' = updated
        /\ DiffIn(trunk', candidates', listed["pull"].head) = DiffIn(trunk, candidates, listed["pull"].head)
  BY <1>1, PullStaysRead, DiffStays DEF FilesInv, ListedInv, PullWasRead, Tree!LABELS
<1>7. PullFirst => PullFirstInv'
  <2>1. SUFFICES ASSUME PullFirst PROVE PullFirstInv' OBVIOUS
  <2>2. PullFirstInv BY <2>1 DEF FilesInv
  <2>3. FilesAfterPull(listing)' BY <1>1, <1>5, <2>2 DEF PullFirstInv, FilesAfterPull
  <2>4. listed # None => FilesAfterPull(listed)' BY <1>5, <1>6, <2>2 DEF PullFirstInv, FilesAfterPull
  <2>5. QED BY <1>6, <2>2, <2>3, <2>4 DEF PullFirstInv, Confirmed
<1>8. FilesFirst => FilesFirstInv' BY <1>6 DEF FilesInv, FilesFirstInv, Confirmed
<1>9. QED BY <1>2, <1>3, <1>4, <1>7, <1>8 DEF FilesInv

-----------------------------------------------------------------------------
LEMMA FilesPush ==
  ASSUME FilesInv, NEW tree \in Tree!Trees, NEW from \in DOMAIN trunk, Tree!Push(tree, from)
  PROVE  FilesInv'
PROOF
<1>1. TreeTypes BY DEF FilesInv
<1>2. /\ turns < MaxTurns /\ turns' = turns + 1 /\ UNCHANGED <<listing, listed, relisted>>
      /\ candidates' = Append(candidates, [tree |-> tree, from |-> from]) /\ newest' = Len(candidates')
      /\ updated' = updated + 1 /\ trunk' = trunk /\ checkout' = checkout
  BY DEF Tree!Push, Tree!Move, Tree!owner
<1>3. /\ trunk \in Seq(Tree!Trees) /\ candidates \in Seq([tree : Tree!Trees, from : Nat])
      /\ \A h \in DOMAIN candidates : candidates[h].tree \in Tree!Trees /\ candidates[h].from \in DOMAIN trunk
      /\ checkout \in DOMAIN candidates /\ updated \in Nat /\ turns \in 0 .. MaxTurns
  BY <1>1 DEF TreeTypes, Tree!TypeOK
<1>4. [tree |-> tree, from |-> from] \in [tree : Tree!Trees, from : Nat] BY <1>3
<1>5. /\ candidates' \in Seq([tree : Tree!Trees, from : Nat]) /\ Len(candidates') = Len(candidates) + 1
      /\ \A h \in DOMAIN candidates : h \in DOMAIN candidates' /\ candidates'[h] = candidates[h]
      /\ candidates'[Len(candidates')] = [tree |-> tree, from |-> from]
      /\ newest' \in DOMAIN candidates'
      /\ \A h \in DOMAIN candidates' : h \in DOMAIN candidates \/ h = Len(candidates')
  BY <1>2, <1>3, <1>4
<1>6. Grows BY <1>2, <1>3, <1>5 DEF Grows
<1>7. \A h \in DOMAIN candidates' : candidates'[h].tree \in Tree!Trees /\ candidates'[h].from \in DOMAIN trunk'
  BY <1>2, <1>3, <1>5
<1>8. turns' \in 0 .. MaxTurns BY <1>2, <1>3, TreeAssumption DEF Tree!BoundsAssumption
<1>9. TreeTypes' BY <1>1, <1>2, <1>3, <1>5, <1>7, <1>8 DEF TreeTypes, Tree!TypeOK
<1>10. QED BY <1>2, <1>6, <1>9, WorldStep

LEMMA FilesPushBack ==
  ASSUME FilesInv, NEW h \in DOMAIN candidates, Tree!PushBack(h)
  PROVE  FilesInv'
PROOF
<1>1. TreeTypes BY DEF FilesInv
<1>2. /\ turns < MaxTurns /\ turns' = turns + 1 /\ UNCHANGED <<listing, listed, relisted>>
      /\ candidates' = candidates /\ newest' = h /\ updated' = updated + 1 /\ trunk' = trunk /\ checkout' = checkout
  BY DEF Tree!PushBack, Tree!Move, Tree!owner
<1>3. updated \in Nat /\ turns \in 0 .. MaxTurns BY <1>1 DEF TreeTypes, Tree!TypeOK
<1>4. Grows BY <1>2, <1>3 DEF Grows
<1>5. turns' \in 0 .. MaxTurns BY <1>2, <1>3, TreeAssumption DEF Tree!BoundsAssumption
<1>6. updated' \in Nat BY <1>2, <1>3
<1>7. TreeTypes' BY <1>1, <1>2, <1>5, <1>6 DEF TreeTypes, Tree!TypeOK
<1>8. QED BY <1>2, <1>4, <1>7, WorldStep

LEMMA FilesMoveMain ==
  ASSUME FilesInv, NEW p \in Paths, NEW c \in Contents \cup {Absent}, Tree!MoveMain(p, c)
  PROVE  FilesInv'
PROOF
<1>1. TreeTypes BY DEF FilesInv
<1>2. /\ turns < MaxTurns /\ turns' = turns + 1 /\ UNCHANGED <<listing, listed, relisted>>
      /\ trunk' = Append(trunk, [trunk[Len(trunk)] EXCEPT ![p] = c])
      /\ candidates' = candidates /\ newest' = newest /\ updated' = updated /\ checkout' = checkout
  BY DEF Tree!MoveMain, Tree!Move, Tree!owner, Tree!Tip
<1>3. /\ trunk \in Seq(Tree!Trees)
      /\ \A h \in DOMAIN candidates : candidates[h].tree \in Tree!Trees /\ candidates[h].from \in DOMAIN trunk
      /\ newest \in DOMAIN candidates /\ updated \in Nat /\ turns \in 0 .. MaxTurns
  BY <1>1 DEF TreeTypes, Tree!TypeOK
<1>4. Len(trunk) \in DOMAIN trunk
  <2>1. candidates[newest].from \in DOMAIN trunk BY <1>3
  <2>2. QED BY <1>3, <2>1
<1>5. [trunk[Len(trunk)] EXCEPT ![p] = c] \in Tree!Trees BY <1>3, <1>4 DEF Tree!Trees
<1>6. /\ trunk' \in Seq(Tree!Trees)
      /\ \A i \in DOMAIN trunk : i \in DOMAIN trunk' /\ trunk'[i] = trunk[i]
  BY <1>2, <1>3, <1>5
<1>7. Grows BY <1>2, <1>3, <1>6 DEF Grows
<1>8. turns' \in 0 .. MaxTurns BY <1>2, <1>3, TreeAssumption DEF Tree!BoundsAssumption
<1>9. \A i \in DOMAIN trunk' : trunk'[i] \in Tree!Trees BY <1>6
<1>10. Tree!TypeOK' BY <1>1, <1>2, <1>3, <1>6, <1>8, <1>9 DEF TreeTypes, Tree!TypeOK
<1>11. TreeTypes' BY <1>1, <1>2, <1>6, <1>10 DEF TreeTypes
<1>12. QED BY <1>2, <1>7, <1>11, WorldStep

LEMMA FilesCheckout ==
  ASSUME FilesInv, Tree!Checkout
  PROVE  FilesInv'
PROOF
<1>1. TreeTypes BY DEF FilesInv
<1>2. /\ UNCHANGED <<listing, listed, relisted, turns, trunk, candidates, newest, updated>>
      /\ checkout' = newest
  BY DEF Tree!Checkout, Tree!owner, Tree!github
<1>3. Grows BY <1>1, <1>2 DEF Grows, TreeTypes, Tree!TypeOK
<1>4. TreeTypes' BY <1>1, <1>2 DEF TreeTypes, Tree!TypeOK
<1>5. QED BY <1>2, <1>3, <1>4, WorldStep

-----------------------------------------------------------------------------
\* A read adds one response, and the owner's order says which are there before.
LEMMA ReadAdds ==
  ASSUME NEW l \in Tree!LABELS, Tree!Read(l)
  PROVE  /\ ~relisted /\ l \notin DOMAIN listing
         /\ UNCHANGED <<trunk, candidates, newest, updated, checkout, turns, listed, relisted>>
         /\ DOMAIN listing' = DOMAIN listing \cup {l} /\ listing'[l] = Tree!Response(l)
         /\ \A k \in DOMAIN listing : listing'[k] = listing[k]
         /\ PullFirst /\ l = "pull-files" => "pull" \in DOMAIN listing
         /\ FilesFirst /\ l = "pull" => "pull-files" \in DOMAIN listing
PROOF
<1>1. /\ ~relisted /\ l \notin DOMAIN listing
      /\ UNCHANGED <<trunk, candidates, newest, updated, checkout, turns, listed, relisted>>
      /\ listing' = [k \in DOMAIN listing \cup {l} |-> IF k = l THEN Tree!Response(l) ELSE listing[k]]
  BY DEF Tree!Read, Tree!github
<1>2. PICK o \in TreeOrders : \E n \in DOMAIN o :
        o[n] = l /\ DOMAIN listing = {o[i] : i \in 1 .. n - 1}
  BY DEF Tree!Read
<1>3. PICK n \in DOMAIN o : o[n] = l /\ DOMAIN listing = {o[i] : i \in 1 .. n - 1} BY <1>2
<1>4. PullFirst /\ l = "pull-files" => "pull" \in DOMAIN listing BY <1>3 DEF PullFirst
<1>5. FilesFirst /\ l = "pull" => "pull-files" \in DOMAIN listing BY <1>3 DEF FilesFirst
<1>6. QED BY <1>1, <1>4, <1>5

\* What the responses that matter here say.
LEMMA ResponsesAre ==
  /\ Tree!Response("pull").head = newest /\ Tree!Response("pull").base = Len(trunk)
  /\ Tree!Response("pull").clean <=> candidates[newest].from = Len(trunk)
  /\ Tree!Response("pull").updated = updated
  /\ Tree!Response("pull-files") = DiffIn(trunk, candidates, newest)
  /\ Tree!Response("sources") = [head |-> checkout, files |-> [p \in SOURCES |-> candidates[checkout].tree[p]]]
PROOF
<1>1. Tree!Diff(newest) = DiffIn(trunk, candidates, newest) BY DiffIsDiffIn
<1>2. /\ Tree!Response("pull").head = newest /\ Tree!Response("pull").base = Tree!Tip
      /\ Tree!Response("pull").updated = updated
  BY DEF Tree!Response
<1>3. Tree!Response("pull").clean <=> Tree!Clean(newest) BY DEF Tree!Response
<1>4. Tree!Response("pull-files") = Tree!Diff(newest) BY DEF Tree!Response
<1>5. Tree!Response("sources") = [head |-> checkout, files |-> [p \in SOURCES |-> candidates[checkout].tree[p]]]
  BY DEF Tree!Response, Tree!TreeOf
<1>6. Tree!Clean(newest) <=> candidates[newest].from = Len(trunk) BY DEF Tree!Clean, Tree!Tip
<1>7. QED BY <1>1, <1>2, <1>3, <1>4, <1>5, <1>6 DEF Tree!Tip

LEMMA FilesRead ==
  ASSUME FilesInv, NEW l \in Tree!LABELS, Tree!Read(l)
  PROVE  FilesInv'
PROOF
<1> DEFINE r == Tree!Response(l)
<1>1. /\ ~relisted /\ l \notin DOMAIN listing
      /\ UNCHANGED <<trunk, candidates, newest, updated, checkout, turns, listed, relisted>>
      /\ DOMAIN listing' = DOMAIN listing \cup {l} /\ listing'[l] = Tree!Response(l)
      /\ \A k \in DOMAIN listing : listing'[k] = listing[k]
      /\ PullFirst /\ l = "pull-files" => "pull" \in DOMAIN listing
      /\ FilesFirst /\ l = "pull" => "pull-files" \in DOMAIN listing
  BY ReadAdds
<1>2. TreeTypes /\ PullWasRead(listing) /\ SourcesWereRead(listing) /\ ListedInv BY DEF FilesInv
<1>3. /\ newest \in DOMAIN candidates /\ checkout \in DOMAIN candidates /\ updated \in Nat
      /\ candidates[newest].from \in DOMAIN trunk /\ trunk \in Seq(Tree!Trees)
  BY <1>2 DEF TreeTypes, Tree!TypeOK
<1>4. Len(trunk) \in DOMAIN trunk BY <1>3
<1>5. TreeTypes' BY <1>1, <1>2 DEF TreeTypes, Tree!TypeOK
<1>6. PullWasRead(listing)'
  <2>1. l = "pull" => /\ listing'["pull"].head = newest /\ listing'["pull"].base = Len(trunk)
                      /\ listing'["pull"].clean <=> candidates[newest].from = Len(trunk)
                      /\ listing'["pull"].updated = updated
    BY <1>1, ResponsesAre
  <2>2. CASE l = "pull" BY <1>1, <1>3, <1>4, <2>1, <2>2 DEF PullWasRead
  <2>3. CASE l # "pull" BY <1>1, <1>2, <2>3 DEF PullWasRead
  <2>4. QED BY <2>2, <2>3
<1>7. SourcesWereRead(listing)'
  <2>1. l = "sources" => /\ listing'["sources"].head = checkout
                         /\ listing'["sources"].files = [p \in SOURCES |-> candidates[checkout].tree[p]]
    BY <1>1, ResponsesAre
  <2>2. CASE l = "sources" BY <1>1, <1>3, <2>1, <2>2 DEF SourcesWereRead, Tree!TreeOf
  <2>3. CASE l # "sources" BY <1>1, <1>2, <2>3 DEF SourcesWereRead, Tree!TreeOf
  <2>4. QED BY <2>2, <2>3
<1>8. ListedInv'
  BY <1>1, <1>2 DEF ListedInv, PullWasRead, Tree!ControlsAreTheCandidates, Tree!TreeOf
<1>9. PullFirst => PullFirstInv'
  <2>1. SUFFICES ASSUME PullFirst PROVE PullFirstInv' OBVIOUS
  <2>2. PullFirstInv BY <2>1 DEF FilesInv
  <2>3. FilesAfterPull(listing)'
    <3>1. CASE l = "pull" BY <1>1, <2>2, <3>1 DEF PullFirstInv, FilesAfterPull
    <3>2. CASE l = "pull-files"
      <4>1. SUFFICES ASSUME listing'["pull"].updated = updated
                     PROVE  listing'["pull-files"] = DiffIn(trunk, candidates, listing'["pull"].head)
        BY <1>1 DEF FilesAfterPull
      <4>2. "pull" \in DOMAIN listing /\ listing'["pull"] = listing["pull"] BY <1>1, <2>1, <3>2
      <4>3. listing["pull"].head = newest BY <1>2, <4>1, <4>2 DEF PullWasRead
      <4>4. QED BY <1>1, <3>2, <4>2, <4>3, ResponsesAre
    <3>3. CASE l \notin {"pull", "pull-files"} BY <1>1, <2>2, <3>3 DEF PullFirstInv, FilesAfterPull
    <3>4. QED BY <3>1, <3>2, <3>3
  <2>4. listed # None => FilesAfterPull(listed)' BY <1>1, <2>2 DEF PullFirstInv, FilesAfterPull
  <2>5. listed # None /\ Confirmed' => listed["pull-files"] = DiffIn(trunk, candidates, listed["pull"].head)
    <3>1. SUFFICES ASSUME listed # None, Confirmed'
                   PROVE  listed["pull-files"] = DiffIn(trunk, candidates, listed["pull"].head)
      OBVIOUS
    <3>2. CASE l = "pull"
      <4>1. listed["pull"].updated = updated BY <1>1, <3>1, <3>2, ResponsesAre DEF Confirmed
      <4>2. DOMAIN listed = Tree!LABELS BY <1>2, <3>1 DEF ListedInv
      <4>3. QED BY <2>2, <3>1, <4>1, <4>2 DEF PullFirstInv, FilesAfterPull, Tree!LABELS
    <3>3. CASE l # "pull" BY <1>1, <2>2, <3>1, <3>3 DEF PullFirstInv, Confirmed
    <3>4. QED BY <3>2, <3>3
  <2>6. "pull-files" \in DOMAIN listing' => "pull" \in DOMAIN listing'
    BY <1>1, <2>1, <2>2 DEF PullFirstInv
  <2>7. QED BY <1>1, <2>3, <2>4, <2>5, <2>6 DEF PullFirstInv
<1>10. FilesFirst => FilesFirstInv'
  <2>1. SUFFICES ASSUME FilesFirst PROVE FilesFirstInv' OBVIOUS
  <2>2. FilesFirstInv BY <2>1 DEF FilesInv
  <2>3. "pull" \in DOMAIN listing' => "pull-files" \in DOMAIN listing'
    BY <1>1, <2>1, <2>2 DEF FilesFirstInv
  <2>4. SUFFICES ASSUME listed # None, "pull-files" \in DOMAIN listing',
                        listed["pull"].updated = updated \/ Confirmed'
                 PROVE  listing'["pull-files"] = DiffIn(trunk, candidates, listed["pull"].head)
    BY <1>1, <2>3 DEF FilesFirstInv
  <2>5. DOMAIN listed = Tree!LABELS /\ PullWasRead(listed) BY <1>2, <2>4 DEF ListedInv
  <2>6. "pull" \in DOMAIN listed BY <2>5 DEF Tree!LABELS
  <2>7. CASE l = "pull-files"
    <3>1. "pull" \notin DOMAIN listing' BY <1>1, <2>2, <2>7 DEF FilesFirstInv
    <3>2. listed["pull"].updated = updated BY <2>4, <3>1 DEF Confirmed
    <3>3. listed["pull"].head = newest BY <2>5, <2>6, <3>2 DEF PullWasRead
    <3>4. QED BY <1>1, <2>7, <3>3, ResponsesAre
  <2>8. CASE l = "pull"
    <3>1. Confirmed' => listed["pull"].updated = updated BY <1>1, <2>8, ResponsesAre DEF Confirmed
    <3>2. "pull-files" \in DOMAIN listing /\ listing'["pull-files"] = listing["pull-files"]
      BY <1>1, <2>1, <2>8
    <3>3. QED BY <2>2, <2>4, <3>1, <3>2 DEF FilesFirstInv
  <2>9. CASE l \notin {"pull", "pull-files"}
    <3>1. Confirmed' => Confirmed BY <1>1, <2>9 DEF Confirmed
    <3>2. "pull-files" \in DOMAIN listing /\ listing'["pull-files"] = listing["pull-files"]
      BY <1>1, <2>4, <2>9
    <3>3. QED BY <2>2, <2>4, <3>1, <3>2 DEF FilesFirstInv
  <2>10. QED BY <2>7, <2>8, <2>9
<1>11. QED BY <1>1, <1>5, <1>6, <1>7, <1>8, <1>9, <1>10 DEF FilesInv

\* An accepted package has all responses, and they are of one candidate.
LEMMA AcceptedIs ==
  ASSUME Tree!Accepted
  PROVE  /\ DOMAIN listing = Tree!LABELS /\ listing["pull"].clean
         /\ Tree!PullFiles(listing, candidates[listing["pull"].head].tree)
         /\ Tree!ValidatorSource(listing, candidates[listing["pull"].head].tree)
         /\ Tree!WorkflowBlobs(listing, candidates[listing["pull"].head].tree)
PROOF BY DEF Tree!Accepted, Tree!validate_package_response_semantics, Tree!Pull, Tree!TreeOf

LEMMA FilesSeal == ASSUME FilesInv, Tree!Seal PROVE FilesInv'
PROOF
<1>1. /\ listed = None /\ listed' = listing /\ listing' = Tree!NoResponses
      /\ UNCHANGED <<trunk, candidates, newest, updated, checkout, turns, relisted>>
  BY DEF Tree!Seal, Tree!github
<1>2. TreeTypes /\ PullWasRead(listing) /\ SourcesWereRead(listing) /\ ~relisted
  BY <1>1 DEF FilesInv
<1>3. /\ DOMAIN listing = Tree!LABELS /\ listing["pull"].clean
      /\ Tree!ValidatorSource(listing, candidates[listing["pull"].head].tree)
      /\ Tree!WorkflowBlobs(listing, candidates[listing["pull"].head].tree)
  BY AcceptedIs DEF Tree!Seal
<1>4. DOMAIN listing' = {} BY <1>1 DEF Tree!NoResponses
<1>5. TreeTypes' BY <1>1, <1>2, <1>4 DEF TreeTypes, Tree!TypeOK
<1>6. PullWasRead(listing)' /\ SourcesWereRead(listing)' BY <1>4 DEF PullWasRead, SourcesWereRead
<1>7. Tree!ControlsAreTheCandidates'
  <2>1. listed'["sources"].files = [p \in SOURCES |-> candidates'[listed'["pull"].head].tree[p]]
    <3>1. listing["sources"].head = listing["pull"].head BY <1>3 DEF Tree!ValidatorSource
    <3>2. listing["sources"].files = [p \in SOURCES |-> candidates[listing["sources"].head].tree[p]]
      BY <1>2, <1>3 DEF SourcesWereRead, Tree!TreeOf, Tree!LABELS
    <3>3. QED BY <1>1, <3>1, <3>2
  <2>2. \A p \in WORKFLOWS : IF p \in DOMAIN Frozen THEN candidates[listing["pull"].head].tree[p] = Frozen[p]
                                                    ELSE candidates[listing["pull"].head].tree[p] = Absent
    BY <1>3 DEF Tree!WorkflowBlobs, Tree!Workflows
  <2>3. QED BY <1>1, <2>1, <2>2 DEF Tree!ControlsAreTheCandidates, Tree!TreeOf
<1>8. ListedInv' BY <1>1, <1>2, <1>3, <1>7 DEF ListedInv, PullWasRead
<1>9. PullFirst => PullFirstInv'
  BY <1>1, <1>4 DEF FilesInv, PullFirstInv, FilesAfterPull, Confirmed
<1>10. FilesFirst => FilesFirstInv' BY <1>4 DEF FilesFirstInv
<1>11. QED BY <1>1, <1>2, <1>5, <1>6, <1>8, <1>9, <1>10 DEF FilesInv

LEMMA FilesSealLast == ASSUME FilesInv, Tree!SealLast PROVE FilesInv'
PROOF
<1>1. /\ listed # None /\ listing = listed /\ relisted' = TRUE
      /\ UNCHANGED <<trunk, candidates, newest, updated, checkout, turns, listing, listed>>
  BY DEF Tree!SealLast, Tree!github, Tree!StableWindow
<1>2. TreeTypes' BY <1>1 DEF FilesInv, TreeTypes, Tree!TypeOK
<1>3. PullWasRead(listing)' /\ SourcesWereRead(listing)'
  BY <1>1 DEF FilesInv, PullWasRead, SourcesWereRead, Tree!TreeOf
<1>4. ListedInv'
  BY <1>1 DEF FilesInv, ListedInv, PullWasRead, Tree!ControlsAreTheCandidates, Tree!TreeOf
<1>5. PullFirst => PullFirstInv' BY <1>1 DEF FilesInv, PullFirstInv, FilesAfterPull, Confirmed
<1>6. FilesFirst => FilesFirstInv' BY <1>1 DEF FilesInv, FilesFirstInv, Confirmed
<1>7. QED BY <1>1, <1>2, <1>3, <1>4, <1>5, <1>6 DEF FilesInv

LEMMA FilesStutter == ASSUME FilesInv, UNCHANGED Tree!vars PROVE FilesInv'
PROOF
<1>1. UNCHANGED <<trunk, candidates, newest, updated, checkout, turns, listing, listed, relisted>>
  BY DEF Tree!vars, Tree!github
<1>2. TreeTypes' BY <1>1 DEF FilesInv, TreeTypes, Tree!TypeOK
<1>3. Grows BY <1>1 DEF Grows, FilesInv, TreeTypes, Tree!TypeOK
<1>4. QED BY <1>1, <1>2, <1>3, WorldStep

LEMMA FilesNext == ASSUME FilesInv, [Tree!Next]_(Tree!vars) PROVE FilesInv'
PROOF
<1>1. CASE Tree!Checkout BY <1>1, FilesCheckout
<1>2. CASE Tree!Seal BY <1>2, FilesSeal
<1>3. CASE Tree!SealLast BY <1>3, FilesSealLast
<1>4. CASE \E tree \in Tree!Trees : \E from \in DOMAIN trunk : Tree!Push(tree, from)
  BY <1>4, FilesPush
<1>5. CASE \E h \in DOMAIN candidates : Tree!PushBack(h) BY <1>5, FilesPushBack
<1>6. CASE \E p \in Paths : \E c \in Contents \cup {Absent} : Tree!MoveMain(p, c)
  BY <1>6, FilesMoveMain
<1>7. CASE \E l \in Tree!LABELS : Tree!Read(l) BY <1>7, FilesRead
<1>8. CASE UNCHANGED Tree!vars BY <1>8, FilesStutter
<1>9. QED BY <1>1, <1>2, <1>3, <1>4, <1>5, <1>6, <1>7, <1>8 DEF Tree!Next

\* The list of an accepted window is the difference of its pull request: whichever of the
\* two the owner asks for first, the other package has confirmed it.
LEMMA FilesImply == FilesInv => TreeInv
PROOF
<1>1. SUFFICES ASSUME FilesInv PROVE TreeInv OBVIOUS
<1>2. Tree!TypeOK BY <1>1 DEF FilesInv, TreeTypes
<1>3. Tree!ControlsAreTheCandidates
  BY <1>1 DEF FilesInv, ListedInv, Tree!ControlsAreTheCandidates
<1>4. Tree!FilesAreTheDiff
  <2>1. SUFFICES ASSUME relisted
                 PROVE  /\ {file.filename : file \in listed["pull-files"]}
                             = {p \in Paths : candidates[listed["pull"].head].tree[p] # trunk[listed["pull"].base][p]}
                        /\ \A file \in listed["pull-files"] :
                             file.sha = candidates[listed["pull"].head].tree[file.filename]
    BY DEF Tree!FilesAreTheDiff, Tree!TreeOf
  <2>2. listed # None /\ listing = listed BY <1>1, <2>1 DEF FilesInv
  <2>3. /\ DOMAIN listed = Tree!LABELS /\ PullWasRead(listed) /\ listed["pull"].clean
    BY <1>1, <2>2 DEF FilesInv, ListedInv
  <2>4. candidates[listed["pull"].head].from = listed["pull"].base
    BY <2>3 DEF PullWasRead, Tree!LABELS
  <2>5. Confirmed BY <2>2, <2>3 DEF Confirmed, Tree!LABELS
  <2>6. listed["pull-files"] = DiffIn(trunk, candidates, listed["pull"].head)
    <3>1. CASE PullFirst BY <1>1, <2>2, <2>5, <3>1 DEF FilesInv, PullFirstInv
    <3>2. CASE FilesFirst BY <1>1, <2>2, <2>3, <2>5, <3>2 DEF FilesInv, FilesFirstInv, Tree!LABELS
    <3>3. QED BY <3>1, <3>2, OneOrTheOther
  <2> DEFINE to == candidates[listed["pull"].head].tree
             from == trunk[listed["pull"].base]
             changed == {p \in Paths : from[p] # to[p]}
             status(p) == IF from[p] = Absent THEN "added" ELSE IF to[p] = Absent THEN "removed" ELSE "modified"
  <2>7. listed["pull-files"] = {[filename |-> p, sha |-> to[p], status |-> status(p)] : p \in changed}
    BY <2>4, <2>6 DEF DiffIn
  <2> HIDE DEF to, from, status, changed
  <2>8. {file.filename : file \in listed["pull-files"]} = changed
    <3>1. \A file \in listed["pull-files"] : file.filename \in changed BY <2>7
    <3>2. ASSUME NEW p \in changed PROVE \E file \in listed["pull-files"] : file.filename = p
      <4>1. [filename |-> p, sha |-> to[p], status |-> status(p)] \in listed["pull-files"] BY <2>7
      <4>2. QED BY <4>1
    <3>3. QED BY <3>1, <3>2
  <2>9. \A file \in listed["pull-files"] : file.sha = to[file.filename] BY <2>7
  <2>10. QED BY <2>8, <2>9 DEF to, from, changed
<1>5. QED BY <1>2, <1>3, <1>4 DEF TreeInv

\* The files an accepted window shows to the reviewers and to the path rules are those in
\* which the candidate differs from the base it names, and its sources and workflows are
\* the candidate's own (validate_merge_ready_sources, the path and control rules), if the
\* owner always asks for the pull request before the list of its files, or always after.
THEOREM FilesAreKnown == Tree!Spec => []TreeInv
PROOF
<1>1. Tree!Init => FilesInv BY FilesInit
<1>2. FilesInv /\ [Tree!Next]_(Tree!vars) => FilesInv' BY FilesNext
<1>3. FilesInv => TreeInv BY FilesImply
<1>4. QED BY <1>1, <1>2, <1>3, PTL DEF Tree!Spec

-----------------------------------------------------------------------------
(* The executions of a candidate's checks. *)

States == {"running", "success", "failure"}
Attempts == [attempt : Nat, state : States]
JobTables == UNION {[cs -> Seq(Attempts)] : cs \in SUBSET REQUIRED_CONTEXTS}
RunRecords == [workflow : Execution!Workflows, base : Nat, head : Nat, attempt : Nat, jobs : JobTables]

\* The executions of a job are in order, and only the last may be running.
JobSound(js, attempt) ==
  /\ js \in Seq(Attempts) /\ Len(js) \in 1 .. attempt
  /\ \A n \in DOMAIN js : js[n].attempt <= attempt
  /\ \A n \in DOMAIN js : js[n].state = "running" => n = Len(js) /\ js[n].attempt = attempt
RunSound(r) ==
  /\ DOMAIN r.jobs = Execution!ContextsOf(r.workflow)
  /\ \A c \in DOMAIN r.jobs : JobSound(r.jobs[c], r.attempt)
RunsSound(w) == w \in Seq(RunRecords) /\ \A i \in DOMAIN w : RunSound(w[i])

\* What becomes of a job: its last execution ends, or there is a newer one.
JobGrows(s, t) ==
  /\ s[Len(s)].attempt <= t[Len(t)].attempt
  /\ s[Len(s)].attempt = t[Len(t)].attempt /\ s[Len(s)].state # "running" => t[Len(t)] = s[Len(s)]
  /\ \A n \in DOMAIN s : s[n].state = "success" => n \in DOMAIN t /\ t[n] = s[n]
RunGrows(q, r) ==
  /\ r.workflow = q.workflow /\ r.base = q.base /\ r.head = q.head /\ q.attempt <= r.attempt
  /\ \A c \in DOMAIN q.jobs : c \in DOMAIN r.jobs /\ JobGrows(q.jobs[c], r.jobs[c])
RunsGrow(v, w) == \A i \in DOMAIN v : i \in DOMAIN w /\ RunGrows(v[i], w[i])

\* What an element of a response says of the runs, as long as they only grow.
JobSeen(k, w, h) ==
  /\ k.run \in DOMAIN w /\ w[k.run].head = h /\ k.attempt \in Nat
  /\ k.context \in DOMAIN w[k.run].jobs
  /\ LET js == w[k.run].jobs[k.context] IN
       /\ k.attempt <= js[Len(js)].attempt
       /\ k.attempt = js[Len(js)].attempt /\ k.state # "running" =>
            js[Len(js)] = [attempt |-> k.attempt, state |-> k.state]
       /\ k.state = "success" => \E n \in DOMAIN js : js[n] = [attempt |-> k.attempt, state |-> "success"]
RunSeen(r, w, h) ==
  r.run \in DOMAIN w /\ w[r.run].head = h /\ r.attempt \in Nat /\ r.attempt <= w[r.run].attempt
LogSeen(l, w, forks, h) ==
  /\ l.run \in DOMAIN w /\ l.parents = <<w[l.run].base, h>>
  /\ l.tree = IF forks[h] = w[l.run].base THEN <<h>> ELSE <<w[l.run].base, h>>

\* What the responses of a package say of the runs there are later.
SeenBefore(b, w, forks) ==
  DOMAIN b # {} =>
    /\ "pull" \in DOMAIN b /\ b["pull"].head \in DOMAIN forks
    /\ \A l \in DOMAIN b \cap {"check-runs", "workflow-jobs"} :
         \A k \in b[l] : JobSeen(k, w, b["pull"].head)
    /\ "workflow-runs" \in DOMAIN b => \A r \in b["workflow-runs"] : RunSeen(r, w, b["pull"].head)
    /\ "workflow-logs" \in DOMAIN b => \A l \in b["workflow-logs"] : LogSeen(l, w, forks, b["pull"].head)

\* What they say of the runs there were earlier.
SeenAfter(b, w) ==
  /\ "check-runs" \in DOMAIN b => \A k \in b["check-runs"] :
       k.run \in DOMAIN w /\ k.context \in DOMAIN w[k.run].jobs =>
         w[k.run].jobs[k.context][Len(w[k.run].jobs[k.context])].attempt <= k.attempt
  /\ "workflow-runs" \in DOMAIN b =>
       /\ \A i \in DOMAIN w : w[i].head = b["pull"].head => \E r \in b["workflow-runs"] : r.run = i
       /\ \A r \in b["workflow-runs"] : r.run \in DOMAIN w => w[r.run].attempt <= r.attempt

JobTypes ==
  /\ RunsSound(runs) /\ base \in Nat /\ fork \in Seq(Nat) /\ head \in DOMAIN fork
  /\ moves \in 0 .. MaxMoves /\ DOMAIN draft \subseteq Execution!LABELS
  /\ DOMAIN draft = {} => draft = Execution!NoResponses

SealedInv ==
  package # None =>
    /\ DOMAIN package = Execution!LABELS /\ Execution!validate_package_response_semantics(package)
    /\ RunsSound(sealed) /\ RunsGrow(sealed, runs) /\ SeenBefore(package, sealed, fork)

OpenedInv ==
  package # None /\ DOMAIN draft # {} =>
    RunsSound(opened) /\ RunsGrow(sealed, opened) /\ RunsGrow(opened, runs) /\ SeenAfter(draft, opened)

WindowInv ==
  window =>
    /\ package # None /\ DOMAIN draft = {}
    /\ RunsSound(opened) /\ RunsGrow(sealed, opened) /\ SeenAfter(package, opened)

JobsInv == JobTypes /\ SeenBefore(draft, runs, fork) /\ SealedInv /\ OpenedInv /\ WindowInv

-----------------------------------------------------------------------------
LEMMA SoundJob ==
  ASSUME NEW w, RunsSound(w), NEW i \in DOMAIN w
  PROVE  /\ w[i] \in RunRecords /\ w[i].attempt \in Nat /\ w[i].base \in Nat /\ w[i].head \in Nat
         /\ \A c \in DOMAIN w[i].jobs :
              LET js == w[i].jobs[c] IN
                /\ js \in Seq(Attempts) /\ Len(js) \in DOMAIN js
                /\ js[Len(js)].attempt \in Nat /\ js[Len(js)].state \in States
                /\ js[Len(js)] = [attempt |-> js[Len(js)].attempt, state |-> js[Len(js)].state]
PROOF
<1>1. w \in Seq(RunRecords) /\ RunSound(w[i]) BY DEF RunsSound
<1>2. w[i] \in RunRecords BY <1>1
<1>3. w[i].attempt \in Nat /\ w[i].base \in Nat /\ w[i].head \in Nat BY <1>2 DEF RunRecords
<1>4. ASSUME NEW c \in DOMAIN w[i].jobs
      PROVE  LET js == w[i].jobs[c] IN
               /\ js \in Seq(Attempts) /\ Len(js) \in DOMAIN js
               /\ js[Len(js)].attempt \in Nat /\ js[Len(js)].state \in States
               /\ js[Len(js)] = [attempt |-> js[Len(js)].attempt, state |-> js[Len(js)].state]
  <2> DEFINE js == w[i].jobs[c]
  <2>1. js \in Seq(Attempts) /\ Len(js) \in 1 .. w[i].attempt BY <1>1 DEF RunSound, JobSound
  <2>2. Len(js) \in DOMAIN js BY <1>3, <2>1
  <2>3. js[Len(js)] \in Attempts BY <2>1, <2>2
  <2>4. QED BY <2>1, <2>2, <2>3 DEF Attempts
<1>5. QED BY <1>2, <1>3, <1>4

LEMMA GrowthIsOfEveryJob ==
  ASSUME NEW v, NEW w, RunsGrow(v, w), NEW i \in DOMAIN v, NEW c \in DOMAIN v[i].jobs
  PROVE  /\ i \in DOMAIN w /\ c \in DOMAIN w[i].jobs /\ JobGrows(v[i].jobs[c], w[i].jobs[c])
         /\ w[i].base = v[i].base /\ w[i].head = v[i].head /\ v[i].attempt <= w[i].attempt
PROOF BY DEF RunsGrow, RunGrows

LEMMA GrowsFromItself == ASSUME NEW w, RunsSound(w) PROVE RunsGrow(w, w)
PROOF
<1>1. ASSUME NEW i \in DOMAIN w PROVE RunGrows(w[i], w[i])
  <2>1. w[i].attempt \in Nat BY SoundJob
  <2>2. ASSUME NEW c \in DOMAIN w[i].jobs PROVE JobGrows(w[i].jobs[c], w[i].jobs[c])
    <3>1. LET js == w[i].jobs[c] IN js[Len(js)].attempt \in Nat BY SoundJob
    <3>2. QED BY <3>1 DEF JobGrows
  <2>3. QED BY <2>1, <2>2 DEF RunGrows
<1>2. QED BY <1>1 DEF RunsGrow

LEMMA GrowsOn ==
  ASSUME NEW u, NEW v, NEW w, RunsSound(u), RunsSound(v), RunsSound(w), RunsGrow(u, v), RunsGrow(v, w)
  PROVE  RunsGrow(u, w)
PROOF
<1>1. SUFFICES ASSUME NEW i \in DOMAIN u PROVE i \in DOMAIN w /\ RunGrows(u[i], w[i])
  BY DEF RunsGrow
<1>2. /\ i \in DOMAIN v /\ RunGrows(u[i], v[i]) /\ i \in DOMAIN w /\ RunGrows(v[i], w[i])
  BY DEF RunsGrow
<1>3. u[i].attempt \in Nat /\ v[i].attempt \in Nat /\ w[i].attempt \in Nat BY <1>2, SoundJob
<1>4. ASSUME NEW c \in DOMAIN u[i].jobs
      PROVE  c \in DOMAIN w[i].jobs /\ JobGrows(u[i].jobs[c], w[i].jobs[c])
  <2> DEFINE s == u[i].jobs[c]  t == v[i].jobs[c]  z == w[i].jobs[c]
  <2>1. c \in DOMAIN v[i].jobs /\ c \in DOMAIN w[i].jobs /\ JobGrows(s, t) /\ JobGrows(t, z)
    BY <1>2, <1>4 DEF RunGrows
  <2>2. /\ s[Len(s)].attempt \in Nat /\ t[Len(t)].attempt \in Nat /\ z[Len(z)].attempt \in Nat
    BY <1>2, <2>1, SoundJob
  <2> HIDE DEF s, t, z
  <2>3. JobGrows(s, z) BY <2>1, <2>2 DEF JobGrows
  <2>4. QED BY <2>1, <2>3 DEF s, z
<1>5. QED BY <1>2, <1>3, <1>4 DEF RunGrows

\* What was seen stays true while the runs grow.
LEMMA JobStaysSeen ==
  ASSUME NEW v, NEW w, RunsSound(v), RunsSound(w), RunsGrow(v, w), NEW k, NEW h, JobSeen(k, v, h)
  PROVE  JobSeen(k, w, h)
PROOF
<1> DEFINE s == v[k.run].jobs[k.context]  t == w[k.run].jobs[k.context]
<1>1. /\ k.run \in DOMAIN v /\ v[k.run].head = h /\ k.attempt \in Nat
      /\ k.context \in DOMAIN v[k.run].jobs
      /\ k.attempt <= s[Len(s)].attempt
      /\ k.attempt = s[Len(s)].attempt /\ k.state # "running" =>
           s[Len(s)] = [attempt |-> k.attempt, state |-> k.state]
      /\ k.state = "success" => \E n \in DOMAIN s : s[n] = [attempt |-> k.attempt, state |-> "success"]
  BY DEF JobSeen
<1>2. /\ k.run \in DOMAIN w /\ k.context \in DOMAIN w[k.run].jobs /\ JobGrows(s, t)
      /\ w[k.run].head = v[k.run].head
  BY <1>1, GrowthIsOfEveryJob
<1>3. s[Len(s)].attempt \in Nat /\ t[Len(t)].attempt \in Nat BY <1>1, <1>2, SoundJob
<1> HIDE DEF s, t
<1>4. k.attempt <= t[Len(t)].attempt BY <1>1, <1>2, <1>3 DEF JobGrows
<1>5. k.attempt = t[Len(t)].attempt /\ k.state # "running" =>
        t[Len(t)] = [attempt |-> k.attempt, state |-> k.state]
  BY <1>1, <1>2, <1>3 DEF JobGrows
<1>6. k.state = "success" => \E n \in DOMAIN t : t[n] = [attempt |-> k.attempt, state |-> "success"]
  BY <1>1, <1>2 DEF JobGrows
<1>7. QED BY <1>1, <1>2, <1>4, <1>5, <1>6 DEF JobSeen, t

LEMMA StaysSeen ==
  ASSUME NEW v, NEW w, RunsSound(v), RunsSound(w), RunsGrow(v, w), NEW f, NEW g,
         \A h \in DOMAIN f : h \in DOMAIN g /\ g[h] = f[h],
         NEW b, SeenBefore(b, v, f)
  PROVE  SeenBefore(b, w, g)
PROOF
<1>1. SUFFICES ASSUME DOMAIN b # {}
               PROVE  /\ "pull" \in DOMAIN b /\ b["pull"].head \in DOMAIN g
                      /\ \A l \in DOMAIN b \cap {"check-runs", "workflow-jobs"} :
                           \A k \in b[l] : JobSeen(k, w, b["pull"].head)
                      /\ "workflow-runs" \in DOMAIN b =>
                           \A r \in b["workflow-runs"] : RunSeen(r, w, b["pull"].head)
                      /\ "workflow-logs" \in DOMAIN b =>
                           \A l \in b["workflow-logs"] : LogSeen(l, w, g, b["pull"].head)
  BY DEF SeenBefore
<1>2. "pull" \in DOMAIN b /\ b["pull"].head \in DOMAIN f BY <1>1 DEF SeenBefore
<1>3. ASSUME NEW l \in DOMAIN b \cap {"check-runs", "workflow-jobs"}, NEW k \in b[l]
      PROVE  JobSeen(k, w, b["pull"].head)
  <2>1. JobSeen(k, v, b["pull"].head) BY <1>1, <1>3 DEF SeenBefore
  <2>2. QED BY <2>1, JobStaysSeen
<1>4. ASSUME "workflow-runs" \in DOMAIN b, NEW r \in b["workflow-runs"]
      PROVE  RunSeen(r, w, b["pull"].head)
  <2>1. RunSeen(r, v, b["pull"].head) BY <1>1, <1>4 DEF SeenBefore
  <2>2. /\ r.run \in DOMAIN v /\ r.run \in DOMAIN w /\ w[r.run].head = v[r.run].head
        /\ v[r.run].attempt <= w[r.run].attempt
    BY <2>1 DEF RunSeen, RunsGrow, RunGrows
  <2>3. v[r.run].attempt \in Nat /\ w[r.run].attempt \in Nat BY <2>2, SoundJob
  <2>4. QED BY <2>1, <2>2, <2>3 DEF RunSeen
<1>5. ASSUME "workflow-logs" \in DOMAIN b, NEW l \in b["workflow-logs"]
      PROVE  LogSeen(l, w, g, b["pull"].head)
  <2>1. LogSeen(l, v, f, b["pull"].head) BY <1>1, <1>5 DEF SeenBefore
  <2>2. l.run \in DOMAIN w /\ w[l.run].base = v[l.run].base
    BY <2>1 DEF LogSeen, RunsGrow, RunGrows
  <2>3. QED BY <1>2, <2>1, <2>2 DEF LogSeen
<1>6. QED BY <1>2, <1>3, <1>4, <1>5

-----------------------------------------------------------------------------
\* The component counts its sets as the library's theorems do.
LEMMA OneCount ==
  \A S : /\ Execution!IsFiniteSet(S) <=> IsFiniteSet(S)
         /\ Execution!Cardinality(S) = Cardinality(S)
PROOF
<1>1. \A S : Execution!IsFiniteSet(S) <=> IsFiniteSet(S) BY DEF Execution!IsFiniteSet, IsFiniteSet
<1>2. \A S : Execution!Cardinality(S) = Cardinality(S) BY Zenon DEF Execution!Cardinality, Cardinality
<1>3. QED BY <1>1, <1>2

LEMMA ListOfASet ==
  ASSUME NEW S, IsFiniteSet(S)
  PROVE  Cardinality(S) \in Nat /\ Execution!SetToSeq(S) \in [1 .. Cardinality(S) -> S]
PROOF
<1>1. Cardinality(S) \in Nat /\ ExistsBijection(1 .. Cardinality(S), S) BY FS_CardinalityType
<1>2. \E f \in [1 .. Cardinality(S) -> S] : Execution!IsInjective(f)
  BY <1>1 DEF ExistsBijection, Bijection, Injection, IsInjective, Execution!IsInjective
<1>3. (CHOOSE f \in [1 .. Cardinality(S) -> S] : Execution!IsInjective(f)) \in [1 .. Cardinality(S) -> S]
  BY <1>2
<1>4. QED BY <1>1, <1>3, OneCount DEF Execution!SetToSeq

\* GitHub makes a run of every workflow.
LEMMA FinitelyManyWorkflows == IsFiniteSet(Execution!Workflows)
PROOF
<1> DEFINE f == [c \in REQUIRED_CONTEXTS |-> CONTEXT_WORKFLOW_PATHS[c]]
<1>1. f \in Surjection(REQUIRED_CONTEXTS, Execution!Workflows) BY DEF Surjection, Execution!Workflows
<1>2. IsFiniteSet(REQUIRED_CONTEXTS) BY ExecutionAssumption, OneCount DEF Execution!ContextsAssumption
<1> HIDE DEF f
<1>3. QED BY <1>1, <1>2, FS_Surjection

LEMMA NewRunIsSound ==
  ASSUME NEW wf \in Execution!Workflows, NEW b \in Nat, NEW h \in Nat
  PROVE  Execution!NewRun(wf, b, h) \in RunRecords /\ RunSound(Execution!NewRun(wf, b, h))
PROOF
<1> DEFINE js == <<[attempt |-> 1, state |-> "running"]>>
           cs == Execution!ContextsOf(wf)
           jobs == [c \in cs |-> js]
<1>1. js \in Seq(Attempts) /\ Len(js) = 1 /\ DOMAIN js = {1} /\ js[1] = [attempt |-> 1, state |-> "running"]
  BY DEF Attempts, States
<1>2. JobSound(js, 1) BY <1>1 DEF JobSound
<1>3. cs \subseteq REQUIRED_CONTEXTS BY DEF Execution!ContextsOf
<1>4. jobs \in JobTables BY <1>1, <1>3 DEF JobTables
<1>5. Execution!NewRun(wf, b, h) = [workflow |-> wf, base |-> b, head |-> h, attempt |-> 1, jobs |-> jobs]
  BY DEF Execution!NewRun
<1> HIDE DEF jobs, js
<1>6. Execution!NewRun(wf, b, h) \in RunRecords BY <1>4, <1>5 DEF RunRecords
<1>7. RunSound(Execution!NewRun(wf, b, h)) BY <1>2, <1>5 DEF RunSound, jobs
<1>8. QED BY <1>6, <1>7

LEMMA NewRunsAreSound ==
  ASSUME NEW b \in Nat, NEW h \in Nat
  PROVE  RunsSound(Execution!NewRuns(b, h))
PROOF
<1> DEFINE ws == Execution!SetToSeq(Execution!Workflows)  n == Cardinality(Execution!Workflows)
<1>1. n \in Nat /\ ws \in [1 .. n -> Execution!Workflows] BY ListOfASet, FinitelyManyWorkflows
<1>2. Execution!NewRuns(b, h) = [i \in 1 .. n |-> Execution!NewRun(ws[i], b, h)]
  BY <1>1 DEF Execution!NewRuns
<1> HIDE DEF ws, n
<1>3. \A i \in 1 .. n : Execution!NewRun(ws[i], b, h) \in RunRecords /\ RunSound(Execution!NewRun(ws[i], b, h))
  BY <1>1, NewRunIsSound
<1>4. QED BY <1>1, <1>2, <1>3 DEF RunsSound

LEMMA MoreRuns ==
  ASSUME NEW w, NEW z, RunsSound(w), RunsSound(z)
  PROVE  RunsSound(w \o z) /\ RunsGrow(w, w \o z)
PROOF
<1>1. w \in Seq(RunRecords) /\ z \in Seq(RunRecords) BY DEF RunsSound
<1>2. w \o z \in Seq(RunRecords) /\ Len(w \o z) = Len(w) + Len(z) BY <1>1
<1>3. ASSUME NEW i \in DOMAIN (w \o z) PROVE RunSound((w \o z)[i])
  <2>1. CASE i <= Len(w) BY <1>1, <1>2, <2>1 DEF RunsSound
  <2>2. CASE i > Len(w)
    <3>1. i - Len(w) \in DOMAIN z /\ (w \o z)[i] = z[i - Len(w)] BY <1>1, <1>2, <2>2
    <3>2. QED BY <3>1 DEF RunsSound
  <2>3. QED BY <1>1, <1>2, <2>1, <2>2
<1>4. \A i \in DOMAIN w : i \in DOMAIN (w \o z) /\ (w \o z)[i] = w[i] BY <1>1, <1>2
<1>5. RunsGrow(w, w) BY GrowsFromItself
<1>6. RunsGrow(w, w \o z) BY <1>4, <1>5 DEF RunsGrow
<1>7. QED BY <1>2, <1>3, <1>6 DEF RunsSound

LEMMA JobsInit == Execution!Init => JobsInv
PROOF
<1>1. SUFFICES ASSUME Execution!Init PROVE JobsInv OBVIOUS
<1>2. /\ base = 1 /\ head = 1 /\ fork = <<1>> /\ runs = Execution!NewRuns(1, 1) /\ moves = 0
      /\ draft = Execution!NoResponses /\ package = None /\ window = FALSE
  BY <1>1 DEF Execution!Init
<1>3. DOMAIN draft = {} BY <1>2 DEF Execution!NoResponses
<1>4. RunsSound(runs) BY <1>2, NewRunsAreSound
<1>5. moves \in 0 .. MaxMoves BY <1>2, ExecutionAssumption DEF Execution!BoundsAssumption
<1>6. JobTypes BY <1>2, <1>3, <1>4, <1>5 DEF JobTypes
<1>7. QED BY <1>2, <1>3, <1>6 DEF JobsInv, SeenBefore, SealedInv, OpenedInv, WindowInv

\* Whatever happens at GitHub leaves the packages what they are.
LEMMA RunsStep ==
  ASSUME JobsInv, JobTypes', RunsGrow(runs, runs'),
         \A h \in DOMAIN fork : h \in DOMAIN fork' /\ fork'[h] = fork[h],
         UNCHANGED <<draft, package, window, sealed, opened>>
  PROVE  JobsInv'
PROOF
<1>1. RunsSound(runs) /\ RunsSound(runs') BY DEF JobsInv, JobTypes
<1>2. SeenBefore(draft, runs', fork') BY <1>1, StaysSeen DEF JobsInv
<1>3. SeenBefore(draft, runs, fork)' BY <1>2 DEF SeenBefore
<1>4. SealedInv'
  <2>1. SUFFICES ASSUME package # None
                 PROVE  /\ DOMAIN package = Execution!LABELS
                        /\ Execution!validate_package_response_semantics(package)
                        /\ RunsSound(sealed) /\ RunsGrow(sealed, runs') /\ SeenBefore(package, sealed, fork')
    BY DEF SealedInv
  <2>2. /\ DOMAIN package = Execution!LABELS /\ Execution!validate_package_response_semantics(package)
        /\ RunsSound(sealed) /\ RunsGrow(sealed, runs) /\ SeenBefore(package, sealed, fork)
    BY <2>1 DEF JobsInv, SealedInv
  <2>3. RunsGrow(sealed, runs') BY <1>1, <2>2, GrowsOn
  <2>4. RunsGrow(sealed, sealed) BY <2>2, GrowsFromItself
  <2>5. SeenBefore(package, sealed, fork') BY <2>2, <2>4, StaysSeen
  <2>6. QED BY <2>2, <2>3, <2>5
<1>5. OpenedInv'
  <2>1. SUFFICES ASSUME package # None, DOMAIN draft # {}
                 PROVE  /\ RunsSound(opened) /\ RunsGrow(sealed, opened) /\ RunsGrow(opened, runs')
                        /\ SeenAfter(draft, opened)
    BY DEF OpenedInv
  <2>2. /\ RunsSound(opened) /\ RunsGrow(sealed, opened) /\ RunsGrow(opened, runs) /\ SeenAfter(draft, opened)
    BY <2>1 DEF JobsInv, OpenedInv
  <2>3. RunsGrow(opened, runs') BY <1>1, <2>2, GrowsOn
  <2>4. QED BY <2>2, <2>3
<1>6. WindowInv' BY DEF JobsInv, WindowInv
<1>7. QED BY <1>3, <1>4, <1>5, <1>6 DEF JobsInv

-----------------------------------------------------------------------------
LEMMA ExecutionPush ==
  ASSUME JobsInv, NEW h \in 1 .. MaxCandidates, NEW from \in 1 .. base, h <= Len(fork) + 1,
         Execution!Push(h, from)
  PROVE  JobsInv'
PROOF
<1>1. /\ moves < MaxMoves /\ moves' = moves + 1 /\ UNCHANGED <<draft, package, window, sealed, opened>>
      /\ fork' = IF h \in DOMAIN fork THEN fork ELSE Append(fork, from)
      /\ head' = h /\ runs' = runs \o Execution!NewRuns(base, h) /\ base' = base
  BY DEF Execution!Push, Execution!Move, Execution!owner
<1>2. /\ RunsSound(runs) /\ base \in Nat /\ fork \in Seq(Nat) /\ moves \in 0 .. MaxMoves
      /\ DOMAIN draft \subseteq Execution!LABELS /\ (DOMAIN draft = {} => draft = Execution!NoResponses)
  BY DEF JobsInv, JobTypes
<1>3. h \in Nat BY ExecutionAssumption DEF Execution!BoundsAssumption
<1>4. RunsSound(runs') /\ RunsGrow(runs, runs') BY <1>1, <1>2, <1>3, NewRunsAreSound, MoreRuns
<1>5. /\ fork' \in Seq(Nat) /\ h \in DOMAIN fork'
      /\ \A g \in DOMAIN fork : g \in DOMAIN fork' /\ fork'[g] = fork[g]
  <2>1. CASE h \in DOMAIN fork BY <1>1, <1>2, <2>1
  <2>2. CASE h \notin DOMAIN fork
    <3>1. h = Len(fork) + 1 /\ from \in Nat BY <1>2, <1>3, <2>2
    <3>2. fork' = Append(fork, from) BY <1>1, <2>2
    <3>3. QED BY <1>2, <3>1, <3>2
  <2>3. QED BY <2>1, <2>2
<1>6. moves' \in 0 .. MaxMoves BY <1>1, <1>2, ExecutionAssumption DEF Execution!BoundsAssumption
<1>7. JobTypes' BY <1>1, <1>2, <1>4, <1>5, <1>6 DEF JobTypes
<1>8. QED BY <1>1, <1>4, <1>5, <1>7, RunsStep

LEMMA ExecutionReopen == ASSUME JobsInv, Execution!Reopen PROVE JobsInv'
PROOF
<1>1. /\ moves < MaxMoves /\ moves' = moves + 1 /\ UNCHANGED <<draft, package, window, sealed, opened>>
      /\ runs' = runs \o Execution!NewRuns(base, head) /\ UNCHANGED <<base, head, fork>>
  BY DEF Execution!Reopen, Execution!Move, Execution!owner
<1>2. JobTypes BY DEF JobsInv
<1>3. head \in Nat BY <1>2 DEF JobTypes
<1>4. RunsSound(runs') /\ RunsGrow(runs, runs') BY <1>1, <1>2, <1>3, NewRunsAreSound, MoreRuns DEF JobTypes
<1>5. moves' \in 0 .. MaxMoves
  BY <1>1, <1>2, ExecutionAssumption DEF JobTypes, Execution!BoundsAssumption
<1>6. JobTypes' BY <1>1, <1>2, <1>4, <1>5 DEF JobTypes
<1>7. QED BY <1>1, <1>4, <1>6, RunsStep

LEMMA ExecutionMoveBase == ASSUME JobsInv, Execution!MoveBase PROVE JobsInv'
PROOF
<1>1. /\ moves < MaxMoves /\ moves' = moves + 1 /\ UNCHANGED <<draft, package, window, sealed, opened>>
      /\ base' = base + 1 /\ UNCHANGED <<head, fork, runs>>
  BY DEF Execution!MoveBase, Execution!Move, Execution!owner
<1>2. JobTypes BY DEF JobsInv
<1>3. RunsGrow(runs, runs') BY <1>1, <1>2, GrowsFromItself DEF JobTypes
<1>4. moves' \in 0 .. MaxMoves
  BY <1>1, <1>2, ExecutionAssumption DEF JobTypes, Execution!BoundsAssumption
<1>5. JobTypes' BY <1>1, <1>2, <1>4 DEF JobTypes
<1>6. QED BY <1>1, <1>3, <1>5, RunsStep

LEMMA OneRunGrows ==
  ASSUME NEW w, RunsSound(w), NEW i \in DOMAIN w, NEW r \in RunRecords, RunSound(r), RunGrows(w[i], r)
  PROVE  RunsSound([w EXCEPT ![i] = r]) /\ RunsGrow(w, [w EXCEPT ![i] = r])
PROOF
<1> DEFINE z == [w EXCEPT ![i] = r]
<1>1. w \in Seq(RunRecords) /\ \A j \in DOMAIN w : RunSound(w[j]) BY DEF RunsSound
<1>2. z \in Seq(RunRecords) /\ DOMAIN z = DOMAIN w /\ z[i] = r /\ \A j \in DOMAIN w : j # i => z[j] = w[j]
  BY <1>1
<1> HIDE DEF z
<1>3. RunsSound(z) BY <1>1, <1>2 DEF RunsSound
<1>4. RunsGrow(w, w) BY GrowsFromItself
<1>5. RunsGrow(w, z) BY <1>2, <1>4 DEF RunsGrow
<1>6. QED BY <1>3, <1>5 DEF z

LEMMA JobEnds ==
  ASSUME NEW js, NEW attempt \in Nat, JobSound(js, attempt), NEW state \in {"success", "failure"},
         js[Len(js)].state = "running",
         NEW t, t = [js EXCEPT ![Len(js)].state = state]
  PROVE  JobSound(t, attempt) /\ JobGrows(js, t)
PROOF
<1>1. /\ js \in Seq(Attempts) /\ Len(js) \in 1 .. attempt
      /\ \A n \in DOMAIN js : js[n].attempt <= attempt
      /\ \A n \in DOMAIN js : js[n].state = "running" => n = Len(js) /\ js[n].attempt = attempt
  BY DEF JobSound
<1>2. Len(js) \in DOMAIN js BY <1>1
<1>3. js[Len(js)] \in Attempts BY <1>1, <1>2
<1>4. [js[Len(js)] EXCEPT !.state = state] = [attempt |-> js[Len(js)].attempt, state |-> state]
  BY <1>3 DEF Attempts
<1>5. [attempt |-> js[Len(js)].attempt, state |-> state] \in Attempts BY <1>3 DEF Attempts, States
<1>6. t = [js EXCEPT ![Len(js)] = [attempt |-> js[Len(js)].attempt, state |-> state]] BY <1>4
<1>7. /\ t \in Seq(Attempts) /\ Len(t) = Len(js) /\ DOMAIN t = DOMAIN js
      /\ t[Len(js)] = [attempt |-> js[Len(js)].attempt, state |-> state]
      /\ \A n \in DOMAIN js : n # Len(js) => t[n] = js[n]
  <2> DEFINE e == [attempt |-> js[Len(js)].attempt, state |-> state]
  <2> HIDE DEF e
  <2>1. t = [js EXCEPT ![Len(js)] = e] /\ e \in Attempts BY <1>5, <1>6 DEF e
  <2>2. t \in Seq(Attempts) /\ Len(t) = Len(js) /\ DOMAIN t = DOMAIN js BY <1>1, <1>2, <2>1
  <2>3. t[Len(js)] = e /\ \A n \in DOMAIN js : n # Len(js) => t[n] = js[n] BY <1>1, <1>2, <2>1
  <2>4. QED BY <2>2, <2>3 DEF e
<1>8. JobSound(t, attempt) BY <1>1, <1>2, <1>7 DEF JobSound
<1>9. js[Len(js)].attempt \in Nat BY <1>3 DEF Attempts
<1>10. JobGrows(js, t) BY <1>1, <1>2, <1>7, <1>9 DEF JobGrows
<1>11. QED BY <1>8, <1>10

LEMMA ExecutionFinish ==
  ASSUME JobsInv, NEW i \in DOMAIN runs, NEW c \in DOMAIN runs[i].jobs, NEW state \in {"success", "failure"},
         Execution!Finish(i, c, state)
  PROVE  JobsInv'
PROOF
<1> DEFINE js == runs[i].jobs[c]
           t == [js EXCEPT ![Len(js)].state = state]
           r == [runs[i] EXCEPT !.jobs = [runs[i].jobs EXCEPT ![c] = t]]
<1>1. /\ js[Len(js)].state = "running" /\ runs' = [runs EXCEPT ![i] = r]
      /\ UNCHANGED <<base, head, fork, moves, draft, package, window, sealed, opened>>
  BY DEF Execution!Finish, Execution!Last, Execution!owner
<1>2. JobTypes /\ RunsSound(runs) BY DEF JobsInv, JobTypes
<1>3. runs[i] \in RunRecords /\ runs[i].attempt \in Nat BY <1>2, SoundJob
<1>4. RunSound(runs[i]) BY <1>2 DEF RunsSound
<1>5. JobSound(js, runs[i].attempt) BY <1>4 DEF RunSound
<1>6. JobSound(t, runs[i].attempt) /\ JobGrows(js, t) BY <1>1, <1>3, <1>5, JobEnds
<1>7. RunGrows(runs[i], runs[i])
  BY <1>2, GrowsFromItself DEF RunsGrow
<1> HIDE DEF t
<1>8. PICK cs \in SUBSET REQUIRED_CONTEXTS : runs[i].jobs \in [cs -> Seq(Attempts)]
  BY <1>3 DEF RunRecords, JobTables
<1>9. t \in Seq(Attempts) BY <1>6 DEF JobSound
<1>10. /\ [runs[i].jobs EXCEPT ![c] = t] \in [cs -> Seq(Attempts)]
       /\ DOMAIN runs[i].jobs = cs /\ [runs[i].jobs EXCEPT ![c] = t][c] = t
       /\ \A d \in cs : d # c => [runs[i].jobs EXCEPT ![c] = t][d] = runs[i].jobs[d]
  BY <1>8, <1>9
<1> DEFINE jobs == [runs[i].jobs EXCEPT ![c] = t]
<1>11. jobs \in JobTables BY <1>10 DEF JobTables
<1>12. /\ r \in RunRecords /\ r.jobs = jobs /\ r.workflow = runs[i].workflow /\ r.base = runs[i].base
       /\ r.head = runs[i].head /\ r.attempt = runs[i].attempt
  BY <1>3, <1>11 DEF RunRecords
<1> HIDE DEF r, jobs
<1>13. DOMAIN jobs = DOMAIN runs[i].jobs /\ jobs[c] = t /\ \A d \in DOMAIN jobs : d # c => jobs[d] = runs[i].jobs[d]
  BY <1>10 DEF jobs
<1>14. RunSound(r) BY <1>4, <1>6, <1>12, <1>13 DEF RunSound
<1>15. RunGrows(runs[i], r) BY <1>6, <1>7, <1>12, <1>13 DEF RunGrows
<1>16. RunsSound(runs') /\ RunsGrow(runs, runs') BY <1>1, <1>2, <1>12, <1>14, <1>15, OneRunGrows
<1>17. JobTypes' BY <1>1, <1>2, <1>16 DEF JobTypes
<1>18. QED BY <1>1, <1>16, <1>17, RunsStep

\* Every job of a run that has ended is started again, or stays as it is.
LEMMA JobAgain ==
  ASSUME NEW js, NEW attempt \in Nat, JobSound(js, attempt), js[Len(js)].state # "running"
  PROVE  /\ JobSound(js, attempt + 1) /\ JobGrows(js, js)
         /\ JobSound(Append(js, [attempt |-> attempt + 1, state |-> "running"]), attempt + 1)
         /\ JobGrows(js, Append(js, [attempt |-> attempt + 1, state |-> "running"]))
PROOF
<1> DEFINE e == [attempt |-> attempt + 1, state |-> "running"]  t == Append(js, e)
<1>1. /\ js \in Seq(Attempts) /\ Len(js) \in 1 .. attempt
      /\ \A n \in DOMAIN js : js[n].attempt <= attempt
      /\ \A n \in DOMAIN js : js[n].state = "running" => n = Len(js) /\ js[n].attempt = attempt
  BY DEF JobSound
<1>2. Len(js) \in DOMAIN js BY <1>1
<1>3. \A n \in DOMAIN js : js[n].attempt \in Nat
  <2>1. \A n \in DOMAIN js : js[n] \in Attempts BY <1>1
  <2>2. QED BY <2>1 DEF Attempts
<1>4. \A n \in DOMAIN js : js[n].state # "running" BY <1>1
<1>5. e \in Attempts /\ e.attempt = attempt + 1 BY DEF Attempts, States
<1> HIDE DEF e
<1>6. /\ t \in Seq(Attempts) /\ Len(t) = Len(js) + 1 /\ t[Len(js) + 1] = e
      /\ \A n \in DOMAIN js : n \in DOMAIN t /\ t[n] = js[n]
      /\ \A n \in DOMAIN t : n \in DOMAIN js \/ n = Len(js) + 1
  BY <1>1, <1>5
<1> HIDE DEF t
<1>7. JobSound(js, attempt + 1) BY <1>1, <1>3, <1>4 DEF JobSound
<1>8. JobGrows(js, js) BY <1>2, <1>3 DEF JobGrows
<1>9. JobSound(t, attempt + 1) BY <1>1, <1>3, <1>4, <1>5, <1>6 DEF JobSound
<1>10. JobGrows(js, t) BY <1>1, <1>2, <1>3, <1>5, <1>6 DEF JobGrows
<1>11. QED BY <1>7, <1>8, <1>9, <1>10 DEF t, e

LEMMA RunAgain ==
  ASSUME NEW q \in RunRecords, NEW a, NEW j
  PROVE  [q EXCEPT !.attempt = a, !.jobs = j]
           = [workflow |-> q.workflow, base |-> q.base, head |-> q.head, attempt |-> a, jobs |-> j]
PROOF
<1>1. q = [workflow |-> q.workflow, base |-> q.base, head |-> q.head, attempt |-> q.attempt, jobs |-> q.jobs]
  BY DEF RunRecords
<1> DEFINE p == [q EXCEPT !.attempt = a]
<1>2. p = [workflow |-> q.workflow, base |-> q.base, head |-> q.head, attempt |-> a, jobs |-> q.jobs]
  BY <1>1
<1> HIDE DEF p
<1>3. [p EXCEPT !.jobs = j]
        = [workflow |-> q.workflow, base |-> q.base, head |-> q.head, attempt |-> a, jobs |-> j]
  BY <1>2
<1>4. QED BY <1>3 DEF p

LEMMA ExecutionAgain ==
  ASSUME JobsInv, NEW i \in DOMAIN runs, NEW cs, Execution!Again(i, cs)
  PROVE  JobsInv'
PROOF
<1> DEFINE attempt == runs[i].attempt
           jobs == [c \in DOMAIN runs[i].jobs |->
                      IF c \in cs THEN Append(runs[i].jobs[c], [attempt |-> attempt + 1, state |-> "running"])
                                  ELSE runs[i].jobs[c]]
           r == [runs[i] EXCEPT !.attempt = attempt + 1, !.jobs = jobs]
<1>1. JobTypes /\ RunsSound(runs) BY DEF JobsInv, JobTypes
<1>2. runs[i] \in RunRecords /\ attempt \in Nat BY <1>1, SoundJob
<1>3. /\ Execution!Ended(i) /\ runs' = [runs EXCEPT ![i] = r]
      /\ UNCHANGED <<base, head, fork, moves, draft, package, window, sealed, opened>>
  <2>1. /\ Execution!Ended(i)
        /\ UNCHANGED <<base, head, fork, moves, draft, package, window, sealed, opened>>
    BY DEF Execution!Again, Execution!owner
  <2>2. runs' = [runs EXCEPT ![i].attempt = @ + 1,
                   ![i].jobs = [c \in DOMAIN @ |->
                      IF c \in cs THEN Append(@[c], [attempt |-> runs[i].attempt + 1, state |-> "running"])
                                  ELSE @[c]]]
    BY DEF Execution!Again
  <2>3. runs' = [runs EXCEPT ![i] = r] BY <1>1, <1>2, <2>2 DEF RunsSound, RunRecords
  <2>4. QED BY <2>1, <2>3
<1>4. RunSound(runs[i]) BY <1>1 DEF RunsSound
<1>5. \A c \in DOMAIN runs[i].jobs : runs[i].jobs[c][Len(runs[i].jobs[c])].state # "running"
  BY <1>3 DEF Execution!Ended, Execution!States, Execution!Last
<1>6. \A c \in DOMAIN runs[i].jobs : JobSound(jobs[c], attempt + 1) /\ JobGrows(runs[i].jobs[c], jobs[c])
  BY <1>2, <1>4, <1>5, JobAgain DEF RunSound
<1>7. DOMAIN jobs = DOMAIN runs[i].jobs /\ DOMAIN jobs \subseteq REQUIRED_CONTEXTS
  BY <1>4 DEF RunSound, Execution!ContextsOf
<1>8. jobs \in JobTables
  <2>1. \A c \in DOMAIN runs[i].jobs : jobs[c] \in Seq(Attempts) BY <1>6 DEF JobSound
  <2>2. jobs \in [DOMAIN runs[i].jobs -> Seq(Attempts)] BY <2>1
  <2>3. QED BY <1>7, <2>2 DEF JobTables
<1> HIDE DEF jobs
<1>9. /\ r \in RunRecords /\ r.jobs = jobs /\ r.workflow = runs[i].workflow /\ r.base = runs[i].base
      /\ r.head = runs[i].head /\ r.attempt = attempt + 1
  <2>1. r = [workflow |-> runs[i].workflow, base |-> runs[i].base, head |-> runs[i].head,
             attempt |-> attempt + 1, jobs |-> jobs]
    BY <1>2, RunAgain
  <2>2. r \in RunRecords BY <1>2, <1>8, <2>1 DEF RunRecords
  <2>3. QED BY <2>1, <2>2
<1> HIDE DEF r
<1>10. RunSound(r) BY <1>4, <1>6, <1>7, <1>9 DEF RunSound
<1>11. RunGrows(runs[i], r) BY <1>2, <1>6, <1>7, <1>9 DEF RunGrows
<1>12. RunsSound(runs') /\ RunsGrow(runs, runs') BY <1>1, <1>3, <1>9, <1>10, <1>11, OneRunGrows
<1>13. JobTypes' BY <1>1, <1>3, <1>12 DEF JobTypes
<1>14. QED BY <1>3, <1>12, <1>13, RunsStep

-----------------------------------------------------------------------------
\* The pull request is read first: it is there when anything else is read.
LEMMA PullIsRead ==
  ASSUME NEW l \in Execution!LABELS, l # "pull", Execution!Read(l)
  PROVE  "pull" \in DOMAIN draft
PROOF
<1>1. PICK o \in JobOrders : \E n \in DOMAIN o :
        o[n] = l /\ DOMAIN draft = {o[i] : i \in 1 .. n - 1}
  BY DEF Execution!Read
<1>2. PICK n \in DOMAIN o : o[n] = l /\ DOMAIN draft = {o[i] : i \in 1 .. n - 1} BY <1>1
<1>3. QED BY <1>2, ExecutionAssumption DEF Execution!OrdersAssumption

\* What the responses say at the moment of the read: of the runs as they are, and of all
\* that they have grown from.
LEMMA JobsAreSeen ==
  ASSUME RunsSound(runs), NEW h, NEW k \in Execution!JobsOf(h)
  PROVE  /\ JobSeen(k, runs, h)
         /\ \A w : RunsSound(w) /\ RunsGrow(w, runs) /\ k.run \in DOMAIN w /\ k.context \in DOMAIN w[k.run].jobs =>
              w[k.run].jobs[k.context][Len(w[k.run].jobs[k.context])].attempt <= k.attempt
PROOF
<1>1. PICK i \in Execution!RunsOf(h) : \E c \in DOMAIN runs[i].jobs : k = Execution!Job(i, c)
  BY DEF Execution!JobsOf
<1>2. PICK c \in DOMAIN runs[i].jobs : k = Execution!Job(i, c) BY <1>1
<1> DEFINE js == runs[i].jobs[c]
<1>3. k = [run |-> i, context |-> c, attempt |-> js[Len(js)].attempt, state |-> js[Len(js)].state]
  BY <1>2 DEF Execution!Job, Execution!Last
<1>4. i \in DOMAIN runs /\ runs[i].head = h BY <1>1 DEF Execution!RunsOf
<1>5. /\ Len(js) \in DOMAIN js /\ js[Len(js)].attempt \in Nat
      /\ js[Len(js)] = [attempt |-> js[Len(js)].attempt, state |-> js[Len(js)].state]
  BY <1>4, SoundJob
<1> HIDE DEF js
<1>6. JobSeen(k, runs, h) BY <1>3, <1>4, <1>5 DEF JobSeen, js
<1>7. ASSUME NEW w, RunsGrow(w, runs), k.run \in DOMAIN w, k.context \in DOMAIN w[k.run].jobs
      PROVE  w[k.run].jobs[k.context][Len(w[k.run].jobs[k.context])].attempt <= k.attempt
  <2>1. i \in DOMAIN w /\ c \in DOMAIN w[i].jobs BY <1>3, <1>7
  <2>2. JobGrows(w[i].jobs[c], runs[i].jobs[c]) BY <1>7, <2>1, GrowthIsOfEveryJob
  <2>3. QED BY <1>3, <2>2 DEF JobGrows, js
<1>8. QED BY <1>6, <1>7

LEMMA RunsAreSeen ==
  ASSUME RunsSound(runs), NEW h
  PROVE  /\ \A r \in Execution!Response("workflow-runs", h) : RunSeen(r, runs, h)
         /\ \A w : RunsGrow(w, runs) =>
              /\ \A i \in DOMAIN w : w[i].head = h =>
                   \E r \in Execution!Response("workflow-runs", h) : r.run = i
              /\ \A r \in Execution!Response("workflow-runs", h) :
                   r.run \in DOMAIN w => w[r.run].attempt <= r.attempt
PROOF
<1> DEFINE state(i) == IF Execution!States(i) = {"success"} THEN "success"
                       ELSE IF Execution!Ended(i) THEN "failure" ELSE "running"
           rs == Execution!Response("workflow-runs", h)
<1>1. rs = {[run |-> i, workflow |-> runs[i].workflow, attempt |-> runs[i].attempt, state |-> state(i)]
              : i \in Execution!RunsOf(h)}
  BY DEF Execution!Response
<1> HIDE DEF rs, state
<1>2. \A i \in Execution!RunsOf(h) : i \in DOMAIN runs /\ runs[i].head = h /\ runs[i].attempt \in Nat
  BY SoundJob DEF Execution!RunsOf
<1>3. \A r \in rs : r.run \in Execution!RunsOf(h) /\ r.attempt = runs[r.run].attempt BY <1>1
<1>4. \A r \in rs : RunSeen(r, runs, h) BY <1>2, <1>3 DEF RunSeen
<1>5. ASSUME NEW w, RunsGrow(w, runs), NEW i \in DOMAIN w, w[i].head = h
      PROVE  \E r \in rs : r.run = i
  <2>1. i \in Execution!RunsOf(h) BY <1>5 DEF RunsGrow, RunGrows, Execution!RunsOf
  <2>2. [run |-> i, workflow |-> runs[i].workflow, attempt |-> runs[i].attempt, state |-> state(i)] \in rs
    BY <1>1, <2>1
  <2>3. QED BY <2>2
<1>6. ASSUME NEW w, RunsGrow(w, runs), NEW r \in rs, r.run \in DOMAIN w
      PROVE  w[r.run].attempt <= r.attempt
  BY <1>3, <1>6 DEF RunsGrow, RunGrows
<1>7. QED BY <1>4, <1>5, <1>6 DEF rs

LEMMA LogsAreSeen ==
  ASSUME RunsSound(runs), NEW h, NEW l \in Execution!Response("workflow-logs", h)
  PROVE  LogSeen(l, runs, fork, h)
PROOF
<1>1. PICK j \in Execution!JobsOf(h) :
        l = [run |-> j.run, context |-> j.context, attempt |-> j.attempt,
             tree |-> Execution!MergeTree(runs[j.run].base, h), parents |-> <<runs[j.run].base, h>>]
  BY DEF Execution!Response
<1>2. j.run \in DOMAIN runs BY JobsAreSeen DEF JobSeen
<1>3. QED BY <1>1, <1>2 DEF LogSeen, Execution!MergeTree

LEMMA ReadResponds ==
  ASSUME JobsInv, NEW l \in Execution!LABELS, Execution!Read(l)
  PROVE  /\ ~window /\ l \notin DOMAIN draft
         /\ UNCHANGED <<base, head, fork, runs, moves, package, window, sealed>>
         /\ DOMAIN draft' = DOMAIN draft \cup {l} /\ "pull" \in DOMAIN draft'
         /\ \A k \in DOMAIN draft : draft'[k] = draft[k]
         /\ draft'["pull"].head \in DOMAIN fork
         /\ l = "pull" => DOMAIN draft = {}
         /\ l # "pull" => draft'[l] = Execution!Response(l, draft'["pull"].head)
PROOF
<1> DEFINE h == IF l = "pull" THEN head ELSE draft["pull"].head
<1>1. /\ ~window /\ l \notin DOMAIN draft
      /\ UNCHANGED <<base, head, fork, runs, moves, package, window, sealed>>
      /\ draft' = [k \in DOMAIN draft \cup {l} |-> IF k = l THEN Execution!Response(l, h) ELSE draft[k]]
  BY DEF Execution!Read
<1>2. DOMAIN draft' = DOMAIN draft \cup {l} /\ draft'[l] = Execution!Response(l, h)
      /\ \A k \in DOMAIN draft : draft'[k] = draft[k]
  BY <1>1
<1>3. CASE l = "pull"
  <2>1. DOMAIN draft = {} BY <1>1, <1>3 DEF JobsInv, SeenBefore
  <2>2. draft'["pull"].head = head BY <1>2, <1>3 DEF Execution!Response
  <2>3. QED BY <1>1, <1>2, <1>3, <2>1, <2>2 DEF JobsInv, JobTypes
<1>4. CASE l # "pull"
  <2>1. "pull" \in DOMAIN draft BY <1>4, PullIsRead
  <2>2. draft["pull"].head \in DOMAIN fork BY <2>1 DEF JobsInv, SeenBefore
  <2>3. draft'["pull"] = draft["pull"] BY <1>2, <2>1
  <2>4. QED BY <1>1, <1>2, <1>4, <2>1, <2>2, <2>3
<1>5. QED BY <1>3, <1>4

LEMMA ExecutionRead ==
  ASSUME JobsInv, NEW l \in Execution!LABELS, Execution!Read(l)
  PROVE  JobsInv'
PROOF
<1> DEFINE h == draft'["pull"].head
<1>1. /\ ~window /\ l \notin DOMAIN draft
      /\ UNCHANGED <<base, head, fork, runs, moves, package, window, sealed>>
      /\ DOMAIN draft' = DOMAIN draft \cup {l} /\ "pull" \in DOMAIN draft'
      /\ \A k \in DOMAIN draft : draft'[k] = draft[k]
      /\ h \in DOMAIN fork
      /\ l = "pull" => DOMAIN draft = {}
      /\ l # "pull" => draft'[l] = Execution!Response(l, h)
  BY ReadResponds
<1>2. JobTypes /\ RunsSound(runs) BY DEF JobsInv, JobTypes
<1>3. JobTypes' BY <1>1, <1>2 DEF JobTypes
<1>4. DOMAIN draft # {} => "pull" \in DOMAIN draft /\ draft["pull"].head = h
  BY <1>1 DEF JobsInv, SeenBefore
<1> HIDE DEF h
<1>5. \A k \in Execution!JobsOf(h) : JobSeen(k, runs, h) BY <1>2, JobsAreSeen
<1>6. l \in {"check-runs", "workflow-jobs"} => draft'[l] = Execution!JobsOf(h)
  BY <1>1 DEF Execution!Response
<1>7. SeenBefore(draft, runs, fork)'
  <2>1. ASSUME NEW m \in DOMAIN draft' \cap {"check-runs", "workflow-jobs"}, NEW k \in draft'[m]
        PROVE  JobSeen(k, runs, h)
    <3>1. CASE m = l BY <1>5, <1>6, <2>1, <3>1
    <3>2. CASE m # l BY <1>1, <1>4, <2>1, <3>2 DEF JobsInv, SeenBefore
    <3>3. QED BY <3>1, <3>2
  <2>2. ASSUME "workflow-runs" \in DOMAIN draft', NEW r \in draft'["workflow-runs"]
        PROVE  RunSeen(r, runs, h)
    <3>1. CASE l = "workflow-runs" BY <1>1, <1>2, <2>2, <3>1, RunsAreSeen
    <3>2. CASE l # "workflow-runs" BY <1>1, <1>4, <2>2, <3>2 DEF JobsInv, SeenBefore
    <3>3. QED BY <3>1, <3>2
  <2>3. ASSUME "workflow-logs" \in DOMAIN draft', NEW g \in draft'["workflow-logs"]
        PROVE  LogSeen(g, runs, fork, h)
    <3>1. CASE l = "workflow-logs" BY <1>1, <1>2, <2>3, <3>1, LogsAreSeen
    <3>2. CASE l # "workflow-logs" BY <1>1, <1>4, <2>3, <3>2 DEF JobsInv, SeenBefore
    <3>3. QED BY <3>1, <3>2
  <2>4. QED BY <1>1, <2>1, <2>2, <2>3 DEF SeenBefore, h
<1>8. SealedInv' BY <1>1 DEF JobsInv, SealedInv
<1>9. OpenedInv'
  <2>1. SUFFICES ASSUME package # None
                 PROVE  /\ RunsSound(opened') /\ RunsGrow(sealed, opened') /\ RunsGrow(opened', runs)
                        /\ SeenAfter(draft', opened')
    BY <1>1 DEF OpenedInv, SeenAfter
  <2>2. opened' = IF draft = Execution!NoResponses THEN runs ELSE opened
    BY <2>1 DEF Execution!Read
  <2>3. CASE DOMAIN draft = {}
    <3>1. opened' = runs BY <1>2, <2>2, <2>3 DEF JobTypes
    <3>2. RunsGrow(sealed, runs) BY <2>1 DEF JobsInv, SealedInv
    <3>3. RunsGrow(runs, runs) BY <1>2, GrowsFromItself
    <3>4. l = "pull" /\ DOMAIN draft' = {"pull"} BY <1>1, <2>3
    <3>5. SeenAfter(draft', opened') BY <3>4 DEF SeenAfter
    <3>6. QED BY <1>2, <3>1, <3>2, <3>3, <3>5
  <2>4. CASE DOMAIN draft # {}
    <3>1. opened' = opened BY <2>2, <2>4 DEF Execution!NoResponses
    <3>2. /\ RunsSound(opened) /\ RunsGrow(sealed, opened) /\ RunsGrow(opened, runs)
          /\ SeenAfter(draft, opened)
      BY <2>1, <2>4 DEF JobsInv, OpenedInv
    <3>3. ASSUME "check-runs" \in DOMAIN draft', NEW k \in draft'["check-runs"],
                 k.run \in DOMAIN opened, k.context \in DOMAIN opened[k.run].jobs
          PROVE  opened[k.run].jobs[k.context][Len(opened[k.run].jobs[k.context])].attempt <= k.attempt
      <4>1. CASE l = "check-runs" BY <1>2, <1>6, <3>2, <3>3, <4>1, JobsAreSeen
      <4>2. CASE l # "check-runs" BY <1>1, <3>2, <3>3, <4>2 DEF SeenAfter
      <4>3. QED BY <4>1, <4>2
    <3>4. ASSUME "workflow-runs" \in DOMAIN draft'
          PROVE  /\ \A i \in DOMAIN opened : opened[i].head = h => \E r \in draft'["workflow-runs"] : r.run = i
                 /\ \A r \in draft'["workflow-runs"] : r.run \in DOMAIN opened => opened[r.run].attempt <= r.attempt
      <4>1. CASE l = "workflow-runs" BY <1>1, <1>2, <3>2, <4>1, RunsAreSeen
      <4>2. CASE l # "workflow-runs" BY <1>1, <1>4, <2>4, <3>2, <3>4, <4>2 DEF SeenAfter
      <4>3. QED BY <4>1, <4>2
    <3>5. SeenAfter(draft', opened) BY <3>3, <3>4 DEF SeenAfter, h
    <3>6. QED BY <3>1, <3>2, <3>5
  <2>5. QED BY <2>3, <2>4
<1>10. WindowInv' BY <1>1 DEF WindowInv
<1>11. QED BY <1>3, <1>7, <1>8, <1>9, <1>10 DEF JobsInv

LEMMA ExecutionSeal == ASSUME JobsInv, Execution!Seal PROVE JobsInv'
PROOF
<1>1. /\ DOMAIN draft = Execution!LABELS /\ draft' = Execution!NoResponses /\ DOMAIN draft' = {}
      /\ UNCHANGED <<base, head, fork, runs, moves>>
  BY DEF Execution!Seal, Execution!Complete, Execution!NoResponses
<1>2. JobTypes /\ RunsSound(runs) /\ DOMAIN draft # {}
  BY <1>1 DEF JobsInv, JobTypes, Execution!LABELS
<1>3. JobTypes' BY <1>1, <1>2 DEF JobTypes
<1>4. SeenBefore(draft, runs, fork)' BY <1>1 DEF SeenBefore
<1>5. OpenedInv' BY <1>1 DEF OpenedInv
<1>6. ~window BY <1>2 DEF JobsInv, WindowInv
<1>7. CASE Execution!validate_package_response_semantics(draft) /\ package = None
  <2>1. package' = draft /\ sealed' = runs /\ UNCHANGED <<window, opened>> BY <1>7 DEF Execution!Seal
  <2>2. RunsGrow(runs, runs) BY <1>2, GrowsFromItself
  <2>3. SeenBefore(draft, runs, fork) BY DEF JobsInv
  <2>4. SealedInv' BY <1>1, <1>2, <1>7, <2>1, <2>2, <2>3 DEF SealedInv
  <2>5. WindowInv' BY <1>6, <2>1 DEF WindowInv
  <2>6. QED BY <1>3, <1>4, <1>5, <2>4, <2>5 DEF JobsInv
<1>8. CASE ~(Execution!validate_package_response_semantics(draft) /\ package = None)
  <2>1. /\ window' <=> package # None /\ draft = package
        /\ UNCHANGED <<package, sealed, opened>>
    BY <1>8 DEF Execution!Seal, Execution!StableWindow
  <2>2. SealedInv' BY <1>1, <2>1 DEF JobsInv, SealedInv
  <2>3. WindowInv' BY <1>1, <1>2, <2>1 DEF JobsInv, OpenedInv, WindowInv
  <2>4. QED BY <1>3, <1>4, <1>5, <2>2, <2>3 DEF JobsInv
<1>9. QED BY <1>7, <1>8

LEMMA ExecutionStutter == ASSUME JobsInv, UNCHANGED Execution!vars PROVE JobsInv'
PROOF
<1>1. UNCHANGED <<base, head, fork, runs, moves, draft, package, window, sealed, opened>>
  BY DEF Execution!vars
<1>2. JobTypes /\ JobTypes' BY <1>1 DEF JobsInv, JobTypes
<1>3. RunsGrow(runs, runs') BY <1>1, <1>2, GrowsFromItself DEF JobTypes
<1>4. QED BY <1>1, <1>2, <1>3, RunsStep

LEMMA ExecutionNext == ASSUME JobsInv, [Execution!Next]_(Execution!vars) PROVE JobsInv'
PROOF
<1>1. CASE Execution!Reopen BY <1>1, ExecutionReopen
<1>2. CASE Execution!MoveBase BY <1>2, ExecutionMoveBase
<1>3. CASE Execution!Seal BY <1>3, ExecutionSeal
<1>4. CASE \E h \in 1 .. MaxCandidates : \E from \in 1 .. base : h <= Len(fork) + 1 /\ Execution!Push(h, from)
  BY <1>4, ExecutionPush
<1>5. CASE \E i \in DOMAIN runs : \E c \in DOMAIN runs[i].jobs :
             \E state \in {"success", "failure"} : Execution!Finish(i, c, state)
  BY <1>5, ExecutionFinish
<1>6. CASE \E i \in DOMAIN runs : Execution!RerunAll(i) BY <1>6, ExecutionAgain DEF Execution!RerunAll
<1>7. CASE \E i \in DOMAIN runs : Execution!RerunFailed(i)
  BY <1>7, ExecutionAgain DEF Execution!RerunFailed
<1>8. CASE \E l \in Execution!LABELS : Execution!Read(l) BY <1>8, ExecutionRead
<1>9. CASE UNCHANGED Execution!vars BY <1>9, ExecutionStutter
<1>10. QED BY <1>1, <1>2, <1>3, <1>4, <1>5, <1>6, <1>7, <1>8, <1>9 DEF Execution!Next

-----------------------------------------------------------------------------
\* What the rules say of an accepted package.
LEMMA RulesOfExecutions ==
  ASSUME NEW b, Execution!validate_package_response_semantics(b)
  PROVE  /\ {k.context : k \in b["check-runs"]} = REQUIRED_CONTEXTS
         /\ \A k \in b["check-runs"] : k.state = "success"
         /\ {r.run : r \in b["workflow-runs"]} = {k.run : k \in b["check-runs"]}
         /\ {Execution!Log(l) : l \in b["workflow-logs"]} = {Execution!Log(k) : k \in b["check-runs"]}
         /\ \A l \in b["workflow-logs"] :
              l.tree = <<b["pull"].head>> /\ l.parents = <<b["pull"].base, b["pull"].head>>
PROOF
  BY DEF Execution!validate_package_response_semantics, Execution!RequiredChecks, Execution!NoOtherRuns,
         Execution!ExecutionLogs, Execution!Candidate, Execution!Tree

LEMMA JobTypesImply == JobsInv => Execution!TypeOK
PROOF
<1>1. SUFFICES ASSUME JobsInv PROVE Execution!TypeOK OBVIOUS
<1>2. JobTypes /\ (window => package # None) BY <1>1 DEF JobsInv, WindowInv
<1>3. ASSUME NEW i \in DOMAIN runs, NEW c \in DOMAIN runs[i].jobs
      PROVE  /\ Len(runs[i].jobs[c]) \in 1 .. runs[i].attempt
             /\ \A n \in DOMAIN runs[i].jobs[c] :
                  runs[i].jobs[c][n].state = "running" => runs[i].jobs[c][n].attempt = runs[i].attempt
  BY <1>2 DEF JobTypes, RunsSound, RunSound, JobSound
<1>4. QED BY <1>2, <1>3 DEF JobTypes, Execution!TypeOK

\* The log of each check shows the merge that it ran on, and the tree of that merge.
LEMMA JobsAreOfTheMerge == JobsInv => Execution!TestedExactly
PROOF
<1>1. SUFFICES ASSUME JobsInv, package # None
               PROVE  /\ fork[package["pull"].head] = package["pull"].base
                      /\ \A c \in REQUIRED_CONTEXTS : \E k \in package["check-runs"] :
                           /\ k.context = c /\ runs[k.run].workflow = CONTEXT_WORKFLOW_PATHS[c]
                           /\ \E n \in DOMAIN runs[k.run].jobs[c] :
                                runs[k.run].jobs[c][n] = [attempt |-> k.attempt, state |-> "success"]
                      /\ \A r \in package["workflow-runs"] :
                           runs[r.run].base = package["pull"].base /\ runs[r.run].head = package["pull"].head
  BY DEF Execution!TestedExactly, Execution!Candidate
<1> DEFINE h == package["pull"].head  b == package["pull"].base
<1>2. /\ DOMAIN package = Execution!LABELS /\ Execution!validate_package_response_semantics(package)
      /\ RunsSound(sealed) /\ RunsGrow(sealed, runs) /\ SeenBefore(package, sealed, fork) /\ RunsSound(runs)
  BY <1>1 DEF JobsInv, SealedInv, JobTypes
<1>3. SeenBefore(package, runs, fork) BY <1>2, StaysSeen
<1>4. /\ \A k \in package["check-runs"] : JobSeen(k, runs, h)
      /\ \A r \in package["workflow-runs"] : RunSeen(r, runs, h)
      /\ \A l \in package["workflow-logs"] : LogSeen(l, runs, fork, h)
  BY <1>2, <1>3 DEF SeenBefore, Execution!LABELS
<1>5. /\ {k.context : k \in package["check-runs"]} = REQUIRED_CONTEXTS
      /\ \A k \in package["check-runs"] : k.state = "success"
      /\ {r.run : r \in package["workflow-runs"]} = {k.run : k \in package["check-runs"]}
      /\ {Execution!Log(l) : l \in package["workflow-logs"]} = {Execution!Log(k) : k \in package["check-runs"]}
      /\ \A l \in package["workflow-logs"] : l.tree = <<h>> /\ l.parents = <<b, h>>
  BY <1>2, RulesOfExecutions
<1> HIDE DEF h, b
<1>6. \A l \in package["workflow-logs"] : runs[l.run].base = b /\ fork[h] = b
  <2>1. SUFFICES ASSUME NEW l \in package["workflow-logs"] PROVE runs[l.run].base = b /\ fork[h] = b
    OBVIOUS
  <2>2. /\ <<runs[l.run].base, h>> = <<b, h>>
        /\ <<h>> = IF fork[h] = runs[l.run].base THEN <<h>> ELSE <<runs[l.run].base, h>>
    BY <1>4, <1>5 DEF LogSeen
  <2>3. runs[l.run].base = b BY <2>2
  <2>4. <<h>> # <<runs[l.run].base, h>> OBVIOUS
  <2>5. QED BY <2>2, <2>3, <2>4
<1>7. ASSUME NEW k \in package["check-runs"] PROVE runs[k.run].base = b /\ fork[h] = b
  <2>1. PICK l \in package["workflow-logs"] : Execution!Log(l) = Execution!Log(k) BY <1>5
  <2>2. l.run = k.run BY <2>1 DEF Execution!Log
  <2>3. QED BY <1>6, <2>2
<1>8. fork[h] = b
  <2>1. PICK c \in REQUIRED_CONTEXTS : TRUE BY ExecutionAssumption DEF Execution!ContextsAssumption
  <2>2. PICK k \in package["check-runs"] : k.context = c BY <1>5
  <2>3. QED BY <1>7
<1>9. ASSUME NEW c \in REQUIRED_CONTEXTS
      PROVE  \E k \in package["check-runs"] :
               /\ k.context = c /\ runs[k.run].workflow = CONTEXT_WORKFLOW_PATHS[c]
               /\ \E n \in DOMAIN runs[k.run].jobs[c] :
                    runs[k.run].jobs[c][n] = [attempt |-> k.attempt, state |-> "success"]
  <2>1. PICK k \in package["check-runs"] : k.context = c BY <1>5
  <2>2. /\ k.run \in DOMAIN runs /\ c \in DOMAIN runs[k.run].jobs
        /\ \E n \in DOMAIN runs[k.run].jobs[c] :
             runs[k.run].jobs[c][n] = [attempt |-> k.attempt, state |-> "success"]
    BY <1>4, <1>5, <2>1 DEF JobSeen
  <2>3. runs[k.run].workflow = CONTEXT_WORKFLOW_PATHS[c]
    BY <1>2, <2>2 DEF RunsSound, RunSound, Execution!ContextsOf
  <2>4. QED BY <2>1, <2>2, <2>3
<1>10. ASSUME NEW r \in package["workflow-runs"] PROVE runs[r.run].base = b /\ runs[r.run].head = h
  <2>1. PICK k \in package["check-runs"] : k.run = r.run BY <1>5
  <2>2. QED BY <1>4, <1>7, <2>1 DEF RunSeen
<1>11. QED BY <1>8, <1>9, <1>10 DEF h, b

\* Both packages saw the same, and runs only grow: what they saw was so in between.
LEMMA ChecksAreHeld == JobsInv => Execution!ChecksHeld
PROOF
<1>1. SUFFICES ASSUME JobsInv, window, NEW world \in {sealed, opened}
               PROVE  LET mine == {i \in DOMAIN world : world[i].head = package["pull"].head} IN
                        /\ {[run |-> i, attempt |-> world[i].attempt] : i \in mine}
                             = {[run |-> r.run, attempt |-> r.attempt] : r \in package["workflow-runs"]}
                        /\ \A k \in package["check-runs"] :
                             /\ k.run \in mine
                             /\ world[k.run].jobs[k.context][Len(world[k.run].jobs[k.context])]
                                  = [attempt |-> k.attempt, state |-> "success"]
  BY DEF Execution!ChecksHeld, Execution!Last
<1> DEFINE h == package["pull"].head
           mine == {i \in DOMAIN world : world[i].head = h}
<1>2. /\ package # None /\ RunsSound(opened) /\ RunsGrow(sealed, opened) /\ SeenAfter(package, opened)
  BY <1>1 DEF JobsInv, WindowInv
<1>3. /\ DOMAIN package = Execution!LABELS /\ Execution!validate_package_response_semantics(package)
      /\ RunsSound(sealed) /\ SeenBefore(package, sealed, fork)
  BY <1>1, <1>2 DEF JobsInv, SealedInv
<1>4. RunsSound(world) /\ RunsGrow(sealed, world) /\ RunsGrow(world, opened)
  BY <1>1, <1>2, <1>3, GrowsFromItself
<1>5. SeenBefore(package, world, fork) BY <1>3, <1>4, StaysSeen
<1>6. /\ \A k \in package["check-runs"] : JobSeen(k, world, h)
      /\ \A r \in package["workflow-runs"] : RunSeen(r, world, h)
  BY <1>3, <1>5 DEF SeenBefore, Execution!LABELS
<1>7. /\ \A k \in package["check-runs"] :
           k.run \in DOMAIN opened /\ k.context \in DOMAIN opened[k.run].jobs =>
             opened[k.run].jobs[k.context][Len(opened[k.run].jobs[k.context])].attempt <= k.attempt
      /\ \A i \in DOMAIN opened : opened[i].head = h => \E r \in package["workflow-runs"] : r.run = i
      /\ \A r \in package["workflow-runs"] : r.run \in DOMAIN opened => opened[r.run].attempt <= r.attempt
  BY <1>2, <1>3 DEF SeenAfter, Execution!LABELS
<1>8. \A k \in package["check-runs"] : k.state = "success" BY <1>3, RulesOfExecutions
<1> HIDE DEF h
<1>9. ASSUME NEW r \in package["workflow-runs"] PROVE r.run \in mine /\ r.attempt = world[r.run].attempt
  <2>1. r.run \in mine /\ r.attempt \in Nat /\ r.attempt <= world[r.run].attempt BY <1>6 DEF RunSeen
  <2>2. r.run \in DOMAIN opened /\ world[r.run].attempt <= opened[r.run].attempt
    BY <1>4, <2>1 DEF RunsGrow, RunGrows
  <2>3. opened[r.run].attempt <= r.attempt BY <1>7, <2>2
  <2>4. world[r.run].attempt \in Nat /\ opened[r.run].attempt \in Nat BY <1>2, <1>4, <2>1, <2>2, SoundJob
  <2>5. QED BY <2>1, <2>2, <2>3, <2>4
<1>10. ASSUME NEW i \in mine PROVE \E r \in package["workflow-runs"] : r.run = i
  <2>1. i \in DOMAIN opened /\ opened[i].head = h BY <1>4 DEF RunsGrow, RunGrows
  <2>2. QED BY <1>7, <2>1
<1>11. {[run |-> i, attempt |-> world[i].attempt] : i \in mine}
         = {[run |-> r.run, attempt |-> r.attempt] : r \in package["workflow-runs"]}
  <2> DEFINE there(i) == [run |-> i, attempt |-> world[i].attempt]
             told(r) == [run |-> r.run, attempt |-> r.attempt]
  <2>1. \A i \in mine : \E r \in package["workflow-runs"] : there(i) = told(r) BY <1>9, <1>10
  <2>2. \A r \in package["workflow-runs"] : r.run \in mine /\ there(r.run) = told(r) BY <1>9
  <2> HIDE DEF mine, there, told
  <2>3. {there(i) : i \in mine} = {told(r) : r \in package["workflow-runs"]} BY <2>1, <2>2
  <2>4. QED BY <2>3 DEF there, told
<1>12. ASSUME NEW k \in package["check-runs"]
       PROVE  /\ k.run \in mine
              /\ world[k.run].jobs[k.context][Len(world[k.run].jobs[k.context])]
                   = [attempt |-> k.attempt, state |-> "success"]
  <2> DEFINE js == world[k.run].jobs[k.context]  later == opened[k.run].jobs[k.context]
  <2>1. /\ k.run \in DOMAIN world /\ world[k.run].head = h /\ k.attempt \in Nat
        /\ k.context \in DOMAIN world[k.run].jobs /\ k.attempt <= js[Len(js)].attempt
        /\ k.attempt = js[Len(js)].attempt => js[Len(js)] = [attempt |-> k.attempt, state |-> "success"]
    BY <1>6, <1>8 DEF JobSeen
  <2>2. k.run \in DOMAIN opened /\ k.context \in DOMAIN opened[k.run].jobs /\ JobGrows(js, later)
    BY <1>4, <2>1, GrowthIsOfEveryJob
  <2>3. js[Len(js)].attempt <= later[Len(later)].attempt BY <2>2 DEF JobGrows
  <2>4. later[Len(later)].attempt <= k.attempt BY <1>7, <2>2
  <2>5. js[Len(js)].attempt \in Nat /\ later[Len(later)].attempt \in Nat BY <1>2, <1>4, <2>1, <2>2, SoundJob
  <2> HIDE DEF js, later
  <2>6. k.attempt = js[Len(js)].attempt BY <2>1, <2>3, <2>4, <2>5
  <2>7. QED BY <2>1, <2>6 DEF js
<1>13. QED BY <1>11, <1>12 DEF h

\* Every required context of an accepted package ran and passed on the merge of its very
\* base and head, and from the first package of an accepted window to its last no run or
\* attempt was missing from them (the check, run, job and log rules of
\* validate_package_response_semantics), whatever the order of the other reads is.
THEOREM TestsAreOfTheCandidate == Execution!Spec => []ExecutionInv
PROOF
<1>1. Execution!Init => JobsInv BY JobsInit
<1>2. JobsInv /\ [Execution!Next]_(Execution!vars) => JobsInv' BY ExecutionNext
<1>3. JobsInv => ExecutionInv
  BY JobTypesImply, JobsAreOfTheMerge, ChecksAreHeld DEF ExecutionInv
<1>4. QED BY <1>1, <1>2, <1>3, PTL DEF Execution!Spec

-----------------------------------------------------------------------------
(* Reviews and threads. *)

ReviewStates == {"APPROVED", "COMMENTED", "CHANGES_REQUESTED", "DISMISSED"}
Moments == [created : Nat, updated : Nat]
ReviewRecords == [head : Nat, state : ReviewStates, at : Nat]
ThreadRecords == [made : Nat, head : Nat, outdated : BOOLEAN, resolved : BOOLEAN, comments : Seq(Moments)]

DiscussionTypes ==
  /\ committed \in Seq(Nat) /\ reviews \in Seq(ReviewRecords) /\ threads \in Seq(ThreadRecords)

\* What can have become of reviews: there are more of them, and some are dismissed.
LaterReviews(old, new) ==
  \A i \in DOMAIN old :
    /\ i \in DOMAIN new /\ new[i].head = old[i].head
    /\ new[i].state \in {"APPROVED", "COMMENTED"} => old[i].state = new[i].state

\* What the last package was begun with, and what its responses say of that.
SinceBegun ==
  said # None /\ heard # Discussion!NoResponses =>
    /\ \A i \in DOMAIN begun.threads :
         \E n \in DOMAIN begun.reviews : begun.reviews[n].head = begun.threads[i].made
    /\ LaterReviews(begun.reviews, reviews)
    /\ "github-reviews" \in DOMAIN heard => LaterReviews(begun.reviews, heard["github-reviews"])

HeldAsSaid ==
  held => /\ said # None /\ heard # Discussion!NoResponses
          /\ DOMAIN heard = Discussion!LABELS /\ said = heard
          /\ \E cutoff \in Nat : Discussion!GitHubReviews(heard, cutoff)

TalkInv == DiscussionTypes /\ Discussion!TypeOK /\ SinceBegun /\ HeldAsSaid

\* Reviews only become later ones.
LEMMA LaterIsTransitive ==
  ASSUME NEW a, NEW b, NEW c, LaterReviews(a, b), LaterReviews(b, c)
  PROVE  LaterReviews(a, c)
PROOF BY DEF LaterReviews

LEMMA LaterIsReflexive == ASSUME NEW a PROVE LaterReviews(a, a)
PROOF BY DEF LaterReviews

LEMMA TalkInit == Discussion!Init => TalkInv
PROOF
<1>1. SUFFICES ASSUME Discussion!Init PROVE TalkInv OBVIOUS
<1>2. DiscussionTypes BY <1>1 DEF Discussion!Init, DiscussionTypes
<1>3. Discussion!TypeOK
  BY <1>1, DiscussionAssumption DEF Discussion!Init, Discussion!TypeOK, Discussion!NoResponses, Discussion!BoundsAssumption
<1>4. SinceBegun /\ HeldAsSaid BY <1>1 DEF Discussion!Init, SinceBegun, HeldAsSaid
<1>5. QED BY <1>2, <1>3, <1>4 DEF TalkInv

\* What others do: the owner's packages stay, and what there is only becomes later.
Others == /\ UNCHANGED <<heard, said, held, begun>> /\ LaterReviews(reviews, reviews')

LEMMA OthersKeep ==
  ASSUME TalkInv, Others, DiscussionTypes', Discussion!TypeOK'
  PROVE  TalkInv'
PROOF
<1>1. SinceBegun'
  <2>1. SUFFICES ASSUME (said # None /\ heard # Discussion!NoResponses)'
                 PROVE  /\ \A i \in DOMAIN begun.threads :
                             \E n \in DOMAIN begun.reviews : begun.reviews[n].head = begun.threads[i].made
                        /\ LaterReviews(begun.reviews, reviews')
                        /\ "github-reviews" \in DOMAIN heard => LaterReviews(begun.reviews, heard["github-reviews"])
    BY DEF SinceBegun, Others
  <2>2. said # None /\ heard # Discussion!NoResponses BY <2>1 DEF Others, Discussion!NoResponses
  <2>3. LaterReviews(begun.reviews, reviews) BY <2>2 DEF TalkInv, SinceBegun
  <2>4. LaterReviews(begun.reviews, reviews') BY <2>3, LaterIsTransitive DEF Others
  <2>5. QED BY <2>2, <2>4 DEF TalkInv, SinceBegun
<1>2. HeldAsSaid' BY DEF TalkInv, HeldAsSaid, Others, Discussion!NoResponses, Discussion!GitHubReviews
<1>3. QED BY <1>1, <1>2 DEF TalkInv

\* A review more.
LEMMA ReviewMore ==
  ASSUME TalkInv, NEW state \in ReviewStates, reviews' = Discussion!Review(state)
  PROVE  /\ reviews' \in Seq(ReviewRecords) /\ LaterReviews(reviews, reviews')
         /\ DOMAIN reviews' = 1 .. Len(reviews) + 1
         /\ \A i \in DOMAIN reviews : reviews'[i] = reviews[i]
         /\ \A i \in DOMAIN reviews' : reviews'[i].head \in DOMAIN committed /\ reviews'[i].at <= clock
         /\ reviews'[Len(reviews) + 1].head = current
PROOF
<1> DEFINE r == [head |-> current, state |-> state, at |-> clock]
<1>1. reviews \in Seq(ReviewRecords) /\ committed \in Seq(Nat) BY DEF TalkInv, DiscussionTypes
<1>2. current \in DOMAIN committed /\ current \in Nat /\ clock \in Nat
  BY <1>1, DiscussionAssumption DEF TalkInv, Discussion!TypeOK, Discussion!BoundsAssumption
<1>3. r \in ReviewRecords BY <1>2 DEF ReviewRecords
<1>4. reviews' = Append(reviews, r) BY DEF Discussion!Review
<1>5. /\ reviews' \in Seq(ReviewRecords) /\ DOMAIN reviews' = 1 .. Len(reviews) + 1
      /\ \A i \in DOMAIN reviews : i \in DOMAIN reviews' /\ reviews'[i] = reviews[i]
      /\ reviews'[Len(reviews) + 1] = r
  BY <1>1, <1>3, <1>4
<1>6. LaterReviews(reviews, reviews') BY <1>5 DEF LaterReviews
<1>7. \A i \in DOMAIN reviews' : reviews'[i].head \in DOMAIN committed /\ reviews'[i].at <= clock
  <2>1. SUFFICES ASSUME NEW i \in DOMAIN reviews'
                 PROVE  reviews'[i].head \in DOMAIN committed /\ reviews'[i].at <= clock
    OBVIOUS
  <2>2. CASE i \in DOMAIN reviews BY <1>5, <2>2 DEF TalkInv, Discussion!TypeOK
  <2>3. CASE i = Len(reviews) + 1 BY <1>2, <1>5, <2>3
  <2>4. i \in DOMAIN reviews \/ i = Len(reviews) + 1 BY <1>1, <1>5
  <2>5. QED BY <2>2, <2>3, <2>4
<1>8. QED BY <1>5, <1>6, <1>7

ThreadsAreSound ==
  \A i \in DOMAIN threads :
    /\ threads[i].outdated = (threads[i].head # current)
    /\ \E n \in DOMAIN reviews : reviews[n].head = threads[i].made

\* Threads keep their place on the head, and the reviews they were opened with.
LEMMA ThreadsStaySound ==
  ASSUME TalkInv, current' = current, LaterReviews(reviews, reviews'), DOMAIN threads' = DOMAIN threads,
         \A i \in DOMAIN threads : /\ threads'[i].outdated = threads[i].outdated
                                   /\ threads'[i].head = threads[i].head
                                   /\ threads'[i].made = threads[i].made
  PROVE  ThreadsAreSound'
PROOF
<1>1. SUFFICES ASSUME NEW i \in DOMAIN threads
               PROVE  /\ threads'[i].outdated = (threads'[i].head # current')
                      /\ \E n \in DOMAIN reviews' : reviews'[n].head = threads'[i].made
  BY DEF ThreadsAreSound
<1>2. threads[i].outdated = (threads[i].head # current)
  BY DEF TalkInv, Discussion!TypeOK
<1>3. PICK n \in DOMAIN reviews : reviews[n].head = threads[i].made BY DEF TalkInv, Discussion!TypeOK
<1>4. n \in DOMAIN reviews' /\ reviews'[n].head = reviews[n].head BY DEF LaterReviews
<1>5. QED BY <1>2, <1>3, <1>4

\* A moment of the clock, as a comment bears it.
LEMMA MomentType == ASSUME TalkInv PROVE Discussion!Comment \in Moments /\ clock \in Nat
PROOF
<1>1. clock \in Nat BY DiscussionAssumption DEF TalkInv, Discussion!TypeOK, Discussion!BoundsAssumption
<1>2. QED BY <1>1 DEF Discussion!Comment, Moments

LEMMA TickStep == ASSUME TalkInv, Discussion!Tick PROVE TalkInv'
PROOF
<1>1. /\ clock < MaxTime /\ clock' = clock + 1
      /\ UNCHANGED <<current, committed, reviews, threads, steps, heard, said, held, begun>>
  BY DEF Discussion!Tick, Discussion!github, Discussion!owner
<1>2. DiscussionTypes' BY <1>1 DEF TalkInv, DiscussionTypes
<1>3. clock \in 1 .. MaxTime /\ MaxTime \in Nat
  BY DiscussionAssumption DEF TalkInv, Discussion!TypeOK, Discussion!BoundsAssumption
<1>4. \A i \in DOMAIN reviews : reviews[i].at \in Nat
  <2>1. \A i \in DOMAIN reviews : reviews[i] \in ReviewRecords BY DEF TalkInv, DiscussionTypes
  <2>2. QED BY <2>1 DEF ReviewRecords
<1>5. Discussion!TypeOK' BY <1>1, <1>3, <1>4 DEF TalkInv, Discussion!TypeOK
<1>6. Others BY <1>1, LaterIsReflexive DEF Others
<1>7. QED BY <1>2, <1>5, <1>6, OthersKeep

\* The steps of others that leave head and clock, and go on with sound reviews and
\* threads.
LEMMA TalkStep ==
  ASSUME TalkInv, Discussion!Step, UNCHANGED <<current, committed>>,
         reviews' \in Seq(ReviewRecords), threads' \in Seq(ThreadRecords),
         LaterReviews(reviews, reviews'), ThreadsAreSound',
         \A i \in DOMAIN reviews' : reviews'[i].head \in DOMAIN committed /\ reviews'[i].at <= clock
  PROVE  TalkInv'
PROOF
<1>1. /\ steps < MaxSteps /\ steps' = steps + 1 /\ UNCHANGED <<clock, heard, said, held, begun>>
  BY DEF Discussion!Step, Discussion!owner
<1>2. DiscussionTypes' BY DEF TalkInv, DiscussionTypes
<1>3. steps' \in 0 .. MaxSteps
  BY <1>1, DiscussionAssumption DEF TalkInv, Discussion!TypeOK, Discussion!BoundsAssumption
<1>4. Discussion!TypeOK' BY <1>1, <1>3 DEF TalkInv, Discussion!TypeOK, ThreadsAreSound
<1>5. Others BY <1>1 DEF Others
<1>6. QED BY <1>2, <1>4, <1>5, OthersKeep

LEMMA SubmitStep ==
  ASSUME TalkInv, NEW state \in {"APPROVED", "COMMENTED", "CHANGES_REQUESTED"}, Discussion!Submit(state)
  PROVE  TalkInv'
PROOF
<1>1. /\ Discussion!Step /\ reviews' = Discussion!Review(state) /\ UNCHANGED <<current, committed, threads>>
  BY DEF Discussion!Submit
<1>2. state \in ReviewStates BY DEF ReviewStates
<1>3. /\ reviews' \in Seq(ReviewRecords) /\ LaterReviews(reviews, reviews')
      /\ \A i \in DOMAIN reviews' : reviews'[i].head \in DOMAIN committed /\ reviews'[i].at <= clock
  BY <1>1, <1>2, ReviewMore
<1>4. ThreadsAreSound' BY <1>1, <1>3, ThreadsStaySound
<1>5. threads' \in Seq(ThreadRecords) BY <1>1 DEF TalkInv, DiscussionTypes
<1>6. QED BY <1>1, <1>3, <1>4, <1>5, TalkStep

LEMMA OpenThreadStep == ASSUME TalkInv, Discussion!OpenThread PROVE TalkInv'
PROOF
<1> DEFINE t == [made |-> current, head |-> current, outdated |-> FALSE,
                 resolved |-> FALSE, comments |-> <<Discussion!Comment>>]
<1>1. /\ Discussion!Step /\ reviews' = Discussion!Review("COMMENTED") /\ threads' = Append(threads, t)
      /\ UNCHANGED <<current, committed>>
  BY DEF Discussion!OpenThread
<1>2. "COMMENTED" \in ReviewStates BY DEF ReviewStates
<1>3. /\ reviews' \in Seq(ReviewRecords) /\ LaterReviews(reviews, reviews')
      /\ DOMAIN reviews' = 1 .. Len(reviews) + 1 /\ reviews'[Len(reviews) + 1].head = current
      /\ \A i \in DOMAIN reviews' : reviews'[i].head \in DOMAIN committed /\ reviews'[i].at <= clock
  BY <1>1, <1>2, ReviewMore
<1>4. threads \in Seq(ThreadRecords) /\ reviews \in Seq(ReviewRecords) /\ committed \in Seq(Nat)
  BY DEF TalkInv, DiscussionTypes
<1>5. current \in Nat BY <1>4 DEF TalkInv, Discussion!TypeOK
<1>6. <<Discussion!Comment>> \in Seq(Moments) BY MomentType
<1>7. t \in ThreadRecords BY <1>5, <1>6 DEF ThreadRecords
<1>8. /\ threads' \in Seq(ThreadRecords) /\ DOMAIN threads' = 1 .. Len(threads) + 1
      /\ \A i \in DOMAIN threads : threads'[i] = threads[i]
      /\ threads'[Len(threads) + 1] = t
  BY <1>1, <1>4, <1>7
<1>9. ThreadsAreSound'
  <2>1. SUFFICES ASSUME NEW i \in DOMAIN threads'
                 PROVE  /\ threads'[i].outdated = (threads'[i].head # current')
                        /\ \E n \in DOMAIN reviews' : reviews'[n].head = threads'[i].made
    BY DEF ThreadsAreSound
  <2>2. CASE i \in DOMAIN threads
    <3>1. threads'[i] = threads[i] BY <1>8, <2>2
    <3>2. threads[i].outdated = (threads[i].head # current) BY <2>2 DEF TalkInv, Discussion!TypeOK
    <3>3. PICK n \in DOMAIN reviews : reviews[n].head = threads[i].made
      BY <2>2 DEF TalkInv, Discussion!TypeOK
    <3>4. n \in DOMAIN reviews' /\ reviews'[n].head = reviews[n].head BY <1>3 DEF LaterReviews
    <3>5. QED BY <1>1, <3>1, <3>2, <3>3, <3>4
  <2>3. CASE i = Len(threads) + 1
    <3>1. Len(reviews) + 1 \in DOMAIN reviews' BY <1>3, <1>4
    <3>2. threads'[i].outdated = FALSE /\ threads'[i].head = current /\ threads'[i].made = current
      BY <1>8, <2>3
    <3>3. QED BY <1>1, <1>3, <3>1, <3>2
  <2>4. i \in DOMAIN threads \/ i = Len(threads) + 1 BY <1>4, <1>8
  <2>5. QED BY <2>2, <2>3, <2>4
<1>10. QED BY <1>1, <1>3, <1>8, <1>9, TalkStep

LEMMA ReplyStep == ASSUME TalkInv, NEW i \in DOMAIN threads, Discussion!Reply(i) PROVE TalkInv'
PROOF
<1> DEFINE said2 == Append(threads[i].comments, Discussion!Comment)
<1>1. /\ Discussion!Step /\ reviews' = Discussion!Review("COMMENTED")
      /\ threads' = [threads EXCEPT ![i].comments = said2]
      /\ UNCHANGED <<current, committed>>
  BY DEF Discussion!Reply
<1>2. "COMMENTED" \in ReviewStates BY DEF ReviewStates
<1>3. /\ reviews' \in Seq(ReviewRecords) /\ LaterReviews(reviews, reviews')
      /\ \A n \in DOMAIN reviews' : reviews'[n].head \in DOMAIN committed /\ reviews'[n].at <= clock
  BY <1>1, <1>2, ReviewMore
<1>4. threads \in Seq(ThreadRecords) /\ threads[i] \in ThreadRecords BY DEF TalkInv, DiscussionTypes
<1>5. said2 \in Seq(Moments) BY <1>4, MomentType DEF ThreadRecords
<1>6. [threads[i] EXCEPT !.comments = said2] \in ThreadRecords BY <1>4, <1>5 DEF ThreadRecords
<1>7. threads' \in Seq(ThreadRecords) BY <1>1, <1>4, <1>6
<1>8. /\ DOMAIN threads' = DOMAIN threads
      /\ \A n \in DOMAIN threads : /\ threads'[n].outdated = threads[n].outdated
                                   /\ threads'[n].head = threads[n].head
                                   /\ threads'[n].made = threads[n].made
  BY <1>1, <1>4 DEF ThreadRecords
<1>9. ThreadsAreSound' BY <1>1, <1>3, <1>8, ThreadsStaySound
<1>10. QED BY <1>1, <1>3, <1>7, <1>9, TalkStep

\* Of the threads alone, an edit changes nothing that makes them sound.
LEMMA ThreadsOnly ==
  ASSUME TalkInv, Discussion!Step, UNCHANGED <<current, committed, reviews>>,
         threads' \in Seq(ThreadRecords), DOMAIN threads' = DOMAIN threads,
         \A n \in DOMAIN threads : /\ threads'[n].outdated = threads[n].outdated
                                   /\ threads'[n].head = threads[n].head
                                   /\ threads'[n].made = threads[n].made
  PROVE  TalkInv'
PROOF
<1>1. reviews' \in Seq(ReviewRecords) /\ LaterReviews(reviews, reviews')
  BY LaterIsReflexive DEF TalkInv, DiscussionTypes
<1>2. ThreadsAreSound' BY <1>1, ThreadsStaySound
<1>3. \A i \in DOMAIN reviews' : reviews'[i].head \in DOMAIN committed /\ reviews'[i].at <= clock
  BY DEF TalkInv, Discussion!TypeOK
<1>4. QED BY <1>1, <1>2, <1>3, TalkStep

LEMMA EditCommentStep ==
  ASSUME TalkInv, NEW i \in DOMAIN threads, NEW n \in DOMAIN threads[i].comments, Discussion!EditComment(i, n)
  PROVE  TalkInv'
PROOF
<1> DEFINE edited == [threads[i].comments EXCEPT ![n].updated = clock]
<1>1. /\ Discussion!Step /\ UNCHANGED <<current, committed, reviews>>
      /\ threads' = [threads EXCEPT ![i].comments = edited]
  BY DEF Discussion!EditComment
<1>2. threads \in Seq(ThreadRecords) /\ threads[i] \in ThreadRecords BY DEF TalkInv, DiscussionTypes
<1>3. threads[i].comments \in Seq(Moments) BY <1>2 DEF ThreadRecords
<1>4. [threads[i].comments[n] EXCEPT !.updated = clock] \in Moments
  <2>1. threads[i].comments[n] \in Moments BY <1>3
  <2>2. clock \in Nat BY MomentType
  <2>3. QED BY <2>1, <2>2 DEF Moments
<1>5. edited \in Seq(Moments) BY <1>3, <1>4
<1>6. [threads[i] EXCEPT !.comments = edited] \in ThreadRecords BY <1>2, <1>5 DEF ThreadRecords
<1>7. threads' \in Seq(ThreadRecords) BY <1>1, <1>2, <1>6
<1>8. /\ DOMAIN threads' = DOMAIN threads
      /\ \A m \in DOMAIN threads : /\ threads'[m].outdated = threads[m].outdated
                                   /\ threads'[m].head = threads[m].head
                                   /\ threads'[m].made = threads[m].made
  BY <1>1, <1>2 DEF ThreadRecords
<1>9. QED BY <1>1, <1>7, <1>8, ThreadsOnly

LEMMA ResolveStep == ASSUME TalkInv, NEW i \in DOMAIN threads, Discussion!Resolve(i) PROVE TalkInv'
PROOF
<1>1. /\ Discussion!Step /\ UNCHANGED <<current, committed, reviews>>
      /\ threads' = [threads EXCEPT ![i].resolved = ~threads[i].resolved]
  BY DEF Discussion!Resolve
<1>2. threads \in Seq(ThreadRecords) /\ threads[i] \in ThreadRecords BY DEF TalkInv, DiscussionTypes
<1>3. [threads[i] EXCEPT !.resolved = ~threads[i].resolved] \in ThreadRecords BY <1>2 DEF ThreadRecords
<1>4. threads' \in Seq(ThreadRecords) BY <1>1, <1>2, <1>3
<1>5. /\ DOMAIN threads' = DOMAIN threads
      /\ \A m \in DOMAIN threads : /\ threads'[m].outdated = threads[m].outdated
                                   /\ threads'[m].head = threads[m].head
                                   /\ threads'[m].made = threads[m].made
  BY <1>1, <1>2 DEF ThreadRecords
<1>6. QED BY <1>1, <1>4, <1>5, ThreadsOnly

LEMMA DismissStep == ASSUME TalkInv, NEW i \in DOMAIN reviews, Discussion!Dismiss(i) PROVE TalkInv'
PROOF
<1>1. /\ Discussion!Step /\ UNCHANGED <<current, committed, threads>>
      /\ reviews' = [reviews EXCEPT ![i].state = "DISMISSED"]
  BY DEF Discussion!Dismiss
<1>2. reviews \in Seq(ReviewRecords) /\ reviews[i] \in ReviewRecords BY DEF TalkInv, DiscussionTypes
<1>3. [reviews[i] EXCEPT !.state = "DISMISSED"] \in ReviewRecords BY <1>2 DEF ReviewRecords, ReviewStates
<1>4. reviews' \in Seq(ReviewRecords) BY <1>1, <1>2, <1>3
<1>5. DOMAIN reviews' = DOMAIN reviews BY <1>1, <1>2
<1>6. \A n \in DOMAIN reviews :
        /\ reviews'[n].head = reviews[n].head /\ reviews'[n].at = reviews[n].at
        /\ n # i => reviews'[n] = reviews[n]
  BY <1>1, <1>2 DEF ReviewRecords
<1>7. reviews'[i].state = "DISMISSED" BY <1>1, <1>2 DEF ReviewRecords
<1>8. LaterReviews(reviews, reviews') BY <1>5, <1>6, <1>7 DEF LaterReviews
<1>9. \A n \in DOMAIN reviews' : reviews'[n].head \in DOMAIN committed /\ reviews'[n].at <= clock
  BY <1>5, <1>6 DEF TalkInv, Discussion!TypeOK
<1>10. ThreadsAreSound' BY <1>1, <1>8, ThreadsStaySound
<1>11. threads' \in Seq(ThreadRecords) BY <1>1 DEF TalkInv, DiscussionTypes
<1>12. QED BY <1>1, <1>4, <1>8, <1>9, <1>10, <1>11, TalkStep

\* A push moves the head, and every thread is carried over or outdated.
LEMMA PushStep ==
  ASSUME TalkInv, NEW h \in 1 .. MaxCandidates, NEW carried \in SUBSET DOMAIN threads,
         h <= Len(committed) + 1, Discussion!Push(h, carried)
  PROVE  TalkInv'
PROOF
<1>1. /\ Discussion!Step /\ current' = h /\ UNCHANGED reviews
      /\ committed' = IF h \in DOMAIN committed THEN committed ELSE Append(committed, clock)
      /\ threads' = [i \in DOMAIN threads |->
           IF i \in carried THEN [threads[i] EXCEPT !.head = h, !.outdated = FALSE]
                            ELSE [threads[i] EXCEPT !.outdated = threads[i].head # h]]
  BY DEF Discussion!Push
<1>2. /\ steps < MaxSteps /\ steps' = steps + 1 /\ UNCHANGED <<clock, heard, said, held, begun>>
  BY <1>1 DEF Discussion!Step, Discussion!owner
<1>3. /\ committed \in Seq(Nat) /\ reviews \in Seq(ReviewRecords) /\ threads \in Seq(ThreadRecords)
      /\ clock \in Nat /\ h \in Nat /\ Len(committed) \in Nat
  BY MomentType DEF TalkInv, DiscussionTypes
<1>4. committed' \in Seq(Nat) /\ h \in DOMAIN committed' /\ DOMAIN committed \subseteq DOMAIN committed'
  <2>1. CASE h \in DOMAIN committed BY <1>1, <1>3, <2>1
  <2>2. CASE h \notin DOMAIN committed
    <3>1. committed' = Append(committed, clock) BY <1>1, <2>2
    <3>2. committed' \in Seq(Nat) /\ DOMAIN committed' = 1 .. Len(committed) + 1 BY <1>3, <3>1
    <3>3. DOMAIN committed = 1 .. Len(committed) BY <1>3
    <3>4. QED BY <1>3, <3>2, <3>3
  <2>3. QED BY <2>1, <2>2
<1>5. \A i \in DOMAIN threads :
        /\ threads'[i] \in ThreadRecords /\ threads'[i].made = threads[i].made
        /\ threads'[i].outdated = (threads'[i].head # h)
  <2>1. SUFFICES ASSUME NEW i \in DOMAIN threads
                 PROVE  /\ threads'[i] \in ThreadRecords /\ threads'[i].made = threads[i].made
                        /\ threads'[i].outdated = (threads'[i].head # h)
    OBVIOUS
  <2>2. threads[i] \in ThreadRecords BY <1>3
  <2>3. CASE i \in carried
    <3>1. threads'[i] = [threads[i] EXCEPT !.head = h, !.outdated = FALSE] BY <1>1, <2>3
    <3>2. QED BY <1>3, <2>2, <3>1 DEF ThreadRecords
  <2>4. CASE i \notin carried
    <3>1. threads'[i] = [threads[i] EXCEPT !.outdated = threads[i].head # h] BY <1>1, <2>4
    <3>2. QED BY <1>3, <2>2, <3>1 DEF ThreadRecords
  <2>5. QED BY <2>3, <2>4
<1>6. DOMAIN threads' = DOMAIN threads BY <1>1
<1>7. threads' \in Seq(ThreadRecords)
  <2>1. DOMAIN threads = 1 .. Len(threads) /\ Len(threads) \in Nat BY <1>3
  <2>2. threads' \in [1 .. Len(threads) -> ThreadRecords] BY <1>1, <1>5, <2>1
  <2>3. QED BY <2>1, <2>2
<1>8. DiscussionTypes' BY <1>1, <1>3, <1>4, <1>7 DEF DiscussionTypes
<1>9. steps' \in 0 .. MaxSteps
  BY <1>2, DiscussionAssumption DEF TalkInv, Discussion!TypeOK, Discussion!BoundsAssumption
<1>10. Discussion!TypeOK'
  <2>1. \A i \in DOMAIN reviews' : reviews'[i].head \in DOMAIN committed' /\ reviews'[i].at <= clock'
    BY <1>1, <1>2, <1>4 DEF TalkInv, Discussion!TypeOK
  <2>2. \A i \in DOMAIN threads' :
          /\ threads'[i].outdated = (threads'[i].head # current')
          /\ \E n \in DOMAIN reviews' : reviews'[n].head = threads'[i].made
    <3>0. reviews' = reviews /\ current' = h BY <1>1
    <3>1. \A i \in DOMAIN threads : \E n \in DOMAIN reviews : reviews[n].head = threads[i].made
      BY DEF TalkInv, Discussion!TypeOK
    <3>2. \A i \in DOMAIN threads' : \E n \in DOMAIN reviews' : reviews'[n].head = threads'[i].made
      BY <3>0, <1>5, <1>6, <3>1
    <3>3. QED BY <3>0, <1>5, <1>6, <3>2
  <2>3. /\ clock' \in 1 .. MaxTime /\ current' \in DOMAIN committed'
        /\ DOMAIN heard' \subseteq Discussion!LABELS /\ (held' => said' # None)
    BY <1>1, <1>2, <1>4 DEF TalkInv, Discussion!TypeOK
  <2>4. QED BY <1>9, <2>1, <2>2, <2>3 DEF Discussion!TypeOK
<1>11. Others BY <1>1, <1>2, LaterIsReflexive DEF Others
<1>12. QED BY <1>8, <1>10, <1>11, OthersKeep

LEMMA ReadStep == ASSUME TalkInv, NEW l \in Discussion!LABELS, Discussion!Read(l) PROVE TalkInv'
PROOF
<1>1. /\ ~held /\ l \notin DOMAIN heard
      /\ heard' = [k \in DOMAIN heard \cup {l} |-> IF k = l THEN Discussion!Response(l) ELSE heard[k]]
      /\ begun' = IF heard = Discussion!NoResponses /\ said # None
                  THEN [reviews |-> reviews, threads |-> threads] ELSE begun
      /\ UNCHANGED <<clock, current, committed, reviews, threads, steps, said, held>>
  BY DEF Discussion!Read, Discussion!github
<1>2. DiscussionTypes' BY <1>1 DEF TalkInv, DiscussionTypes
<1>3. Discussion!TypeOK' BY <1>1 DEF TalkInv, Discussion!TypeOK
<1>4. HeldAsSaid' BY <1>1 DEF HeldAsSaid
<1>5. "github-reviews" \in DOMAIN heard' =>
        \/ "github-reviews" \in DOMAIN heard /\ heard'["github-reviews"] = heard["github-reviews"]
        \/ heard'["github-reviews"] = reviews
  <2>1. CASE l = "github-reviews" BY <1>1, <2>1 DEF Discussion!Response
  <2>2. CASE l # "github-reviews" BY <1>1, <2>2
  <2>3. QED BY <2>1, <2>2
<1>6. SinceBegun'
  <2>1. SUFFICES ASSUME said # None
                 PROVE  /\ \A i \in DOMAIN begun'.threads :
                             \E n \in DOMAIN begun'.reviews : begun'.reviews[n].head = begun'.threads[i].made
                        /\ LaterReviews(begun'.reviews, reviews)
                        /\ "github-reviews" \in DOMAIN heard' => LaterReviews(begun'.reviews, heard'["github-reviews"])
    BY <1>1 DEF SinceBegun
  <2>2. CASE heard = Discussion!NoResponses
    <3>1. begun'.reviews = reviews /\ begun'.threads = threads BY <1>1, <2>1, <2>2
    <3>2. DOMAIN heard = {} BY <2>2 DEF Discussion!NoResponses
    <3>3. QED BY <1>5, <3>1, <3>2, LaterIsReflexive DEF TalkInv, Discussion!TypeOK
  <2>3. CASE heard # Discussion!NoResponses
    <3>1. begun' = begun BY <1>1, <2>3
    <3>2. QED BY <1>5, <2>1, <2>3, <3>1 DEF TalkInv, SinceBegun
  <2>4. QED BY <2>2, <2>3
<1>7. QED BY <1>2, <1>3, <1>4, <1>6 DEF TalkInv

LEMMA SealStep == ASSUME TalkInv, Discussion!Seal PROVE TalkInv'
PROOF
<1>1. /\ said = None /\ heard' = Discussion!NoResponses
      /\ UNCHANGED <<clock, current, committed, reviews, threads, steps, held, begun>>
  BY DEF Discussion!Seal, Discussion!github
<1>2. DiscussionTypes' BY <1>1 DEF TalkInv, DiscussionTypes
<1>3. ~held BY <1>1 DEF TalkInv, Discussion!TypeOK
<1>4. DOMAIN heard' = {} BY <1>1 DEF Discussion!NoResponses
<1>5. Discussion!TypeOK' BY <1>1, <1>3, <1>4 DEF TalkInv, Discussion!TypeOK
<1>6. SinceBegun' BY <1>1 DEF SinceBegun, Discussion!NoResponses
<1>7. HeldAsSaid' BY <1>1, <1>3 DEF HeldAsSaid
<1>8. QED BY <1>2, <1>5, <1>6, <1>7 DEF TalkInv

LEMMA SealLastStep == ASSUME TalkInv, Discussion!SealLast PROVE TalkInv'
PROOF
<1>1. /\ DOMAIN heard = Discussion!LABELS /\ said # None /\ said = heard
      /\ Discussion!GitHubReviews(heard, clock) /\ held' = TRUE
      /\ UNCHANGED <<clock, current, committed, reviews, threads, steps, heard, said, begun>>
  BY DEF Discussion!SealLast, Discussion!github, Discussion!Complete, Discussion!StableWindow,
         Discussion!validate_package_response_semantics
<1>2. DiscussionTypes' BY <1>1 DEF TalkInv, DiscussionTypes
<1>3. Discussion!TypeOK' BY <1>1 DEF TalkInv, Discussion!TypeOK
<1>4. SinceBegun' BY <1>1 DEF TalkInv, SinceBegun, Discussion!NoResponses
<1>5. heard # Discussion!NoResponses
  <2>1. "pull" \in DOMAIN heard BY <1>1 DEF Discussion!LABELS
  <2>2. QED BY <2>1 DEF Discussion!NoResponses
<1>6. HeldAsSaid'
  BY <1>1, <1>5, MomentType DEF HeldAsSaid, Discussion!NoResponses, Discussion!GitHubReviews
<1>7. QED BY <1>2, <1>3, <1>4, <1>6 DEF TalkInv

LEMMA TalkNext == TalkInv /\ [Discussion!Next]_Discussion!vars => TalkInv'
PROOF
<1>1. SUFFICES ASSUME TalkInv, [Discussion!Next]_Discussion!vars PROVE TalkInv' OBVIOUS
<1>2. CASE UNCHANGED Discussion!vars
  <2>1. UNCHANGED <<clock, current, committed, reviews, threads, steps, heard, said, held, begun>>
    BY <1>2 DEF Discussion!vars, Discussion!github
  <2>2. DiscussionTypes' BY <1>1, <2>1 DEF TalkInv, DiscussionTypes
  <2>3. Discussion!TypeOK' BY <1>1, <2>1 DEF TalkInv, Discussion!TypeOK
  <2>4. Others BY <2>1, LaterIsReflexive DEF Others
  <2>5. QED BY <1>1, <2>2, <2>3, <2>4, OthersKeep
<1>3. CASE Discussion!Next
  BY <1>1, <1>3, TickStep, OpenThreadStep, SealStep, SealLastStep, PushStep, SubmitStep,
     ReplyStep, ResolveStep, EditCommentStep, DismissStep, ReadStep DEF Discussion!Next
<1>4. QED BY <1>1, <1>2, <1>3

\* What an accepted window says of the reviews and threads its last package was begun with.
LEMMA TalkIsEnough == TalkInv => DiscussionInv
PROOF
<1>1. SUFFICES ASSUME TalkInv PROVE DiscussionInv OBVIOUS
<1>2. ASSUME held
      PROVE  /\ \A i \in DOMAIN begun.reviews :
                  /\ begun.reviews[i].head = said["pull"]
                  /\ begun.reviews[i].state \in {"APPROVED", "COMMENTED"}
             /\ \A i \in DOMAIN begun.threads : begun.threads[i].made = said["pull"]
  <2>1. /\ said # None /\ heard # Discussion!NoResponses /\ said = heard
        /\ "github-reviews" \in DOMAIN heard
    BY <1>1, <1>2 DEF TalkInv, HeldAsSaid, Discussion!LABELS
  <2>2. PICK cutoff \in Nat : Discussion!GitHubReviews(heard, cutoff)
    BY <1>1, <1>2 DEF TalkInv, HeldAsSaid
  <2>3. LaterReviews(begun.reviews, heard["github-reviews"]) BY <1>1, <2>1 DEF TalkInv, SinceBegun
  <2>4. \A i \in DOMAIN begun.reviews :
          /\ begun.reviews[i].head = said["pull"]
          /\ begun.reviews[i].state \in {"APPROVED", "COMMENTED"}
    BY <2>1, <2>2, <2>3 DEF LaterReviews, Discussion!GitHubReviews
  <2>5. \A i \in DOMAIN begun.threads :
          \E n \in DOMAIN begun.reviews : begun.reviews[n].head = begun.threads[i].made
    BY <1>1, <2>1 DEF TalkInv, SinceBegun
  <2>6. QED BY <2>4, <2>5
<1>3. Discussion!NoStaleOpinion BY <1>2 DEF Discussion!NoStaleOpinion
<1>4. QED BY <1>1, <1>3 DEF DiscussionInv, TalkInv

\* In an accepted window every review and every thread there was when its last package
\* was begun is about the candidate itself, none dismissed or asking for changes.
THEOREM NoOpinionIsStale == Discussion!Spec => []DiscussionInv
PROOF
<1>1. Discussion!Init => TalkInv BY TalkInit
<1>2. TalkInv /\ [Discussion!Next]_Discussion!vars => TalkInv' BY TalkNext
<1>3. TalkInv => DiscussionInv BY TalkIsEnough
<1>4. QED BY <1>1, <1>2, <1>3, PTL DEF Discussion!Spec

-----------------------------------------------------------------------------
(* The bundle of a component. *)

Bodies == Texts \cup {Missing, Null}
PostTables == UNION {[I -> Bodies] : I \in SUBSET Ids}
WireItems == [id : {"number", "string"} \X Ids, body : Bodies]
Entries == [kind : {"issue-comment-rest", "review-thread-comment-graphql"}, immutable_id : Ids,
            state : {"missing", "null", "string"}, sha256 : Texts \cup {None}]
ResponseRecords == [label : Bundle!LABELS, request : {"GET", "POST"}, request_sha256 : {"GET", "POST"},
                    body : Seq(WireItems), body_sha256 : Seq(WireItems), canonical_sha256 : Seq(WireItems),
                    human_body_hashes : SUBSET Entries]

\* The items of a label: its wire says how their ids are written.
ItemsOf(l) == {x \in WireItems : x.id = Bundle!WireId(l, x.id[2])}
RecordSound(r) == r \in ResponseRecords /\ \A n \in DOMAIN r.body : r.body[n] \in ItemsOf(r.label)
InOrder(rs) == Len(rs) <= 2 /\ \A i \in DOMAIN rs : rs[i].label = Bundle!COMPONENT_INVENTORY[i]

\* An accepted bundle has a valid response for every label of the inventory.
BundleSound(rs) ==
  /\ Len(rs) = 2 /\ InOrder(rs)
  /\ \A i \in DOMAIN rs : RecordSound(rs[i]) /\ Bundle!ResponseValid(rs[i])

PostsInv ==
  /\ edits \in 0 .. MaxEdits /\ redone \in 0 .. MaxRedone
  /\ posts \in [Bundle!LABELS -> PostTables]
  /\ responses \in Seq(ResponseRecords) /\ InOrder(responses)
  /\ \A i \in DOMAIN responses : RecordSound(responses[i])
  /\ bundles \in Seq(Seq(ResponseRecords)) /\ Len(bundles) <= 2
  /\ Len(bundles) = 2 => responses = <<>>
  /\ \A n \in DOMAIN bundles : BundleSound(bundles[n])

LEMMA TheLabels ==
  /\ Bundle!LABELS = {"issue-comments", "review-threads"}
  /\ Len(Bundle!COMPONENT_INVENTORY) = 2 /\ DOMAIN Bundle!COMPONENT_INVENTORY = {1, 2}
  /\ \A i \in 1 .. 2 : Bundle!COMPONENT_INVENTORY[i] \in Bundle!LABELS
PROOF
<1>1. /\ Len(Bundle!COMPONENT_INVENTORY) = 2 /\ DOMAIN Bundle!COMPONENT_INVENTORY = {1, 2}
      /\ Bundle!COMPONENT_INVENTORY[1] = "issue-comments" /\ Bundle!COMPONENT_INVENTORY[2] = "review-threads"
  BY DEF Bundle!COMPONENT_INVENTORY
<1>2. Bundle!LABELS = {"issue-comments", "review-threads"} BY <1>1 DEF Bundle!LABELS, Bundle!Range
<1>3. QED BY <1>1, <1>2

-----------------------------------------------------------------------------
\* An entry says whose words it is the hash of, and in what state they are: two items of
\* one label with the same entry are the same.
LEMMA EntryTellsItem ==
  ASSUME NEW l \in Bundle!LABELS, NEW kind, NEW x \in ItemsOf(l), NEW y \in ItemsOf(l),
         Bundle!human_body_hash_entry(kind, x) = Bundle!human_body_hash_entry(kind, y)
  PROVE  x = y
PROOF
<1> DEFINE state(b) == IF b = Missing THEN "missing" ELSE IF b = Null THEN "null" ELSE "string"
           hash(b) == IF b \in Texts THEN b ELSE None
<1>1. /\ x.id[2] = y.id[2] /\ state(x.body) = state(y.body) /\ hash(x.body) = hash(y.body)
  BY DEF Bundle!human_body_hash_entry, Bundle!canonical_human_body_id
<1>2. /\ x \in WireItems /\ y \in WireItems
      /\ x.id = Bundle!WireId(l, x.id[2]) /\ y.id = Bundle!WireId(l, y.id[2])
  BY DEF ItemsOf
<1>3. x.id = y.id BY <1>1, <1>2
<1>4. x.body = y.body
  <2>1. x.body \in Bodies /\ y.body \in Bodies BY <1>2 DEF WireItems
  <2>2. Missing \notin Texts /\ Null \notin Texts /\ Missing # Null
    BY BundleAssumption DEF Bundle!TextAssumption
  <2>3. QED BY <1>1, <2>1, <2>2 DEF Bodies
<1>5. QED BY <1>2, <1>3, <1>4 DEF WireItems

LEMMA EntryOfAnItem ==
  ASSUME NEW l \in Bundle!LABELS, NEW x \in ItemsOf(l)
  PROVE  /\ Bundle!human_body_hash_entry(Bundle!Kind[l], x) \in Entries
         /\ LET e == Bundle!human_body_hash_entry(Bundle!Kind[l], x) IN
              e.immutable_id = x.id[2] /\ (e.state = "string" => e.sha256 = x.body)
PROOF
<1>1. x \in WireItems /\ x.id[2] \in Ids /\ x.body \in Bodies BY DEF ItemsOf, WireItems
<1>2. Bundle!Kind[l] \in {"issue-comment-rest", "review-thread-comment-graphql"} BY DEF Bundle!Kind
<1>3. QED BY <1>1, <1>2 DEF Entries, Bodies, Bundle!human_body_hash_entry, Bundle!canonical_human_body_id

\* The words of a sound record are the items of its body.
LEMMA WordsAreItems ==
  ASSUME NEW r, RecordSound(r)
  PROVE  /\ Bundle!Words(r) = {r.body[n] : n \in DOMAIN r.body}
         /\ Bundle!Words(r) \subseteq ItemsOf(r.label)
         /\ Bundle!derive_human_body_hashes(r.label, r.body)
              = {Bundle!human_body_hash_entry(Bundle!Kind[r.label], x) : x \in Bundle!Words(r)}
PROOF
<1>1. \A n \in DOMAIN r.body : r.body[n] \in ItemsOf(r.label) BY DEF RecordSound
<1>2. \A n \in DOMAIN r.body : [id |-> r.body[n].id, body |-> r.body[n].body] = r.body[n]
  BY <1>1 DEF ItemsOf, WireItems
<1>3. Bundle!Words(r) = {r.body[n] : n \in DOMAIN r.body} BY <1>2 DEF Bundle!Words
<1> DEFINE entry(x) == Bundle!human_body_hash_entry(Bundle!Kind[r.label], x)
<1>4. Bundle!derive_human_body_hashes(r.label, r.body) = {entry(r.body[n]) : n \in DOMAIN r.body}
  BY DEF Bundle!derive_human_body_hashes
<1> HIDE DEF entry
<1>5. {entry(r.body[n]) : n \in DOMAIN r.body} = {entry(x) : x \in Bundle!Words(r)} BY <1>3
<1>6. QED BY <1>1, <1>3, <1>4, <1>5 DEF entry

LEMMA ShownIsSound ==
  ASSUME NEW l \in Bundle!LABELS, NEW content \in PostTables, NEW body \in Bundle!Shown(l, content)
  PROVE  body \in Seq(WireItems) /\ \A n \in DOMAIN body : body[n] \in ItemsOf(l)
PROOF
<1>1. PICK o \in Bundle!Orders(DOMAIN content) :
        body = [i \in DOMAIN o |-> [id |-> Bundle!WireId(l, o[i]), body |-> content[o[i]]]]
  BY DEF Bundle!Shown
<1>2. PICK I \in SUBSET Ids : content \in [I -> Bodies] BY DEF PostTables
<1> DEFINE n == Cardinality(I)
<1>3. IsFiniteSet(Ids) BY BundleAssumption DEF Bundle!IdsAssumption, Bundle!IsFiniteSet, IsFiniteSet
<1>4. IsFiniteSet(I) BY <1>3, FS_Subset
<1>5. n \in Nat BY <1>4, FS_CardinalityType
<1>6. Bundle!Cardinality(I) = n BY Zenon DEF Bundle!Cardinality, Cardinality
<1> HIDE DEF n
<1>7. o \in [1 .. n -> I] BY <1>2, <1>6 DEF Bundle!Orders
<1>8. \A i \in 1 .. n : [id |-> Bundle!WireId(l, o[i]), body |-> content[o[i]]] \in ItemsOf(l)
  <2>1. SUFFICES ASSUME NEW i \in 1 .. n
                 PROVE  [id |-> Bundle!WireId(l, o[i]), body |-> content[o[i]]] \in ItemsOf(l)
    OBVIOUS
  <2>2. o[i] \in Ids /\ content[o[i]] \in Bodies BY <1>2, <1>7
  <2>3. Bundle!WireId(l, o[i]) \in {"number", "string"} \X Ids /\ Bundle!WireId(l, o[i])[2] = o[i]
    BY <2>2 DEF Bundle!WireId
  <2>4. QED BY <2>2, <2>3 DEF ItemsOf, WireItems
<1>9. body = [i \in 1 .. n |-> [id |-> Bundle!WireId(l, o[i]), body |-> content[o[i]]]] BY <1>1, <1>7
<1>10. \A i \in 1 .. n : body[i] \in ItemsOf(l) BY <1>8, <1>9
<1>11. DOMAIN body = 1 .. n BY <1>9
<1>12. body \in Seq(WireItems)
  <2>1. \A i \in 1 .. n : body[i] \in WireItems BY <1>10 DEF ItemsOf
  <2>2. body \in [1 .. n -> WireItems] BY <1>9, <2>1
  <2>3. QED BY <1>5, <2>2
<1>13. QED BY <1>10, <1>11, <1>12

-----------------------------------------------------------------------------
LEMMA BundleInit == Bundle!Init => PostsInv
PROOF
<1>1. SUFFICES ASSUME Bundle!Init PROVE PostsInv OBVIOUS
<1>2. edits = 0 /\ responses = <<>> /\ redone = 0 /\ bundles = <<>> BY <1>1 DEF Bundle!Init
<1>3. UNION {[I -> Texts] : I \in SUBSET Ids} \subseteq PostTables
  <2>1. \A I \in SUBSET Ids : [I -> Texts] \subseteq [I -> Bodies] BY DEF Bodies
  <2>2. QED BY <2>1 DEF PostTables
<1>4. posts \in [Bundle!LABELS -> PostTables]
  <2>1. posts \in [Bundle!LABELS -> UNION {[I -> Texts] : I \in SUBSET Ids}] BY <1>1 DEF Bundle!Init
  <2>2. QED BY <1>3, <2>1
<1>5. edits \in 0 .. MaxEdits /\ redone \in 0 .. MaxRedone
  BY <1>2, BundleAssumption DEF Bundle!BoundsAssumption
<1>6. QED BY <1>2, <1>4, <1>5 DEF PostsInv, InOrder

\* What people write and delete touches nothing that was collected.
LEMMA PeopleStep ==
  ASSUME PostsInv, posts' \in [Bundle!LABELS -> PostTables],
         edits < MaxEdits, edits' = edits + 1, UNCHANGED <<responses, redone, bundles>>
  PROVE  PostsInv'
PROOF
<1>1. edits' \in 0 .. MaxEdits BY BundleAssumption DEF PostsInv, Bundle!BoundsAssumption
<1>2. QED BY <1>1 DEF PostsInv, InOrder

LEMMA BundleWrite ==
  ASSUME PostsInv, NEW l \in Bundle!LABELS, NEW id \in Ids, NEW b \in Texts \cup {Missing, Null},
         Bundle!Write(l, id, b)
  PROVE  PostsInv'
PROOF
<1> DEFINE table == [i \in DOMAIN posts[l] \cup {id} |-> IF i = id THEN b ELSE posts[l][i]]
<1>1. /\ edits < MaxEdits /\ edits' = edits + 1 /\ UNCHANGED <<responses, redone, bundles>>
      /\ posts' = [posts EXCEPT ![l] = table]
  BY DEF Bundle!Write
<1>2. posts \in [Bundle!LABELS -> PostTables] BY DEF PostsInv
<1>3. PICK I \in SUBSET Ids : posts[l] \in [I -> Bodies] BY <1>2 DEF PostTables
<1>4. table \in [I \cup {id} -> Bodies] BY <1>3 DEF Bodies
<1>5. table \in PostTables BY <1>4 DEF PostTables
<1>6. QED BY <1>1, <1>2, <1>5, PeopleStep

LEMMA BundleDelete ==
  ASSUME PostsInv, NEW l \in Bundle!LABELS, NEW id \in DOMAIN posts[l], Bundle!Delete(l, id)
  PROVE  PostsInv'
PROOF
<1> DEFINE table == [i \in DOMAIN posts[l] \ {id} |-> posts[l][i]]
<1>1. /\ edits < MaxEdits /\ edits' = edits + 1 /\ UNCHANGED <<responses, redone, bundles>>
      /\ posts' = [posts EXCEPT ![l] = table]
  BY DEF Bundle!Delete
<1>2. posts \in [Bundle!LABELS -> PostTables] BY DEF PostsInv
<1>3. PICK I \in SUBSET Ids : posts[l] \in [I -> Bodies] BY <1>2 DEF PostTables
<1>4. table \in [I \ {id} -> Bodies] BY <1>3
<1>5. table \in PostTables BY <1>4 DEF PostTables
<1>6. QED BY <1>1, <1>2, <1>5, PeopleStep

-----------------------------------------------------------------------------
\* The record of a response has its digests and hashes from one answer.
LEMMA NewRecord ==
  ASSUME NEW l \in Bundle!LABELS, NEW body \in Seq(WireItems), \A n \in DOMAIN body : body[n] \in ItemsOf(l),
         NEW r, r = [label |-> l, request |-> Bundle!LABEL_REQUEST_RULES[l],
                     request_sha256 |-> Bundle!LABEL_REQUEST_RULES[l],
                     body |-> body, body_sha256 |-> body, canonical_sha256 |-> body,
                     human_body_hashes |-> Bundle!derive_human_body_hashes(l, body)]
  PROVE  RecordSound(r)
PROOF
<1>1. Bundle!LABEL_REQUEST_RULES[l] \in {"GET", "POST"} BY DEF Bundle!LABEL_REQUEST_RULES
<1>2. Bundle!derive_human_body_hashes(l, body) \subseteq Entries
  BY EntryOfAnItem DEF Bundle!derive_human_body_hashes
<1>3. QED BY <1>1, <1>2 DEF RecordSound, ResponseRecords

LEMMA BundleCollect == ASSUME PostsInv, Bundle!Collect PROVE PostsInv'
PROOF
<1> DEFINE l == Bundle!COMPONENT_INVENTORY[Len(responses) + 1]
<1>1. /\ Len(bundles) < 2 /\ Len(responses) < 2 /\ UNCHANGED <<posts, edits, redone, bundles>>
  BY TheLabels DEF Bundle!Collect
<1>2. PICK body \in Bundle!Shown(l, posts[l]) :
        responses' = Append(responses,
         [label |-> l, request |-> Bundle!LABEL_REQUEST_RULES[l],
          request_sha256 |-> Bundle!LABEL_REQUEST_RULES[l],
          body |-> body, body_sha256 |-> body, canonical_sha256 |-> body,
          human_body_hashes |-> Bundle!derive_human_body_hashes(l, body)])
  BY DEF Bundle!Collect
<1> DEFINE r == [label |-> l, request |-> Bundle!LABEL_REQUEST_RULES[l],
                 request_sha256 |-> Bundle!LABEL_REQUEST_RULES[l],
                 body |-> body, body_sha256 |-> body, canonical_sha256 |-> body,
                 human_body_hashes |-> Bundle!derive_human_body_hashes(l, body)]
<1>3. responses \in Seq(ResponseRecords) /\ InOrder(responses) /\ (\A i \in DOMAIN responses : RecordSound(responses[i]))
      /\ posts \in [Bundle!LABELS -> PostTables]
  BY DEF PostsInv
<1>4. l \in Bundle!LABELS BY <1>1, <1>3, TheLabels
<1> HIDE DEF l
<1>5. posts[l] \in PostTables BY <1>3, <1>4
<1>6. body \in Seq(WireItems) /\ \A n \in DOMAIN body : body[n] \in ItemsOf(l) BY <1>4, <1>5, ShownIsSound
<1>7. RecordSound(r) BY <1>4, <1>6, NewRecord
<1>8. r \in ResponseRecords /\ r.label = l BY <1>7 DEF RecordSound
<1>9. responses' = Append(responses, r) BY <1>2
<1> HIDE DEF r
<1>10. /\ responses' \in Seq(ResponseRecords) /\ Len(responses') = Len(responses) + 1
       /\ responses'[Len(responses) + 1] = r
       /\ \A i \in DOMAIN responses : responses'[i] = responses[i]
       /\ \A i \in DOMAIN responses' : i \in DOMAIN responses \/ i = Len(responses) + 1
  BY <1>3, <1>8, <1>9
<1>11. InOrder(responses') BY <1>1, <1>3, <1>8, <1>10 DEF InOrder, l
<1>12. \A i \in DOMAIN responses' : RecordSound(responses'[i]) BY <1>3, <1>7, <1>10
<1>13. bundles \in Seq(Seq(ResponseRecords)) BY DEF PostsInv
<1>14. Len(bundles) # 2 BY <1>1, <1>13
<1>15. QED BY <1>1, <1>10, <1>11, <1>12, <1>14 DEF PostsInv, InOrder

LEMMA RecordChanged ==
  ASSUME NEW q \in ResponseRecords, NEW b, NEW b1, NEW b2
  PROVE  [q EXCEPT !.body = b, !.body_sha256 = b1, !.canonical_sha256 = b2]
           = [label |-> q.label, request |-> q.request, request_sha256 |-> q.request_sha256,
              body |-> b, body_sha256 |-> b1, canonical_sha256 |-> b2,
              human_body_hashes |-> q.human_body_hashes]
PROOF
<1>1. q = [label |-> q.label, request |-> q.request, request_sha256 |-> q.request_sha256,
           body |-> q.body, body_sha256 |-> q.body_sha256, canonical_sha256 |-> q.canonical_sha256,
           human_body_hashes |-> q.human_body_hashes]
  BY DEF ResponseRecords
<1> DEFINE x == [q EXCEPT !.body = b]
           y == [x EXCEPT !.body_sha256 = b1]
<1>2. x = [label |-> q.label, request |-> q.request, request_sha256 |-> q.request_sha256,
           body |-> b, body_sha256 |-> q.body_sha256, canonical_sha256 |-> q.canonical_sha256,
           human_body_hashes |-> q.human_body_hashes]
  BY <1>1
<1> HIDE DEF x
<1>3. y = [label |-> q.label, request |-> q.request, request_sha256 |-> q.request_sha256,
           body |-> b, body_sha256 |-> b1, canonical_sha256 |-> q.canonical_sha256,
           human_body_hashes |-> q.human_body_hashes]
  BY <1>2
<1> HIDE DEF y
<1>4. [y EXCEPT !.canonical_sha256 = b2]
        = [label |-> q.label, request |-> q.request, request_sha256 |-> q.request_sha256,
           body |-> b, body_sha256 |-> b1, canonical_sha256 |-> b2,
           human_body_hashes |-> q.human_body_hashes]
  BY <1>3
<1>5. QED BY <1>4 DEF x, y

LEMMA BundleRedo ==
  ASSUME PostsInv, NEW i \in DOMAIN responses, Bundle!Redo(i)
  PROVE  PostsInv'
PROOF
<1>1. redone < MaxRedone /\ redone' = redone + 1 /\ UNCHANGED <<posts, edits, bundles>>
  BY DEF Bundle!Redo
<1>2. PICK body \in Bundle!Shown(responses[i].label, posts[responses[i].label]), digested \in BOOLEAN :
        responses' = [responses EXCEPT ![i].body = body,
                       ![i].body_sha256 = IF digested THEN body ELSE @,
                       ![i].canonical_sha256 = IF digested THEN body ELSE @]
  BY DEF Bundle!Redo
<1> DEFINE b1 == IF digested THEN body ELSE responses[i].body_sha256
           b2 == IF digested THEN body ELSE responses[i].canonical_sha256
           q == responses[i]
           r == [label |-> q.label, request |-> q.request, request_sha256 |-> q.request_sha256,
                 body |-> body, body_sha256 |-> b1, canonical_sha256 |-> b2,
                 human_body_hashes |-> q.human_body_hashes]
<1>3. /\ responses \in Seq(ResponseRecords) /\ InOrder(responses)
      /\ \A j \in DOMAIN responses : RecordSound(responses[j])
      /\ posts \in [Bundle!LABELS -> PostTables]
  BY DEF PostsInv
<1>4. q \in ResponseRecords /\ q.label \in Bundle!LABELS BY <1>3 DEF RecordSound, ResponseRecords
<1>5. posts[q.label] \in PostTables BY <1>3, <1>4
<1>6. body \in Seq(WireItems) /\ \A n \in DOMAIN body : body[n] \in ItemsOf(q.label)
  BY <1>4, <1>5, ShownIsSound
<1>7. responses' = [responses EXCEPT ![i] = r]
  <2>1. responses' = [responses EXCEPT ![i] =
                        [q EXCEPT !.body = body, !.body_sha256 = b1, !.canonical_sha256 = b2]]
    BY <1>2, <1>3, <1>4 DEF ResponseRecords
  <2>2. [q EXCEPT !.body = body, !.body_sha256 = b1, !.canonical_sha256 = b2] = r
    BY <1>4, RecordChanged
  <2>3. QED BY <2>1, <2>2
<1>8. RecordSound(r) /\ r.label = q.label
  <2>1. b1 \in Seq(WireItems) /\ b2 \in Seq(WireItems) BY <1>4, <1>6 DEF ResponseRecords
  <2> HIDE DEF b1, b2, q
  <2>2. QED BY <1>4, <1>6, <2>1 DEF RecordSound, ResponseRecords
<1>9. r \in ResponseRecords BY <1>8 DEF RecordSound
<1> HIDE DEF r
<1>10. /\ responses' \in Seq(ResponseRecords) /\ Len(responses') = Len(responses) /\ responses'[i] = r
       /\ DOMAIN responses' = DOMAIN responses
       /\ \A j \in DOMAIN responses : j # i => responses'[j] = responses[j]
  BY <1>3, <1>7, <1>9
<1>11. InOrder(responses') BY <1>3, <1>8, <1>10 DEF InOrder
<1>12. \A j \in DOMAIN responses' : RecordSound(responses'[j]) BY <1>3, <1>8, <1>10
<1>13. Len(bundles) # 2 BY DEF PostsInv
<1>14. redone' \in 0 .. MaxRedone BY <1>1, BundleAssumption DEF PostsInv, Bundle!BoundsAssumption
<1>15. QED BY <1>1, <1>10, <1>11, <1>12, <1>13, <1>14 DEF PostsInv, InOrder

LEMMA BundleAccept == ASSUME PostsInv, Bundle!Accept PROVE PostsInv'
PROOF
<1>1. /\ Len(responses) = 2 /\ \A i \in DOMAIN responses : Bundle!ResponseValid(responses[i])
      /\ bundles' = Append(bundles, responses) /\ responses' = <<>> /\ UNCHANGED <<posts, edits, redone>>
  BY TheLabels DEF Bundle!Accept, Bundle!Complete, Bundle!validate_endpoint_bundle_v3
<1>2. /\ responses \in Seq(ResponseRecords) /\ InOrder(responses)
      /\ (\A i \in DOMAIN responses : RecordSound(responses[i]))
      /\ bundles \in Seq(Seq(ResponseRecords)) /\ Len(bundles) <= 2
      /\ \A n \in DOMAIN bundles : BundleSound(bundles[n])
  BY DEF PostsInv
<1>3. Len(bundles) # 2 BY <1>1 DEF PostsInv
<1>4. BundleSound(responses) BY <1>1, <1>2 DEF BundleSound
<1>5. /\ bundles' \in Seq(Seq(ResponseRecords)) /\ Len(bundles') = Len(bundles) + 1
      /\ bundles'[Len(bundles) + 1] = responses
      /\ \A n \in DOMAIN bundles : bundles'[n] = bundles[n]
      /\ \A n \in DOMAIN bundles' : n \in DOMAIN bundles \/ n = Len(bundles) + 1
  BY <1>1, <1>2
<1>6. \A n \in DOMAIN bundles' : BundleSound(bundles'[n]) BY <1>2, <1>4, <1>5
<1>7. Len(bundles') <= 2
  <2>1. Len(bundles) \in Nat BY <1>2
  <2>2. Len(bundles) <= 2 /\ Len(bundles) # 2 /\ Len(bundles') = Len(bundles) + 1 BY <1>2, <1>3, <1>5
  <2>3. \A m \in Nat : m <= 2 /\ m # 2 => m + 1 <= 2 OBVIOUS
  <2>4. QED BY <2>1, <2>2, <2>3
<1>8. responses' \in Seq(ResponseRecords) /\ InOrder(responses') /\ DOMAIN responses' = {}
  BY <1>1 DEF InOrder
<1>9. QED BY <1>1, <1>5, <1>6, <1>7, <1>8 DEF PostsInv, InOrder

LEMMA BundleRefuse == ASSUME PostsInv, Bundle!Refuse PROVE PostsInv'
PROOF
<1>1. responses' = <<>> /\ UNCHANGED <<posts, edits, redone, bundles>> BY DEF Bundle!Refuse
<1>2. responses' \in Seq(ResponseRecords) /\ DOMAIN responses' = {} /\ Len(responses') = 0 BY <1>1
<1>3. QED BY <1>1, <1>2 DEF PostsInv, InOrder

LEMMA BundleNext == ASSUME PostsInv, [Bundle!Next]_(Bundle!vars) PROVE PostsInv'
PROOF
<1>1. CASE \E l \in Bundle!LABELS, id \in Ids, b \in Texts \cup {Missing, Null} : Bundle!Write(l, id, b)
  BY <1>1, BundleWrite
<1>2. CASE \E l \in Bundle!LABELS : \E id \in DOMAIN posts[l] : Bundle!Delete(l, id) BY <1>2, BundleDelete
<1>3. CASE Bundle!Collect BY <1>3, BundleCollect
<1>4. CASE \E i \in DOMAIN responses : Bundle!Redo(i) BY <1>4, BundleRedo
<1>5. CASE Bundle!Accept BY <1>5, BundleAccept
<1>6. CASE Bundle!Refuse BY <1>6, BundleRefuse
<1>7. CASE UNCHANGED Bundle!vars BY <1>7 DEF Bundle!vars, PostsInv, InOrder
<1>8. QED BY <1>1, <1>2, <1>3, <1>4, <1>5, <1>6, <1>7 DEF Bundle!Next

-----------------------------------------------------------------------------
\* A record of an accepted bundle has the label of its place, and hashes of its words.
LEMMA AcceptedRecord ==
  ASSUME PostsInv, NEW n \in DOMAIN bundles, NEW i \in 1 .. 2
  PROVE  LET r == bundles[n][i] IN
           /\ RecordSound(r) /\ r.label = Bundle!COMPONENT_INVENTORY[i] /\ r.label \in Bundle!LABELS
           /\ r.body_sha256 = r.body
           /\ r.human_body_hashes = {Bundle!human_body_hash_entry(Bundle!Kind[r.label], x) : x \in Bundle!Words(r)}
PROOF
<1> DEFINE rs == bundles[n]  r == rs[i]
<1>1. BundleSound(rs) /\ bundles \in Seq(Seq(ResponseRecords)) BY DEF PostsInv
<1>2. rs \in Seq(ResponseRecords) BY <1>1
<1>3. i \in DOMAIN rs BY <1>1, <1>2 DEF BundleSound
<1>4. /\ RecordSound(r) /\ Bundle!ResponseValid(r) /\ r.label = Bundle!COMPONENT_INVENTORY[i]
  BY <1>1, <1>3 DEF BundleSound, InOrder
<1>5. r.label \in Bundle!LABELS BY <1>4, TheLabels
<1>6. r.body_sha256 = r.body /\ r.human_body_hashes = Bundle!derive_human_body_hashes(r.label, r.body)
  BY <1>4 DEF Bundle!ResponseValid
<1>7. QED BY <1>4, <1>5, <1>6, WordsAreItems

LEMMA HashesTellTheWords == PostsInv => Bundle!HashesAreTheWords
PROOF
<1>1. SUFFICES ASSUME PostsInv, Len(bundles) = 2, NEW i \in DOMAIN Bundle!COMPONENT_INVENTORY
               PROVE  LET r == bundles[1][i]  s == bundles[2][i]
                      IN (r.human_body_hashes = s.human_body_hashes) = (Bundle!Words(r) = Bundle!Words(s))
  BY DEF Bundle!HashesAreTheWords
<1> DEFINE r == bundles[1][i]  s == bundles[2][i]  l == Bundle!COMPONENT_INVENTORY[i]
           entry(x) == Bundle!human_body_hash_entry(Bundle!Kind[l], x)
<1>2. bundles \in Seq(Seq(ResponseRecords)) BY <1>1 DEF PostsInv
<1>3. {1, 2} \subseteq DOMAIN bundles /\ i \in 1 .. 2 BY <1>1, <1>2, TheLabels
<1>4. /\ RecordSound(r) /\ r.label = l /\ l \in Bundle!LABELS
      /\ r.human_body_hashes = {entry(x) : x \in Bundle!Words(r)}
  BY <1>1, <1>3, AcceptedRecord
<1>5. /\ RecordSound(s) /\ s.label = l /\ s.human_body_hashes = {entry(x) : x \in Bundle!Words(s)}
  BY <1>1, <1>3, AcceptedRecord
<1>6. Bundle!Words(r) \subseteq ItemsOf(l) /\ Bundle!Words(s) \subseteq ItemsOf(l)
  BY <1>4, <1>5, WordsAreItems
<1>7. \A x, y \in ItemsOf(l) : entry(x) = entry(y) => x = y BY <1>4, EntryTellsItem
<1> DEFINE W == Bundle!Words(r)  V == Bundle!Words(s)
<1> HIDE DEF entry, W, V
<1>8. {entry(x) : x \in W} = {entry(x) : x \in V} => W = V
  <2>1. ASSUME NEW A \in SUBSET ItemsOf(l), NEW B \in SUBSET ItemsOf(l),
               {entry(x) : x \in A} = {entry(x) : x \in B}
        PROVE  A \subseteq B
    <3>1. ASSUME NEW x \in A PROVE x \in B
      <4>1. entry(x) \in {entry(y) : y \in B} BY <2>1
      <4>2. PICK y \in B : entry(x) = entry(y) BY <4>1
      <4>3. QED BY <1>7, <4>2
    <3>2. QED BY <3>1
  <2>2. W \in SUBSET ItemsOf(l) /\ V \in SUBSET ItemsOf(l) BY <1>6 DEF W, V
  <2>3. QED BY <2>1, <2>2
<1>9. (r.human_body_hashes = s.human_body_hashes) <=> (Bundle!Words(r) = Bundle!Words(s))
  BY <1>4, <1>5, <1>8 DEF W, V
<1>10. QED BY <1>9

LEMMA DigestsTellTheAnswer == PostsInv => Bundle!DigestsAreOfOneAnswer
PROOF
<1>1. SUFFICES ASSUME PostsInv, NEW n \in DOMAIN bundles, NEW i \in DOMAIN Bundle!COMPONENT_INVENTORY
               PROVE  LET r == bundles[n][i] IN
                        /\ r.label = Bundle!COMPONENT_INVENTORY[i] /\ r.body_sha256 = r.body
                        /\ Bundle!Cardinality(r.human_body_hashes) = Bundle!Cardinality(Bundle!Words(r))
                        /\ \A e \in r.human_body_hashes : \E w \in Bundle!Words(r) :
                             e.immutable_id = w.id[2] /\ (e.state = "string" => e.sha256 = w.body)
  BY DEF Bundle!DigestsAreOfOneAnswer
<1> DEFINE r == bundles[n][i]  l == r.label
           entry(x) == Bundle!human_body_hash_entry(Bundle!Kind[l], x)
           W == Bundle!Words(r)
<1>2. /\ RecordSound(r) /\ r.label = Bundle!COMPONENT_INVENTORY[i] /\ l \in Bundle!LABELS
      /\ r.body_sha256 = r.body /\ r.human_body_hashes = {entry(x) : x \in W}
  BY <1>1, TheLabels, AcceptedRecord
<1>3. W = {r.body[m] : m \in DOMAIN r.body} /\ W \subseteq ItemsOf(l) BY <1>2, WordsAreItems
<1>4. \A x, y \in W : entry(x) = entry(y) => x = y BY <1>2, <1>3, EntryTellsItem
<1>5. \A x \in W : entry(x).immutable_id = x.id[2] /\ (entry(x).state = "string" => entry(x).sha256 = x.body)
  BY <1>2, <1>3, EntryOfAnItem
<1>6. r.body \in Seq(WireItems) BY <1>2 DEF RecordSound, ResponseRecords
<1> HIDE DEF entry, W, r
<1>7. Cardinality(r.human_body_hashes) = Cardinality(W)
  <2> DEFINE k == Len(r.body)  f == [m \in 1 .. k |-> r.body[m]]  g == [x \in W |-> entry(x)]
  <2>1. k \in Nat /\ DOMAIN r.body = 1 .. k BY <1>6
  <2>2. IsFiniteSet(1 .. k)
    <3> HIDE DEF k
    <3>1. k \in Int /\ 1 \in Int BY <2>1
    <3>2. QED BY <3>1, FS_Interval
  <2>3. f \in Surjection(1 .. k, W) BY <1>3, <2>1 DEF Surjection
  <2> HIDE DEF f
  <2>4. IsFiniteSet(W) BY <2>2, <2>3, FS_Surjection
  <2>5. g \in Bijection(W, r.human_body_hashes)
    BY <1>2, <1>4 DEF Bijection, Injection, Surjection, IsInjective
  <2> HIDE DEF g
  <2>6. ExistsBijection(W, r.human_body_hashes) BY <2>5 DEF ExistsBijection
  <2>7. QED BY <2>4, <2>6, FS_Bijection
<1>8. \A S : Bundle!Cardinality(S) = Cardinality(S) BY Zenon DEF Bundle!Cardinality, Cardinality
<1>9. \A e \in r.human_body_hashes : \E w \in W :
        e.immutable_id = w.id[2] /\ (e.state = "string" => e.sha256 = w.body)
  BY <1>2, <1>5
<1>10. QED BY <1>2, <1>7, <1>8, <1>9 DEF r, W

LEMMA PrefixOfTheInventory ==
  ASSUME responses \in Seq(ResponseRecords), InOrder(responses)
  PROVE  Bundle!IsPrefix([i \in DOMAIN responses |-> responses[i].label], Bundle!COMPONENT_INVENTORY)
PROOF
<1> DEFINE ls == [i \in DOMAIN responses |-> responses[i].label]  inv == Bundle!COMPONENT_INVENTORY  k == Len(responses)
<1>1. k \in 0 .. 2 /\ DOMAIN responses = 1 .. k
  <2>1. k \in Nat /\ DOMAIN responses = 1 .. k OBVIOUS
  <2>2. k <= 2 BY DEF InOrder
  <2>3. QED BY <2>1, <2>2
<1>2. \A i \in 1 .. k : responses[i].label = inv[i] BY <1>1 DEF InOrder
<1>3. ls = [i \in 1 .. k |-> inv[i]] BY <1>1, <1>2
<1>4. Len(inv) = 2 /\ inv \in Seq(Bundle!LABELS) /\ \A i \in 1 .. k : inv[i] \in Bundle!LABELS
  <2>1. inv = <<"issue-comments", "review-threads">> BY DEF Bundle!COMPONENT_INVENTORY
  <2>2. inv \in Seq(Bundle!LABELS) BY <2>1, TheLabels
  <2>3. QED BY <1>1, <2>2, TheLabels
<1> HIDE DEF inv, k, ls
<1>5. ls \in Seq(Bundle!LABELS) /\ Len(ls) = k BY <1>1, <1>3, <1>4
<1>6. SubSeq(ls, 1, k) = SubSeq(inv, 1, k) BY <1>1, <1>3, <1>4, <1>5
<1>7. QED BY <1>1, <1>4, <1>5, <1>6 DEF Bundle!IsPrefix, ls, inv

\* Two accepted bundles have the same hashes of a label exactly when people's words there
\* are the same, and the digests of each are of the one answer it holds
\* (validate_endpoint_bundle_v3, derive_human_body_hashes).
THEOREM HashesTellWhatWasSaid == Bundle!Spec => []BundleInv
PROOF
<1>1. Bundle!Init => PostsInv BY BundleInit
<1>2. PostsInv /\ [Bundle!Next]_(Bundle!vars) => PostsInv' BY BundleNext
<1>3. PostsInv => BundleInv
  <2>1. SUFFICES ASSUME PostsInv PROVE BundleInv OBVIOUS
  <2>2. \A l \in Bundle!LABELS : DOMAIN posts[l] \subseteq Ids BY <2>1 DEF PostsInv, PostTables
  <2>3. Bundle!TypeOK BY <2>1, <2>2, PrefixOfTheInventory DEF PostsInv, Bundle!TypeOK
  <2>4. QED BY <2>1, <2>3, HashesTellTheWords, DigestsTellTheAnswer DEF BundleInv
<1>4. QED BY <1>1, <1>2, <1>3, PTL DEF Bundle!Spec
-----------------------------------------------------------------------------
(* The lints.  Main is in order because the checks of a pull request are of *)
(* the very tree its merge makes: what the invariant says of a checked one. *)

ChecksAreOfTheTip == \A p \in Pulls : checked[p] => Lints!Lints(Lints!Apply(mainline, edit[p]), edit[p])

MainInv == Lints!MainIsClean /\ ChecksAreOfTheTip

\* The table names crates of the workspace only.
LEMMA TableIsTyped == Lints!EXPECTED_INTERNAL_DEPENDENCIES \in [Lints!Crates -> SUBSET Lints!Crates]
PROOF
<1> DEFINE D == Lints!EXPECTED_INTERNAL_DEPENDENCIES
<1>1. Lints!Crates = {"types", "contract", "provider", "state", "security", "admission", "observe",
                      "gateway", "mock_provider", "testkit"}
  BY DEF Lints!Crates, Lints!EXPECTED_INTERNAL_DEPENDENCIES
<1>2. D = [c \in Lints!Crates |-> D[c]] BY <1>1 DEF Lints!EXPECTED_INTERNAL_DEPENDENCIES
<1>3. ASSUME NEW c \in Lints!Crates PROVE D[c] \subseteq Lints!Crates
  BY <1>1, <1>3 DEF Lints!EXPECTED_INTERNAL_DEPENDENCIES
<1> HIDE DEF D
<1>4. QED BY <1>2, <1>3 DEF D

\* A tree keeps its shape under every edit.
LEMMA EditedTreeIsATree ==
  ASSUME NEW t \in Lints!Trees, NEW e \in Lints!Edits
  PROVE  Lints!Apply(t, e) \in Lints!Trees
PROOF
<1> DEFINE x == e[2]  y == e[3]
           linked == IF x \in DOMAIN t.docs THEN t.docs[x] ELSE {}
<1>1. PICK D \in SUBSET Docs : t.docs \in [D -> SUBSET Lints!Targets] BY DEF Lints!Trees
<1>2. \A f : (\E S \in SUBSET Docs : f \in [S -> SUBSET Lints!Targets]) => [t EXCEPT !.docs = f] \in Lints!Trees
  BY DEF Lints!Trees
<1>3. CASE e[1] = "link"
  <2>1. x \in Docs /\ y \in Lints!Targets BY <1>3 DEF Lints!Edits, Lints!AllEdits
  <2>2. linked \subseteq Lints!Targets BY <1>1
  <2> DEFINE f == [d \in DOMAIN t.docs \cup {x} |-> IF d = x THEN linked \cup {y} ELSE t.docs[d]]
  <2>3. f \in [D \cup {x} -> SUBSET Lints!Targets] BY <1>1, <2>1, <2>2
  <2>4. D \cup {x} \in SUBSET Docs BY <2>1
  <2>5. Lints!Apply(t, e) = [t EXCEPT !.docs = f] BY <1>3 DEF Lints!Apply
  <2> HIDE DEF f
  <2>6. QED BY <1>2, <2>3, <2>4, <2>5
<1>4. CASE e[1] = "unlink"
  <2>1. CASE x \in DOMAIN t.docs
    <3>1. [t.docs EXCEPT ![x] = {}] \in [D -> SUBSET Lints!Targets] BY <1>1
    <3>2. Lints!Apply(t, e) = [t EXCEPT !.docs = [t.docs EXCEPT ![x] = {}]] BY <1>4, <2>1 DEF Lints!Apply
    <3>3. QED BY <1>2, <3>1, <3>2
  <2>2. CASE x \notin DOMAIN t.docs BY <1>4, <2>2 DEF Lints!Apply
  <2>3. QED BY <2>1, <2>2
<1>5. CASE e[1] = "delete"
  <2>1. Lints!Without(t.docs, x) \in [D \ {x} -> SUBSET Lints!Targets] BY <1>1 DEF Lints!Without
  <2>2. D \ {x} \in SUBSET Docs OBVIOUS
  <2>3. Lints!Apply(t, e) = [t EXCEPT !.docs = Lints!Without(t.docs, x)] BY <1>5 DEF Lints!Apply
  <2>4. QED BY <1>2, <2>1, <2>2, <2>3
<1>6. CASE e[1] \in {"depend", "forgo"}
  <2>1. y \in Lints!Crates
    BY <1>6, LintAssumption DEF Lints!Edits, Lints!AllEdits, Lints!CratesAssumption
  <2>2. t.deps \in [Lints!Crates -> SUBSET Lints!Crates] /\ t.members \subseteq Lints!Crates BY DEF Lints!Trees
  <2>3. \A g \in [Lints!Crates -> SUBSET Lints!Crates] : [t EXCEPT !.deps = g] \in Lints!Trees BY DEF Lints!Trees
  <2>4. CASE x \in t.members
    <3>1. [t.deps EXCEPT ![x] = @ \cup {y}] \in [Lints!Crates -> SUBSET Lints!Crates] BY <2>1, <2>2, <2>4
    <3>2. [t.deps EXCEPT ![x] = @ \ {y}] \in [Lints!Crates -> SUBSET Lints!Crates] BY <2>2, <2>4
    <3>3. e[1] = "depend" => Lints!Apply(t, e) = [t EXCEPT !.deps = [t.deps EXCEPT ![x] = @ \cup {y}]]
      BY <2>4 DEF Lints!Apply
    <3>4. e[1] = "forgo" => Lints!Apply(t, e) = [t EXCEPT !.deps = [t.deps EXCEPT ![x] = @ \ {y}]]
      BY <2>4 DEF Lints!Apply
    <3>5. QED BY <1>6, <2>3, <3>1, <3>2, <3>3, <3>4
  <2>5. CASE x \notin t.members BY <1>6, <2>5 DEF Lints!Apply
  <2>6. QED BY <2>4, <2>5
<1>7. CASE e[1] \in {"drop", "fixture", "operation"}
  <2>1. \A S : [t EXCEPT !.members = @ \ S] \in Lints!Trees /\ [t EXCEPT !.fixtures = @ \ S] \in Lints!Trees
               /\ [t EXCEPT !.operations = @ \ S] \in Lints!Trees
    BY DEF Lints!Trees
  <2>2. QED BY <1>7, <2>1 DEF Lints!Apply
<1>8. CASE e[1] = "leak"
  <2>1. x \in LintedFiles BY <1>8 DEF Lints!Edits, Lints!AllEdits
  <2>2. [t EXCEPT !.credentials = @ \cup {x}] \in Lints!Trees BY <2>1 DEF Lints!Trees
  <2>3. QED BY <1>8, <2>2 DEF Lints!Apply
<1>9. CASE e[1] = "move"
  <2>1. x \in LintedFiles /\ y \in Lints!Places BY <1>9 DEF Lints!Edits, Lints!AllEdits
  <2>2. t.place \in [LintedFiles -> Lints!Places] BY DEF Lints!Trees
  <2>3. [t.place EXCEPT ![x] = y] \in [LintedFiles -> Lints!Places] BY <2>1, <2>2
  <2>4. [t EXCEPT !.place = [t.place EXCEPT ![x] = y]] \in Lints!Trees BY <2>3 DEF Lints!Trees
  <2>5. QED BY <1>9, <2>4 DEF Lints!Apply
<1>10. e[1] \in {"link", "unlink", "delete", "depend", "forgo", "drop", "fixture", "operation", "leak", "move"}
  BY DEF Lints!Edits, Lints!AllEdits
<1>11. QED BY <1>3, <1>4, <1>5, <1>6, <1>7, <1>8, <1>9, <1>10

LEMMA MainInit == Lints!Init => MainInv
PROOF
<1>1. SUFFICES ASSUME Lints!Init PROVE MainInv OBVIOUS
<1>2. RequiredDocs \subseteq Docs /\ MaxMerges \in Nat /\ ScannedPlaces # {}
  BY LintAssumption DEF Lints!DocsAssumption, Lints!PlacesAssumption
<1>3. Lints!First \in Lints!Trees
  <2>1. [d \in RequiredDocs |-> {}] \in UNION {[D -> SUBSET Lints!Targets] : D \in SUBSET Docs}
    <3>1. [d \in RequiredDocs |-> {}] \in [RequiredDocs -> SUBSET Lints!Targets] OBVIOUS
    <3>2. QED BY <1>2, <3>1
  <2>2. (CHOOSE p \in ScannedPlaces : TRUE) \in Lints!Places BY <1>2 DEF Lints!Places
  <2>3. [f \in LintedFiles |-> CHOOSE p \in ScannedPlaces : TRUE] \in [LintedFiles -> Lints!Places] BY <2>2
  <2>4. QED BY <2>1, <2>3, TableIsTyped DEF Lints!First, Lints!Trees
<1>4. mainline = Lints!First /\ merges = 0 /\ edit = [p \in Pulls |-> <<>>] /\ checked = [p \in Pulls |-> FALSE]
  BY <1>1 DEF Lints!Init
<1>5. Lints!TypeOK BY <1>2, <1>3, <1>4 DEF Lints!TypeOK
<1>6. Lints!MainIsNavigable BY <1>4 DEF Lints!MainIsNavigable, Lints!First
<1>7. Lints!NoCredentialInSight BY <1>4 DEF Lints!NoCredentialInSight, Lints!First
<1>8. QED BY <1>4, <1>5, <1>6, <1>7 DEF MainInv, ChecksAreOfTheTip, Lints!MainIsClean

LEMMA PullPushed == ASSUME MainInv, NEW p \in Pulls, NEW e \in Lints!Edits, Lints!Push(p, e) PROVE MainInv'
PROOF
<1>1. /\ edit' = [edit EXCEPT ![p] = e] /\ checked' = [checked EXCEPT ![p] = FALSE]
      /\ mainline' = mainline /\ merges' = merges
  BY DEF Lints!Push
<1>2. Lints!TypeOK BY DEF MainInv, Lints!MainIsClean
<1>3. checked' \in [Pulls -> BOOLEAN] /\ \A q \in Pulls : checked'[q] => q # p /\ checked[q]
  BY <1>1, <1>2 DEF Lints!TypeOK
<1>4. edit' \in [Pulls -> Lints!Edits \cup {<<>>}] /\ \A q \in Pulls : q # p => edit'[q] = edit[q]
  BY <1>1, <1>2 DEF Lints!TypeOK
<1>5. Lints!TypeOK' BY <1>1, <1>2, <1>3, <1>4 DEF Lints!TypeOK
<1>6. ChecksAreOfTheTip' BY <1>1, <1>3, <1>4 DEF MainInv, ChecksAreOfTheTip
<1>7. Lints!MainIsNavigable' /\ Lints!NoCredentialInSight'
  BY <1>1 DEF MainInv, Lints!MainIsClean, Lints!MainIsNavigable, Lints!NoCredentialInSight, Lints!candidate_files
<1>8. QED BY <1>5, <1>6, <1>7 DEF MainInv, Lints!MainIsClean

LEMMA PullChecked == ASSUME MainInv, NEW p \in Pulls, Lints!Check(p) PROVE MainInv'
PROOF
<1>1. /\ checked' = [checked EXCEPT ![p] = TRUE] /\ mainline' = mainline /\ merges' = merges /\ edit' = edit
      /\ edit[p] # <<>> /\ Lints!Lints(Lints!Apply(mainline, edit[p]), edit[p])
  BY DEF Lints!Check
<1>2. Lints!TypeOK BY DEF MainInv, Lints!MainIsClean
<1>3. checked' \in [Pulls -> BOOLEAN] /\ \A q \in Pulls : checked'[q] => q = p \/ checked[q]
  BY <1>1, <1>2 DEF Lints!TypeOK
<1>4. Lints!TypeOK' BY <1>1, <1>2, <1>3 DEF Lints!TypeOK
<1>5. ChecksAreOfTheTip' BY <1>1, <1>3 DEF MainInv, ChecksAreOfTheTip
<1>6. Lints!MainIsNavigable' /\ Lints!NoCredentialInSight'
  BY <1>1 DEF MainInv, Lints!MainIsClean, Lints!MainIsNavigable, Lints!NoCredentialInSight, Lints!candidate_files
<1>7. QED BY <1>4, <1>5, <1>6 DEF MainInv, Lints!MainIsClean

\* What becomes main is the tree that the checks passed.
LEMMA PullMerged == ASSUME MainInv, NEW p \in Pulls, Lints!Merge(p) PROVE MainInv'
PROOF
<1>1. /\ checked[p] /\ merges < MaxMerges /\ merges' = merges + 1
      /\ mainline' = Lints!Apply(mainline, edit[p])
      /\ edit' = [edit EXCEPT ![p] = <<>>] /\ checked' = [q \in Pulls |-> FALSE]
  BY DEF Lints!Merge, Lints!AfterMerge
<1>2. Lints!TypeOK BY DEF MainInv, Lints!MainIsClean
<1>3. MaxMerges \in Nat BY LintAssumption DEF Lints!DocsAssumption
<1>4. edit[p] \in Lints!Edits BY <1>1, <1>2 DEF Lints!TypeOK
<1>5. mainline' \in Lints!Trees BY <1>1, <1>2, <1>4, EditedTreeIsATree DEF Lints!TypeOK
<1>6. merges' \in 0..MaxMerges BY <1>1, <1>2, <1>3 DEF Lints!TypeOK
<1>7. edit' \in [Pulls -> Lints!Edits \cup {<<>>}] BY <1>1, <1>2 DEF Lints!TypeOK
<1>8. Lints!TypeOK' BY <1>1, <1>5, <1>6, <1>7 DEF Lints!TypeOK
<1>9. Lints!Lints(mainline', edit[p]) BY <1>1 DEF MainInv, ChecksAreOfTheTip
<1>10. Lints!MainIsNavigable'
  BY <1>9 DEF Lints!Lints, Lints!validate_markdown_links, Lints!is_external, Lints!MainIsNavigable
<1>11. Lints!NoCredentialInSight'
  BY <1>9 DEF Lints!Lints, Lints!Scan, Lints!validate_secret_regressions, Lints!candidate_files,
              Lints!NoCredentialInSight
<1>12. ChecksAreOfTheTip' BY <1>1 DEF ChecksAreOfTheTip
<1>13. QED BY <1>8, <1>10, <1>11, <1>12 DEF MainInv, Lints!MainIsClean

\* Main stays in order whatever pull requests are open at the same time and in whatever
\* order they are merged: no link to a doc that is gone, no credential in a place that
\* the scan looks at (validate_markdown_links, validate_secret_regressions).
THEOREM MainStaysClean == Lints!Spec => []Lints!MainIsClean
PROOF
<1>1. Lints!Init => MainInv BY MainInit
<1>2. MainInv /\ [Lints!Next]_(Lints!vars) => MainInv'
  <2>1. SUFFICES ASSUME MainInv, [Lints!Next]_(Lints!vars) PROVE MainInv' OBVIOUS
  <2>2. CASE Lints!Next BY <2>1, <2>2, PullPushed, PullChecked, PullMerged DEF Lints!Next
  <2>3. CASE UNCHANGED Lints!vars
    BY <2>1, <2>3 DEF MainInv, ChecksAreOfTheTip, Lints!MainIsClean, Lints!TypeOK, Lints!MainIsNavigable,
                      Lints!NoCredentialInSight, Lints!candidate_files, Lints!vars
  <2>4. QED BY <2>1, <2>2, <2>3
<1>3. MainInv => Lints!MainIsClean BY DEF MainInv
<1>4. QED BY <1>1, <1>2, <1>3, PTL DEF Lints!Spec
=============================================================================
