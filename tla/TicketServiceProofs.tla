------------------------- MODULE TicketServiceProofs -------------------------
(***************************************************************************)
(* Proofs about TtlStore, and about TicketService, which extends it.       *)
(*                                                                         *)
(* Of the store, Inv is inductive: the types, the agreement of the map     *)
(* with the history of revisions, and the fact that a call delayed before  *)
(* the lock holds a time of the past.  The other properties follow.        *)
(*                                                                         *)
(* TicketService holds no lock, so between two of its store operations any *)
(* other call may run.  What makes it correct is that a record of the      *)
(* ledger never changes its slot, value or grant: what a caller learnt of  *)
(* a revision in one operation still holds in the next, and only whether   *)
(* the revision still lives is open.                                       *)
(***************************************************************************)
EXTENDS TicketService, Integers, TLAPS

-----------------------------------------------------------------------------
(* The store *)

LEMMA MillisNat ==
  ASSUME NEW d \in Nat
  PROVE  AsMillis(d) \in Nat
BY BoundsAssumption DEF AsMillis

\* What a caller inside a call carries.
LEMMA CallTypes ==
  ASSUME TypeOK, NEW c \in Callers, call[c] # Idle
  PROVE  /\ call[c] \in Call
         /\ call[c].slot \in Slots
         /\ call[c].now \in Times
         /\ call[c].op \in {"put", "extend", "take", "get", "remove"}
         /\ call[c].op = "put" => call[c].value \in Values /\ call[c].expires_at \in Times
         /\ call[c].op = "extend" => call[c].expected \in Revisions /\ call[c].expires_at \in Times
         /\ call[c].op = "take" => call[c].expected \in Revisions
BY DEF TypeOK, Call, GrantCall, ExtendCall, TakeCall, PlainCall

\* What an entry of the map carries.
LEMMA EntryTypes ==
  ASSUME TypeOK, NEW s \in Slots, entries[s] # Absent
  PROVE  /\ entries[s] \in Entry
         /\ entries[s].value \in Values
         /\ entries[s].revision \in Revisions
         /\ entries[s].expires_at \in Times
BY DEF TypeOK, Entry

\* The revision of an entry is live, and its record names the entry's slot.
LEMMA EntryLedger ==
  ASSUME Inv, NEW s \in Slots, entries[s] # Absent
  PROVE  /\ ledger[entries[s].revision].fate = "live"
         /\ ledger[entries[s].revision].slot = s
         /\ ledger[entries[s].revision].value = entries[s].value
         /\ entries[s].revision <= next_revision
<1>1. entries[s].revision \in Revisions
  BY EntryTypes DEF Inv
<1>2. /\ ledger[entries[s].revision].fate = "live"
      /\ ledger[entries[s].revision].slot = s
      /\ ledger[entries[s].revision].value = entries[s].value
  BY DEF Inv, EntriesMatchLedger
<1>3. entries[s].revision \in Nat /\ next_revision \in Nat
  BY <1>1, BoundsAssumption DEF Inv, TypeOK, Revisions
<1>4. ~(entries[s].revision > next_revision)
  BY <1>1, <1>2 DEF Inv, EntriesMatchLedger
<1> QED BY <1>2, <1>3, <1>4

\* What Show returns is an answer.
LEMMA SeenTypes ==
  ASSUME TypeOK, NEW s \in Slots, NEW e \in Entry,
         NEW tag \in {"Inserted", "Existing", "Some", "Extended", "RevisionMismatch", "Taken"}
  PROVE  Show(tag, s, e) \in Seen
BY DEF Show, Seen, Entry

-----------------------------------------------------------------------------
(* Closing the revision a slot holds keeps the ledger well formed. *)

LEMMA CloseEffect ==
  ASSUME Inv, NEW s \in Slots, NEW fate \in {"renewed", "taken", "removed", "expired"}
  PROVE  /\ Close(s, fate) \in [Revisions -> History]
         /\ \A r \in Revisions :
              /\ Close(s, fate)[r].slot = ledger[r].slot
              /\ Close(s, fate)[r].value = ledger[r].value
              /\ Close(s, fate)[r].granted = ledger[r].granted
              /\ Close(s, fate)[r].fate =
                   IF entries[s] # Absent /\ r = entries[s].revision THEN fate
                   ELSE ledger[r].fate
<1>1. CASE entries[s] = Absent
  BY <1>1 DEF Close, Inv, TypeOK
<1>2. CASE entries[s] # Absent
  <2>1. entries[s].revision \in Revisions
    BY <1>2, EntryTypes DEF Inv
  <2>2. ledger \in [Revisions -> History]
    BY DEF Inv, TypeOK
  <2> QED
    BY <1>2, <2>1, <2>2 DEF Close, History
<1> QED BY <1>1, <1>2

\* A live revision is the one its slot holds, so closing the entry of a slot
\* leaves no live revision there.
LEMMA DeletePreservesInv ==
  ASSUME Inv, NEW c \in Callers, call[c] # Idle,
         NEW fate \in {"taken", "removed", "expired"},
         NEW answer \in Seen \cup Plain,
         Delete(call[c].slot, fate), Answer(c, answer)
  PROVE  Inv'
<1> DEFINE s == call[c].slot
<1>1. s \in Slots
  BY CallTypes DEF Inv
<1>2. /\ ledger' = Close(s, fate) /\ entries' = [entries EXCEPT ![s] = Absent]
      /\ next_revision' = next_revision /\ clock' = clock
      /\ call' = [call EXCEPT ![c] = Idle] /\ reply' = [reply EXCEPT ![c] = answer]
  BY DEF Delete, Answer
<1>3. TypeOK'
  BY <1>1, <1>2, CloseEffect DEF Inv, TypeOK
<1>4. EntriesMatchLedger'
  <2>1. ASSUME NEW t \in Slots, entries'[t] # Absent
        PROVE  /\ ledger'[entries'[t].revision].fate = "live"
               /\ ledger'[entries'[t].revision].slot = t
               /\ ledger'[entries'[t].revision].value = entries'[t].value
    <3>1. t # s /\ entries'[t] = entries[t]
      BY <1>1, <1>2, <2>1 DEF Inv, TypeOK
    <3>2. entries[t].revision \in Revisions
      BY <2>1, <3>1, EntryTypes DEF Inv
    <3>3. entries[s] # Absent => entries[s].revision # entries[t].revision
      BY <1>1, <2>1, <3>1, EntryLedger
    <3>4. /\ ledger'[entries[t].revision].fate = ledger[entries[t].revision].fate
          /\ ledger'[entries[t].revision].slot = ledger[entries[t].revision].slot
          /\ ledger'[entries[t].revision].value = ledger[entries[t].revision].value
      BY <1>1, <1>2, <3>2, <3>3, CloseEffect
    <3> QED
      BY <2>1, <3>1, <3>4, EntryLedger
  <2>2. ASSUME NEW r \in Revisions
        PROVE  /\ ledger'[r].fate = "live" =>
                    /\ ledger'[r].slot \in Slots
                    /\ entries'[ledger'[r].slot] # Absent
                    /\ entries'[ledger'[r].slot].revision = r
               /\ ledger'[r].fate = "unissued" <=> r > next_revision'
    <3>1. CASE entries[s] # Absent /\ r = entries[s].revision
      <4>1. ledger[r].fate = "live"
        BY <1>1, <3>1 DEF Inv, EntriesMatchLedger
      <4> QED
        BY <1>1, <1>2, <3>1, <4>1, CloseEffect DEF Inv, EntriesMatchLedger
    <3>2. CASE ~(entries[s] # Absent /\ r = entries[s].revision)
      <4>1. ledger'[r].fate = ledger[r].fate /\ ledger'[r].slot = ledger[r].slot
        BY <1>1, <1>2, <3>2, CloseEffect
      <4>2. ledger[r].fate = "live" => ledger[r].slot # s
        BY <3>2 DEF Inv, EntriesMatchLedger
      <4> QED
        BY <1>1, <1>2, <4>1, <4>2 DEF Inv, EntriesMatchLedger, TypeOK
    <3> QED BY <3>1, <3>2
  <2> QED BY <2>1, <2>2 DEF EntriesMatchLedger
<1>5. SamplesInThePast'
  <2>1. ASSUME NEW d \in Callers, call'[d] # Idle
        PROVE  /\ call'[d].now <= clock'
               /\ call'[d].op = "extend" =>
                    /\ call'[d].expected <= next_revision'
                    /\ ledger'[call'[d].expected].granted <= call'[d].now
    <3>1. call'[d] = call[d] /\ call[d] # Idle
      BY <1>2, <2>1 DEF Inv, TypeOK
    <3> QED
      BY <1>1, <1>2, <3>1, CallTypes, CloseEffect DEF Inv, SamplesInThePast
  <2>2. \A r \in Revisions : ledger'[r].granted <= clock'
    BY <1>1, <1>2, CloseEffect DEF Inv, SamplesInThePast
  <2> QED BY <2>1, <2>2 DEF SamplesInThePast
<1> QED BY <1>3, <1>4, <1>5 DEF Inv

\* The counters and instants of a reachable state are numbers.
LEMMA Numbers ==
  ASSUME Inv
  PROVE  /\ clock \in Nat /\ next_revision \in Nat
         /\ \A r \in Revisions : r \in Nat /\ ledger[r].granted \in Nat
         /\ \A c \in Callers : call[c] # Idle => call[c].now \in Nat
<1>1. clock \in Nat /\ next_revision \in Nat
  BY BoundsAssumption DEF Inv, TypeOK, Times
<1>2. \A r \in Revisions : r \in Nat /\ ledger[r].granted \in Nat
  BY BoundsAssumption DEF Inv, TypeOK, Times, Revisions, History
<1>3. \A c \in Callers : call[c] # Idle => call[c].now \in Nat
  BY BoundsAssumption, CallTypes DEF Inv, Times
<1> QED BY <1>1, <1>2, <1>3

\* A revision handed out above the counter is new, so granting it disturbs no
\* other entry and no other revision than the one the slot held.
LEMMA GrantPreservesInv ==
  ASSUME Inv, NEW c \in Callers, call[c] # Idle,
         call[c].op \in {"put", "extend"}, next_revision < MaxRevision,
         NEW fate \in {"renewed", "expired"}, NEW v \in Values,
         NEW tag \in {"Inserted", "Extended"},
         Grant(c, tag, v, fate)
  PROVE  Inv'
<1> DEFINE s == call[c].slot
<1> DEFINE r == next_revision + 1
<1> DEFINE e == [value |-> v, revision |-> r, expires_at |-> call[c].expires_at]
<1> DEFINE h == [fate |-> "live", slot |-> s, value |-> v, granted |-> call[c].now]
<1>1. /\ s \in Slots /\ call[c].expires_at \in Times /\ call[c].now \in Times
  BY CallTypes DEF Inv
<1>2. r \in Revisions
  BY Numbers, BoundsAssumption DEF Revisions
<1>3. /\ next_revision' = r /\ entries' = [entries EXCEPT ![s] = e]
      /\ ledger' = [Close(s, fate) EXCEPT ![r] = h]
      /\ call' = [call EXCEPT ![c] = Idle]
      /\ reply' = [reply EXCEPT ![c] = Show(tag, s, e)] /\ clock' = clock
  BY DEF Grant, successor, Answer
<1>4. e \in Entry /\ h \in History
  BY <1>1, <1>2 DEF Entry, History
<1>5. e # Absent
  BY <1>4, ModelValueAssumption
<1>6. Close(s, fate) \in [Revisions -> History]
  BY <1>1, CloseEffect
<1>7. ledger'[r] = h
  BY <1>2, <1>3, <1>6
<1>8. ASSUME NEW q \in Revisions, q # r
      PROVE  /\ ledger'[q].slot = ledger[q].slot /\ ledger'[q].value = ledger[q].value
             /\ ledger'[q].granted = ledger[q].granted
             /\ ledger'[q].fate = IF entries[s] # Absent /\ q = entries[s].revision
                                  THEN fate ELSE ledger[q].fate
  <2>1. ledger'[q] = Close(s, fate)[q]
    BY <1>3, <1>6, <1>8
  <2> QED BY <1>1, <1>8, <2>1, CloseEffect
<1>9. TypeOK'
  <2>1. Show(tag, s, e) \in Seen
    BY <1>1, <1>4, SeenTypes DEF Inv
  <2>2. next_revision' \in 0..MaxRevision
    BY <1>3, Numbers, BoundsAssumption
  <2>3. ledger' \in [Revisions -> History]
    BY <1>3, <1>4, <1>6
  <2> QED BY <1>3, <1>4, <2>1, <2>2, <2>3 DEF Inv, TypeOK
<1>10. \A t \in Slots : entries'[t] = IF t = s THEN e ELSE entries[t]
  BY <1>1, <1>3 DEF Inv, TypeOK
<1>11. EntriesMatchLedger'
  <2>1. ASSUME NEW t \in Slots, entries'[t] # Absent
        PROVE  /\ ledger'[entries'[t].revision].fate = "live"
               /\ ledger'[entries'[t].revision].slot = t
               /\ ledger'[entries'[t].revision].value = entries'[t].value
    <3>1. CASE t = s
      BY <1>7, <1>10, <3>1
    <3>2. CASE t # s
      <4>1. entries'[t] = entries[t] /\ entries[t] # Absent
        BY <1>10, <2>1, <3>2
      <4>2. entries[t].revision \in Revisions
        BY <4>1, EntryTypes DEF Inv
      <4>3. entries[t].revision # r
        BY <4>1, <4>2, EntryLedger, Numbers
      <4>4. entries[s] # Absent => entries[s].revision # entries[t].revision
        BY <1>1, <3>2, <4>1, EntryLedger
      <4> QED BY <1>8, <4>1, <4>2, <4>3, <4>4, EntryLedger
    <3> QED BY <3>1, <3>2
  <2>2. ASSUME NEW q \in Revisions
        PROVE  /\ ledger'[q].fate = "live" =>
                    /\ ledger'[q].slot \in Slots
                    /\ entries'[ledger'[q].slot] # Absent
                    /\ entries'[ledger'[q].slot].revision = q
               /\ ledger'[q].fate = "unissued" <=> q > next_revision'
    <3>1. CASE q = r
      <4>1. ~(r > next_revision')
        BY <1>3, Numbers
      <4> QED BY <1>1, <1>5, <1>7, <1>10, <3>1, <4>1
    <3>2. CASE q # r
      <4>1. q > next_revision <=> q > next_revision'
        BY <1>3, <3>2, Numbers
      <4>2. CASE entries[s] # Absent /\ q = entries[s].revision
        <5>1. ledger[q].fate = "live"
          BY <1>1, <4>2, EntryLedger
        <5> QED
          BY <1>8, <3>2, <4>1, <4>2, <5>1 DEF Inv, EntriesMatchLedger
      <4>3. CASE ~(entries[s] # Absent /\ q = entries[s].revision)
        <5>1. ledger'[q].fate = ledger[q].fate /\ ledger'[q].slot = ledger[q].slot
          BY <1>8, <3>2, <4>3
        <5>2. ledger[q].fate = "live" => ledger[q].slot # s
          BY <4>3 DEF Inv, EntriesMatchLedger
        <5> QED
          BY <1>10, <4>1, <5>1, <5>2 DEF Inv, EntriesMatchLedger
      <4> QED BY <4>2, <4>3
    <3> QED BY <3>1, <3>2
  <2> QED BY <2>1, <2>2 DEF EntriesMatchLedger
<1>12. SamplesInThePast'
  <2>1. ASSUME NEW d \in Callers, call'[d] # Idle
        PROVE  /\ call'[d].now <= clock'
               /\ call'[d].op = "extend" =>
                    /\ call'[d].expected <= next_revision'
                    /\ ledger'[call'[d].expected].granted <= call'[d].now
    <3>1. call'[d] = call[d] /\ call[d] # Idle
      BY <1>3, <2>1 DEF Inv, TypeOK
    <3>2. call[d].now <= clock
      BY <3>1 DEF Inv, SamplesInThePast
    <3>3. ASSUME call[d].op = "extend"
          PROVE  /\ call[d].expected <= next_revision'
                 /\ ledger'[call[d].expected].granted <= call[d].now
      <4>1. /\ call[d].expected <= next_revision /\ call[d].expected \in Revisions
            /\ ledger[call[d].expected].granted <= call[d].now
        BY <3>1, <3>3, CallTypes DEF Inv, SamplesInThePast
      <4>2. call[d].expected # r /\ call[d].expected <= next_revision'
        BY <1>3, <4>1, Numbers
      <4> QED BY <1>8, <4>1, <4>2
    <3> QED BY <1>3, <3>1, <3>2, <3>3
  <2>2. ASSUME NEW q \in Revisions PROVE ledger'[q].granted <= clock'
    <3>1. CASE q = r
      BY <1>3, <1>7, <3>1 DEF Inv, SamplesInThePast
    <3>2. CASE q # r
      BY <1>3, <1>8, <3>2 DEF Inv, SamplesInThePast
    <3> QED BY <3>1, <3>2
  <2> QED BY <2>1, <2>2 DEF SamplesInThePast
<1> QED BY <1>9, <1>11, <1>12 DEF Inv

\* An answer that changes neither the map nor the counter.
LEMMA LookPreservesInv ==
  ASSUME Inv, NEW c \in Callers, NEW answer \in Seen \cup Plain,
         UNCHANGED storeVars, Answer(c, answer)
  PROVE  Inv'
<1>1. /\ entries' = entries /\ next_revision' = next_revision /\ ledger' = ledger
      /\ call' = [call EXCEPT ![c] = Idle] /\ reply' = [reply EXCEPT ![c] = answer]
      /\ clock' = clock
  BY DEF storeVars, Answer
<1>2. TypeOK'
  BY <1>1 DEF Inv, TypeOK
<1>3. EntriesMatchLedger'
  BY <1>1 DEF Inv, EntriesMatchLedger
<1>4. SamplesInThePast'
  BY <1>1 DEF Inv, TypeOK, SamplesInThePast
<1> QED BY <1>2, <1>3, <1>4 DEF Inv

\* Under the lock a call does one of three things: it drops the entry of its
\* slot, it grants a new revision there, or it only answers.
LEMMA ReturnCases ==
  ASSUME Inv, NEW c \in Callers, Return(c)
  PROVE  /\ call[c] # Idle
         /\ \/ \E fate \in {"taken", "removed", "expired"}, answer \in Seen \cup Plain :
                  /\ fate = "expired" => ~Live(call[c].slot, call[c].now)
                  /\ Delete(call[c].slot, fate) /\ Answer(c, answer)
            \/ \E v \in Values :
                  /\ call[c].op = "put" /\ next_revision < MaxRevision
                  /\ ~Live(call[c].slot, call[c].now)
                  /\ Grant(c, "Inserted", v, "expired")
            \/ /\ call[c].op = "extend" /\ next_revision < MaxRevision
               /\ Matches(c)
               /\ Grant(c, "Extended", entries[call[c].slot].value, "renewed")
            \/ \E answer \in Seen \cup Plain :
                  UNCHANGED storeVars /\ Answer(c, answer)
<1> DEFINE s == call[c].slot
<1>1. call[c] # Idle
  BY DEF Return, put_if_absent, get, compare_and_extend, compare_and_take, remove
<1>2. s \in Slots
  BY <1>1, CallTypes DEF Inv
<1>3. ASSUME entries[s] # Absent,
             NEW tag \in {"Existing", "Some", "RevisionMismatch", "Taken"}
      PROVE  Show(tag, s, entries[s]) \in Seen \cup Plain
  BY <1>2, <1>3, EntryTypes, SeenTypes DEF Inv
<1>4. \A tag \in {"None", "Missing", "Applied", "Unchanged", "Conflict"} :
        [tag |-> tag] \in Seen \cup Plain
  BY DEF Plain
<1>5. Live(s, call[c].now) => entries[s] # Absent
  BY DEF Live
<1>6. CASE put_if_absent(c)
  <2>1. call[c].op = "put" /\ call[c].value \in Values
    BY <1>1, <1>6, CallTypes DEF Inv, put_if_absent
  <2> QED BY <1>1, <1>3, <1>4, <1>5, <1>6, <2>1 DEF put_if_absent, purge_if_expired
<1>7. CASE get(c)
  BY <1>1, <1>3, <1>4, <1>5, <1>7 DEF get, purge_if_expired
<1>8. CASE compare_and_extend(c)
  <2>1. CASE Decline(c)
    BY <1>1, <1>3, <1>4, <1>5, <2>1 DEF Decline, purge_if_expired
  <2>2. CASE Matches(c) /\ next_revision < MaxRevision
             /\ Grant(c, "Extended", entries[s].value, "renewed")
    <3>1. call[c].op = "extend"
      BY <1>8 DEF compare_and_extend
    <3> QED BY <1>1, <2>2, <3>1
  <2>3. CASE Answer(c, [tag |-> "Conflict"]) /\ UNCHANGED storeVars
    BY <1>1, <1>4, <2>3
  <2> QED BY <1>8, <2>1, <2>2, <2>3 DEF compare_and_extend
<1>9. CASE compare_and_take(c)
  <2>1. CASE Decline(c)
    BY <1>1, <1>3, <1>4, <1>5, <2>1 DEF Decline, purge_if_expired
  <2>2. CASE Matches(c) /\ Delete(s, "taken") /\ Answer(c, Show("Taken", s, entries[s]))
    BY <1>1, <1>3, <1>5, <2>2 DEF Matches
  <2> QED BY <1>9, <2>1, <2>2 DEF compare_and_take
<1>10. CASE remove(c)
  BY <1>1, <1>4, <1>10 DEF remove, purge_if_expired
<1> QED BY <1>6, <1>7, <1>8, <1>9, <1>10 DEF Return

\* No operation run under the lock breaks the invariant.
LEMMA ReturnPreservesInv ==
  ASSUME Inv, NEW c \in Callers, Return(c)
  PROVE  Inv'
<1>1. call[c] # Idle
  BY ReturnCases
<1>2. CASE \E fate \in {"taken", "removed", "expired"}, answer \in Seen \cup Plain :
             Delete(call[c].slot, fate) /\ Answer(c, answer)
  BY <1>1, <1>2, DeletePreservesInv
<1>3. CASE \E v \in Values : /\ call[c].op = "put" /\ next_revision < MaxRevision
                             /\ Grant(c, "Inserted", v, "expired")
  BY <1>1, <1>3, GrantPreservesInv
<1>4. CASE /\ call[c].op = "extend" /\ next_revision < MaxRevision /\ Matches(c)
           /\ Grant(c, "Extended", entries[call[c].slot].value, "renewed")
  <2>1. entries[call[c].slot].value \in Values
    BY <1>1, <1>4, CallTypes, EntryTypes DEF Inv, Matches, Live
  <2> QED BY <1>1, <1>4, <2>1, GrantPreservesInv
<1>5. CASE \E answer \in Seen \cup Plain : UNCHANGED storeVars /\ Answer(c, answer)
  BY <1>5, LookPreservesInv
<1> QED BY <1>2, <1>3, <1>4, <1>5, ReturnCases

\* Sampling the clock and starting a call: the sample is of the present.
LEMMA BeginPreservesInv ==
  ASSUME Inv, NEW c \in Callers, NEW request \in Call, request.now = clock,
         request.op = "extend" =>
            request.expected \in Revisions /\ request.expected <= next_revision,
         Begin(c, request)
  PROVE  Inv'
<1>1. /\ entries' = entries /\ next_revision' = next_revision /\ ledger' = ledger
      /\ call' = [call EXCEPT ![c] = request] /\ reply' = [reply EXCEPT ![c] = Idle]
      /\ clock' = clock
  BY DEF Begin
<1>2. TypeOK'
  BY <1>1 DEF Inv, TypeOK
<1>3. EntriesMatchLedger'
  BY <1>1 DEF Inv, EntriesMatchLedger
<1>4. SamplesInThePast'
  <2>1. clock <= clock
    BY Numbers
  <2>2. ASSUME NEW d \in Callers, call'[d] # Idle
        PROVE  /\ call'[d].now <= clock'
               /\ call'[d].op = "extend" =>
                    /\ call'[d].expected <= next_revision'
                    /\ ledger'[call'[d].expected].granted <= call'[d].now
    <3>1. CASE d = c
      <4>1. call'[d] = request
        BY <1>1, <3>1 DEF Inv, TypeOK
      <4> QED BY <1>1, <2>1, <4>1 DEF Inv, SamplesInThePast
    <3>2. CASE d # c
      <4>1. call'[d] = call[d]
        BY <1>1, <3>2 DEF Inv, TypeOK
      <4> QED BY <1>1, <2>2, <4>1 DEF Inv, SamplesInThePast
    <3> QED BY <3>1, <3>2
  <2> QED BY <1>1, <2>2 DEF Inv, SamplesInThePast
<1> QED BY <1>2, <1>3, <1>4 DEF Inv

\* What BeginPut, BeginExtend and the others put into `call` is a call.
LEMMA InvokePreservesInv ==
  ASSUME Inv, NEW c \in Callers, Invoke(c)
  PROVE  Inv'
<1>1. clock \in Times
  BY DEF Inv, TypeOK
<1>2. ASSUME NEW ttl \in Ttls, Grantable(ttl)
      PROVE  clock + AsMillis(ttl) \in Times
  BY <1>2, Numbers, MillisNat, BoundsAssumption DEF Grantable, CanAdd, Times
<1>3. ASSUME NEW ttl \in Ttls, RefuseTtl(c, ttl) PROVE Inv'
  <2>1. TypeOK'
    BY <1>3 DEF RefuseTtl, Inv, TypeOK, Plain
  <2>2. EntriesMatchLedger'
    BY <1>3 DEF RefuseTtl, Inv, EntriesMatchLedger
  <2>3. SamplesInThePast'
    BY <1>3 DEF RefuseTtl, Inv, SamplesInThePast
  <2> QED BY <2>1, <2>2, <2>3 DEF Inv
<1>4. ASSUME NEW s \in Slots, NEW v \in Values, NEW ttl \in Ttls, BeginPut(c, s, v, ttl)
      PROVE  Inv'
  <2> DEFINE request == [op |-> "put", slot |-> s, value |-> v, now |-> clock,
                         expires_at |-> clock + AsMillis(ttl)]
  <2>1. request \in Call
    BY <1>1, <1>2, <1>4 DEF BeginPut, Call, GrantCall
  <2>2. request.now = clock /\ request.op = "put" /\ Begin(c, request)
    BY <1>4 DEF BeginPut
  <2> HIDE DEF request
  <2> QED BY <2>1, <2>2, BeginPreservesInv
<1>5. ASSUME NEW s \in Slots, NEW r \in Revisions, NEW ttl \in Ttls, BeginExtend(c, s, r, ttl)
      PROVE  Inv'
  <2> DEFINE request == [op |-> "extend", slot |-> s, expected |-> r, now |-> clock,
                         expires_at |-> clock + AsMillis(ttl)]
  <2>1. request \in Call
    BY <1>1, <1>2, <1>5 DEF BeginExtend, Call, ExtendCall
  <2>2. /\ request.now = clock /\ request.expected \in Revisions
        /\ request.expected <= next_revision /\ Begin(c, request)
    BY <1>5 DEF BeginExtend
  <2> HIDE DEF request
  <2> QED BY <2>1, <2>2, BeginPreservesInv
<1>6. ASSUME NEW s \in Slots, NEW r \in Revisions, BeginTake(c, s, r) PROVE Inv'
  <2> DEFINE request == [op |-> "take", slot |-> s, expected |-> r, now |-> clock]
  <2>1. request \in Call
    BY <1>1 DEF Call, TakeCall
  <2>2. request.now = clock /\ request.op = "take" /\ Begin(c, request)
    BY <1>6 DEF BeginTake
  <2> HIDE DEF request
  <2> QED BY <2>1, <2>2, BeginPreservesInv
<1>7. ASSUME NEW s \in Slots, NEW op \in {"get", "remove"}, BeginPlain(c, s, op) PROVE Inv'
  <2> DEFINE request == [op |-> op, slot |-> s, now |-> clock]
  <2>1. request \in Call
    BY <1>1 DEF Call, PlainCall
  <2>2. request.now = clock /\ request.op # "extend" /\ Begin(c, request)
    BY <1>7 DEF BeginPlain
  <2> HIDE DEF request
  <2> QED BY <2>1, <2>2, BeginPreservesInv
<1> QED BY <1>3, <1>4, <1>5, <1>6, <1>7 DEF Invoke

\* Time only moves on, so every sample stays one of the past.
LEMMA AdvancePreservesInv ==
  ASSUME Inv, NEW d \in Advances, advance(d)
  PROVE  Inv'
<1>1. AsMillis(d) \in Nat
  BY MillisNat, BoundsAssumption
<1>2. clock' \in Times /\ clock <= clock'
  BY <1>1, Numbers, BoundsAssumption DEF advance, CanAdd, Times
<1>3. TypeOK'
  BY <1>2 DEF advance, Inv, TypeOK
<1>4. EntriesMatchLedger'
  BY DEF advance, Inv, EntriesMatchLedger
<1>5. SamplesInThePast'
  <2>1. clock' \in Nat
    BY <1>2, BoundsAssumption DEF Times
  <2>2. \A c \in Callers : call[c] # Idle => call[c].now <= clock'
    BY <1>2, <2>1, Numbers DEF Inv, SamplesInThePast
  <2>3. \A r \in Revisions : ledger[r].granted <= clock'
    BY <1>2, <2>1, Numbers DEF Inv, SamplesInThePast
  <2> QED BY <2>2, <2>3 DEF advance, Inv, SamplesInThePast
<1> QED BY <1>3, <1>4, <1>5 DEF Inv

-----------------------------------------------------------------------------
(* The invariant *)

\* The store starts empty, with every revision unissued.
LEMMA InitInv == Init => Inv
<1> SUFFICES ASSUME Init PROVE Inv
  OBVIOUS
<1>1. TypeOK
  BY BoundsAssumption DEF Init, TypeOK, Times, History, Unissued
<1>2. EntriesMatchLedger
  BY BoundsAssumption DEF Init, EntriesMatchLedger, Unissued, Revisions
<1>3. SamplesInThePast
  BY DEF Init, SamplesInThePast, Unissued
<1> QED BY <1>1, <1>2, <1>3 DEF Inv

\* Every step of the store keeps the invariant.
LEMMA NextInv == Inv /\ [Next]_vars => Inv'
<1> SUFFICES ASSUME Inv, [Next]_vars PROVE Inv'
  OBVIOUS
<1>1. CASE UNCHANGED vars
  BY <1>1 DEF vars, Inv, TypeOK, EntriesMatchLedger, SamplesInThePast
<1>2. CASE Next
  BY <1>2, AdvancePreservesInv, InvokePreservesInv, ReturnPreservesInv DEF Next
<1> QED BY <1>1, <1>2

\* The inductive invariant holds in every reachable state of the store.
THEOREM Invariance == Spec => []Inv
BY InitInv, NextInv, PTL DEF Spec

\* The state of ttl.rs has its types: in particular no revision or expiry it
\* grants runs past the range of its u64.
THEOREM TypeCorrect == Spec => []TypeOK
<1>1. Inv => TypeOK
  BY DEF Inv
<1> QED BY <1>1, Invariance, PTL

\* The map of InMemoryTtlStore holds exactly the live revisions.
THEOREM MapIsTheLiveRevisions == Spec => []EntriesMatchLedger
<1>1. Inv => EntriesMatchLedger
  BY DEF Inv
<1> QED BY <1>1, Invariance, PTL

\* The clock sample taken before the lock is never ahead of the clock, nor of
\* the grant of the revision a renewal names.
THEOREM SamplesAreOld == Spec => []SamplesInThePast
<1>1. Inv => SamplesInThePast
  BY DEF Inv
<1> QED BY <1>1, Invariance, PTL

-----------------------------------------------------------------------------
(* What a step may do to a revision *)

\* A live revision ends by a call that returns, and the call tells how: an
\* expiry is a purge that found it not Live, a renewal the extend that matched.
LEMMA HowARevisionEnds ==
  ASSUME Inv, Next, NEW s \in Slots, entries[s] # Absent,
         ledger'[entries[s].revision].fate # "live"
  PROVE  \E c \in Callers :
            /\ call[c] # Idle /\ call[c].slot = s /\ UNCHANGED clock
            /\ \/ /\ ledger'[entries[s].revision].fate \in {"taken", "removed"}
                  /\ Delete(s, ledger'[entries[s].revision].fate)
               \/ /\ ledger'[entries[s].revision].fate = "expired"
                  /\ ~Live(s, call[c].now)
               \/ /\ ledger'[entries[s].revision].fate = "renewed"
                  /\ call[c].op = "extend" /\ Matches(c) /\ next_revision < MaxRevision
                  /\ Grant(c, "Extended", entries[s].value, "renewed")
<1> DEFINE q == entries[s].revision
<1>1. q \in Revisions /\ ledger[q].fate = "live" /\ q <= next_revision
  BY EntryTypes, EntryLedger DEF Inv
<1>2. ledger' # ledger
  BY <1>1
<1>3. PICK c \in Callers : Return(c)
  BY <1>2 DEF Next, advance, Invoke, RefuseTtl, BeginPut, BeginExtend, BeginTake,
              BeginPlain, Begin
<1>4. /\ call[c] # Idle /\ call[c].slot \in Slots /\ call[c].now \in Times
  BY <1>3, ReturnCases, CallTypes DEF Inv
<1>5. call[c].slot # s /\ entries[call[c].slot] # Absent
        => entries[call[c].slot].revision # q
  BY <1>4, EntryLedger
<1>6. CASE \E fate \in {"taken", "removed", "expired"}, answer \in Seen \cup Plain :
             /\ fate = "expired" => ~Live(call[c].slot, call[c].now)
             /\ Delete(call[c].slot, fate) /\ Answer(c, answer)
  <2>1. PICK fate \in {"taken", "removed", "expired"}, answer \in Seen \cup Plain :
             /\ fate = "expired" => ~Live(call[c].slot, call[c].now)
             /\ Delete(call[c].slot, fate) /\ Answer(c, answer)
    BY <1>6
  <2>2. ledger' = Close(call[c].slot, fate) /\ clock' = clock
    BY <2>1 DEF Delete, Answer
  <2>3. call[c].slot = s
    BY <1>1, <1>4, <1>5, <2>2, CloseEffect
  <2>4. ledger'[q].fate = fate
    BY <1>1, <1>4, <2>2, <2>3, CloseEffect
  <2> QED BY <1>4, <2>1, <2>2, <2>3, <2>4
<1>7. ASSUME NEW v, NEW tag, NEW fate \in {"expired", "renewed"}, Grant(c, tag, v, fate),
             next_revision < MaxRevision
      PROVE  call[c].slot = s /\ ledger'[q].fate = fate /\ clock' = clock
  <2>1. /\ clock' = clock
        /\ ledger' = [Close(call[c].slot, fate) EXCEPT
                        ![next_revision + 1] = [fate |-> "live", slot |-> call[c].slot,
                                                value |-> v, granted |-> call[c].now]]
    BY <1>7 DEF Grant, successor, Answer
  <2>2. q # next_revision + 1
    BY <1>1, Numbers
  <2>3. ledger'[q] = Close(call[c].slot, fate)[q]
    BY <1>1, <1>4, <2>1, <2>2, CloseEffect
  <2> QED BY <1>1, <1>4, <1>5, <2>1, <2>3, CloseEffect
<1>8. CASE \E v \in Values : /\ ~Live(call[c].slot, call[c].now)
                             /\ next_revision < MaxRevision
                             /\ Grant(c, "Inserted", v, "expired")
  BY <1>4, <1>7, <1>8
<1>9. CASE /\ call[c].op = "extend" /\ next_revision < MaxRevision /\ Matches(c)
           /\ Grant(c, "Extended", entries[call[c].slot].value, "renewed")
  BY <1>4, <1>7, <1>9
<1>10. CASE \E answer \in Seen \cup Plain : UNCHANGED storeVars /\ Answer(c, answer)
  BY <1>2, <1>10 DEF storeVars
<1> QED BY <1>3, <1>6, <1>8, <1>9, <1>10, ReturnCases

\* purge_if_expired, run with a sample of the past, drops only what has expired
\* on the clock, however late the purging call gets the lock.
THEOREM PurgesAreDue == Spec => PurgeOnlyExpired
<1>1. Inv /\ [Next]_vars =>
        [\A s \in Slots :
           (entries[s] # Absent /\ ledger'[entries[s].revision].fate = "expired"
              /\ ledger[entries[s].revision].fate = "live")
           => entries[s].expires_at <= clock]_vars
  <2> SUFFICES ASSUME Inv, Next, NEW s \in Slots, entries[s] # Absent,
                      ledger'[entries[s].revision].fate = "expired"
               PROVE  entries[s].expires_at <= clock
    BY DEF vars
  <2>1. PICK c \in Callers : /\ call[c] # Idle
                             /\ ~Live(s, call[c].now)
    BY HowARevisionEnds
  <2>2. call[c].now <= clock /\ call[c].now \in Nat
    BY <2>1, Numbers DEF Inv, SamplesInThePast
  <2>3. entries[s].expires_at \in Nat
    BY EntryTypes, BoundsAssumption DEF Inv, Times
  <2> QED BY <2>1, <2>2, <2>3, Numbers DEF Live
<1> QED BY <1>1, Invariance, PTL DEF Spec, PurgeOnlyExpired

\* compare_and_extend never grants from an earlier instant than the lease it
\* replaces was granted from, however late it gets the lock.
THEOREM RenewalsNeverRewind == Spec => RenewalNeverRewinds
<1>1. Inv /\ [Next]_vars =>
        [\A s \in Slots :
           (entries[s] # Absent /\ ledger'[entries[s].revision].fate = "renewed"
              /\ ledger[entries[s].revision].fate = "live")
           => ledger[entries[s].revision].granted
                 <= ledger'[next_revision'].granted]_vars
  <2> SUFFICES ASSUME Inv, Next, NEW s \in Slots, entries[s] # Absent,
                      ledger'[entries[s].revision].fate = "renewed"
               PROVE  ledger[entries[s].revision].granted
                         <= ledger'[next_revision'].granted
    BY DEF vars
  <2>1. PICK c \in Callers : /\ call[c] # Idle /\ call[c].slot = s
                             /\ call[c].op = "extend" /\ Matches(c)
                             /\ next_revision < MaxRevision
                             /\ Grant(c, "Extended", entries[s].value, "renewed")
    BY HowARevisionEnds
  <2>2. ledger[entries[s].revision].granted <= call[c].now
    BY <2>1 DEF Matches, Inv, SamplesInThePast
  <2>3. next_revision + 1 \in Revisions
    BY <2>1, Numbers, BoundsAssumption DEF Revisions
  <2>4. Close(s, "renewed") \in [Revisions -> History]
    BY CloseEffect
  <2>5. next_revision' = next_revision + 1 /\ ledger'[next_revision + 1].granted = call[c].now
    BY <2>1, <2>3, <2>4 DEF Grant, successor
  <2> QED BY <2>2, <2>5
<1> QED BY <1>1, Invariance, PTL DEF Spec, RenewalNeverRewinds

-----------------------------------------------------------------------------
(* What callers are told *)

\* A record of the history is written once; after that only a live one ends.
LEMMA RevisionsAreKept ==
  ASSUME Inv, [Next]_vars, NEW r \in Revisions, ledger[r].fate # "unissued"
  PROVE  /\ ledger'[r].slot = ledger[r].slot /\ ledger'[r].value = ledger[r].value
         /\ ledger'[r].granted = ledger[r].granted /\ ledger'[r].fate # "unissued"
         /\ ledger[r].fate # "live" => ledger'[r].fate = ledger[r].fate
<1>1. CASE ledger' = ledger
  BY <1>1
<1>2. ASSUME NEW c \in Callers, Return(c)
      PROVE  \/ ledger' = ledger
             \/ \E fate \in {"renewed", "taken", "removed", "expired"} :
                   ledger'[r] = Close(call[c].slot, fate)[r]
  <2>1. call[c] # Idle /\ call[c].slot \in Slots
    BY <1>2, ReturnCases, CallTypes DEF Inv
  <2>2. next_revision < MaxRevision => r # next_revision + 1
    BY Numbers DEF Inv, EntriesMatchLedger
  <2>3. ASSUME NEW v, NEW tag, NEW fate \in {"expired", "renewed"}, Grant(c, tag, v, fate),
               next_revision < MaxRevision
        PROVE  ledger'[r] = Close(call[c].slot, fate)[r]
    BY <2>1, <2>2, <2>3, CloseEffect DEF Grant, successor
  <2> QED BY <1>2, <2>3, ReturnCases DEF Delete, storeVars
<1>3. ASSUME NEW c \in Callers, Return(c), NEW fate \in {"renewed", "taken", "removed", "expired"},
             ledger'[r] = Close(call[c].slot, fate)[r]
      PROVE  /\ ledger'[r].slot = ledger[r].slot /\ ledger'[r].value = ledger[r].value
             /\ ledger'[r].granted = ledger[r].granted /\ ledger'[r].fate # "unissued"
             /\ ledger[r].fate # "live" => ledger'[r].fate = ledger[r].fate
  <2>1. call[c] # Idle /\ call[c].slot \in Slots
    BY <1>3, ReturnCases, CallTypes DEF Inv
  <2> QED BY <1>3, <2>1, CloseEffect, EntryLedger
<1>4. ledger' = ledger \/ \E c \in Callers : Return(c)
  BY DEF vars, Next, advance, Invoke, RefuseTtl, BeginPut, BeginExtend, BeginTake,
         BeginPlain, Begin
<1> QED BY <1>1, <1>2, <1>3, <1>4

\* What an answer says of its revision.
TrueOf(answer, history) ==
    /\ history[answer.revision].slot = answer.slot
    /\ history[answer.revision].value = answer.value
    /\ history[answer.revision].fate # "unissued"

\* The answer of an entry that stays is true of it, also when the call took it.
LEMMA ShowIsTrue ==
  ASSUME Inv, NEW s \in Slots, entries[s] # Absent, NEW tag
  PROVE  /\ TrueOf(Show(tag, s, entries[s]), ledger)
         /\ TrueOf(Show(tag, s, entries[s]), Close(s, "taken"))
         /\ Show(tag, s, entries[s]).tag = tag
         /\ Show(tag, s, entries[s]).revision = entries[s].revision
         /\ Close(s, "taken")[entries[s].revision].fate = "taken"
<1>1. entries[s].revision \in Revisions
  BY EntryTypes DEF Inv
<1> QED BY <1>1, EntryLedger, CloseEffect DEF TrueOf, Show

\* An operation answers with the truth, and Taken only when it took a live revision.
LEMMA AnswersOfReturn ==
  ASSUME Inv, NEW c \in Callers, Return(c)
  PROVE  \E answer \in Seen \cup Plain :
            /\ reply' = [reply EXCEPT ![c] = answer]
            /\ answer \in Seen => TrueOf(answer, ledger')
            /\ answer \in Seen /\ answer.tag = "Taken" =>
                  /\ ledger[answer.revision].fate = "live"
                  /\ ledger'[answer.revision].fate = "taken"
<1> DEFINE s == call[c].slot
           Good(a) == /\ a \in Seen \cup Plain
                      /\ a \in Seen => TrueOf(a, ledger')
                      /\ a \in Seen /\ a.tag = "Taken" =>
                            /\ ledger[a.revision].fate = "live"
                            /\ ledger'[a.revision].fate = "taken"
<1>1. /\ call[c] # Idle /\ s \in Slots
      /\ call[c].op \in {"put", "extend"} => call[c].expires_at \in Times
      /\ call[c].op = "put" => call[c].value \in Values
  BY ReturnCases, CallTypes DEF Inv
<1>2. ASSUME NEW tag \in {"None", "Missing", "Applied", "Unchanged", "Conflict"}
      PROVE  Good([tag |-> tag])
  BY DEF Seen, Plain
<1>3. ASSUME entries[s] # Absent, ledger' = ledger,
             NEW tag \in {"Existing", "Some", "RevisionMismatch"}
      PROVE  Good(Show(tag, s, entries[s]))
  BY <1>1, <1>3, EntryTypes, SeenTypes, ShowIsTrue DEF Inv
<1>4. ASSUME entries[s] # Absent, Delete(s, "taken")
      PROVE  Good(Show("Taken", s, entries[s]))
  <2>1. ledger' = Close(s, "taken") /\ Show("Taken", s, entries[s]) \in Seen
    BY <1>1, <1>4, EntryTypes, SeenTypes DEF Delete, Inv
  <2> QED BY <1>1, <1>4, <2>1, ShowIsTrue, EntryLedger
<1>5. ASSUME NEW tag \in {"Inserted", "Extended"}, NEW v \in Values,
             NEW fate \in {"expired", "renewed"}, call[c].op \in {"put", "extend"},
             next_revision < MaxRevision, Grant(c, tag, v, fate)
      PROVE  \E a : Good(a) /\ Answer(c, a)
  <2> DEFINE e == [value |-> v, revision |-> next_revision + 1, expires_at |-> call[c].expires_at]
             a == Show(tag, s, e)
  <2>1. next_revision + 1 \in Revisions
    BY <1>5, Numbers, BoundsAssumption DEF Revisions
  <2>2. e \in Entry
    BY <1>1, <1>5, <2>1 DEF Entry
  <2>3. a \in Seen
    BY <1>1, <2>2, SeenTypes DEF Inv
  <2>4. /\ a.slot = s /\ a.value = v /\ a.revision = next_revision + 1 /\ a.tag = tag
    BY DEF Show
  <2>5. ledger'[next_revision + 1]
          = [fate |-> "live", slot |-> s, value |-> v, granted |-> call[c].now]
    BY <1>1, <1>5, <2>1, CloseEffect DEF Grant, successor
  <2>6. TrueOf(a, ledger')
    BY <2>4, <2>5 DEF TrueOf
  <2>7. Answer(c, a)
    BY <1>5 DEF Grant, successor
  <2> QED BY <2>3, <2>4, <2>6, <2>7
<1>6. \E a : Good(a) /\ Answer(c, a)
  <2>1. CASE put_if_absent(c)
    BY <1>1, <1>2, <1>3, <1>5, <2>1 DEF put_if_absent, Live, storeVars
  <2>2. CASE get(c)
    BY <1>1, <1>2, <1>3, <2>2 DEF get, Live, storeVars
  <2>3. CASE remove(c)
    BY <1>2, <2>3 DEF remove
  <2>4. CASE compare_and_extend(c)
    <3>1. CASE Decline(c)
      BY <1>1, <1>2, <1>3, <3>1 DEF Decline, Live, storeVars
    <3>2. CASE Matches(c) /\ next_revision < MaxRevision
               /\ Grant(c, "Extended", entries[s].value, "renewed")
      <4>1. entries[s].value \in Values /\ call[c].op = "extend"
        BY <1>1, <2>4, <3>2, EntryTypes DEF Inv, Matches, Live, compare_and_extend
      <4> QED BY <1>5, <3>2, <4>1
    <3>3. CASE Answer(c, [tag |-> "Conflict"])
      BY <1>2, <3>3
    <3> QED BY <2>4, <3>1, <3>2, <3>3 DEF compare_and_extend
  <2>5. CASE compare_and_take(c)
    <3>1. CASE Decline(c)
      BY <1>1, <1>2, <1>3, <3>1 DEF Decline, Live, storeVars
    <3>2. CASE Matches(c) /\ Delete(s, "taken") /\ Answer(c, Show("Taken", s, entries[s]))
      BY <1>4, <3>2 DEF Matches, Live
    <3> QED BY <2>5, <3>1, <3>2 DEF compare_and_take
  <2> QED BY <2>1, <2>2, <2>3, <2>4, <2>5 DEF Return
<1> QED BY <1>6 DEF Answer

\* A revision a caller was told of has been handed out.
ToldOfIssued == \A c \in Callers : reply[c] \in Seen => ledger[reply[c].revision].fate # "unissued"

AnswersInv == Inv /\ RepliesAreTrue /\ OneTaker /\ ToldOfIssued

\* An answer already given stays true, and one being given contradicts none.
LEMMA AnswersStayTrue == AnswersInv /\ [Next]_vars => AnswersInv'
<1> SUFFICES ASSUME AnswersInv, [Next]_vars PROVE AnswersInv'
  OBVIOUS
<1>1. Inv /\ Inv'
  BY NextInv DEF AnswersInv
<1>2. reply \in [Callers -> Seen \cup Plain \cup {Idle}]
      /\ \A a \in Seen : a.revision \in Revisions
  BY <1>1 DEF Inv, TypeOK, Seen
<1>3. ASSUME NEW c \in Callers, reply[c] \in Seen
      PROVE  /\ TrueOf(reply[c], ledger')
             /\ reply[c].tag = "Taken" => /\ ledger[reply[c].revision].fate = "taken"
                                         /\ ledger'[reply[c].revision].fate = "taken"
  <2>1. /\ TrueOf(reply[c], ledger) /\ reply[c].revision \in Revisions
        /\ reply[c].tag = "Taken" => ledger[reply[c].revision].fate = "taken"
    BY <1>2, <1>3 DEF AnswersInv, RepliesAreTrue, ToldOfIssued, TrueOf
  <2> QED BY <1>1, <2>1, RevisionsAreKept DEF TrueOf
<1>4. ASSUME NEW c \in Callers, NEW answer \in Seen \cup Plain \cup {Idle},
             reply' = [reply EXCEPT ![c] = answer],
             answer \in Seen => TrueOf(answer, ledger'),
             answer \in Seen /\ answer.tag = "Taken" =>
                /\ ledger[answer.revision].fate = "live"
                /\ ledger'[answer.revision].fate = "taken"
      PROVE  AnswersInv'
  <2>1. reply'[c] = answer /\ \A d \in Callers : d # c => reply'[d] = reply[d]
    BY <1>2, <1>4
  <2>2. RepliesAreTrue'
    BY <1>3, <1>4, <2>1 DEF RepliesAreTrue, TrueOf
  <2>3. ToldOfIssued'
    BY <1>3, <1>4, <2>1 DEF ToldOfIssued, TrueOf
  <2>4. OneTaker'
    <3> SUFFICES ASSUME NEW d \in Callers, NEW e \in Callers,
                        reply'[d] \in Seen, reply'[d].tag = "Taken",
                        reply'[e] \in Seen, reply'[e].tag = "Taken",
                        reply'[d].revision = reply'[e].revision
                 PROVE  d = e
      BY DEF OneTaker
    <3>1. CASE d # c /\ e # c
      BY <2>1, <3>1 DEF AnswersInv, OneTaker
    <3>2. CASE d = c /\ e # c
      BY <1>3, <1>4, <2>1, <3>2
    <3>3. CASE d # c /\ e = c
      BY <1>3, <1>4, <2>1, <3>3
    <3> QED BY <3>1, <3>2, <3>3
  <2> QED BY <1>1, <2>2, <2>3, <2>4 DEF AnswersInv
<1>5. ASSUME reply' = reply PROVE AnswersInv'
  BY <1>1, <1>3, <1>5 DEF AnswersInv, RepliesAreTrue, OneTaker, ToldOfIssued, TrueOf
<1>6. ASSUME NEW c \in Callers, Return(c) PROVE AnswersInv'
  BY <1>1, <1>4, <1>6, AnswersOfReturn
<1>7. ASSUME NEW c \in Callers, Invoke(c) PROVE AnswersInv'
  <2>1. [tag |-> "InvalidArgument"] \in Plain /\ [tag |-> "InvalidArgument"] \notin Seen
    BY DEF Plain, Seen
  <2>2. Idle \notin Seen
    BY ModelValueAssumption
  <2>3. \/ reply' = [reply EXCEPT ![c] = [tag |-> "InvalidArgument"]]
        \/ reply' = [reply EXCEPT ![c] = Idle]
    BY <1>7 DEF Invoke, RefuseTtl, BeginPut, BeginExtend, BeginTake, BeginPlain, Begin
  <2> QED BY <1>4, <2>1, <2>2, <2>3
<1>8. CASE UNCHANGED vars \/ \E d \in Advances : advance(d)
  BY <1>5, <1>8 DEF vars, advance
<1> QED BY <1>6, <1>7, <1>8 DEF Next

\* What the store told a caller of a revision stays true of it for good, and of the
\* callers racing for one value at most one is told Taken (compare_and_take).
THEOREM AnswersHold == Spec => []AnswersAreTrue
<1>1. Init => AnswersInv
  <2>1. Init => \A c \in Callers : reply[c] \notin Seen
    BY ModelValueAssumption DEF Init
  <2> QED BY <2>1, InitInv DEF AnswersInv, RepliesAreTrue, OneTaker, ToldOfIssued
<1>2. AnswersInv => AnswersAreTrue
  BY DEF AnswersInv, AnswersAreTrue
<1> QED BY <1>1, <1>2, AnswersStayTrue, PTL DEF Spec

-----------------------------------------------------------------------------
(* The store implements RevisionLedger *)

\* The ledger as RevisionLedger sees it.
Told == [r \in Revisions |-> [fate |-> ledger[r].fate, slot |-> ledger[r].slot,
                              value |-> ledger[r].value]]

\* The revision above the counter is the one the promise hands out next.
LEMMA CounterIsNext ==
  ASSUME Inv, next_revision < MaxRevision
  PROVE  next_revision + 1 \in Revisions /\ Promise!IsNext(next_revision + 1)
<1>1. next_revision + 1 \in Revisions
  BY Numbers, BoundsAssumption DEF Revisions
<1>2. ASSUME NEW q \in Revisions
      PROVE  ledger[q].fate = "unissued" <=> q >= next_revision + 1
  <2>1. ledger[q].fate = "unissued" <=> q > next_revision
    BY DEF Inv, EntriesMatchLedger
  <2> QED BY <2>1, Numbers
<1> QED BY <1>1, <1>2 DEF Promise!IsNext, Promise!Revisions, Revisions

\* The live revisions of a slot are the one its entry carries, or none.
LEMMA LiveAtSlot ==
  ASSUME Inv, NEW s \in Slots
  PROVE  \A r \in Revisions :
            r \in Promise!LiveAt(s) <=> entries[s] # Absent /\ r = entries[s].revision
<1> SUFFICES ASSUME NEW r \in Revisions
             PROVE  r \in Promise!LiveAt(s) <=> entries[s] # Absent /\ r = entries[s].revision
  OBVIOUS
<1>1. r \in Promise!LiveAt(s) <=> ledger[r].fate = "live" /\ ledger[r].slot = s
  BY DEF Promise!LiveAt, Promise!Revisions, Revisions
<1>2. ledger[r].fate = "live" /\ ledger[r].slot = s
        => entries[s] # Absent /\ r = entries[s].revision
  BY DEF Inv, EntriesMatchLedger
<1> QED BY <1>1, <1>2, EntryLedger

ToldLedgers == [Revisions -> [fate : Promise!Fates, slot : Slots \cup {NoSlot},
                              value : Values \cup {NoValue}]]

\* The ledger told is a function into records of three fields.
LEMMA ToldTypes ==
  ASSUME Inv
  PROVE  Told \in ToldLedgers
BY DEF ToldLedgers, Told, Inv, TypeOK, History, Promise!Fates

\* Changing the fate of one record, written out field by field.
WithFate(f, q, fate) ==
  [p \in Revisions |-> IF p = q THEN [fate |-> fate, slot |-> f[q].slot,
                                      value |-> f[q].value] ELSE f[p]]

LEMMA FateUpdate ==
  ASSUME NEW f \in ToldLedgers, NEW q \in Revisions, NEW fate
  PROVE  [f EXCEPT ![q].fate = fate] = WithFate(f, q, fate)
<1>1. /\ f = [p \in Revisions |-> f[p]]
      /\ f[q] \in [fate : Promise!Fates, slot : Slots \cup {NoSlot},
                   value : Values \cup {NoValue}]
  BY DEF ToldLedgers
<1>2. [f[q] EXCEPT !.fate = fate] = [fate |-> fate, slot |-> f[q].slot, value |-> f[q].value]
  BY <1>1
<1> QED BY <1>1, <1>2 DEF WithFate

\* Dropping the entry of a slot ends its revision, or changes nothing.
LEMMA DeleteKeepsPromise ==
  ASSUME Inv, NEW s \in Slots, NEW fate \in {"taken", "removed", "expired"},
         Delete(s, fate)
  PROVE  Promise!Next \/ Told' = Told
<1>1. ledger' = Close(s, fate)
  BY DEF Delete
<1>2. CASE entries[s] = Absent
  BY <1>1, <1>2 DEF Close, Told
<1>3. CASE entries[s] # Absent
  <2> DEFINE q == entries[s].revision
  <2>1. q \in Revisions /\ ledger[q].fate = "live"
    BY <1>3, EntryTypes, EntryLedger DEF Inv
  <2>2. Told' = [Told EXCEPT ![q].fate = fate]
    <3>1. Told' = WithFate(Told, q, fate)
      BY <1>1, <1>3, <2>1, CloseEffect DEF Told, WithFate
    <3> HIDE DEF q
    <3>2. [Told EXCEPT ![q].fate = fate] = WithFate(Told, q, fate)
      BY <2>1, ToldTypes, FateUpdate, Zenon
    <3> QED BY <3>1, <3>2, Zenon
  <2>3. Promise!End(q, fate)
    BY <2>1, <2>2 DEF Promise!End, Promise!Revisions, Revisions, Told
  <2> QED BY <2>1, <2>3 DEF Promise!Next, Promise!Revisions, Revisions
<1> QED BY <1>2, <1>3

\* A first value is an Issue, a renewal a Renew.
LEMMA GrantKeepsPromise ==
  ASSUME Inv, NEW c \in Callers, call[c] # Idle, next_revision < MaxRevision,
         NEW fate \in {"expired", "renewed"}, NEW tag, NEW v \in Values,
         fate = "renewed" => /\ entries[call[c].slot] # Absent
                             /\ v = entries[call[c].slot].value,
         Grant(c, tag, v, fate)
  PROVE  Promise!Next
<1> DEFINE s == call[c].slot
<1> DEFINE r == next_revision + 1
<1> DEFINE h == [fate |-> "live", slot |-> s, value |-> v]
<1>1. s \in Slots
  BY CallTypes DEF Inv
<1>2. r \in Revisions /\ Promise!IsNext(r)
  BY CounterIsNext
<1>3. ledger' = [Close(s, fate) EXCEPT
                   ![r] = [fate |-> "live", slot |-> s, value |-> v, granted |-> call[c].now]]
  BY DEF Grant, successor
<1>4. ASSUME NEW q \in Revisions
      PROVE  Told'[q] = IF q = r THEN h
                        ELSE IF entries[s] # Absent /\ q = entries[s].revision
                        THEN [fate |-> fate, slot |-> Told[q].slot, value |-> Told[q].value]
                        ELSE Told[q]
  <2>1. CASE q = r
    BY <1>1, <1>2, <1>3, <2>1, CloseEffect DEF Told
  <2>2. CASE q # r
    <3>1. ledger'[q] = Close(s, fate)[q]
      BY <1>1, <1>3, <2>2, CloseEffect
    <3> QED BY <1>1, <2>2, <3>1, CloseEffect DEF Told
  <2> QED BY <2>1, <2>2
<1>5. CASE fate = "expired"
  <2>1. Told' = [q \in Revisions |->
                   IF q = r THEN h
                   ELSE IF q \in Promise!LiveAt(s) THEN [Told[q] EXCEPT !.fate = "expired"]
                   ELSE Told[q]]
    BY <1>1, <1>4, <1>5, LiveAtSlot DEF Told
  <2>2. Promise!Issue(r, s, v)
    BY <1>2, <2>1 DEF Promise!Issue, Promise!Revisions, Revisions, Told
  <2> QED BY <1>1, <1>2, <2>2 DEF Promise!Next, Promise!Revisions, Revisions
<1>6. CASE fate = "renewed"
  <2> DEFINE q == entries[s].revision
  <2>1. /\ q \in Revisions /\ ledger[q].fate = "live" /\ ledger[q].slot = s
        /\ ledger[q].value = v /\ q <= next_revision
    BY <1>1, <1>6, EntryTypes, EntryLedger DEF Inv
  <2>2. q # r /\ Told[q] = h
    BY <2>1, Numbers DEF Told
  <2>3. Told' = [Told EXCEPT ![r] = Told[q], ![q].fate = "renewed"]
    <3> DEFINE f == [Told EXCEPT ![r] = Told[q]]
    <3>1. f \in ToldLedgers
      BY <1>2, <2>1, ToldTypes DEF ToldLedgers
    <3>2. \A p \in Revisions : f[p] = IF p = r THEN Told[q] ELSE Told[p]
      BY ToldTypes DEF ToldLedgers
    <3>3. Told[q].slot = s /\ Told[q].value = v /\ f[q] = Told[q]
      BY <2>1, <2>2, <3>2
    <3>4. \A p \in Revisions : Told'[p] = WithFate(f, q, "renewed")[p]
      <4> HIDE DEF f
      <4> QED BY <1>4, <1>6, <2>1, <2>2, <3>2, <3>3 DEF WithFate
    <3>5. Told' = WithFate(f, q, "renewed")
      BY <3>4 DEF Told, WithFate
    <3> HIDE DEF f, q
    <3>6. [f EXCEPT ![q].fate = "renewed"] = WithFate(f, q, "renewed")
      BY <2>1, <3>1, FateUpdate, Zenon
    <3>7. Told' = [f EXCEPT ![q].fate = "renewed"]
      BY <3>5, <3>6, Zenon
    <3> QED BY <3>7, Zenon DEF f
  <2>4. Promise!Renew(r, q)
    BY <1>2, <2>1, <2>3 DEF Promise!Renew, Promise!Revisions, Revisions, Told
  <2>5. r \in Promise!Revisions /\ q \in Promise!Revisions
    BY <1>2, <2>1 DEF Promise!Revisions, Revisions
  <2>6. \E old \in Promise!Revisions : Promise!Renew(r, old)
    BY <2>4, <2>5, Zenon DEF Promise!Renew
  <2> QED BY <2>5, <2>6, Zenon DEF Promise!Next, Promise!Renew
<1> QED BY <1>5, <1>6

\* What a step of the store does to the ledger, the promise allows.
LEMMA StepKeepsPromise == Inv /\ [Next]_vars => [Promise!Next]_Told
<1> SUFFICES ASSUME Inv, [Next]_vars PROVE Promise!Next \/ Told' = Told
  OBVIOUS
<1>1. CASE ledger' = ledger
  BY <1>1 DEF Told
<1>2. ASSUME NEW c \in Callers, Return(c) PROVE Promise!Next \/ Told' = Told
  <2>1. call[c] # Idle /\ call[c].slot \in Slots
    BY <1>2, ReturnCases, CallTypes DEF Inv
  <2>2. CASE \E fate \in {"taken", "removed", "expired"} : Delete(call[c].slot, fate)
    <3>1. PICK s \in Slots : s = call[c].slot
      BY <2>1
    <3>2. PICK fate \in {"taken", "removed", "expired"} : Delete(s, fate)
      BY <2>2, <3>1 DEF Delete, Close
    <3> QED BY <3>2, DeleteKeepsPromise
  <2>3. CASE next_revision < MaxRevision
             /\ \E v \in Values : Grant(c, "Inserted", v, "expired")
    BY <2>1, <2>3, GrantKeepsPromise
  <2>4. CASE /\ next_revision < MaxRevision /\ Matches(c)
             /\ Grant(c, "Extended", entries[call[c].slot].value, "renewed")
    <3>1. entries[call[c].slot] # Absent /\ entries[call[c].slot].value \in Values
      BY <2>1, <2>4, EntryTypes DEF Inv, Matches, Live
    <3>2. PICK v \in Values : v = entries[call[c].slot].value
      BY <3>1
    <3>3. Grant(c, "Extended", v, "renewed")
      BY <2>4, <3>2 DEF Grant, successor
    <3> QED BY <2>1, <2>4, <3>1, <3>2, <3>3, GrantKeepsPromise
  <2>5. CASE UNCHANGED storeVars
    BY <2>5 DEF storeVars, Told
  <2> QED BY <1>2, <2>2, <2>3, <2>4, <2>5, ReturnCases
<1>3. ledger' = ledger \/ \E c \in Callers : Return(c)
  BY DEF vars, Next, advance, Invoke, RefuseTtl, BeginPut, BeginExtend, BeginTake,
         BeginPlain, Begin
<1> QED BY <1>1, <1>2, <1>3

\* InMemoryTtlStore, with its clock, its lock and calls that overlap, keeps the
\* promise of the TtlStore trait: every revision is handed out once, in order,
\* is the live one of its slot until one thing ends it, and stays ended.
THEOREM StoreKeepsPromise == Spec => KeepsPromise
<1>1. Init => Promise!Init
  BY DEF Init, Promise!Init, Promise!Unissued, Promise!Revisions, Unissued, Revisions
<1> QED BY <1>1, StepKeepsPromise, Invariance, PTL
        DEF Spec, KeepsPromise, Promise!Spec, Told

\* No two live revisions share a slot, for the map has one entry for each.
THEOREM OneLive == Spec => []Promise!OneLivePerSlot
<1>1. Inv => Promise!OneLivePerSlot
  <2> SUFFICES ASSUME Inv, NEW q \in Revisions, NEW r \in Revisions,
                      ledger[q].fate = "live", ledger[r].fate = "live",
                      ledger[q].slot = ledger[r].slot
               PROVE  q = r
    BY DEF Promise!OneLivePerSlot, Promise!Revisions, Revisions
  <2> QED BY DEF Inv, EntriesMatchLedger
<1> QED BY <1>1, Invariance, PTL

\* A step the promise allows leaves a revision alone that was ended.
LEMMA PromiseEnds ==
  ASSUME Inv, Promise!Next, NEW q \in Revisions, Promise!Closed(Told[q].fate)
  PROVE  Told'[q] = Told[q]
<1>1. ASSUME NEW r \in Revisions, NEW fate \in {"taken", "removed", "expired"},
             Promise!End(r, fate)
      PROVE  Told'[q] = Told[q]
  <2>1. Told[r].fate = "live" /\ Told' = [Told EXCEPT ![r].fate = fate]
    BY <1>1 DEF Promise!End, Told
  <2> QED BY <2>1, ToldTypes DEF Promise!Closed, ToldLedgers
<1>2. ASSUME NEW r \in Revisions, NEW s \in Slots, NEW v \in Values, Promise!Issue(r, s, v)
      PROVE  Told'[q] = Told[q]
  <2>1. Told[r].fate = "unissued"
    BY <1>2, BoundsAssumption DEF Promise!Issue, Promise!IsNext, Promise!Revisions, Revisions, Told
  <2>2. q # r /\ q \notin Promise!LiveAt(s)
    BY <2>1 DEF Promise!Closed, Promise!LiveAt, Told
  <2> QED BY <1>2, <2>2 DEF Promise!Issue, Promise!Revisions, Revisions, Told
<1>3. ASSUME NEW r \in Revisions, NEW old \in Revisions, Promise!Renew(r, old)
      PROVE  Told'[q] = Told[q]
  <2>1. Told[r].fate = "unissued"
    <3>1. Promise!IsNext(r)
      BY <1>3, Zenon DEF Promise!Renew
    <3> QED BY <3>1, BoundsAssumption DEF Promise!IsNext, Promise!Revisions, Revisions, Told
  <2>2. Told[old].fate = "live" /\ Told' = [Told EXCEPT ![r] = Told[old], ![old].fate = "renewed"]
    BY <1>3 DEF Promise!Renew, Told
  <2>3. q # r /\ q # old
    BY <2>1, <2>2 DEF Promise!Closed
  <2> QED BY <2>2, <2>3, ToldTypes DEF ToldLedgers
<1> QED BY <1>1, <1>2, <1>3 DEF Promise!Next, Promise!Revisions, Revisions

\* No call, purge or delay changes a revision that was taken, removed, renewed or
\* has expired: a stale holder never finds it again.
THEOREM EndsAreFinal == Spec => ClosedIsFinal
<1>1. Inv /\ [Next]_vars => [\A r \in Revisions : Promise!Closed(Told[r].fate) => Told'[r] = Told[r]]_Told
  BY StepKeepsPromise, PromiseEnds
<1> QED BY <1>1, Invariance, PTL
        DEF Spec, ClosedIsFinal, Promise!ClosedIsFinal, Told, Promise!Revisions, Revisions

-----------------------------------------------------------------------------
(* The service *)

\* Where a caller can stand, and what its last call can have returned.
PutTask == [at : {"put"}, binding : Bindings, digest : Keys,
            left : 1..MAX_TICKET_GENERATION_ATTEMPTS]
DrawTask == [at : {"draw"}, binding : Bindings, left : 1..MAX_TICKET_GENERATION_ATTEMPTS]
HoldTask == [at : {"inserted", "reread"}, binding : Bindings, digest : Keys,
             revision : Revisions]
LookTask == [at : {"look"}, binding : Bindings]
MatchTask == [at : {"matched", "take"}, binding : Bindings, entry : Seen]
RevokeTask == [at : {"revoke"}]
Task == PutTask \cup DrawTask \cup HoldTask \cup LookTask \cup MatchTask \cup RevokeTask

IssuedTicket == [tag : {"Issued"}, binding : Bindings, slot : Slots, revision : Revisions,
                 issued_at : Int, expires_at : Times]
PlainOutcome == [tag : {"EncodingFailure", "EntropyUnavailable", "TicketCollision",
                        "StateUnavailable", "TicketRejected", "Revoked", "NotRevoked"}]
Outcome == IssuedTicket \cup ConsumedTicket \cup PlainOutcome

TicketTypes ==
    /\ task \in [Callers -> Task \cup {NoTask}]
    /\ outcome \in [Callers -> Outcome \cup {NoTask}]
    /\ consumed \in [Revisions -> 0..1]

SlotOf(k) == <<k.binding.tenant_scope, k.digest>>

\* What a caller at k, with the store call cl under way, may rely on.
Standing(k, cl, history) ==
    k # NoTask =>
      /\ k.at = "put" => cl # Idle /\ cl.slot = SlotOf(k) /\ cl.value = StoredTicket(k.binding)
      /\ k.at \in {"inserted", "reread"} =>
           /\ history[k.revision].fate # "unissued"
           /\ history[k.revision].slot = SlotOf(k)
           /\ history[k.revision].value = StoredTicket(k.binding)
      /\ k.at = "reread" => cl # Idle /\ cl.slot = SlotOf(k)
      /\ k.at \in {"matched", "take"} =>
           TrueOf(k.entry, history) /\ matches(k.entry.value, k.binding)
      /\ k.at = "take" => cl # Idle /\ cl.slot = k.entry.slot /\ cl.expected = k.entry.revision

Validity == AsMillis(TicketTtl)

\* An issued ticket states the slot, binding and grant of its revision.
Backed(o, history) ==
    (o # NoTask /\ o.tag = "Issued") =>
      LET h == history[o.revision] IN
      /\ h.fate # "unissued"
      /\ h.slot = o.slot /\ h.value = StoredTicket(o.binding)
      /\ h.granted = o.issued_at /\ o.expires_at = o.issued_at + Validity

\* Every entry lives for the policy's time from its grant.
PolicyKept ==
    /\ \A c \in Callers : (call[c] # Idle /\ call[c].op = "put")
          => call[c].expires_at = call[c].now + Validity
    /\ \A s \in Slots : entries[s] # Absent
          => entries[s].expires_at = ledger[entries[s].revision].granted + Validity

\* Consumptions are counted where revisions are taken.
TakesCounted == \A r \in Revisions : consumed[r] = 1 <=> ledger[r].fate = "taken"

TicketInv ==
    /\ Inv /\ TicketTypes
    /\ \A c \in Callers : Standing(task[c], call[c], ledger) /\ Backed(outcome[c], ledger)
    /\ PolicyKept /\ TakesCounted

-----------------------------------------------------------------------------
(* Steps of the service are steps of the store *)

\* The constants of the service fit those of the store.
LEMMA TicketConstants ==
  /\ \A b \in Bindings, digest \in Keys : <<b.tenant_scope, digest>> \in Slots
  /\ \A b \in Bindings : StoredTicket(b) \in Values
  /\ TicketTtl \in Ttls /\ Validity \in Nat
<1>1. \A b \in Bindings, digest \in Keys : <<b.tenant_scope, digest>> \in Slots
  BY ValuesAssumption DEF Slots
<1>2. \A b \in Bindings : StoredTicket(b) \in Values
  BY ValuesAssumption
<1>3. TicketTtl \in Ttls /\ Validity \in Nat
  BY PolicyAssumption, BoundsAssumption, MillisNat DEF Validity
<1> QED BY <1>1, <1>2, <1>3

\* What a caller inside a service call holds.
LEMMA TaskTypes ==
  ASSUME TicketTypes, NEW c \in Callers, task[c] # NoTask
  PROVE  /\ task[c] \in Task
         /\ task[c].at \in {"put", "draw", "inserted", "reread", "look", "matched", "take",
                            "revoke"}
         /\ task[c].at # "revoke" => task[c].binding \in Bindings
         /\ task[c].at \in {"put", "inserted", "reread"} =>
              task[c].digest \in Keys /\ SlotOf(task[c]) \in Slots
         /\ task[c].at \in {"put", "draw"} => task[c].left \in 1..4
         /\ task[c].at \in {"inserted", "reread"} => task[c].revision \in Revisions
         /\ task[c].at \in {"matched", "take"} =>
              /\ task[c].entry \in Seen
              /\ task[c].entry.slot \in Slots /\ task[c].entry.revision \in Revisions
              /\ task[c].entry.value \in Values /\ task[c].entry.expires_at \in Times
<1> DEFINE k == task[c]
<1>1. k \in Task
  BY DEF TicketTypes
<1>2. /\ k.at \in {"put", "draw", "inserted", "reread", "look", "matched", "take", "revoke"}
      /\ k.at # "revoke" => k.binding \in Bindings
      /\ k.at \in {"put", "inserted", "reread"} => k.digest \in Keys
      /\ k.at \in {"put", "draw"} => k.left \in 1..4
      /\ k.at \in {"inserted", "reread"} => k.revision \in Revisions
      /\ k.at \in {"matched", "take"} => k.entry \in Seen
  BY <1>1 DEF Task, PutTask, DrawTask, HoldTask, LookTask, MatchTask, RevokeTask,
              MAX_TICKET_GENERATION_ATTEMPTS
<1>3. k.at \in {"put", "inserted", "reread"} => SlotOf(k) \in Slots
  BY <1>2, TicketConstants DEF SlotOf
<1>4. k.at \in {"matched", "take"} =>
        /\ k.entry.slot \in Slots /\ k.entry.revision \in Revisions
        /\ k.entry.value \in Values /\ k.entry.expires_at \in Times
  BY <1>2 DEF Seen
<1> QED BY <1>1, <1>2, <1>3, <1>4

\* A step of the service is a step of the store, so the service inherits every
\* promise of the store.
LEMMA StepOfStore == TicketInv /\ [TicketNext]_allVars => [Next]_vars
<1> SUFFICES ASSUME TicketInv, TicketNext PROVE [Next]_vars
  BY DEF allVars, vars
<1>1. ASSUME NEW c \in Callers, Invoke(c) \/ Return(c) PROVE Next
  BY <1>1 DEF Next
<1>2. ASSUME NEW c \in Callers, NEW b \in Bindings, NEW left, Draw(c, b, left)
      PROVE  Invoke(c) \/ UNCHANGED vars
  <2>1. ASSUME NEW digest \in Keys,
               BeginPut(c, <<b.tenant_scope, digest>>, StoredTicket(b), TicketTtl)
        PROVE  Invoke(c)
    BY <2>1, TicketConstants DEF Invoke
  <2>2. RefuseTtl(c, TicketTtl) => Invoke(c)
    BY TicketConstants DEF Invoke
  <2> QED BY <1>2, <2>1, <2>2 DEF Draw
<1>3. ASSUME NEW c \in Callers, NEW s \in Slots, NEW op \in {"get", "remove"}, BeginPlain(c, s, op)
      PROVE  Invoke(c)
  BY <1>3 DEF Invoke
<1>4. ASSUME NEW d \in Advances, advance(d) PROVE Next
  BY <1>4 DEF Next
<1>5. ASSUME NEW c \in Callers, NEW b \in Bindings, issue(c, b) PROVE [Next]_vars
  BY <1>1, <1>2, <1>5 DEF issue
<1>6. ASSUME NEW c \in Callers, NEW b \in Bindings, NEW digest \in Keys, consume(c, b, digest)
      PROVE  Next
  BY <1>1, <1>3, <1>6, TicketConstants DEF consume
<1>7. ASSUME NEW c \in Callers, NEW s \in Slots, revoke(c, s) PROVE Next
  BY <1>1, <1>3, <1>7 DEF revoke
<1>8. ASSUME NEW c \in Callers, Work(c) PROVE [Next]_vars
  <2>1. CASE IssuePut(c) \/ IssueConfirm(c) \/ ConsumeLook(c) \/ ConsumeTake(c) \/ RevokeRemove(c)
    BY <1>1, <2>1 DEF IssuePut, IssueConfirm, ConsumeLook, ConsumeTake, RevokeRemove, Return
  <2>2. CASE IssueAgain(c)
    <3>1. task[c].binding \in Bindings
      BY <2>2, TaskTypes DEF IssueAgain, At, TicketInv
    <3> QED BY <1>1, <1>2, <2>2, <3>1 DEF IssueAgain
  <2>3. CASE IssueReread(c)
    <3>1. SlotOf(task[c]) \in Slots
      BY <2>3, TaskTypes DEF IssueReread, At, TicketInv
    <3> QED BY <1>1, <1>3, <2>3, <3>1 DEF IssueReread, SlotOf
  <2>4. CASE ConsumeTry(c)
    <3>1. task[c].entry.slot \in Slots /\ task[c].entry.revision \in Revisions
      BY <2>4, TaskTypes DEF ConsumeTry, At, TicketInv
    <3> QED BY <1>1, <2>4, <3>1 DEF ConsumeTry, Invoke
  <2> QED BY <1>8, <2>1, <2>2, <2>3, <2>4 DEF Work
<1> QED BY <1>4, <1>5, <1>6, <1>7, <1>8 DEF TicketNext

-----------------------------------------------------------------------------
(* What a caller relies on stays true while others run *)

\* A revision's record only ever ends, so what a caller knows of one still holds.
LEMMA KnowledgeStays ==
  ASSUME Inv, [Next]_vars
  PROVE  /\ \A k \in Task \cup {NoTask} : \A cl :
              Standing(k, cl, ledger) => Standing(k, cl, ledger')
         /\ \A o \in Outcome \cup {NoTask} : Backed(o, ledger) => Backed(o, ledger')
<1>1. ASSUME NEW k \in Task, k # NoTask, NEW cl, Standing(k, cl, ledger)
      PROVE  Standing(k, cl, ledger')
  <2>1. k.at \in {"inserted", "reread"} => k.revision \in Revisions
    BY DEF Task, PutTask, DrawTask, HoldTask, LookTask, MatchTask, RevokeTask
  <2>2. k.at \in {"matched", "take"} => k.entry.revision \in Revisions
    BY DEF Task, PutTask, DrawTask, HoldTask, LookTask, MatchTask, RevokeTask, Seen
  <2>3. k.at \in {"inserted", "reread"} =>
          /\ ledger'[k.revision].fate # "unissued"
          /\ ledger'[k.revision].slot = SlotOf(k)
          /\ ledger'[k.revision].value = StoredTicket(k.binding)
    BY <1>1, <2>1, RevisionsAreKept DEF Standing
  <2>4. k.at \in {"matched", "take"} => TrueOf(k.entry, ledger')
    BY <1>1, <2>2, RevisionsAreKept DEF Standing, TrueOf
  <2> QED BY <1>1, <2>3, <2>4 DEF Standing
<1>2. ASSUME NEW o \in Outcome, o # NoTask, o.tag = "Issued", Backed(o, ledger)
      PROVE  Backed(o, ledger')
  <2>1. o.revision \in Revisions
    BY <1>2 DEF Outcome, IssuedTicket, ConsumedTicket, PlainOutcome
  <2> QED BY <1>2, <2>1, RevisionsAreKept DEF Backed
<1>3. \A cl : Standing(NoTask, cl, ledger')
  BY DEF Standing
<1>4. \A o \in Outcome \cup {NoTask} :
        o = NoTask \/ o.tag # "Issued" => Backed(o, ledger')
  BY DEF Backed
<1> QED BY <1>1, <1>2, <1>3, <1>4

\* One caller moves on, the others stay where they are.
LEMMA OneCallerMoves ==
  ASSUME TicketInv, [Next]_vars, NEW c \in Callers,
         NEW k \in Task \cup {NoTask}, NEW o \in Outcome \cup {NoTask},
         task' = [task EXCEPT ![c] = k], outcome' = [outcome EXCEPT ![c] = o],
         \A d \in Callers : d # c => call'[d] = call[d],
         Standing(k, call'[c], ledger'), Backed(o, ledger'),
         consumed' \in [Revisions -> 0..1], PolicyKept', TakesCounted'
  PROVE  TicketInv'
<1>1. Inv /\ TicketTypes /\ Inv'
  BY NextInv DEF TicketInv
<1>2. TicketTypes'
  BY <1>1 DEF TicketTypes
<1>3. ASSUME NEW d \in Callers
      PROVE  Standing(task'[d], call'[d], ledger') /\ Backed(outcome'[d], ledger')
  <2>1. CASE d = c
    <3>1. task'[c] = k /\ outcome'[c] = o
      BY <1>1 DEF TicketTypes
    <3> QED BY <2>1, <3>1
  <2>2. CASE d # c
    <3>1. task'[d] = task[d] /\ outcome'[d] = outcome[d] /\ call'[d] = call[d]
      BY <1>1, <2>2 DEF TicketTypes
    <3>2. task[d] \in Task \cup {NoTask} /\ outcome[d] \in Outcome \cup {NoTask}
      BY <1>1 DEF TicketTypes
    <3>3. Standing(task[d], call[d], ledger) /\ Backed(outcome[d], ledger)
      BY DEF TicketInv
    <3>4. Standing(task[d], call[d], ledger') /\ Backed(outcome[d], ledger')
      BY <1>1, <3>2, <3>3, KnowledgeStays
    <3> QED BY <3>1, <3>4
  <2> QED BY <2>1, <2>2
<1> QED BY <1>1, <1>2, <1>3 DEF TicketInv

-----------------------------------------------------------------------------
(* What the operations the service uses do to the store *)

\* put_if_absent, get and remove take nothing.
LEMMA OnlyTakeTakes ==
  ASSUME Inv, NEW c \in Callers, put_if_absent(c) \/ get(c) \/ remove(c)
  PROVE  \A r \in Revisions : ledger'[r].fate = "taken" <=> ledger[r].fate = "taken"
<1> DEFINE s == call[c].slot
<1>1. Return(c) /\ call[c] # Idle /\ s \in Slots
  BY ReturnCases, CallTypes DEF Return, Inv
<1>2. ASSUME NEW fate \in {"removed", "expired"}, NEW r \in Revisions
      PROVE  Close(s, fate)[r].fate = "taken" <=> ledger[r].fate = "taken"
  BY <1>1, CloseEffect, EntryLedger
<1>3. ASSUME NEW fate \in {"removed", "expired"}, Delete(s, fate)
      PROVE  \A r \in Revisions : ledger'[r].fate = "taken" <=> ledger[r].fate = "taken"
  BY <1>2, <1>3 DEF Delete
<1>4. ASSUME next_revision < MaxRevision, Grant(c, "Inserted", call[c].value, "expired"),
             NEW r \in Revisions
      PROVE  ledger'[r].fate = "taken" <=> ledger[r].fate = "taken"
  <2>1. Close(s, "expired") \in [Revisions -> History]
    BY <1>1, CloseEffect
  <2>2. CASE r = next_revision + 1
    <3>1. ledger[r].fate = "unissued"
      BY <2>2, Numbers DEF Inv, EntriesMatchLedger
    <3>2. ledger'[r].fate = "live"
      BY <1>4, <2>1, <2>2 DEF Grant, successor
    <3> QED BY <3>1, <3>2
  <2>3. CASE r # next_revision + 1
    <3>1. ledger'[r] = Close(s, "expired")[r]
      BY <1>4, <2>1, <2>3 DEF Grant, successor
    <3> QED BY <1>2, <3>1
  <2> QED BY <2>2, <2>3
<1> QED BY <1>3, <1>4 DEF put_if_absent, get, remove, purge_if_expired, storeVars

\* put_if_absent, get, remove and compare_and_take leave every entry that stays
\* with the time the policy gives it.
LEMMA PolicyStays ==
  ASSUME Inv, PolicyKept, NEW c \in Callers,
         put_if_absent(c) \/ get(c) \/ remove(c) \/ compare_and_take(c)
  PROVE  PolicyKept'
<1> DEFINE s == call[c].slot
<1>1. /\ Return(c) /\ call[c] # Idle /\ s \in Slots
      /\ call[c].op = "put" => call[c].expires_at \in Times
  BY ReturnCases, CallTypes DEF Return, Inv
<1>2. call' = [call EXCEPT ![c] = Idle]
  BY DEF put_if_absent, get, remove, compare_and_take, Decline, Grant, Answer
<1>3. \A d \in Callers : (call'[d] # Idle /\ call'[d].op = "put")
        => call'[d].expires_at = call'[d].now + Validity
  BY <1>2 DEF PolicyKept, Inv, TypeOK
<1>4. ASSUME NEW t \in Slots, entries'[t] # Absent, entries'[t] = entries[t]
      PROVE  entries'[t].expires_at = ledger'[entries'[t].revision].granted + Validity
  <2>1. entries[t].revision \in Revisions /\ ledger[entries[t].revision].fate = "live"
    BY <1>4, EntryTypes, EntryLedger DEF Inv
  <2>2. [Next]_vars
    BY <1>1 DEF Next
  <2>3. ledger'[entries[t].revision].granted = ledger[entries[t].revision].granted
    BY <2>1, <2>2, RevisionsAreKept
  <2> QED BY <1>4, <2>3 DEF PolicyKept
<1>5. CASE \A t \in Slots : entries'[t] \in {entries[t], Absent}
  BY <1>3, <1>4, <1>5 DEF PolicyKept
<1>6. ASSUME next_revision < MaxRevision, call[c].op = "put",
             Grant(c, "Inserted", call[c].value, "expired")
      PROVE  PolicyKept'
  <2> DEFINE r == next_revision + 1
  <2>0. r \in Revisions
    BY <1>6, Numbers, BoundsAssumption DEF Revisions
  <2>1. Close(s, "expired") \in [Revisions -> History]
    BY <1>1, CloseEffect
  <2>2. ledger'[r].granted = call[c].now
    BY <1>6, <2>0, <2>1 DEF Grant, successor
  <2>3. entries'[s].expires_at = call[c].expires_at /\ entries'[s].revision = r
    BY <1>1, <1>6 DEF Grant, successor, Inv, TypeOK
  <2>4. call[c].expires_at = call[c].now + Validity
    BY <1>1, <1>6 DEF PolicyKept
  <2>5. \A t \in Slots : t # s => entries'[t] = entries[t]
    BY <1>1, <1>6 DEF Grant, Inv, TypeOK
  <2> QED BY <1>3, <1>4, <2>2, <2>3, <2>4, <2>5 DEF PolicyKept
<1>7. Delete(s, "taken") \/ Delete(s, "removed") \/ Delete(s, "expired") \/ UNCHANGED storeVars
        => \A t \in Slots : entries'[t] \in {entries[t], Absent}
  BY <1>1 DEF Delete, storeVars, Inv, TypeOK
<1> QED BY <1>5, <1>6, <1>7 DEF put_if_absent, get, remove, compare_and_take, Decline,
                              purge_if_expired

-----------------------------------------------------------------------------
(* The actions *)

\* The request goes in, and the caller notes what it asked for.
LEMMA BeginKeeps ==
  ASSUME TicketInv, [Next]_vars, NEW c \in Callers, NEW k \in Task, NEW request \in Call,
         request.op = "put" => request.expires_at = request.now + Validity,
         Begin(c, request), Continue(c, k), Standing(k, request, ledger)
  PROVE  TicketInv'
<1>1. Inv /\ TicketTypes /\ PolicyKept /\ TakesCounted
  BY DEF TicketInv
<1>2. /\ ledger' = ledger /\ entries' = entries /\ consumed' = consumed
      /\ call' = [call EXCEPT ![c] = request]
      /\ task' = [task EXCEPT ![c] = k] /\ outcome' = [outcome EXCEPT ![c] = NoTask]
  BY DEF Begin, Continue
<1>3. \A d \in Callers : call'[d] = IF d = c THEN request ELSE call[d]
  BY <1>1, <1>2 DEF Inv, TypeOK
<1>4. PolicyKept' /\ TakesCounted'
  BY <1>1, <1>2, <1>3 DEF PolicyKept, TakesCounted
<1>5. Backed(NoTask, ledger') /\ consumed' \in [Revisions -> 0..1]
  BY <1>1, <1>2 DEF Backed, TicketTypes
<1> QED BY <1>2, <1>3, <1>4, <1>5, OneCallerMoves

\* A call that ends without having changed the store.
LEMMA FailKeeps ==
  ASSUME TicketInv, [Next]_vars, NEW c \in Callers, NEW error,
         [tag |-> error] \in PlainOutcome, Fail(c, error),
         UNCHANGED <<entries, call, ledger>>
  PROVE  TicketInv'
<1>1. Inv /\ TicketTypes /\ PolicyKept /\ TakesCounted
  BY DEF TicketInv
<1>2. /\ ledger' = ledger /\ entries' = entries /\ consumed' = consumed /\ call' = call
      /\ task' = [task EXCEPT ![c] = NoTask]
      /\ outcome' = [outcome EXCEPT ![c] = [tag |-> error]]
  BY DEF Fail, Finish
<1>3. PolicyKept' /\ TakesCounted' /\ consumed' \in [Revisions -> 0..1]
  BY <1>1, <1>2 DEF PolicyKept, TakesCounted, TicketTypes
<1>4. /\ Backed([tag |-> error], ledger') /\ [tag |-> error] \in Outcome
      /\ Standing(NoTask, call'[c], ledger')
  BY DEF Backed, Standing, Outcome, PlainOutcome
<1> QED BY <1>2, <1>3, <1>4, OneCallerMoves

\* An operation that takes nothing has answered.
LEMMA ReturnKeeps ==
  ASSUME TicketInv, NEW c \in Callers, put_if_absent(c) \/ get(c) \/ remove(c),
         NEW k \in Task \cup {NoTask}, NEW o \in Outcome \cup {NoTask},
         task' = [task EXCEPT ![c] = k], outcome' = [outcome EXCEPT ![c] = o],
         UNCHANGED consumed, Standing(k, Idle, ledger'), Backed(o, ledger')
  PROVE  TicketInv'
<1>1. Inv /\ TicketTypes /\ PolicyKept /\ TakesCounted
  BY DEF TicketInv
<1>2. [Next]_vars
  BY DEF Next, Return
<1>3. call' = [call EXCEPT ![c] = Idle]
  BY DEF put_if_absent, get, remove, Grant, Answer
<1>4. \A d \in Callers : call'[d] = IF d = c THEN Idle ELSE call[d]
  BY <1>1, <1>3 DEF Inv, TypeOK
<1>5. PolicyKept'
  BY <1>1, PolicyStays
<1>6. TakesCounted' /\ consumed' \in [Revisions -> 0..1]
  BY <1>1, OnlyTakeTakes DEF TakesCounted, TicketTypes
<1> QED BY <1>2, <1>4, <1>5, <1>6, OneCallerMoves

\* What a failed call returns is an outcome, and claims nothing.
LEMMA PlainOutcomes ==
  ASSUME NEW error \in {"EncodingFailure", "EntropyUnavailable", "TicketCollision",
                        "StateUnavailable", "TicketRejected", "Revoked", "NotRevoked"}
  PROVE  [tag |-> error] \in Outcome /\ \A history : Backed([tag |-> error], history)
BY DEF Outcome, PlainOutcome, Backed

\* Draw: a digest goes into the store, or no attempt is made.
LEMMA DrawKeeps ==
  ASSUME TicketInv, [Next]_vars, NEW c \in Callers, NEW b \in Bindings,
         NEW left \in 1..MAX_TICKET_GENERATION_ATTEMPTS, Draw(c, b, left)
  PROVE  TicketInv'
<1>1. Inv
  BY DEF TicketInv
<1>2. ASSUME NEW digest \in Keys,
             BeginPut(c, <<b.tenant_scope, digest>>, StoredTicket(b), TicketTtl),
             Continue(c, [at |-> "put", binding |-> b, digest |-> digest, left |-> left])
      PROVE  TicketInv'
  <2> DEFINE request == [op |-> "put", slot |-> <<b.tenant_scope, digest>>,
                         value |-> StoredTicket(b), now |-> clock,
                         expires_at |-> clock + AsMillis(TicketTtl)]
             k == [at |-> "put", binding |-> b, digest |-> digest, left |-> left]
  <2>1. /\ request.slot \in Slots /\ request.value \in Values /\ clock \in Times
        /\ clock + AsMillis(TicketTtl) \in Times
    BY <1>1, <1>2, TicketConstants, Numbers, MillisNat, BoundsAssumption
       DEF BeginPut, Grantable, CanAdd, Times
  <2>2. request \in Call
    BY <2>1 DEF Call, GrantCall
  <2>3. request # Idle
    BY <2>2, ModelValueAssumption
  <2>4. k \in Task
    BY DEF Task, PutTask
  <2>5. Standing(k, request, ledger)
    BY <2>3 DEF Standing, SlotOf
  <2>6. request.expires_at = request.now + Validity
    BY DEF Validity
  <2>7. Begin(c, request) /\ Continue(c, k)
    BY <1>2 DEF BeginPut
  <2> HIDE DEF request, k
  <2> QED BY <2>2, <2>4, <2>5, <2>6, <2>7, BeginKeeps
<1>3. CASE RefuseTtl(c, TicketTtl) /\ Fail(c, "EncodingFailure")
  BY <1>3, FailKeeps DEF RefuseTtl, PlainOutcome
<1>4. CASE Fail(c, "EntropyUnavailable") /\ UNCHANGED vars
  BY <1>4, FailKeeps DEF vars, PlainOutcome
<1> QED BY <1>2, <1>3, <1>4 DEF Draw

\* A first value is granted for the slot and with the value asked for.
LEMMA PutAnswers ==
  ASSUME Inv, NEW c \in Callers, put_if_absent(c), reply'[c].tag = "Inserted"
  PROVE  /\ reply'[c].revision \in Revisions
         /\ ledger'[reply'[c].revision].fate = "live"
         /\ ledger'[reply'[c].revision].slot = call[c].slot
         /\ ledger'[reply'[c].revision].value = call[c].value
<1> DEFINE s == call[c].slot
           r == next_revision + 1
<1>1. /\ call[c] # Idle /\ s \in Slots /\ reply \in [Callers -> Seen \cup Plain \cup {Idle}]
  BY CallTypes DEF put_if_absent, Inv, TypeOK
<1>2. CASE next_revision < MaxRevision /\ Grant(c, "Inserted", call[c].value, "expired")
  <2>1. r \in Revisions
    BY <1>2, Numbers, BoundsAssumption DEF Revisions
  <2>2. Close(s, "expired") \in [Revisions -> History]
    BY <1>1, CloseEffect
  <2>3. reply'[c].revision = r
    BY <1>1, <1>2 DEF Grant, successor, Answer, Show
  <2>4. ledger'[r] = [fate |-> "live", slot |-> s, value |-> call[c].value,
                      granted |-> call[c].now]
    BY <1>2, <2>1, <2>2 DEF Grant, successor
  <2> QED BY <2>1, <2>3, <2>4
<1>3. CASE \/ Answer(c, Show("Existing", s, entries[s]))
           \/ Answer(c, [tag |-> "Conflict"])
  BY <1>1, <1>3 DEF Answer, Show
<1> QED BY <1>2, <1>3 DEF put_if_absent

\* get answers with the live entry, and where there is none it leaves none.
LEMMA GetAnswers ==
  ASSUME Inv, NEW c \in Callers, get(c)
  PROVE  /\ call[c] # Idle /\ call[c].slot \in Slots
         /\ \/ /\ entries[call[c].slot] # Absent
               /\ reply'[c] = Show("Some", call[c].slot, entries[call[c].slot])
               /\ reply'[c].tag = "Some" /\ reply'[c].slot = call[c].slot
               /\ reply'[c].revision = entries[call[c].slot].revision
               /\ reply'[c].expires_at = entries[call[c].slot].expires_at
               /\ ledger' = ledger
            \/ reply'[c].tag = "None" /\ entries'[call[c].slot] = Absent
<1>1. /\ call[c] # Idle /\ call[c].slot \in Slots
      /\ reply \in [Callers -> Seen \cup Plain \cup {Idle}]
      /\ entries \in [Slots -> Entry \cup {Absent}]
  BY CallTypes DEF get, Inv, TypeOK
<1>2. CASE Live(call[c].slot, call[c].now)
  BY <1>1, <1>2 DEF get, Live, Answer, storeVars, Show
<1>3. CASE ~Live(call[c].slot, call[c].now)
  BY <1>1, <1>3 DEF get, purge_if_expired, Delete, Answer
<1> QED BY <1>1, <1>2, <1>3

\* IssuePut: what was inserted is the ticket asked for.
LEMMA IssuePutKeeps ==
  ASSUME TicketInv, NEW c \in Callers, IssuePut(c)
  PROVE  TicketInv'
<1>1. Inv /\ TicketTypes /\ task[c] # NoTask /\ task[c].at = "put" /\ put_if_absent(c)
  BY DEF TicketInv, IssuePut, At
<1>2. /\ task[c].binding \in Bindings /\ task[c].digest \in Keys /\ task[c].left \in 1..4
      /\ call[c].slot = SlotOf(task[c]) /\ call[c].value = StoredTicket(task[c].binding)
  BY <1>1, TaskTypes DEF TicketInv, Standing
<1>3. CASE /\ reply'[c].tag = "Inserted"
           /\ Continue(c, [at |-> "inserted", binding |-> task[c].binding,
                           digest |-> task[c].digest, revision |-> reply'[c].revision])
  <2> DEFINE k == [at |-> "inserted", binding |-> task[c].binding,
                   digest |-> task[c].digest, revision |-> reply'[c].revision]
  <2>1. /\ reply'[c].revision \in Revisions
        /\ ledger'[reply'[c].revision].fate = "live"
        /\ ledger'[reply'[c].revision].slot = SlotOf(task[c])
        /\ ledger'[reply'[c].revision].value = StoredTicket(task[c].binding)
    BY <1>1, <1>2, <1>3, PutAnswers
  <2>2. k \in Task
    BY <1>2, <2>1 DEF Task, HoldTask
  <2>3. Standing(k, Idle, ledger')
    BY <2>1 DEF Standing, SlotOf
  <2>4. Backed(NoTask, ledger')
    BY DEF Backed
  <2>5. /\ task' = [task EXCEPT ![c] = k] /\ outcome' = [outcome EXCEPT ![c] = NoTask]
        /\ consumed' = consumed
    BY <1>3 DEF Continue
  <2> HIDE DEF k
  <2> QED BY <1>1, <2>2, <2>3, <2>4, <2>5, ReturnKeeps
<1>4. CASE task[c].left > 1 /\ Continue(c, [at |-> "draw", binding |-> task[c].binding,
                                            left |-> task[c].left - 1])
  <2> DEFINE k == [at |-> "draw", binding |-> task[c].binding, left |-> task[c].left - 1]
  <2>1. task[c].left - 1 \in 1..MAX_TICKET_GENERATION_ATTEMPTS
    BY <1>2, <1>4 DEF MAX_TICKET_GENERATION_ATTEMPTS
  <2>2. k \in Task
    BY <1>2, <2>1 DEF Task, DrawTask
  <2>3. Standing(k, Idle, ledger') /\ Backed(NoTask, ledger')
    BY DEF Standing, Backed
  <2>4. /\ task' = [task EXCEPT ![c] = k] /\ outcome' = [outcome EXCEPT ![c] = NoTask]
        /\ consumed' = consumed
    BY <1>4 DEF Continue
  <2> HIDE DEF k
  <2> QED BY <1>1, <2>2, <2>3, <2>4, ReturnKeeps
<1>5. ASSUME NEW error \in {"TicketCollision", "StateUnavailable"}, Fail(c, error)
      PROVE  TicketInv'
  <2>1. Standing(NoTask, Idle, ledger')
    BY DEF Standing
  <2> QED BY <1>1, <1>5, <2>1, PlainOutcomes, ReturnKeeps DEF Fail, Finish
<1> QED BY <1>3, <1>4, <1>5 DEF IssuePut, Collide

\* IssueReread: the ticket just written is asked for again.
LEMMA IssueRereadKeeps ==
  ASSUME TicketInv, [Next]_vars, NEW c \in Callers, IssueReread(c)
  PROVE  TicketInv'
<1> DEFINE request == [op |-> "get", slot |-> SlotOf(task[c]), now |-> clock]
           k == [task[c] EXCEPT !.at = "reread"]
<1>1. Inv /\ TicketTypes /\ task[c] # NoTask /\ task[c].at = "inserted"
  BY DEF TicketInv, IssueReread, At
<1>2. /\ task[c] \in HoldTask /\ SlotOf(task[c]) \in Slots /\ clock \in Times
  BY <1>1, TaskTypes DEF Task, PutTask, DrawTask, HoldTask, LookTask, MatchTask, RevokeTask,
                         Inv, TypeOK
<1>3. /\ k \in HoldTask /\ k.at = "reread" /\ k.binding = task[c].binding
      /\ k.digest = task[c].digest /\ k.revision = task[c].revision
  BY <1>2 DEF HoldTask
<1>4. request \in Call /\ k \in Task
  BY <1>2, <1>3 DEF Call, PlainCall, Task
<1>5. request # Idle
  BY <1>4, ModelValueAssumption
<1>6. Standing(task[c], call[c], ledger)
  BY DEF TicketInv
<1>7. Standing(k, request, ledger)
  <2>1. SlotOf(k) = SlotOf(task[c])
    BY <1>3 DEF SlotOf
  <2>2. request.slot = SlotOf(task[c])
    OBVIOUS
  <2> HIDE DEF k, request
  <2> QED BY <1>1, <1>3, <1>5, <1>6, <2>1, <2>2 DEF Standing
<1>8. Begin(c, request) /\ Continue(c, k)
  BY DEF IssueReread, BeginPlain, SlotOf
<1>9. request.op # "put"
  OBVIOUS
<1> HIDE DEF request, k
<1> QED BY <1>4, <1>7, <1>8, <1>9, BeginKeeps

\* IssueConfirm: the ticket handed out is the one the store holds.
LEMMA IssueConfirmKeeps ==
  ASSUME TicketInv, NEW c \in Callers, IssueConfirm(c)
  PROVE  TicketInv'
<1>1. Inv /\ TicketTypes /\ task[c] # NoTask /\ task[c].at = "reread" /\ get(c)
  BY DEF TicketInv, IssueConfirm, At
<1>2. Standing(NoTask, Idle, ledger')
  BY DEF Standing
<1>3. CASE reply'[c].tag = "Some" /\ reply'[c].revision = task[c].revision
  <2> DEFINE o == [tag |-> "Issued", binding |-> task[c].binding,
                   slot |-> reply'[c].slot, revision |-> task[c].revision,
                   issued_at |-> reply'[c].expires_at - Validity,
                   expires_at |-> reply'[c].expires_at]
  <2>1. /\ entries[call[c].slot] # Absent /\ call[c].slot \in Slots /\ ledger' = ledger
        /\ reply'[c].slot = call[c].slot
        /\ reply'[c].expires_at = entries[call[c].slot].expires_at
        /\ entries[call[c].slot].revision = task[c].revision
    BY <1>1, <1>3, GetAnswers
  <2>2. /\ entries[call[c].slot].expires_at = ledger[task[c].revision].granted + Validity
        /\ entries[call[c].slot].expires_at \in Times
        /\ ledger[task[c].revision].granted \in Nat
        /\ entries[call[c].slot].expires_at \in Nat
    BY <1>1, <2>1, EntryTypes, Numbers, BoundsAssumption DEF TicketInv, PolicyKept, Inv, Times
  <2>3. /\ ledger[task[c].revision].fate # "unissued"
        /\ ledger[task[c].revision].slot = SlotOf(task[c]) /\ call[c].slot = SlotOf(task[c])
        /\ ledger[task[c].revision].value = StoredTicket(task[c].binding)
    BY <1>1 DEF TicketInv, Standing
  <2>4. Validity \in Nat /\ task[c].binding \in Bindings /\ task[c].revision \in Revisions
    BY <1>1, TaskTypes, TicketConstants
  <2>5. /\ reply'[c].expires_at - Validity = ledger[task[c].revision].granted
        /\ reply'[c].expires_at = ledger[task[c].revision].granted + Validity
        /\ reply'[c].expires_at - Validity \in Int
    BY <2>1, <2>2, <2>4
  <2>6. o \in Outcome
    BY <2>1, <2>2, <2>4, <2>5 DEF Outcome, IssuedTicket
  <2>7. Backed(o, ledger')
    BY <2>1, <2>3, <2>5 DEF Backed
  <2>8. Finish(c, o) /\ consumed' = consumed
    BY <1>3 DEF IssueConfirm, IssuedAt, Validity, Fail
  <2> HIDE DEF o
  <2> QED BY <1>1, <1>2, <2>6, <2>7, <2>8, ReturnKeeps DEF Finish
<1>4. CASE Fail(c, "StateUnavailable")
  BY <1>1, <1>2, <1>4, PlainOutcomes, ReturnKeeps DEF Fail, Finish
<1> QED BY <1>3, <1>4 DEF IssueConfirm

\* consume and revoke: the first look at the store, or the removal, is asked for.
LEMMA PlainCallKeeps ==
  ASSUME TicketInv, [Next]_vars, NEW c \in Callers, NEW s \in Slots,
         NEW op \in {"get", "remove"}, NEW k \in LookTask \cup RevokeTask,
         BeginPlain(c, s, op), Continue(c, k)
  PROVE  TicketInv'
<1> DEFINE request == [op |-> op, slot |-> s, now |-> clock]
<1>1. request \in Call /\ request.op # "put" /\ Begin(c, request)
  BY DEF Call, PlainCall, BeginPlain, TicketInv, Inv, TypeOK
<1>2. k \in Task /\ Standing(k, request, ledger)
  BY DEF Task, LookTask, RevokeTask, Standing
<1> HIDE DEF request
<1> QED BY <1>1, <1>2, BeginKeeps

\* ConsumeLook: what was read names its revision truly, and matches.
LEMMA ConsumeLookKeeps ==
  ASSUME TicketInv, NEW c \in Callers, ConsumeLook(c)
  PROVE  TicketInv'
<1>1. Inv /\ TicketTypes /\ task[c] # NoTask /\ task[c].at = "look" /\ get(c)
  BY DEF TicketInv, ConsumeLook, At
<1>2. CASE /\ reply'[c].tag = "Some" /\ matches(reply'[c].value, task[c].binding)
           /\ Continue(c, [at |-> "matched", binding |-> task[c].binding, entry |-> reply'[c]])
  <2> DEFINE k == [at |-> "matched", binding |-> task[c].binding, entry |-> reply'[c]]
             s == call[c].slot
  <2>1. /\ entries[s] # Absent /\ s \in Slots /\ ledger' = ledger
        /\ reply'[c] = Show("Some", s, entries[s])
    BY <1>1, <1>2, GetAnswers
  <2>2. reply'[c] \in Seen /\ TrueOf(reply'[c], ledger')
    BY <1>1, <2>1, EntryTypes, SeenTypes, ShowIsTrue DEF Inv
  <2>3. k \in Task
    BY <1>1, <2>2, TaskTypes DEF Task, MatchTask
  <2>4. Standing(k, Idle, ledger') /\ Backed(NoTask, ledger')
    BY <1>2, <2>2 DEF Standing, Backed
  <2>5. /\ task' = [task EXCEPT ![c] = k] /\ outcome' = [outcome EXCEPT ![c] = NoTask]
        /\ consumed' = consumed
    BY <1>2 DEF Continue
  <2> HIDE DEF k
  <2> QED BY <1>1, <2>3, <2>4, <2>5, ReturnKeeps
<1>3. CASE Fail(c, "TicketRejected")
  <2>1. Standing(NoTask, Idle, ledger')
    BY DEF Standing
  <2> QED BY <1>1, <1>3, <2>1, PlainOutcomes, ReturnKeeps DEF Fail, Finish
<1> QED BY <1>2, <1>3 DEF ConsumeLook

\* A revision seen was handed out, so it is not above the counter.
LEMMA ConsumeTryKeeps ==
  ASSUME TicketInv, [Next]_vars, NEW c \in Callers, ConsumeTry(c)
  PROVE  TicketInv'
<1> DEFINE request == [op |-> "take", slot |-> task[c].entry.slot,
                       expected |-> task[c].entry.revision, now |-> clock]
           k == [task[c] EXCEPT !.at = "take"]
<1>1. Inv /\ TicketTypes /\ task[c] # NoTask /\ task[c].at = "matched"
  BY DEF TicketInv, ConsumeTry, At
<1>2. /\ task[c] \in MatchTask /\ clock \in Times
      /\ task[c].entry.slot \in Slots /\ task[c].entry.revision \in Revisions
  BY <1>1, TaskTypes DEF Task, PutTask, DrawTask, HoldTask, LookTask, MatchTask, RevokeTask,
                         Inv, TypeOK
<1>3. /\ k \in MatchTask /\ k.at = "take" /\ k.binding = task[c].binding
      /\ k.entry = task[c].entry
  BY <1>2 DEF MatchTask
<1>4. request \in Call /\ k \in Task
  BY <1>2, <1>3 DEF Call, TakeCall, Task
<1>5. request # Idle
  BY <1>4, ModelValueAssumption
<1>6. Standing(task[c], call[c], ledger)
  BY DEF TicketInv
<1>7. /\ request.slot = task[c].entry.slot /\ request.expected = task[c].entry.revision
      /\ request.op # "put"
  OBVIOUS
<1>8. Begin(c, request) /\ Continue(c, k)
  BY DEF ConsumeTry, BeginTake
<1> HIDE DEF request, k
<1>9. Standing(k, request, ledger)
  BY <1>1, <1>3, <1>5, <1>6, <1>7 DEF Standing
<1> QED BY <1>4, <1>7, <1>8, <1>9, BeginKeeps

\* What a caller about to take saw of its revision decides what it takes: the
\* live entry that carries the revision carries the value matched before.
LEMMA TakeAnswers ==
  ASSUME TicketInv, NEW c \in Callers, At(c, "take"), compare_and_take(c)
  PROVE  \/ /\ reply'[c].tag = "Taken"
            /\ matches(reply'[c].value, task[c].binding)
            /\ reply'[c].value = task[c].entry.value
            /\ reply'[c].slot = task[c].entry.slot
            /\ reply'[c].revision = task[c].entry.revision
            /\ ledger[reply'[c].revision].fate = "live"
            /\ ledger[reply'[c].revision].value = task[c].entry.value
            /\ \A r \in Revisions :
                  ledger'[r].fate = IF r = reply'[c].revision THEN "taken" ELSE ledger[r].fate
         \/ /\ reply'[c].tag # "Taken"
            /\ \A r \in Revisions : ledger'[r].fate = "taken" <=> ledger[r].fate = "taken"
<1> DEFINE s == call[c].slot
<1>1. /\ Inv /\ TicketTypes /\ task[c] # NoTask /\ task[c].at = "take"
      /\ reply \in [Callers -> Seen \cup Plain \cup {Idle}]
  BY DEF TicketInv, At, Inv, TypeOK
<1>2. /\ s = task[c].entry.slot /\ call[c].expected = task[c].entry.revision
      /\ TrueOf(task[c].entry, ledger) /\ matches(task[c].entry.value, task[c].binding)
      /\ s \in Slots
  BY <1>1, TaskTypes DEF TicketInv, Standing
<1>3. CASE Matches(c) /\ Delete(s, "taken") /\ Answer(c, Show("Taken", s, entries[s]))
  <2>1. entries[s] # Absent /\ entries[s].revision = task[c].entry.revision
    BY <1>2, <1>3 DEF Matches, Live
  <2>2. /\ reply'[c].tag = "Taken" /\ reply'[c].value = entries[s].value
        /\ reply'[c].slot = s /\ reply'[c].revision = entries[s].revision
    BY <1>1, <1>3 DEF Answer, Show
  <2>3. /\ ledger[entries[s].revision].fate = "live"
        /\ ledger[entries[s].revision].value = entries[s].value
        /\ entries[s].value = task[c].entry.value
    BY <1>1, <1>2, <2>1, EntryLedger DEF TrueOf
  <2>4. \A r \in Revisions :
          ledger'[r].fate = IF r = entries[s].revision THEN "taken" ELSE ledger[r].fate
    BY <1>1, <1>2, <1>3, <2>1, CloseEffect DEF Delete
  <2> QED BY <1>2, <2>1, <2>2, <2>3, <2>4
<1>4. CASE Decline(c)
  <2>1. reply'[c].tag # "Taken"
    BY <1>1, <1>4 DEF Decline, Answer, Show
  <2>2. ledger' = Close(s, "expired") \/ ledger' = ledger
    BY <1>4 DEF Decline, purge_if_expired, Delete, storeVars
  <2>3. \A r \in Revisions : Close(s, "expired")[r].fate = "taken" <=> ledger[r].fate = "taken"
    BY <1>1, <1>2, CloseEffect, EntryLedger
  <2> QED BY <2>1, <2>2, <2>3
<1> QED BY <1>3, <1>4 DEF compare_and_take

\* ConsumeTake: a revision is taken once, and that once is counted.
LEMMA ConsumeTakeKeeps ==
  ASSUME TicketInv, NEW c \in Callers, ConsumeTake(c)
  PROVE  TicketInv'
<1>1. /\ Inv /\ TicketTypes /\ PolicyKept /\ TakesCounted /\ At(c, "take") /\ compare_and_take(c)
      /\ task[c] # NoTask /\ task[c].at = "take"
  BY DEF TicketInv, ConsumeTake, At
<1>2. /\ task[c].binding \in Bindings /\ task[c].entry.slot \in Slots
      /\ task[c].entry.revision \in Revisions /\ task[c].entry.expires_at \in Times
  BY <1>1, TaskTypes
<1>3. /\ [Next]_vars /\ PolicyKept' /\ Standing(NoTask, call'[c], ledger')
  BY <1>1, PolicyStays DEF Next, Return, Standing
<1>4. \A d \in Callers : d # c => call'[d] = call[d]
  BY <1>1 DEF compare_and_take, Decline, Answer, Inv, TypeOK
<1>5. ASSUME reply'[c].tag = "Taken" PROVE TicketInv'
  <2> DEFINE q == task[c].entry.revision
             o == [tag |-> "Consumed", binding |-> task[c].binding,
                   slot |-> reply'[c].slot, revision |-> reply'[c].revision,
                   expires_at |-> task[c].entry.expires_at]
  <2>1. /\ reply'[c].revision = q /\ reply'[c].slot = task[c].entry.slot
        /\ matches(reply'[c].value, task[c].binding)
        /\ ledger[q].fate = "live"
        /\ \A r \in Revisions :
              ledger'[r].fate = IF r = q THEN "taken" ELSE ledger[r].fate
    BY <1>1, <1>5, TakeAnswers
  <2>2. /\ consumed' = [consumed EXCEPT ![q] = consumed[q] + 1]
        /\ task' = [task EXCEPT ![c] = NoTask] /\ outcome' = [outcome EXCEPT ![c] = o]
    BY <1>5, <2>1 DEF ConsumeTake, Finish
  <2>3. consumed \in [Revisions -> 0..1] /\ consumed[q] = 0
    BY <1>1, <1>2, <2>1 DEF TicketTypes, TakesCounted
  <2>4. consumed' = [consumed EXCEPT ![q] = 1]
    BY <2>2, <2>3
  <2>5. consumed' \in [Revisions -> 0..1]
    BY <1>2, <2>3, <2>4
  <2>6. TakesCounted'
    BY <1>1, <1>2, <2>1, <2>3, <2>4 DEF TakesCounted
  <2>7. o \in Outcome /\ Backed(o, ledger')
    BY <1>2, <2>1 DEF Outcome, ConsumedTicket, Backed
  <2> HIDE DEF o
  <2> QED BY <1>3, <1>4, <2>2, <2>5, <2>6, <2>7, OneCallerMoves
<1>6. ASSUME reply'[c].tag # "Taken" PROVE TicketInv'
  <2>1. Fail(c, "TicketRejected")
    BY <1>6 DEF ConsumeTake
  <2>2. TakesCounted' /\ consumed' \in [Revisions -> 0..1]
    BY <1>1, <1>6, <2>1, TakeAnswers DEF Fail, TakesCounted, TicketTypes
  <2> QED BY <1>3, <1>4, <2>1, <2>2, PlainOutcomes, OneCallerMoves DEF Fail, Finish
<1> QED BY <1>5, <1>6

\* RevokeRemove ends a ticket without counting it as consumed.
LEMMA RevokeRemoveKeeps ==
  ASSUME TicketInv, NEW c \in Callers, RevokeRemove(c)
  PROVE  TicketInv'
<1>1. Standing(NoTask, Idle, ledger')
  BY DEF Standing
<1>2. PICK error \in {"Revoked", "NotRevoked"} : Finish(c, [tag |-> error])
  BY DEF RevokeRemove
<1>3. [tag |-> error] \in Outcome /\ Backed([tag |-> error], ledger')
  BY PlainOutcomes
<1> QED BY <1>1, <1>2, <1>3, ReturnKeeps DEF RevokeRemove, Finish

\* Time passes for every ticket alike.
LEMMA AdvanceKeeps ==
  ASSUME TicketInv, UNCHANGED ticketVars, UNCHANGED <<entries, call, ledger>>, [Next]_vars
  PROVE  TicketInv'
<1>1. Inv'
  BY NextInv DEF TicketInv
<1>2. TicketTypes' /\ PolicyKept' /\ TakesCounted'
  BY DEF ticketVars, TicketInv, TicketTypes, PolicyKept, TakesCounted
<1>3. \A c \in Callers : Standing(task'[c], call'[c], ledger') /\ Backed(outcome'[c], ledger')
  BY DEF ticketVars, TicketInv
<1> QED BY <1>1, <1>2, <1>3 DEF TicketInv

-----------------------------------------------------------------------------
(* The invariant *)

\* Nobody is in a call and nothing is issued yet.
LEMMA InitTicketInv == TicketInit => TicketInv
<1> SUFFICES ASSUME TicketInit PROVE TicketInv
  OBVIOUS
<1>1. /\ Inv /\ task = [c \in Callers |-> NoTask] /\ outcome = [c \in Callers |-> NoTask]
      /\ consumed = [r \in Revisions |-> 0] /\ ledger = [r \in Revisions |-> Unissued]
      /\ entries = [s \in Slots |-> Absent] /\ call = [c \in Callers |-> Idle]
  BY InitInv DEF TicketInit, Init
<1>2. TicketTypes /\ PolicyKept /\ TakesCounted
  BY <1>1 DEF TicketTypes, PolicyKept, TakesCounted, Unissued
<1>3. \A c \in Callers : Standing(task[c], call[c], ledger) /\ Backed(outcome[c], ledger)
  BY <1>1 DEF Standing, Backed
<1> QED BY <1>1, <1>2, <1>3 DEF TicketInv

\* Each step of a caller inside a call keeps the invariant.
LEMMA WorkKeeps ==
  ASSUME TicketInv, [Next]_vars, NEW c \in Callers, Work(c)
  PROVE  TicketInv'
<1>1. CASE IssueAgain(c)
  <2>1. task[c].binding \in Bindings /\ task[c].left \in 1..MAX_TICKET_GENERATION_ATTEMPTS
    BY <1>1, TaskTypes DEF IssueAgain, At, TicketInv, MAX_TICKET_GENERATION_ATTEMPTS
  <2> QED BY <1>1, <2>1, DrawKeeps DEF IssueAgain
<1> QED BY <1>1, IssuePutKeeps, IssueRereadKeeps, IssueConfirmKeeps, ConsumeLookKeeps,
           ConsumeTryKeeps, ConsumeTakeKeeps, RevokeRemoveKeeps DEF Work

\* Every step of the service keeps the invariant.
LEMMA TicketNextKeeps == TicketInv /\ [TicketNext]_allVars => TicketInv'
<1> SUFFICES ASSUME TicketInv, [TicketNext]_allVars PROVE TicketInv'
  OBVIOUS
<1>1. [Next]_vars
  BY StepOfStore
<1>2. CASE UNCHANGED allVars
  BY <1>1, <1>2, AdvanceKeeps DEF allVars, vars
<1>3. ASSUME NEW d \in Advances, advance(d), UNCHANGED ticketVars PROVE TicketInv'
  BY <1>1, <1>3, AdvanceKeeps DEF advance
<1>4. ASSUME NEW c \in Callers, NEW b \in Bindings, issue(c, b) PROVE TicketInv'
  BY <1>1, <1>4, DrawKeeps DEF issue, MAX_TICKET_GENERATION_ATTEMPTS
<1>5. ASSUME NEW c \in Callers, NEW b \in Bindings, NEW digest \in Keys, consume(c, b, digest)
      PROVE  TicketInv'
  <2>1. [at |-> "look", binding |-> b] \in LookTask
    BY DEF LookTask
  <2> QED BY <1>1, <1>5, <2>1, TicketConstants, PlainCallKeeps DEF consume
<1>6. ASSUME NEW c \in Callers, NEW s \in Slots, revoke(c, s) PROVE TicketInv'
  <2>1. [at |-> "revoke"] \in RevokeTask
    BY DEF RevokeTask
  <2> QED BY <1>1, <1>6, <2>1, PlainCallKeeps DEF revoke
<1>7. ASSUME NEW c \in Callers, Work(c) PROVE TicketInv'
  BY <1>1, <1>7, WorkKeeps
<1> QED BY <1>2, <1>3, <1>4, <1>5, <1>6, <1>7 DEF TicketNext

\* What the callers of TicketService rely on between two store operations holds
\* in every reachable state, however their calls interleave.
THEOREM TicketInvariance == TicketSpec => []TicketInv
BY InitTicketInv, TicketNextKeeps, PTL DEF TicketSpec

\* TicketService only does to InMemoryTtlStore what the store offers, so all the
\* store promises its callers holds of it under the service.
THEOREM ServiceUsesTheStore == TicketSpec => Spec
<1>1. TicketInit => Init
  BY DEF TicketInit
<1> QED BY <1>1, StepOfStore, TicketInvariance, PTL DEF TicketSpec, Spec

\* TicketService::consume succeeds at most once for a ticket, by the take that
\* ended it: never for a ticket revoked or run out.
THEOREM ConsumedAtMostOnce == TicketSpec => []ConsumedOnce
<1>1. TicketInv => ConsumedOnce
  BY DEF TicketInv, TicketTypes, TakesCounted, ConsumedOnce
<1> QED BY <1>1, TicketInvariance, PTL

\* The ticket TicketService::issue hands out states the slot, binding and instants
\* the store goes by, from the time it is issued on.
THEOREM TicketsAreBacked == TicketSpec => []IssuedIsBacked
<1>1. TicketInv => IssuedIsBacked
  <2> SUFFICES ASSUME TicketInv, NEW c \in Callers, outcome[c] # NoTask, outcome[c].tag = "Issued"
               PROVE  LET h == ledger[outcome[c].revision] IN
                      /\ h.slot = outcome[c].slot
                      /\ h.value = StoredTicket(outcome[c].binding)
                      /\ h.granted = outcome[c].issued_at
                      /\ h.fate = "live" =>
                            entries[h.slot].expires_at = outcome[c].expires_at
    BY DEF IssuedIsBacked
  <2> DEFINE r == outcome[c].revision
  <2>1. Backed(outcome[c], ledger) /\ r \in Revisions
    BY DEF TicketInv, TicketTypes, Outcome, IssuedTicket, ConsumedTicket, PlainOutcome
  <2>2. ASSUME ledger[r].fate = "live"
        PROVE  entries[ledger[r].slot].expires_at = outcome[c].expires_at
    <3>1. /\ ledger[r].slot \in Slots /\ entries[ledger[r].slot] # Absent
          /\ entries[ledger[r].slot].revision = r
      BY <2>1, <2>2 DEF TicketInv, Inv, EntriesMatchLedger
    <3> QED BY <2>1, <3>1 DEF TicketInv, PolicyKept, Backed
  <2> QED BY <2>1, <2>2 DEF Backed
<1> QED BY <1>1, TicketInvariance, PTL

\* A stored ticket that matches a binding is the ticket of that binding.
LEMMA MatchIsEquality ==
  ASSUME NEW v \in Values, NEW b \in Bindings, matches(v, b)
  PROVE  v = StoredTicket(b)
<1>1. PICK q \in Requests, p \in Requests : v = StoredTicket(for_context(q)) /\ b = for_context(p)
  BY ValuesAssumption DEF Bindings
<1> QED BY <1>1 DEF matches, StoredTicket, for_context

\* In TicketService only ConsumeTake takes.
LEMMA WhoTakes ==
  ASSUME TicketInv, TicketNext, NEW r \in Revisions,
         ledger[r].fate # "taken", ledger'[r].fate = "taken"
  PROVE  \E c \in Callers : ConsumeTake(c)
<1>1. ledger' # ledger
  OBVIOUS
<1>2. PICK c \in Callers : Work(c)
  BY <1>1 DEF TicketNext, advance, issue, Draw, consume, revoke, BeginPut, RefuseTtl, BeginPlain,
              Begin, vars
<1>3. ~(put_if_absent(c) \/ get(c) \/ remove(c))
  BY OnlyTakeTakes DEF TicketInv
<1>4. ~(IssueAgain(c) \/ IssueReread(c) \/ ConsumeTry(c))
  BY <1>1 DEF IssueAgain, IssueReread, ConsumeTry, Draw, BeginPut, RefuseTtl, BeginPlain,
              BeginTake, Begin, vars
<1> QED BY <1>2, <1>3, <1>4 DEF Work, IssuePut, IssueConfirm, ConsumeLook, RevokeRemove

\* TicketService::consume with another binding than the ticket's costs its owner
\* nothing: the take that ends a live ticket returns it to the one it is for.
THEOREM OwnersTake == TicketSpec => TakenOnlyByOwner
<1>1. TicketInv /\ TicketInv' /\ [TicketNext]_allVars =>
        [\A r \in Revisions :
           (ledger[r].fate = "live" /\ ledger'[r].fate = "taken") =>
             \E c \in Callers :
                 /\ outcome'[c] # NoTask /\ outcome'[c].tag = "Consumed"
                 /\ outcome'[c].revision = r
                 /\ StoredTicket(outcome'[c].binding) = ledger[r].value]_allVars
  <2> SUFFICES ASSUME TicketInv, TicketNext, NEW r \in Revisions,
                      ledger[r].fate = "live", ledger'[r].fate = "taken"
               PROVE  \E c \in Callers :
                         /\ outcome'[c] # NoTask /\ outcome'[c].tag = "Consumed"
                         /\ outcome'[c].revision = r
                         /\ StoredTicket(outcome'[c].binding) = ledger[r].value
    OBVIOUS
  <2>1. PICK c \in Callers : ConsumeTake(c)
    BY WhoTakes
  <2>2. /\ At(c, "take") /\ compare_and_take(c) /\ TicketTypes
        /\ task[c] # NoTask /\ task[c].at = "take"
    BY <2>1 DEF ConsumeTake, TicketInv, At
  <2>3. /\ reply'[c].tag = "Taken" /\ r = reply'[c].revision
        /\ r = task[c].entry.revision /\ reply'[c].slot = task[c].entry.slot
        /\ matches(task[c].entry.value, task[c].binding)
        /\ matches(reply'[c].value, task[c].binding)
        /\ ledger[r].value = task[c].entry.value
    BY <2>2, TakeAnswers
  <2>4. /\ task[c].binding \in Bindings /\ task[c].entry.value \in Values
        /\ task[c].entry.slot \in Slots /\ task[c].entry.expires_at \in Times
    BY <2>2, TaskTypes
  <2> DEFINE o == [tag |-> "Consumed", binding |-> task[c].binding,
                   slot |-> reply'[c].slot, revision |-> reply'[c].revision,
                   expires_at |-> task[c].entry.expires_at]
  <2>5. o \in ConsumedTicket
    BY <2>3, <2>4 DEF ConsumedTicket
  <2>6. outcome' = [outcome EXCEPT ![c] = o]
    BY <2>1, <2>3 DEF ConsumeTake, Finish
  <2>7. outcome'[c] = o
    BY <2>2, <2>6 DEF TicketTypes
  <2> QED BY <2>3, <2>4, <2>5, <2>7, MatchIsEquality, NoTaskAssumption
<1> QED BY <1>1, TicketInvariance, PTL DEF TicketSpec, TakenOnlyByOwner

\* TicketService::issue that reports a failure after its put has left no live
\* ticket behind: what get did not find again is gone.
THEOREM FailuresLeaveNothing == TicketSpec => FailedIssueLeavesNoTicket
<1>1. TicketInv /\ TicketInv' /\ [TicketNext]_allVars =>
        [\A c \in Callers :
           (At(c, "reread") /\ task'[c] = NoTask /\ outcome'[c].tag # "Issued")
           => ledger'[task[c].revision].fate # "live"]_allVars
  <2> SUFFICES ASSUME TicketInv, TicketInv', TicketNext, NEW c \in Callers,
                      At(c, "reread"), task'[c] = NoTask, outcome'[c].tag # "Issued"
               PROVE  ledger'[task[c].revision].fate # "live"
    OBVIOUS
  <2>1. /\ Inv /\ Inv' /\ TicketTypes /\ task[c] # NoTask /\ task[c].at = "reread"
    BY DEF TicketInv, At
  <2>2. ASSUME NEW d \in Callers, d # c PROVE ~Work(d)
    <3>1. task'[c] # task[c]
      BY <2>1
    <3>2. \A k : task' # [task EXCEPT ![d] = k]
      BY <2>1, <2>2, <3>1 DEF TicketTypes
    <3>3. ~IssuePut(d) /\ ~IssueAgain(d)
      BY <3>2 DEF IssuePut, IssueAgain, Collide, Draw, Fail, Finish, Continue
    <3>4. ~IssueReread(d) /\ ~IssueConfirm(d) /\ ~ConsumeLook(d)
      BY <3>2 DEF IssueReread, IssueConfirm, ConsumeLook, Fail, Finish, Continue
    <3>5. ~ConsumeTry(d) /\ ~ConsumeTake(d) /\ ~RevokeRemove(d)
      BY <3>2 DEF ConsumeTry, ConsumeTake, RevokeRemove, Fail, Finish, Continue
    <3> QED BY <3>3, <3>4, <3>5 DEF Work
  <2>3. ASSUME NEW d \in Callers
        PROVE  /\ \A b \in Bindings : ~issue(d, b)
               /\ \A b \in Bindings, digest \in Keys : ~consume(d, b, digest)
               /\ \A s \in Slots : ~revoke(d, s)
    <3>1. d # c => \A k : task' # [task EXCEPT ![d] = k]
      BY <2>1 DEF TicketTypes
    <3>2. d = c => task[d] # NoTask
      BY <2>1
    <3> QED BY <3>1, <3>2 DEF issue, Draw, consume, revoke, Fail, Finish, Continue
  <2>4. IssueConfirm(c)
    <3>1. Work(c)
      BY <2>1, <2>2, <2>3 DEF TicketNext, ticketVars
    <3> QED BY <2>1, <3>1 DEF Work, IssuePut, IssueAgain, IssueReread, ConsumeLook,
                              ConsumeTry, ConsumeTake, RevokeRemove, At
  <2>5. /\ task[c].revision \in Revisions /\ ledger[task[c].revision].slot = SlotOf(task[c])
        /\ call[c].slot = SlotOf(task[c]) /\ ledger[task[c].revision].fate # "unissued"
    BY <2>1, TaskTypes DEF TicketInv, Standing
  <2>6. ledger'[task[c].revision].slot = call[c].slot
    BY <2>1, <2>5, StepOfStore, RevisionsAreKept
  <2>7. CASE reply'[c].tag = "None" /\ entries'[call[c].slot] = Absent
    BY <2>1, <2>5, <2>6, <2>7 DEF Inv, EntriesMatchLedger
  <2>8. CASE reply'[c].tag = "Some" /\ ledger' = ledger
    <3>1. reply'[c].revision = entries[call[c].slot].revision
      BY <2>1, <2>4, <2>8, GetAnswers DEF IssueConfirm
    <3>2. reply'[c].revision # task[c].revision
      BY <2>1, <2>4, <2>8 DEF IssueConfirm, Finish, TicketTypes
    <3> QED BY <2>1, <2>5, <2>8, <3>1, <3>2 DEF Inv, EntriesMatchLedger
  <2> QED BY <2>1, <2>4, <2>7, <2>8, GetAnswers DEF IssueConfirm
<1> QED BY <1>1, TicketInvariance, PTL DEF TicketSpec, FailedIssueLeavesNoTicket
=============================================================================
