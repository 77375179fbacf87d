------------------------------ MODULE TtlStore ------------------------------
(***************************************************************************)
(* InMemoryTtlStore driven by a VirtualClock                               *)
(* (crates/qingyin-testkit/src/ttl.rs, clock.rs; qingyin-state time.rs).   *)
(*                                                                         *)
(* Every operation reads the clock and computes the expiry it may grant    *)
(* first, and takes the data mutex afterwards.  Anything may happen in     *)
(* between, so a call is two steps: Begin... samples the clock, and the    *)
(* operation named as in the code runs under the lock with that sample.    *)
(***************************************************************************)
EXTENDS Naturals

CONSTANTS Callers,       \* threads sharing the store
          Scopes, Keys,  \* tenants, and keys inside one tenant
          Values,
          Ttls,          \* durations passed as ttl, in ticks
          Advances,      \* durations the test clock is advanced by, in ticks
          TicksPerMilli, \* resolution of a Duration relative to a millisecond
          MaxMillis,     \* largest MonotonicTime (u64::MAX)
          MaxRevision,   \* largest revision (u64::MAX)
          Absent, Idle, NoSlot, NoValue

ASSUME BoundsAssumption ==
    /\ MaxMillis \in Nat /\ MaxRevision \in Nat
    /\ TicksPerMilli \in Nat \ {0}
    /\ Ttls \subseteq Nat /\ Advances \subseteq Nat

VARIABLES clock,          \* VirtualClock.now
          next_revision,  \* TtlData.next_revision
          entries,        \* TtlData.entries, Absent where the map has no key
          call,           \* what each caller sampled before asking for the lock
          reply,          \* the last answer each caller got
          ledger          \* history: what became of each revision handed out

storeVars == <<next_revision, entries, ledger>>
vars == <<clock, next_revision, entries, call, reply, ledger>>

Slots == Scopes \X Keys
Revisions == 1..MaxRevision
Times == 0..MaxMillis

Entry == [value : Values, revision : Revisions, expires_at : Times]

GrantCall == [op : {"put"}, slot : Slots, value : Values, now : Times, expires_at : Times]
ExtendCall == [op : {"extend"}, slot : Slots, expected : Revisions,
               now : Times, expires_at : Times]
TakeCall == [op : {"take"}, slot : Slots, expected : Revisions, now : Times]
PlainCall == [op : {"get", "remove"}, slot : Slots, now : Times]
Call == GrantCall \cup ExtendCall \cup TakeCall \cup PlainCall

\* An answer about a revision. The answers of the code name the revision, show
\* the value or the expiry, each what its caller needs; here they keep all three.
Seen == [tag : {"Inserted", "Existing", "Some", "Extended", "RevisionMismatch", "Taken"},
         slot : Slots, revision : Revisions, value : Values, expires_at : Times]
Plain == [tag : {"None", "Missing", "Applied", "Unchanged", "Conflict", "InvalidArgument"}]

History == [fate : {"unissued", "live", "renewed", "taken", "removed", "expired"},
            slot : Slots \cup {NoSlot}, value : Values \cup {NoValue}, granted : Times]

Unissued == [fate |-> "unissued", slot |-> NoSlot, value |-> NoValue, granted |-> 0]

ASSUME ModelValueAssumption ==
    /\ Absent \notin Entry /\ Idle \notin Call /\ Idle \notin Seen \cup Plain
    /\ NoSlot \notin Slots /\ NoValue \notin Values

-----------------------------------------------------------------------------
(* MonotonicTime::checked_add *)

AsMillis(d) == d \div TicksPerMilli

\* A nonzero duration below one millisecond is refused, and so is an overflow.
CanAdd(t, d) ==
    /\ d = 0 \/ AsMillis(d) # 0
    /\ t + AsMillis(d) <= MaxMillis

\* put_if_absent and compare_and_extend also refuse a zero ttl.
Grantable(ttl) == ttl # 0 /\ CanAdd(clock, ttl)

-----------------------------------------------------------------------------
Init ==
    /\ clock = 0
    /\ next_revision = 0
    /\ entries = [s \in Slots |-> Absent]
    /\ call = [c \in Callers |-> Idle]
    /\ reply = [c \in Callers |-> Idle]
    /\ ledger = [r \in Revisions |-> Unissued]

\* Mutant: the clock is set to the duration instead of moved on by it.
AdvanceTo(d) ==
    /\ CanAdd(clock, d)
    /\ clock' = AsMillis(d)
    /\ UNCHANGED <<next_revision, entries, call, reply, ledger>>

advance(d) ==
    /\ CanAdd(clock, d)
    /\ clock' = clock + AsMillis(d)
    /\ UNCHANGED <<next_revision, entries, call, reply, ledger>>

\* A refused ttl returns before the lock is asked for.
RefuseTtl(c, ttl) ==
    /\ call[c] = Idle
    /\ ~Grantable(ttl)
    /\ reply' = [reply EXCEPT ![c] = [tag |-> "InvalidArgument"]]
    /\ UNCHANGED <<clock, next_revision, entries, call, ledger>>

Begin(c, request) ==
    /\ call[c] = Idle
    /\ call' = [call EXCEPT ![c] = request]
    /\ reply' = [reply EXCEPT ![c] = Idle]
    /\ UNCHANGED <<clock, next_revision, entries, ledger>>

BeginPut(c, s, v, ttl) ==
    /\ Grantable(ttl)
    /\ Begin(c, [op |-> "put", slot |-> s, value |-> v,
                 now |-> clock, expires_at |-> clock + AsMillis(ttl)])

\* Callers only know revisions the store has already returned to someone.
BeginExtend(c, s, r, ttl) ==
    /\ r <= next_revision
    /\ Grantable(ttl)
    /\ Begin(c, [op |-> "extend", slot |-> s, expected |-> r,
                 now |-> clock, expires_at |-> clock + AsMillis(ttl)])

BeginTake(c, s, r) ==
    /\ r <= next_revision
    /\ Begin(c, [op |-> "take", slot |-> s, expected |-> r, now |-> clock])

BeginPlain(c, s, op) == Begin(c, [op |-> op, slot |-> s, now |-> clock])

-----------------------------------------------------------------------------
(* The critical sections.  Each starts with purge_if_expired, whose outcome *)
(* for the slot is Live: the entry survives the purge exactly when it is    *)
(* there and the sampled time is before its expiry.                         *)

\* Mutant: an entry counts as expired one millisecond early.
LiveBarely(s, now) == entries[s] # Absent /\ now + 1 < entries[s].expires_at

Live(s, now) == entries[s] # Absent /\ now < entries[s].expires_at

Close(s, fate) ==
    IF entries[s] = Absent THEN ledger
    ELSE [ledger EXCEPT ![entries[s].revision].fate = fate]

\* Mutant: the entry is answered from but left in the map.
DeleteForgotten(s, fate) ==
    /\ ledger' = Close(s, fate)
    /\ UNCHANGED <<entries, next_revision>>

Delete(s, fate) ==
    /\ entries' = [entries EXCEPT ![s] = Absent]
    /\ ledger' = Close(s, fate)
    /\ UNCHANGED next_revision

\* Mutant: an expired entry is hidden, not removed.
PurgeLater(s) == UNCHANGED storeVars

purge_if_expired(s) == Delete(s, "expired")

Answer(c, answer) ==
    /\ call' = [call EXCEPT ![c] = Idle]
    /\ reply' = [reply EXCEPT ![c] = answer]
    /\ UNCHANGED clock

Show(tag, s, e) ==
    [tag |-> tag, slot |-> s, revision |-> e.revision, value |-> e.value,
     expires_at |-> e.expires_at]

\* Mutant: the counter is read but never stored back.
FirstRevision == 1

successor == next_revision + 1

\* Store v under the next revision; whatever the slot held ends with `fate`.
Grant(c, tag, v, fate) ==
    LET s == call[c].slot
        r == successor
        e == [value |-> v, revision |-> r, expires_at |-> call[c].expires_at]
    IN  /\ next_revision' = r
        /\ entries' = [entries EXCEPT ![s] = e]
        /\ ledger' = [Close(s, fate) EXCEPT
                        ![r] = [fate |-> "live", slot |-> s, value |-> v,
                                granted |-> call[c].now]]
        /\ Answer(c, Show(tag, s, e))

put_if_absent(c) ==
    LET s == call[c].slot IN
    /\ call[c] # Idle /\ call[c].op = "put"
    /\ \/ /\ Live(s, call[c].now)
          /\ Answer(c, Show("Existing", s, entries[s]))
          /\ UNCHANGED storeVars
       \/ /\ ~Live(s, call[c].now)
          /\ next_revision < MaxRevision
          /\ Grant(c, "Inserted", call[c].value, "expired")
       \/ /\ ~Live(s, call[c].now)
          /\ next_revision = MaxRevision
          /\ purge_if_expired(s)
          /\ Answer(c, [tag |-> "Conflict"])

get(c) ==
    LET s == call[c].slot IN
    /\ call[c] # Idle /\ call[c].op = "get"
    /\ \/ /\ Live(s, call[c].now)
          /\ Answer(c, Show("Some", s, entries[s]))
          /\ UNCHANGED storeVars
       \/ /\ ~Live(s, call[c].now)
          /\ purge_if_expired(s)
          /\ Answer(c, [tag |-> "None"])

\* The two ways a conditional operation declines.
Decline(c) ==
    LET s == call[c].slot IN
    \/ /\ ~Live(s, call[c].now)
       /\ purge_if_expired(s)
       /\ Answer(c, [tag |-> "Missing"])
    \/ /\ Live(s, call[c].now)
       /\ entries[s].revision # call[c].expected
       /\ Answer(c, Show("RevisionMismatch", s, entries[s]))
       /\ UNCHANGED storeVars

Matches(c) ==
    /\ Live(call[c].slot, call[c].now)
    /\ entries[call[c].slot].revision = call[c].expected

compare_and_extend(c) ==
    LET s == call[c].slot IN
    /\ call[c] # Idle /\ call[c].op = "extend"
    /\ \/ Decline(c)
       \/ /\ Matches(c)
          /\ next_revision < MaxRevision
          /\ Grant(c, "Extended", entries[s].value, "renewed")
       \/ /\ Matches(c)
          /\ next_revision = MaxRevision
          /\ Answer(c, [tag |-> "Conflict"])
          /\ UNCHANGED storeVars

compare_and_take(c) ==
    LET s == call[c].slot IN
    /\ call[c] # Idle /\ call[c].op = "take"
    /\ \/ Decline(c)
       \/ /\ Matches(c)
          /\ Delete(s, "taken")
          /\ Answer(c, Show("Taken", s, entries[s]))

remove(c) ==
    LET s == call[c].slot IN
    /\ call[c] # Idle /\ call[c].op = "remove"
    /\ \/ /\ Live(s, call[c].now)
          /\ Delete(s, "removed")
          /\ Answer(c, [tag |-> "Applied"])
       \/ /\ ~Live(s, call[c].now)
          /\ purge_if_expired(s)
          /\ Answer(c, [tag |-> "Unchanged"])

Invoke(c) ==
    \/ \E ttl \in Ttls : RefuseTtl(c, ttl)
    \/ \E s \in Slots, v \in Values, ttl \in Ttls : BeginPut(c, s, v, ttl)
    \/ \E s \in Slots, r \in Revisions, ttl \in Ttls : BeginExtend(c, s, r, ttl)
    \/ \E s \in Slots, r \in Revisions : BeginTake(c, s, r)
    \/ \E s \in Slots, op \in {"get", "remove"} : BeginPlain(c, s, op)

Return(c) ==
    \/ put_if_absent(c) \/ get(c) \/ remove(c)
    \/ compare_and_extend(c) \/ compare_and_take(c)

Next ==
    \/ \E d \in Advances : advance(d)
    \/ \E c \in Callers : Invoke(c) \/ Return(c)

Spec == Init /\ [][Next]_vars

-----------------------------------------------------------------------------
TypeOK ==
    /\ clock \in Times
    /\ next_revision \in 0..MaxRevision
    /\ entries \in [Slots -> Entry \cup {Absent}]
    /\ call \in [Callers -> Call \cup {Idle}]
    /\ reply \in [Callers -> Seen \cup Plain \cup {Idle}]
    /\ ledger \in [Revisions -> History]

\* The map and the history of revisions tell the same story: an entry sits in
\* the slot and with the value its revision was granted for, a live revision is
\* the one its slot holds, and revisions above the counter were never used.
EntriesMatchLedger ==
    /\ \A s \in Slots : entries[s] # Absent =>
          LET h == ledger[entries[s].revision] IN
          h.fate = "live" /\ h.slot = s /\ h.value = entries[s].value
    /\ \A r \in Revisions :
          /\ ledger[r].fate = "live" =>
                /\ ledger[r].slot \in Slots
                /\ entries[ledger[r].slot] # Absent
                /\ entries[ledger[r].slot].revision = r
          /\ ledger[r].fate = "unissued" <=> r > next_revision

\* A call held up before the lock carries a time of the past, never of the
\* future, and a renewal was begun after the lease it renews was granted.
SamplesInThePast ==
    /\ \A c \in Callers : call[c] # Idle =>
          /\ call[c].now <= clock
          /\ call[c].op = "extend" =>
                /\ call[c].expected <= next_revision
                /\ ledger[call[c].expected].granted <= call[c].now
    /\ \A r \in Revisions : ledger[r].granted <= clock

\* What a caller was shown stays true of that revision for good: the tenant and
\* key it asked about, and the value first stored there.  A Taken answer means
\* the revision ended by that take.
RepliesAreTrue ==
    \A c \in Callers : reply[c] \in Seen =>
        /\ ledger[reply[c].revision].slot = reply[c].slot
        /\ ledger[reply[c].revision].value = reply[c].value
        /\ reply[c].tag = "Taken" => ledger[reply[c].revision].fate = "taken"

\* Of all callers racing on one revision, at most one holds a Taken answer.
OneTaker ==
    \A c, d \in Callers :
        (/\ reply[c] \in Seen /\ reply[c].tag = "Taken"
         /\ reply[d] \in Seen /\ reply[d].tag = "Taken"
         /\ reply[c].revision = reply[d].revision) => c = d

\* What callers are told, together: true of the revision, and taken by one only.
AnswersAreTrue == RepliesAreTrue /\ OneTaker

\* The inductive part: the types, the agreement of the map with the history of
\* revisions, and that a call delayed before the lock holds a time of the past.
Inv == TypeOK /\ EntriesMatchLedger /\ SamplesInThePast

\* Purging never costs a holder time it was granted: however late the purging
\* call reaches the lock, the value it drops had expired on the clock.
PurgeOnlyExpired ==
    [][\A s \in Slots :
          (entries[s] # Absent /\ ledger'[entries[s].revision].fate = "expired"
             /\ ledger[entries[s].revision].fate = "live")
          => entries[s].expires_at <= clock]_vars

\* A renewal is never granted from an earlier instant than the lease it
\* replaces, so renewing with the same ttl cannot shorten a lease, however long
\* the renewing caller was held up before the lock.
RenewalNeverRewinds ==
    [][\A s \in Slots :
          (entries[s] # Absent /\ ledger'[entries[s].revision].fate = "renewed"
             /\ ledger[entries[s].revision].fate = "live")
          => ledger[entries[s].revision].granted
                <= ledger'[next_revision'].granted]_vars

\* store.rs, TtlStore: "must treat `now >= expires_at` as absent and must never
\* resurrect an expired value".  A value whose expiry the clock has reached does
\* not come back to life under a later expiry.
NeverResurrects ==
    [][\A s \in Slots :
          (entries[s] # Absent /\ entries[s].expires_at <= clock
             /\ ledger'[entries[s].revision].fate = "renewed")
          => entries'[s].expires_at <= clock]_vars

\* The store implements the promise of RevisionLedger; the instant of the grant
\* is the detail the promise does not mention.
Promise == INSTANCE RevisionLedger WITH
    ledger <- [r \in Revisions |->
                 [fate |-> ledger[r].fate, slot |-> ledger[r].slot,
                  value |-> ledger[r].value]]

KeepsPromise == Promise!Spec
ClosedIsFinal == Promise!ClosedIsFinal
=============================================================================
