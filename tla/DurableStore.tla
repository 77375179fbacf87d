---------------------------- MODULE DurableStore ----------------------------
(***************************************************************************)
(* InMemoryStateStore: optimistic snapshot transactions over sessions,     *)
(* reservations and the transactional outbox                               *)
(* (crates/qingyin-testkit/src/durable.rs, qingyin-state/src/model.rs).    *)
(*                                                                         *)
(* A transaction works on a clone of the whole store and touches the       *)
(* shared one twice, under its mutex: to clone it and to replace it.  An   *)
(* operation that is refused, that only reads reservations or entries, or  *)
(* that finds the record it would insert already there leaves every        *)
(* variable as it is, and so is no action.                                 *)
(***************************************************************************)
EXTENDS SessionLifecycle, Sequences, SequencesExt

CONSTANTS Txns,            \* transaction handles in use at one time
          Scopes,          \* tenants
          SessionIds, ReservationIds, OutboxIds,
          Contents,        \* the immutable rest of a record, as far as it can differ
          FirstSessions,   \* states clients insert sessions in, with the revisions
          Timestamps,
          MaxGeneration,   \* u64::MAX for StoreData.generation
          None, NoTxn

ASSUME StoreBounds ==
    /\ Timestamps \subseteq Nat
    /\ MaxGeneration \in Nat /\ MaxSessionRevision \in Nat
    /\ FirstSessions \subseteq SessionState \X (0..MaxSessionRevision)
    /\ \A first \in FirstSessions : \E s \in SessionState : Joined(s, first[1], first[2])

VARIABLES shared,   \* the store behind the mutex
          txn,      \* the open or finished transaction of each handle
          moves,    \* history: transitions written by each transaction, per session
          moved,    \* history: transitions written by committed transactions
          told      \* history: the session records last answered in each transaction

vars == <<shared, txn, moves, moved, told>>

SessionKeys == Scopes \X SessionIds
ReservationKeys == Scopes \X ReservationIds
OutboxKeys == Scopes \X OutboxIds

SessionRecord == [content : Contents, state : SessionState, revision : 0..MaxSessionRevision,
                  created_at_ms : Timestamps, updated_at_ms : Timestamps]
OutboxRecord == [content : Contents, occurred_at_ms : Timestamps]
OutboxEntry == [record : OutboxRecord, acknowledged_at_ms : Timestamps \cup {None}]

StoreData == [generation : 0..MaxGeneration,
              sessions : [SessionKeys -> SessionRecord \cup {None}],
              reservations : [ReservationKeys -> Contents \cup {None}],
              outbox : [OutboxKeys -> OutboxEntry \cup {None}],
              outbox_order : Seq(OutboxKeys)]

Transaction == [base_generation : 0..MaxGeneration, working : StoreData, dirty : BOOLEAN,
                state : {"active", "committed", "conflicted", "rolled_back"}]

Empty == [generation |-> 0,
          sessions |-> [k \in SessionKeys |-> None],
          reservations |-> [k \in ReservationKeys |-> None],
          outbox |-> [k \in OutboxKeys |-> None],
          outbox_order |-> <<>>]

NoMoves == [k \in SessionKeys |-> 0]
NoAnswers == [k \in SessionKeys |-> None]

ASSUME NoneAssumption ==
    /\ None \notin SessionRecord \cup Contents \cup OutboxEntry \cup Timestamps
    /\ NoTxn \notin Transaction

Init ==
    /\ shared = Empty
    /\ txn = [t \in Txns |-> NoTxn]
    /\ moves = [t \in Txns |-> NoMoves]
    /\ moved = NoMoves
    /\ told = [t \in Txns |-> NoAnswers]

ensure_active(t) == txn[t] # NoTxn /\ txn[t].state = "active"

-----------------------------------------------------------------------------
\* A handle is free again once its transaction is finalized.
begin(t) ==
    /\ ~ensure_active(t)
    /\ txn' = [txn EXCEPT ![t] = [base_generation |-> shared.generation,
                                  working |-> shared, dirty |-> FALSE, state |-> "active"]]
    /\ moves' = [moves EXCEPT ![t] = NoMoves]
    /\ told' = [told EXCEPT ![t] = NoAnswers]
    /\ UNCHANGED <<shared, moved>>

\* Mutant: the transaction is not marked dirty.
WriteQuietly(t, working) ==
    /\ txn' = [txn EXCEPT ![t].working = working]
    /\ UNCHANGED <<shared, moved>>

Write(t, working) ==
    /\ txn' = [txn EXCEPT ![t].working = working, ![t].dirty = TRUE]
    /\ UNCHANGED <<shared, moved>>

Answer(t, k, record) == told' = [told EXCEPT ![t][k] = record]

session(t, k) ==
    /\ ensure_active(t)
    /\ txn[t].working.sessions[k] # None
    /\ Answer(t, k, txn[t].working.sessions[k])
    /\ UNCHANGED <<shared, txn, moves, moved>>

\* Records clients hold before the store does: as SessionRecord::new makes them, or
\* moved on by transitioned, be it in a transaction that was never committed.
FirstRecords ==
    {r \in SessionRecord :
        /\ <<r.state, r.revision>> \in FirstSessions
        /\ r.created_at_ms <= r.updated_at_ms
        /\ r.revision = 0 => r.created_at_ms = r.updated_at_ms}

\* A record brings the transitions it went through before along.
insert_session(t, k, record) ==
    LET w == txn[t].working IN
    /\ ensure_active(t)
    /\ w.sessions[k] = None
    /\ Write(t, [w EXCEPT !.sessions[k] = record])
    /\ moves' = [moves EXCEPT ![t][k] = @ + record.revision]
    /\ UNCHANGED told

\* A retry finds the session where it is to go: it is answered before its revision
\* is compared.
transition_session(t, k, expected_revision, next, at) ==
    LET w == txn[t].working
        current == w.sessions[k]
    IN  /\ ensure_active(t)
        /\ current # None
        /\ \/ /\ current.state = next
              /\ Answer(t, k, current)
              /\ UNCHANGED <<shared, txn, moves, moved>>
           \/ /\ current.state # next
              /\ current.revision = expected_revision
              /\ CanMove(current, next, at)
              /\ Write(t, [w EXCEPT !.sessions[k] = transitioned(current, next, at)])
              /\ Answer(t, k, transitioned(current, next, at))
              /\ moves' = [moves EXCEPT ![t][k] = @ + 1]

insert_reservation(t, k, content) ==
    LET w == txn[t].working IN
    /\ ensure_active(t)
    /\ w.reservations[k] = None
    /\ Write(t, [w EXCEPT !.reservations[k] = content])
    /\ UNCHANGED <<moves, told>>

\* Mutant: newest first.
PushFront(order, k) == <<k>> \o order

push(order, k) == Append(order, k)

append_outbox(t, k, record) ==
    LET w == txn[t].working IN
    /\ ensure_active(t)
    /\ w.outbox[k] = None
    /\ Write(t, [w EXCEPT !.outbox_order = push(@, k),
                          !.outbox[k] = [record |-> record, acknowledged_at_ms |-> None]])
    /\ UNCHANGED <<moves, told>>

acknowledge_outbox(t, k, at) ==
    LET w == txn[t].working IN
    /\ ensure_active(t)
    /\ w.outbox[k] # None
    /\ w.outbox[k].acknowledged_at_ms = None
    /\ at >= w.outbox[k].record.occurred_at_ms
    /\ Write(t, [w EXCEPT !.outbox[k].acknowledged_at_ms = at])
    /\ UNCHANGED <<moves, told>>

\* The working copy of a finalized transaction can no longer be read, and what it
\* answered stands only if it was committed.
Finalize(t, state) ==
    /\ txn' = [txn EXCEPT ![t].state = state, ![t].working = Empty]
    /\ moves' = [moves EXCEPT ![t] = NoMoves]
    /\ told' = IF state = "committed" THEN told ELSE [told EXCEPT ![t] = NoAnswers]

\* Mutant: the last to commit wins.
OnlyOverflows(t) == shared.generation = MaxGeneration

Conflicts(t) ==
    \/ shared.generation # txn[t].base_generation
    \/ shared.generation = MaxGeneration

\* A transaction that wrote nothing commits without looking at the store.
commit(t) ==
    /\ ensure_active(t)
    /\ \/ /\ ~txn[t].dirty
          /\ Finalize(t, "committed")
          /\ UNCHANGED <<shared, moved>>
       \/ /\ txn[t].dirty
          /\ Conflicts(t)
          /\ Finalize(t, "conflicted")
          /\ UNCHANGED <<shared, moved>>
       \/ /\ txn[t].dirty
          /\ ~Conflicts(t)
          /\ Finalize(t, "committed")
          /\ shared' = [txn[t].working EXCEPT !.generation = shared.generation + 1]
          /\ moved' = [k \in SessionKeys |-> moved[k] + moves[t][k]]

rollback(t) ==
    /\ ensure_active(t)
    /\ Finalize(t, "rolled_back")
    /\ UNCHANGED <<shared, moved>>

Next ==
    \E t \in Txns :
        \/ begin(t) \/ commit(t) \/ rollback(t)
        \/ \E k \in SessionKeys :
              \/ session(t, k)
              \/ \E record \in FirstRecords : insert_session(t, k, record)
              \/ \E r \in 0..MaxSessionRevision, s \in SessionState, at \in Timestamps :
                    transition_session(t, k, r, s, at)
        \/ \E k \in ReservationKeys, c \in Contents : insert_reservation(t, k, c)
        \/ \E k \in OutboxKeys, at \in Timestamps :
              \/ \E c \in Contents :
                    append_outbox(t, k, [content |-> c, occurred_at_ms |-> at])
              \/ acknowledge_outbox(t, k, at)

Spec == Init /\ [][Next]_vars

\* The entries a dispatcher of one tenant is given, in append order.
pending_outbox(data, scope, limit) ==
    LET pending == SelectSeq(data.outbox_order,
                       LAMBDA k : k[1] = scope /\ data.outbox[k].acknowledged_at_ms = None)
    IN  SubSeq(pending, 1, IF limit < Len(pending) THEN limit ELSE Len(pending))

-----------------------------------------------------------------------------
TypeOK ==
    /\ shared \in StoreData
    /\ txn \in [Txns -> Transaction \cup {NoTxn}]
    /\ moves \in [Txns -> [SessionKeys -> Nat]]
    /\ moved \in [SessionKeys -> Nat]
    /\ told \in [Txns -> [SessionKeys -> SessionRecord \cup {None}]]

\* No committed transition is ever lost to a concurrent transaction: a session's
\* revision is the number of transitions whose commit returned Ok, with those its
\* record brought along.
NoLostTransition ==
    \A k \in SessionKeys : shared.sessions[k] # None => shared.sessions[k].revision = moved[k]

\* Skipping the store on a clean commit is safe: with nothing written and no
\* commit since begin, the working copy is still the store.
CleanMeansUnchanged ==
    \A t \in Txns :
        (ensure_active(t) /\ ~txn[t].dirty /\ txn[t].base_generation = shared.generation)
        => txn[t].working = shared

\* The append order names every stored outbox entry exactly once, in the store
\* and in every working copy, so no entry is dispatched twice or never.
OutboxOrderIsComplete ==
    \A data \in {shared} \cup {txn[t].working : t \in {u \in Txns : txn[u] # NoTxn}} :
        /\ IsInjective(data.outbox_order)
        /\ {data.outbox_order[i] : i \in DOMAIN data.outbox_order}
              = {k \in OutboxKeys : data.outbox[k] # None}

\* One session record comes from another along the lifecycle, one revision per
\* transition, its identity untouched and its clock not back.
Follows(old, new) ==
    /\ new # None
    /\ new.revision >= old.revision
    /\ Joined(old.state, new.state, new.revision - old.revision)
    /\ new.updated_at_ms >= old.updated_at_ms
    /\ new.content = old.content /\ new.created_at_ms = old.created_at_ms

\* What a session or transition_session of a committed transaction answered stands: the
\* store has that record or one that follows it, also when the caller was late, was
\* answered before its revision was compared, and committed without looking at the store.
AnswersHold ==
    \A t \in Txns, k \in SessionKeys :
        (txn[t] # NoTxn /\ txn[t].state = "committed" /\ told[t][k] # None)
        => Follows(told[t][k], shared.sessions[k])

\* Whatever one commit batches, sessions only move along the lifecycle.
SessionsFollowLifecycle ==
    [][\A k \in SessionKeys :
          shared.sessions[k] # None => Follows(shared.sessions[k], shared'.sessions[k])]_vars

\* A commit takes back nothing another one published: reservations and outbox
\* records stay, the order only grows, the first acknowledgement time stands.
NothingTakenBack ==
    [][/\ IsPrefix(shared.outbox_order, shared'.outbox_order)
       /\ \A k \in OutboxKeys : shared.outbox[k] # None =>
             /\ shared'.outbox[k].record = shared.outbox[k].record
             /\ shared.outbox[k].acknowledged_at_ms \in
                    {None, shared'.outbox[k].acknowledged_at_ms}
       /\ \A k \in ReservationKeys : shared.reservations[k] # None =>
             shared'.reservations[k] = shared.reservations[k]]_vars

\* What is still pending keeps its place: a page of pending entries starts with
\* those of the page before that were not acknowledged, in the same order.
PendingKeepsOrder ==
    [][\A scope \in Scopes :
          LET n == Len(shared.outbox_order)
              still == SelectSeq(pending_outbox(shared, scope, n),
                           LAMBDA k : shared'.outbox[k].acknowledged_at_ms = None)
          IN  pending_outbox(shared', scope, Len(still)) = still]_vars

\* The published outbox is only ever added to and acknowledged, by commits from
\* however old a snapshot (append_outbox, acknowledge_outbox, commit).
OutboxIsKept == NothingTakenBack /\ PendingKeepsOrder

\* Of the transactions that began on the same store, at most one wrote to it.
OneWriterPerGeneration ==
    \A t, u \in Txns :
        (/\ txn[t] # NoTxn /\ txn[t].dirty /\ txn[t].state = "committed"
         /\ txn[u] # NoTxn /\ txn[u].dirty /\ txn[u].state = "committed"
         /\ txn[t].base_generation = txn[u].base_generation) => t = u

\* What every begin, operation, commit and rollback leaves standing: the types and
\* limits, a truthful dirty flag, a complete outbox, one writer per generation, revisions
\* that count the committed transitions, and answers that the store bears out.
Inv ==
    /\ TypeOK /\ CleanMeansUnchanged /\ OutboxOrderIsComplete /\ OneWriterPerGeneration
    /\ NoLostTransition /\ AnswersHold
=============================================================================
