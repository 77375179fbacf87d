------------------------- MODULE DurableStoreProofs -------------------------
(***************************************************************************)
(* Why a commit of InMemoryStateStore may replace the whole store.  A      *)
(* working copy matters only while no commit has moved the generation on   *)
(* since its transaction began; so long, it is the store plus what the     *)
(* transaction did, and that only adds, acknowledges and transitions.      *)
(***************************************************************************)
EXTENDS DurableHistory, SequenceTheorems, TLAPS

CountOf(record) == IF record = None THEN 0 ELSE record.revision

\* The transaction is active and nothing was committed since it began.
OnStore(t) == ensure_active(t) /\ txn[t].base_generation = shared.generation

\* The generation only grows, and every commit that wrote moved it on.
Behind ==
    \A t \in Txns : txn[t] # NoTxn =>
        /\ txn[t].base_generation <= shared.generation
        /\ txn[t].dirty /\ txn[t].state = "committed"
              => txn[t].base_generation < shared.generation

\* Revisions count the transitions, committed and pending.
CountsAgree ==
    /\ \A k \in SessionKeys : CountOf(shared.sessions[k]) = moved[k]
    /\ \A t \in Txns : OnStore(t) =>
         \A k \in SessionKeys :
            CountOf(txn[t].working.sessions[k]) = moved[k] + moves[t][k]

SessionsFollow(data, later) ==
    \A k \in SessionKeys : data.sessions[k] # None => Follows(data.sessions[k], later.sessions[k])

\* Nothing published in data is taken back in later.
Keeps(data, later) ==
    /\ Len(data.outbox_order) <= Len(later.outbox_order)
    /\ \A i \in 1..Len(data.outbox_order) : later.outbox_order[i] = data.outbox_order[i]
    /\ \A k \in OutboxKeys : data.outbox[k] # None =>
         /\ later.outbox[k] # None
         /\ later.outbox[k].record = data.outbox[k].record
         /\ data.outbox[k].acknowledged_at_ms \in {None, later.outbox[k].acknowledged_at_ms}
    /\ \A k \in ReservationKeys : data.reservations[k] # None =>
         later.reservations[k] = data.reservations[k]

\* What a transaction may still commit only adds to the store.
WorkExtends ==
    \A t \in Txns : OnStore(t) =>
        SessionsFollow(shared, txn[t].working) /\ Keeps(shared, txn[t].working)

StoreInv == TypeOK /\ CleanMeansUnchanged /\ OutboxOrderIsComplete /\ OneWriterPerGeneration

IInv == StoreInv /\ Behind /\ CountsAgree /\ WorkExtends

\* What an open transaction has answered is in its working copy, which is at worst late
\* while nothing was written to it; what a committed one answered stands in the store.
Told(t) ==
    /\ ensure_active(t) =>
         /\ \A k \in SessionKeys : told[t][k] \in {None, txn[t].working.sessions[k]}
         /\ ~txn[t].dirty => SessionsFollow(txn[t].working, shared)
    /\ txn[t] # NoTxn /\ txn[t].state = "committed" =>
         \A k \in SessionKeys : told[t][k] # None => Follows(told[t][k], shared.sessions[k])

ToldInv == \A t \in Txns : Told(t)

-----------------------------------------------------------------------------
\* What is counted on both sides is left out.
LEMMA Cancel == \A x, a, b, c \in Nat : x + a = b + a + c => x = b + c
OBVIOUS

\* A walk of n transitions from a to b.
IsWalk(path, a, b, n) ==
    /\ path \in [0..n -> SessionState] /\ path[0] = a /\ path[n] = b
    /\ \A i \in 1..n : can_transition_to(path[i - 1], path[i])

\* Two states are joined by a walk.
LEMMA JoinedByWalk ==
  ASSUME NEW a \in SessionState, NEW b \in SessionState, NEW n \in 0..MaxSessionRevision
  PROVE  Joined(a, b, n) <=> \E path : IsWalk(path, a, b, n)
<1>1. Ends[n] = {<<path[0], path[n]>> : path \in Walks[n]}
  BY DEF Ends
<1>2. Walks[n] = {path \in [0..n -> SessionState] :
                    \A i \in 1..n : can_transition_to(path[i - 1], path[i])}
  BY DEF Walks
<1>3. Joined(a, b, n) <=> \E path \in Walks[n] : path[0] = a /\ path[n] = b
  BY <1>1 DEF Joined
<1>4. \A path : path \in Walks[n] /\ path[0] = a /\ path[n] = b <=> IsWalk(path, a, b, n)
  BY <1>2 DEF IsWalk
<1> QED BY <1>3, <1>4

\* Transitions compose.
LEMMA JoinedJoins ==
  ASSUME NEW a \in SessionState, NEW b \in SessionState, NEW c \in SessionState,
         NEW m \in 0..MaxSessionRevision, NEW n \in 0..MaxSessionRevision,
         m + n \in 0..MaxSessionRevision, Joined(a, b, m), Joined(b, c, n)
  PROVE  Joined(a, c, m + n)
<1>a. PICK p : IsWalk(p, a, b, m)
  BY JoinedByWalk
<1>b. PICK q : IsWalk(q, b, c, n)
  BY JoinedByWalk
<1>1. /\ p \in [0..m -> SessionState] /\ p[0] = a /\ p[m] = b
      /\ \A i \in 1..m : can_transition_to(p[i - 1], p[i])
  BY <1>a DEF IsWalk
<1>2. /\ q \in [0..n -> SessionState] /\ q[0] = b /\ q[n] = c
      /\ \A i \in 1..n : can_transition_to(q[i - 1], q[i])
  BY <1>b DEF IsWalk
<1> DEFINE path == [i \in 0..(m + n) |-> IF i <= m THEN p[i] ELSE q[i - m]]
<1>3. path \in [0..(m + n) -> SessionState]
  BY <1>1, <1>2
<1>4. path[0] = a /\ path[m + n] = c
  BY <1>1, <1>2
<1>5. ASSUME NEW i \in 1..(m + n) PROVE can_transition_to(path[i - 1], path[i])
  <2>1. CASE i <= m
    BY <1>1, <2>1
  <2>2. CASE i > m
    <3>1. path[i - 1] = q[i - m - 1] /\ path[i] = q[i - m] /\ i - m \in 1..n
      BY <1>1, <1>2, <2>2
    <3> QED BY <1>2, <3>1
  <2> QED BY <2>1, <2>2
<1> HIDE DEF path
<1>6. IsWalk(path, a, c, m + n)
  BY <1>3, <1>4, <1>5 DEF IsWalk
<1> QED BY <1>6, JoinedByWalk

\* No transition at all, and one.
LEMMA JoinedByNone == ASSUME NEW a \in SessionState PROVE Joined(a, a, 0)
<1> DEFINE path == [i \in 0..0 |-> a]
<1>1. path \in [0..0 -> SessionState] /\ path[0] = a
  OBVIOUS
<1>2. (\A i \in 1..0 : FALSE) /\ 0 \in 0..MaxSessionRevision
  BY StoreBounds
<1> HIDE DEF path
<1>3. IsWalk(path, a, a, 0)
  BY <1>1, <1>2 DEF IsWalk
<1> QED BY <1>2, <1>3, JoinedByWalk

\* A transition joins its two states.
LEMMA JoinedByOne ==
  ASSUME NEW a \in SessionState, NEW b \in SessionState, can_transition_to(a, b),
         1 \in 0..MaxSessionRevision
  PROVE  Joined(a, b, 1)
<1> DEFINE path == [i \in 0..1 |-> IF i = 0 THEN a ELSE b]
<1>1. path \in [0..1 -> SessionState] /\ path[0] = a /\ path[1] = b
  OBVIOUS
<1>2. \A i \in 1..1 : i = 1 /\ i - 1 = 0
  OBVIOUS
<1>3. \A i \in 1..1 : can_transition_to(path[i - 1], path[i])
  BY <1>1, <1>2
<1> HIDE DEF path
<1>4. IsWalk(path, a, b, 1)
  BY <1>1, <1>3 DEF IsWalk
<1> QED BY <1>4, JoinedByWalk

\* A record follows itself, by no transition.
LEMMA FollowsItself == ASSUME NEW r \in SessionRecord PROVE Follows(r, r)
<1>1. r # None /\ r.state \in SessionState /\ r.revision \in Nat /\ r.updated_at_ms \in Nat
  BY NoneAssumption, StoreBounds DEF SessionRecord
<1>2. Joined(r.state, r.state, 0) /\ r.revision - r.revision = 0
  BY <1>1, JoinedByNone
<1> QED BY <1>1, <1>2 DEF Follows

\* Following composes, as transitions do.
LEMMA FollowsOn ==
  ASSUME NEW a \in SessionRecord, NEW b \in SessionRecord, NEW c \in SessionRecord,
         Follows(a, b), Follows(b, c)
  PROVE  Follows(a, c)
<1> DEFINE m == b.revision - a.revision
<1> DEFINE n == c.revision - b.revision
<1>1. \A r \in SessionRecord :
        r # None /\ r.state \in SessionState /\ r.revision \in Nat /\ r.updated_at_ms \in Nat
  BY NoneAssumption, StoreBounds DEF SessionRecord
<1>2. /\ m \in 0..MaxSessionRevision /\ n \in 0..MaxSessionRevision
      /\ c.revision - a.revision = m + n /\ m + n \in 0..MaxSessionRevision
  BY <1>1, StoreBounds DEF Follows, SessionRecord
<1>3. Joined(a.state, b.state, m) /\ Joined(b.state, c.state, n)
  BY DEF Follows
<1>4. Joined(a.state, c.state, m + n)
  <2> HIDE DEF m, n
  <2> QED BY <1>1, <1>2, <1>3, JoinedJoins
<1>5. Joined(a.state, c.state, c.revision - a.revision)
  BY <1>2, <1>4
<1>6. c.revision >= a.revision /\ c.updated_at_ms >= a.updated_at_ms
  BY <1>1 DEF Follows
<1> QED BY <1>5, <1>6 DEF Follows

\* What follows all sessions of a copy follows those they followed.
LEMMA StillFollows ==
  ASSUME NEW a \in StoreData, NEW b \in StoreData, NEW c \in StoreData,
         SessionsFollow(a, b), SessionsFollow(b, c)
  PROVE  SessionsFollow(a, c)
<1> SUFFICES ASSUME NEW k \in SessionKeys, a.sessions[k] # None
             PROVE  Follows(a.sessions[k], c.sessions[k])
  BY DEF SessionsFollow
<1>1. Follows(a.sessions[k], b.sessions[k]) /\ b.sessions[k] # None
  BY DEF SessionsFollow, Follows
<1>2. Follows(b.sessions[k], c.sessions[k]) /\ c.sessions[k] # None
  BY <1>1 DEF SessionsFollow, Follows
<1>3. /\ a.sessions[k] \in SessionRecord /\ b.sessions[k] \in SessionRecord
      /\ c.sessions[k] \in SessionRecord
  BY <1>1, <1>2 DEF StoreData
<1> QED BY <1>1, <1>2, <1>3, FollowsOn

\* What was added to an addition was added.
LEMMA FollowsOnData ==
  ASSUME NEW a \in StoreData, NEW b \in StoreData, NEW c \in StoreData,
         SessionsFollow(a, b) /\ Keeps(a, b), SessionsFollow(b, c) /\ Keeps(b, c)
  PROVE  SessionsFollow(a, c) /\ Keeps(a, c)
<1>1. SessionsFollow(a, c)
  BY StillFollows
<1>2. /\ Len(a.outbox_order) \in Nat /\ Len(b.outbox_order) \in Nat
      /\ Len(c.outbox_order) \in Nat
  BY DEF StoreData
<1>3. Keeps(a, c)
  BY <1>2 DEF Keeps
<1> QED BY <1>1, <1>3

\* A store that is not written keeps everything.
LEMMA KeepsItself == ASSUME NEW w \in StoreData PROVE SessionsFollow(w, w) /\ Keeps(w, w)
<1>1. \A k \in SessionKeys : w.sessions[k] # None => w.sessions[k] \in SessionRecord
  BY DEF StoreData
<1>2. SessionsFollow(w, w)
  BY <1>1, FollowsItself DEF SessionsFollow
<1>3. Len(w.outbox_order) \in Nat
  BY DEF StoreData
<1> QED BY <1>2, <1>3 DEF Keeps

\* OutboxOrderIsComplete for one copy of the store.
OrderComplete(data) ==
    /\ IsInjective(data.outbox_order)
    /\ {data.outbox_order[i] : i \in DOMAIN data.outbox_order}
          = {k \in OutboxKeys : data.outbox[k] # None}

\* The store and the working copies are all the copies there are.
LEMMA EveryCopy ==
  ASSUME NEW sh, NEW tx, OrderComplete(sh),
         \A t \in Txns : tx[t] # NoTxn => OrderComplete(tx[t].working)
  PROVE  \A data \in {sh} \cup {tx[t].working : t \in {u \in Txns : tx[u] # NoTxn}} :
            OrderComplete(data)
OBVIOUS

\* And the order of each of them is complete.
LEMMA OneCopy ==
  ASSUME OutboxOrderIsComplete
  PROVE  /\ OrderComplete(shared)
         /\ \A t \in Txns : txn[t] # NoTxn => OrderComplete(txn[t].working)
BY DEF OutboxOrderIsComplete, OrderComplete

\* The type and the state of the transactions a handle may hold.
LEMMA HeldIsTyped ==
  ASSUME TypeOK
  PROVE  \A t \in Txns : txn[t] # NoTxn =>
            /\ txn[t] \in Transaction /\ txn[t].working \in StoreData
            /\ txn[t].base_generation \in Nat /\ txn[t].dirty \in BOOLEAN
BY DEF TypeOK, Transaction

-----------------------------------------------------------------------------
(* Every operation of a transaction writes its working copy and no more.   *)

\* A write that follows and keeps what was there leaves the invariant true.
LEMMA WriteInv ==
  ASSUME IInv, NEW t \in Txns, ensure_active(t), NEW w \in StoreData, Write(t, w),
         moves' \in [Txns -> [SessionKeys -> Nat]],
         told' \in [Txns -> [SessionKeys -> SessionRecord \cup {None}]],
         \A u \in Txns : u # t => moves'[u] = moves[u],
         \A k \in SessionKeys : CountOf(w.sessions[k]) + moves[t][k]
                                = CountOf(txn[t].working.sessions[k]) + moves'[t][k],
         SessionsFollow(txn[t].working, w), Keeps(txn[t].working, w), OrderComplete(w)
  PROVE  IInv'
<1>0. TypeOK /\ txn[t] # NoTxn /\ txn[t] \in Transaction /\ txn[t].working \in StoreData
  BY HeldIsTyped DEF IInv, StoreInv, ensure_active
<1>1. /\ txn'[t] = [txn[t] EXCEPT !.working = w, !.dirty = TRUE]
      /\ \A u \in Txns : u # t => txn'[u] = txn[u]
      /\ txn' \in [Txns -> Transaction \cup {NoTxn}]
      /\ shared' = shared /\ moved' = moved
  BY <1>0 DEF Write, TypeOK, Transaction
<1>2. /\ txn'[t] # NoTxn /\ txn'[t].working = w
      /\ txn'[t].dirty = TRUE /\ txn'[t].state = "active"
      /\ txn'[t].base_generation = txn[t].base_generation /\ txn[t].state = "active"
  <2>1. txn'[t] \in Transaction
    BY <1>0, <1>1 DEF Transaction
  <2>2. txn'[t] # NoTxn
    BY <2>1, NoneAssumption
  <2> QED BY <1>1, <2>2 DEF ensure_active
<1>3. TypeOK'
  BY <1>0, <1>1 DEF TypeOK
<1>4. CleanMeansUnchanged'
  <2>1. ASSUME NEW u \in Txns, ensure_active(u)', ~txn'[u].dirty,
               txn'[u].base_generation = shared'.generation
        PROVE  txn'[u].working = shared'
    <3>1. u # t
      BY <1>2, <2>1
    <3> QED BY <1>1, <2>1, <3>1 DEF IInv, StoreInv, CleanMeansUnchanged, ensure_active
  <2> QED BY <2>1 DEF CleanMeansUnchanged
<1>5. OutboxOrderIsComplete'
  <2>1. OrderComplete(shared') /\ \A u \in Txns : txn'[u] # NoTxn => OrderComplete(txn'[u].working)
    BY <1>1, <1>2, OneCopy DEF IInv, StoreInv
  <2> QED BY <2>1 DEF OutboxOrderIsComplete, OrderComplete
<1>6. OneWriterPerGeneration'
  <2>1. ASSUME NEW u \in Txns, NEW v \in Txns,
               txn'[u] # NoTxn, txn'[u].dirty, txn'[u].state = "committed",
               txn'[v] # NoTxn, txn'[v].dirty, txn'[v].state = "committed",
               txn'[u].base_generation = txn'[v].base_generation
        PROVE  u = v
    <3>1. u # t /\ v # t
      BY <1>2, <2>1
    <3> QED BY <1>1, <2>1, <3>1 DEF IInv, StoreInv, OneWriterPerGeneration
  <2> QED BY <2>1 DEF OneWriterPerGeneration
<1>7. Behind'
  BY <1>0, <1>1, <1>2 DEF IInv, Behind
<1>8. CountsAgree'
  <2>1. ASSUME NEW u \in Txns, OnStore(u)', NEW k \in SessionKeys
        PROVE  CountOf(txn'[u].working.sessions[k]) = moved'[k] + moves'[u][k]
    <3>1. OnStore(u)
      BY <1>1, <1>2, <2>1 DEF OnStore, ensure_active
    <3>2. CASE u # t
      BY <1>1, <3>1, <3>2 DEF IInv, CountsAgree
    <3>3. CASE u = t
      <4>1. CountOf(txn[t].working.sessions[k]) = moved[k] + moves[t][k]
        BY <3>1, <3>3 DEF IInv, CountsAgree
      <4>2. CountOf(w.sessions[k]) + moves[t][k] = moved[k] + moves[t][k] + moves'[t][k]
        BY <4>1
      <4>3. moved[k] \in Nat /\ moves[t][k] \in Nat /\ moves'[t][k] \in Nat
        BY <1>0 DEF TypeOK
      <4>4. CountOf(w.sessions[k]) \in Nat
        BY StoreBounds DEF CountOf, StoreData, SessionRecord
      <4> DEFINE x == CountOf(w.sessions[k])  a == moves[t][k]
                 b == moved[k]                c == moves'[t][k]
      <4>5. x = b + c
        <5>1. x \in Nat /\ a \in Nat /\ b \in Nat /\ c \in Nat /\ x + a = b + a + c
          BY <4>2, <4>3, <4>4
        <5> HIDE DEF x, a, b, c
        <5> QED BY <5>1, Cancel
      <4> QED BY <4>5, <1>1, <1>2, <3>3
    <3> QED BY <3>2, <3>3
  <2> QED BY <1>1, <2>1 DEF IInv, CountsAgree
<1>9. WorkExtends'
  <2>1. ASSUME NEW u \in Txns, OnStore(u)'
        PROVE  SessionsFollow(shared', txn'[u].working) /\ Keeps(shared', txn'[u].working)
    <3>1. OnStore(u)
      BY <1>1, <1>2, <2>1 DEF OnStore, ensure_active
    <3>2. SessionsFollow(shared, txn[u].working) /\ Keeps(shared, txn[u].working)
      BY <3>1 DEF IInv, WorkExtends
    <3>3. CASE u # t
      BY <1>1, <3>2, <3>3
    <3>4. CASE u = t
      <4>1. shared \in StoreData
        BY <1>0 DEF TypeOK
      <4>2. SessionsFollow(shared, w) /\ Keeps(shared, w)
        BY <1>0, <3>2, <3>4, <4>1, FollowsOnData
      <4> QED BY <4>2, <1>1, <1>2, <3>4
    <3> QED BY <3>3, <3>4
  <2> QED BY <2>1 DEF WorkExtends
<1> QED BY <1>3, <1>4, <1>5, <1>6, <1>7, <1>8, <1>9 DEF IInv, StoreInv

\* A copy of the store with one session record set.
LEMMA SetSession ==
  ASSUME NEW w \in StoreData, OrderComplete(w), NEW k \in SessionKeys, NEW r \in SessionRecord,
         w.sessions[k] = None \/ Follows(w.sessions[k], r)
  PROVE  LET v == [w EXCEPT !.sessions[k] = r] IN
         /\ v \in StoreData /\ OrderComplete(v)
         /\ SessionsFollow(w, v) /\ Keeps(w, v)
         /\ v.sessions[k] = r /\ \A j \in SessionKeys : j # k => v.sessions[j] = w.sessions[j]
<1> DEFINE v == [w EXCEPT !.sessions[k] = r]
<1>1. /\ v \in StoreData
      /\ v.outbox = w.outbox /\ v.outbox_order = w.outbox_order
      /\ v.reservations = w.reservations
      /\ v.sessions[k] = r /\ \A j \in SessionKeys : j # k => v.sessions[j] = w.sessions[j]
  BY DEF StoreData
<1> HIDE DEF v
<1>2. OrderComplete(v)
  BY <1>1 DEF OrderComplete
<1>3. SessionsFollow(w, w) /\ Keeps(w, w)
  BY KeepsItself
<1>4. Keeps(w, v)
  BY <1>1, <1>3 DEF Keeps
<1>5. SessionsFollow(w, v)
  BY <1>1, <1>3 DEF SessionsFollow
<1> QED BY <1>1, <1>2, <1>4, <1>5 DEF v

\* What the invariant says of an active transaction.
LEMMA Working ==
  ASSUME IInv, NEW t \in Txns, ensure_active(t)
  PROVE  TypeOK /\ txn[t].working \in StoreData /\ OrderComplete(txn[t].working)
BY HeldIsTyped, OneCopy DEF IInv, StoreInv, ensure_active

\* Clients insert records.
LEMMA FirstAreRecords == FirstRecords \subseteq SessionRecord
BY DEF FirstRecords

\* A new session enters with the transitions its record brings along.
LEMMA insert_sessionInv ==
  ASSUME IInv, NEW t \in Txns, NEW k \in SessionKeys, NEW r \in FirstRecords,
         insert_session(t, k, r)
  PROVE  IInv'
<1> DEFINE w == txn[t].working
           v == [w EXCEPT !.sessions[k] = r]
<1>1. /\ ensure_active(t) /\ w.sessions[k] = None /\ Write(t, v)
      /\ moves' = [moves EXCEPT ![t][k] = @ + r.revision] /\ told' = told
  BY DEF insert_session
<1>2. TypeOK /\ w \in StoreData /\ OrderComplete(w)
  BY <1>1, Working
<1>3. r \in SessionRecord /\ r.revision \in Nat /\ r # None
  <2>1. r \in SessionRecord
    BY FirstAreRecords
  <2> QED BY <2>1, StoreBounds, NoneAssumption DEF SessionRecord
<1> HIDE DEF w
<1>4. /\ v \in StoreData /\ OrderComplete(v) /\ SessionsFollow(w, v) /\ Keeps(w, v)
      /\ v.sessions[k] = r /\ \A j \in SessionKeys : j # k => v.sessions[j] = w.sessions[j]
  BY <1>1, <1>2, <1>3, SetSession
<1> HIDE DEF v
<1>5. /\ moves' \in [Txns -> [SessionKeys -> Nat]] /\ moves[t][k] \in Nat
      /\ moves'[t][k] = moves[t][k] + r.revision
      /\ \A j \in SessionKeys : j # k => moves'[t][j] = moves[t][j]
      /\ \A u \in Txns : u # t => moves'[u] = moves[u]
  <2>1. \A x \in Nat : x + r.revision \in Nat
    BY <1>3
  <2> QED BY <1>1, <1>2, <2>1 DEF TypeOK
<1>6. \A j \in SessionKeys : CountOf(v.sessions[j]) + moves[t][j]
                             = CountOf(w.sessions[j]) + moves'[t][j]
  <2>1. CountOf(v.sessions[k]) = r.revision /\ CountOf(w.sessions[k]) = 0
    BY <1>1, <1>3, <1>4 DEF CountOf
  <2>2. CountOf(v.sessions[k]) + moves[t][k] = CountOf(w.sessions[k]) + moves'[t][k]
    <3>1. \A x, y \in Nat : x + y = 0 + (y + x)
      OBVIOUS
    <3> QED BY <1>3, <1>5, <2>1, <3>1
  <2> QED BY <1>4, <1>5, <2>2
<1> QED BY <1>1, <1>2, <1>4, <1>5, <1>6, WriteInv DEF w, TypeOK

\* What is answered without a write: a session, and that it is already where it is to go.
LEMMA AnswerInv ==
  ASSUME IInv, NEW t \in Txns, NEW k \in SessionKeys, ensure_active(t),
         txn[t].working.sessions[k] # None, Answer(t, k, txn[t].working.sessions[k]),
         UNCHANGED <<shared, txn, moves, moved>>
  PROVE  IInv'
<1>1. TypeOK /\ txn[t].working.sessions[k] \in SessionRecord
  BY Working DEF StoreData
<1>2. TypeOK'
  BY <1>1 DEF TypeOK, Answer
<1> QED BY <1>2 DEF IInv, StoreInv, CleanMeansUnchanged, OutboxOrderIsComplete,
     OneWriterPerGeneration, Behind, CountsAgree, WorkExtends, OnStore, ensure_active

\* A transition is counted as it is written.
LEMMA transition_sessionInv ==
  ASSUME IInv, NEW t \in Txns, NEW k \in SessionKeys, NEW e \in 0..MaxSessionRevision,
         NEW s \in SessionState, NEW at \in Timestamps, transition_session(t, k, e, s, at)
  PROVE  IInv'
<1> DEFINE w == txn[t].working
           old == w.sessions[k]
           r == transitioned(old, s, at)
           v == [w EXCEPT !.sessions[k] = r]
<1>a. CASE old.state = s
  BY <1>a, AnswerInv DEF transition_session
<1>b. SUFFICES ASSUME old.state # s PROVE IInv'
  BY <1>a
<1>1. /\ ensure_active(t) /\ old # None /\ CanMove(old, s, at) /\ Write(t, v)
      /\ moves' = [moves EXCEPT ![t][k] = @ + 1] /\ Answer(t, k, r)
  BY <1>b DEF transition_session
<1>2. TypeOK /\ w \in StoreData /\ OrderComplete(w)
  BY <1>1, Working
<1>3. old \in SessionRecord
  BY <1>1, <1>2 DEF StoreData
<1> HIDE DEF w, old
<1>4. /\ r \in SessionRecord /\ r.revision = old.revision + 1 /\ r.state = s
      /\ r.updated_at_ms = at /\ r.content = old.content
      /\ r.created_at_ms = old.created_at_ms
      /\ old.state \in SessionState /\ old.revision \in Nat
      /\ can_transition_to(old.state, s) /\ at >= old.updated_at_ms
      /\ 1 \in 0..MaxSessionRevision
  <2>1. /\ old.state \in SessionState /\ old.revision \in 0..MaxSessionRevision
        /\ old.revision < MaxSessionRevision /\ MaxSessionRevision \in Nat
        /\ can_transition_to(old.state, s) /\ at >= old.updated_at_ms
    BY <1>1, <1>3, StoreBounds DEF SessionRecord, CanMove
  <2>2. /\ old.revision \in Nat /\ old.revision + 1 \in 0..MaxSessionRevision
        /\ 1 \in 0..MaxSessionRevision
    BY <2>1
  <2> QED BY <1>3, <2>1, <2>2 DEF SessionRecord, transitioned
<1> HIDE DEF r
<1>5. Follows(old, r)
  <2>1. Joined(old.state, s, 1) /\ r.revision - old.revision = 1 /\ r.revision >= old.revision
    BY <1>4, JoinedByOne
  <2>2. r # None
    BY <1>4, NoneAssumption
  <2> QED BY <1>4, <2>1, <2>2 DEF Follows
<1>6. /\ v \in StoreData /\ OrderComplete(v) /\ SessionsFollow(w, v) /\ Keeps(w, v)
      /\ v.sessions[k] = r /\ \A j \in SessionKeys : j # k => v.sessions[j] = w.sessions[j]
  BY <1>2, <1>4, <1>5, SetSession DEF old
<1> HIDE DEF v
<1>7. /\ moves' \in [Txns -> [SessionKeys -> Nat]] /\ moves[t] \in [SessionKeys -> Nat]
      /\ moves'[t][k] = moves[t][k] + 1
      /\ \A j \in SessionKeys : j # k => moves'[t][j] = moves[t][j]
      /\ \A u \in Txns : u # t => moves'[u] = moves[u]
  BY <1>1, <1>2 DEF TypeOK
<1>8. CountOf(v.sessions[k]) = CountOf(w.sessions[k]) + 1 /\ CountOf(w.sessions[k]) \in Nat
  BY <1>1, <1>4, <1>6, NoneAssumption DEF CountOf, old
<1>9. \A j \in SessionKeys : CountOf(v.sessions[j]) + moves[t][j]
                             = CountOf(w.sessions[j]) + moves'[t][j]
  <2>1. \A x, m \in Nat : (x + 1) + m = x + (m + 1)
    OBVIOUS
  <2>2. CountOf(v.sessions[k]) + moves[t][k] = CountOf(w.sessions[k]) + moves'[t][k]
    BY <1>7, <1>8, <2>1
  <2> QED BY <1>6, <1>7, <2>2
<1>10. told' \in [Txns -> [SessionKeys -> SessionRecord \cup {None}]]
  BY <1>1, <1>2, <1>4 DEF Answer, TypeOK
<1> QED BY <1>1, <1>6, <1>7, <1>9, <1>10, WriteInv DEF w

\* A copy that leaves the sessions alone keeps the counts.
LEMMA WriteRest ==
  ASSUME IInv, NEW t \in Txns, ensure_active(t), NEW v \in StoreData, Write(t, v),
         moves' = moves, told' = told, v.sessions = txn[t].working.sessions,
         Keeps(txn[t].working, v), OrderComplete(v)
  PROVE  IInv'
<1> DEFINE w == txn[t].working
<1>1. TypeOK /\ w \in StoreData
  BY Working
<1>2. SessionsFollow(w, w)
  BY <1>1, KeepsItself
<1>3. SessionsFollow(w, v)
  BY <1>2 DEF SessionsFollow
<1>4. /\ moves' \in [Txns -> [SessionKeys -> Nat]]
      /\ \A j \in SessionKeys : CountOf(v.sessions[j]) + moves[t][j]
                               = CountOf(w.sessions[j]) + moves'[t][j]
      /\ told' \in [Txns -> [SessionKeys -> SessionRecord \cup {None}]]
  BY <1>1 DEF TypeOK
<1> QED BY <1>3, <1>4, WriteInv

\* A reservation is only ever added.
LEMMA insert_reservationInv ==
  ASSUME IInv, NEW t \in Txns, NEW k \in ReservationKeys, NEW c \in Contents,
         insert_reservation(t, k, c)
  PROVE  IInv'
<1> DEFINE w == txn[t].working
           v == [w EXCEPT !.reservations[k] = c]
<1>1. ensure_active(t) /\ w.reservations[k] = None /\ Write(t, v) /\ moves' = moves /\ told' = told
  BY DEF insert_reservation
<1>2. w \in StoreData /\ OrderComplete(w)
  BY <1>1, Working
<1> HIDE DEF w
<1>3. /\ v \in StoreData /\ v.sessions = w.sessions
      /\ v.outbox = w.outbox /\ v.outbox_order = w.outbox_order
      /\ \A j \in ReservationKeys : j # k => v.reservations[j] = w.reservations[j]
  BY <1>2 DEF StoreData
<1> HIDE DEF v
<1>4. Keeps(w, v)
  BY <1>1, <1>3 DEF Keeps
<1>5. OrderComplete(v)
  BY <1>2, <1>3 DEF OrderComplete
<1> QED BY <1>1, <1>3, <1>4, <1>5, WriteRest DEF w

\* A new entry is not in the order yet, and joins it at the end.
LEMMA append_outboxInv ==
  ASSUME IInv, NEW t \in Txns, NEW k \in OutboxKeys, NEW record \in OutboxRecord,
         append_outbox(t, k, record)
  PROVE  IInv'
<1> DEFINE w == txn[t].working
           entry == [record |-> record, acknowledged_at_ms |-> None]
           v == [w EXCEPT !.outbox_order = push(@, k), !.outbox[k] = entry]
<1>1. ensure_active(t) /\ w.outbox[k] = None /\ Write(t, v) /\ moves' = moves /\ told' = told
  BY DEF append_outbox
<1>2. w \in StoreData /\ OrderComplete(w)
  BY <1>1, Working
<1>3. entry \in OutboxEntry /\ entry # None
  BY NoneAssumption DEF OutboxEntry
<1> HIDE DEF w, entry
<1> DEFINE o == w.outbox_order
<1>4. o \in Seq(OutboxKeys) /\ Len(o) \in Nat /\ DOMAIN o = 1..Len(o)
  BY <1>2 DEF StoreData
<1>5. /\ v.outbox_order = Append(o, k) /\ Append(o, k) \in Seq(OutboxKeys)
      /\ v \in StoreData /\ v.sessions = w.sessions /\ v.reservations = w.reservations
      /\ v.outbox[k] = entry
      /\ \A j \in OutboxKeys : j # k => v.outbox[j] = w.outbox[j]
  <2>1. v = [w EXCEPT !.outbox_order = Append(o, k), !.outbox[k] = entry]
    BY DEF push
  <2>2. Append(o, k) \in Seq(OutboxKeys)
    BY <1>4
  <2> HIDE DEF o, v
  <2> QED BY <1>2, <1>3, <2>1, <2>2 DEF StoreData
<1> HIDE DEF v, o
<1>6. /\ Len(v.outbox_order) = Len(o) + 1 /\ DOMAIN v.outbox_order = 1..(Len(o) + 1)
      /\ \A i \in 1..Len(o) : v.outbox_order[i] = o[i]
      /\ v.outbox_order[Len(o) + 1] = k
  BY <1>4, <1>5
<1>7. Keeps(w, v)
  BY <1>1, <1>5 DEF Keeps, o
<1>8. OrderComplete(v)
  <2>1. \A i \in 1..Len(o) : o[i] # k
    BY <1>1, <1>2 DEF OrderComplete, o
  <2>2. IsInjective(v.outbox_order)
    <3>1. \A i, j \in 1..Len(o) : o[i] = o[j] => i = j
      BY <1>2 DEF OrderComplete, IsInjective, o
    <3> SUFFICES ASSUME NEW i \in 1..(Len(o) + 1), NEW j \in 1..(Len(o) + 1),
                        v.outbox_order[i] = v.outbox_order[j]
                 PROVE  i = j
      BY <1>6 DEF IsInjective
    <3>2. CASE i \in 1..Len(o) /\ j \in 1..Len(o)
      BY <1>6, <3>1, <3>2
    <3>3. CASE i = Len(o) + 1 \/ j = Len(o) + 1
      BY <1>6, <2>1, <3>3
    <3> QED BY <1>4, <3>2, <3>3
  <2>3. {v.outbox_order[i] : i \in DOMAIN v.outbox_order}
          = {o[i] : i \in DOMAIN o} \cup {k}
    BY <1>4, <1>6
  <2>4. {j \in OutboxKeys : v.outbox[j] # None} = {j \in OutboxKeys : w.outbox[j] # None} \cup {k}
    BY <1>3, <1>5
  <2> QED BY <1>2, <2>2, <2>3, <2>4 DEF OrderComplete, o
<1> QED BY <1>1, <1>5, <1>7, <1>8, WriteRest DEF w

\* An acknowledgement sets a time that was not set.
LEMMA acknowledge_outboxInv ==
  ASSUME IInv, NEW t \in Txns, NEW k \in OutboxKeys, NEW at \in Timestamps,
         acknowledge_outbox(t, k, at)
  PROVE  IInv'
<1> DEFINE w == txn[t].working
           v == [w EXCEPT !.outbox[k].acknowledged_at_ms = at]
<1>1. /\ ensure_active(t) /\ w.outbox[k] # None /\ w.outbox[k].acknowledged_at_ms = None
      /\ Write(t, v) /\ moves' = moves /\ told' = told
  BY DEF acknowledge_outbox
<1>2. w \in StoreData /\ OrderComplete(w)
  BY <1>1, Working
<1> HIDE DEF w
<1>3. w.outbox[k] \in OutboxEntry
  BY <1>1, <1>2 DEF StoreData
<1> DEFINE entry == [w.outbox[k] EXCEPT !.acknowledged_at_ms = at]
<1>4. entry \in OutboxEntry /\ entry # None /\ entry.record = w.outbox[k].record
  BY <1>3, NoneAssumption DEF OutboxEntry
<1>5. v = [w EXCEPT !.outbox[k] = entry]
  BY <1>2 DEF StoreData
<1> HIDE DEF entry, v
<1>6. /\ v \in StoreData /\ v.sessions = w.sessions
      /\ v.reservations = w.reservations /\ v.outbox_order = w.outbox_order
      /\ v.outbox[k] = entry
      /\ \A j \in OutboxKeys : j # k => v.outbox[j] = w.outbox[j]
  BY <1>2, <1>4, <1>5 DEF StoreData
<1>7. Keeps(w, v)
  BY <1>1, <1>4, <1>6 DEF Keeps
<1>8. {j \in OutboxKeys : v.outbox[j] # None} = {j \in OutboxKeys : w.outbox[j] # None}
  BY <1>1, <1>4, <1>6
<1>9. OrderComplete(v)
  BY <1>2, <1>6, <1>8 DEF OrderComplete
<1> QED BY <1>1, <1>6, <1>7, <1>9, WriteRest DEF w

-----------------------------------------------------------------------------
(* The two times a transaction meets the store.                            *)

\* A new transaction starts as the store, with nothing written.
LEMMA beginInv == ASSUME IInv, NEW t \in Txns, begin(t) PROVE IInv'
<1> DEFINE tx == [base_generation |-> shared.generation, working |-> shared,
                  dirty |-> FALSE, state |-> "active"]
<1>1. /\ txn' = [txn EXCEPT ![t] = tx] /\ moves' = [moves EXCEPT ![t] = NoMoves]
      /\ shared' = shared /\ moved' = moved /\ told' = [told EXCEPT ![t] = NoAnswers]
  BY DEF begin
<1>2. TypeOK /\ shared \in StoreData /\ shared.generation \in Nat
  BY DEF IInv, StoreInv, TypeOK, StoreData
<1>3. /\ tx \in Transaction /\ tx # NoTxn /\ tx.dirty = FALSE /\ tx.working = shared
      /\ tx.base_generation = shared.generation /\ tx.state = "active"
  <2>1. tx \in Transaction
    BY <1>2 DEF Transaction, StoreData
  <2>2. tx # NoTxn
    BY <2>1, NoneAssumption
  <2> QED BY <2>1, <2>2
<1> HIDE DEF tx
<1>4. txn'[t] = tx /\ \A u \in Txns : u # t => txn'[u] = txn[u]
  BY <1>1, <1>2 DEF TypeOK
<1>5. NoMoves \in [SessionKeys -> Nat] /\ told' \in [Txns -> [SessionKeys -> SessionRecord \cup {None}]]
  BY <1>1, <1>2 DEF NoMoves, NoAnswers, TypeOK
<1>6. TypeOK'
  BY <1>1, <1>2, <1>3, <1>5 DEF TypeOK
<1>7. CleanMeansUnchanged'
  BY <1>1, <1>3 DEF IInv, StoreInv, CleanMeansUnchanged, ensure_active
<1>8. OutboxOrderIsComplete'
  <2>1. OrderComplete(shared') /\ \A u \in Txns : txn'[u] # NoTxn => OrderComplete(txn'[u].working)
    BY <1>1, <1>3, OneCopy DEF IInv, StoreInv
  <2> QED BY <2>1 DEF OutboxOrderIsComplete, OrderComplete
<1>9. OneWriterPerGeneration'
  <2>1. \A u \in Txns : (txn'[u] # NoTxn /\ txn'[u].dirty /\ txn'[u].state = "committed") => u # t
    BY <1>3, <1>4
  <2> QED BY <1>4, <2>1 DEF IInv, StoreInv, OneWriterPerGeneration
<1>10. Behind'
  BY <1>1, <1>2, <1>3 DEF IInv, Behind
<1>11. ASSUME NEW u \in Txns, OnStore(u)', u # t PROVE OnStore(u)
  BY <1>1, <1>11 DEF OnStore, ensure_active
<1>12. CountsAgree'
  <2>1. \A k \in SessionKeys : CountOf(shared.sessions[k]) = moved[k] + 0
    BY <1>2 DEF IInv, CountsAgree, TypeOK
  <2>2. \A k \in SessionKeys : moves'[t][k] = 0
    BY <1>1, <1>2 DEF TypeOK, NoMoves
  <2>3. \A u \in Txns : u # t => moves'[u] = moves[u]
    BY <1>1, <1>2 DEF TypeOK
  <2> QED BY <1>1, <1>3, <1>4, <1>11, <2>1, <2>2 DEF IInv, CountsAgree
<1>13. WorkExtends'
  <2>1. SessionsFollow(shared, shared) /\ Keeps(shared, shared)
    BY <1>2, KeepsItself
  <2> QED BY <1>1, <1>3, <1>4, <1>11, <2>1 DEF IInv, WorkExtends
<1> QED BY <1>6, <1>7, <1>8, <1>9, <1>10, <1>12, <1>13 DEF IInv, StoreInv

\* What is left of a working copy.
LEMMA EmptyIsTyped == Empty \in StoreData /\ OrderComplete(Empty)
<1>1. Empty \in StoreData
  BY StoreBounds DEF Empty, StoreData
<1> QED BY <1>1 DEF Empty, OrderComplete, IsInjective

\* A transaction that ends.
LEMMA Finalized ==
  ASSUME TypeOK, NEW t \in Txns, ensure_active(t),
         NEW state \in {"committed", "conflicted", "rolled_back"}, Finalize(t, state)
  PROVE  /\ \A u \in Txns : u # t => txn'[u] = txn[u] /\ moves'[u] = moves[u]
                                      /\ told'[u] = told[u]
         /\ txn' \in [Txns -> Transaction \cup {NoTxn}]
         /\ moves' \in [Txns -> [SessionKeys -> Nat]]
         /\ told' \in [Txns -> [SessionKeys -> SessionRecord \cup {None}]]
         /\ txn'[t] # NoTxn /\ txn'[t].state = state /\ state # "active"
         /\ txn'[t].dirty = txn[t].dirty /\ txn'[t].working = Empty
         /\ txn'[t].base_generation = txn[t].base_generation
         /\ state = "committed" => told'[t] = told[t]
<1>1. txn[t] \in Transaction
  BY DEF TypeOK, ensure_active
<1> DEFINE tx == [txn[t] EXCEPT !.state = state, !.working = Empty]
<1>2. /\ tx \in Transaction /\ tx.state = state /\ tx.working = Empty
      /\ tx.dirty = txn[t].dirty /\ tx.base_generation = txn[t].base_generation
  BY <1>1, EmptyIsTyped DEF Transaction
<1>3. txn' = [txn EXCEPT ![t] = tx]
  BY DEF Finalize
<1> HIDE DEF tx
<1>4. /\ txn'[t] = tx /\ \A u \in Txns : u # t => txn'[u] = txn[u]
      /\ txn' \in [Txns -> Transaction \cup {NoTxn}]
  BY <1>2, <1>3 DEF TypeOK
<1>5. /\ moves' \in [Txns -> [SessionKeys -> Nat]]
      /\ \A u \in Txns : u # t => moves'[u] = moves[u]
  BY DEF Finalize, TypeOK, NoMoves
<1>6. /\ told' \in [Txns -> [SessionKeys -> SessionRecord \cup {None}]]
      /\ \A u \in Txns : u # t => told'[u] = told[u]
      /\ state = "committed" => told'[t] = told[t]
  BY DEF Finalize, TypeOK, NoAnswers
<1> QED BY <1>2, <1>4, <1>5, <1>6, NoneAssumption

\* A transaction that ends without replacing the store is out of the picture.
LEMMA FinalizeInv ==
  ASSUME IInv, NEW t \in Txns, ensure_active(t),
         NEW state \in {"committed", "conflicted", "rolled_back"},
         state = "committed" => ~txn[t].dirty,
         Finalize(t, state), UNCHANGED <<shared, moved>>
  PROVE  IInv'
<1>1. TypeOK /\ txn[t] \in Transaction /\ txn[t] # NoTxn
  BY HeldIsTyped DEF IInv, StoreInv, ensure_active
<1>2. /\ \A u \in Txns : u # t => txn'[u] = txn[u] /\ moves'[u] = moves[u]
      /\ shared' = shared /\ moved' = moved
      /\ txn' \in [Txns -> Transaction \cup {NoTxn}]
      /\ moves' \in [Txns -> [SessionKeys -> Nat]]
      /\ told' \in [Txns -> [SessionKeys -> SessionRecord \cup {None}]]
  BY <1>1, Finalized
<1>3. /\ txn'[t].state = state /\ state # "active"
      /\ txn'[t].dirty = txn[t].dirty /\ txn'[t].working = Empty
      /\ txn'[t].base_generation = txn[t].base_generation
  BY <1>1, Finalized
<1>4. TypeOK'
  BY <1>1, <1>2 DEF TypeOK
<1>5. ASSUME NEW u \in Txns, ensure_active(u)' PROVE u # t /\ ensure_active(u)
  BY <1>2, <1>3, <1>5 DEF ensure_active
<1>6. CleanMeansUnchanged'
  BY <1>2, <1>5 DEF IInv, StoreInv, CleanMeansUnchanged
<1>7. OutboxOrderIsComplete'
  <2>1. OrderComplete(shared') /\ \A u \in Txns : txn'[u] # NoTxn => OrderComplete(txn'[u].working)
    BY <1>1, <1>2, <1>3, OneCopy, EmptyIsTyped DEF IInv, StoreInv
  <2> QED BY <2>1 DEF OutboxOrderIsComplete, OrderComplete
<1>8. \A u \in Txns : (txn'[u] # NoTxn /\ txn'[u].dirty /\ txn'[u].state = "committed")
                        => u # t /\ txn'[u] = txn[u]
  BY <1>2, <1>3
<1>9. OneWriterPerGeneration'
  BY <1>8 DEF IInv, StoreInv, OneWriterPerGeneration
<1>10. Behind'
  BY <1>1, <1>2, <1>3 DEF IInv, Behind
<1>11. \A u \in Txns : OnStore(u)' => OnStore(u) /\ txn'[u] = txn[u] /\ moves'[u] = moves[u]
  BY <1>2, <1>5 DEF OnStore
<1>12. CountsAgree' /\ WorkExtends'
  BY <1>2, <1>11 DEF IInv, CountsAgree, WorkExtends
<1> QED BY <1>4, <1>6, <1>7, <1>9, <1>10, <1>12 DEF IInv, StoreInv

\* A transaction that replaces the store.
Replaces(t) ==
    /\ ensure_active(t) /\ txn[t].dirty /\ ~Conflicts(t)
    /\ Finalize(t, "committed")
    /\ shared' = [txn[t].working EXCEPT !.generation = shared.generation + 1]
    /\ moved' = [k \in SessionKeys |-> moved[k] + moves[t][k]]

\* What the store becomes: the working copy under a new generation.
LEMMA Replaced ==
  ASSUME IInv, NEW t \in Txns, Replaces(t)
  PROVE  /\ OnStore(t)
         /\ shared' \in StoreData /\ shared'.generation = shared.generation + 1
         /\ shared'.sessions = txn[t].working.sessions
         /\ shared'.outbox = txn[t].working.outbox
         /\ shared'.outbox_order = txn[t].working.outbox_order
         /\ shared'.reservations = txn[t].working.reservations
<1>1. txn[t].working \in StoreData /\ shared \in StoreData
  BY Working DEF Replaces, TypeOK
<1>2. shared.generation + 1 \in 0..MaxGeneration
  BY <1>1, StoreBounds DEF Replaces, Conflicts, StoreData
<1> QED BY <1>1, <1>2 DEF Replaces, Conflicts, OnStore, StoreData

\* Every other working copy is out of date from then on.
LEMMA ReplaceInv == ASSUME IInv, NEW t \in Txns, Replaces(t) PROVE IInv'
<1>1. /\ TypeOK /\ txn[t] \in Transaction /\ txn[t] # NoTxn
      /\ shared.generation \in Nat
  BY DEF IInv, StoreInv, Replaces, ensure_active, TypeOK, StoreData
<1>2. /\ \A u \in Txns : u # t => txn'[u] = txn[u]
      /\ txn' \in [Txns -> Transaction \cup {NoTxn}]
      /\ moves' \in [Txns -> [SessionKeys -> Nat]]
      /\ told' \in [Txns -> [SessionKeys -> SessionRecord \cup {None}]]
  BY <1>1, Finalized DEF Replaces
<1>3. /\ txn'[t].state = "committed" /\ txn'[t].working = Empty
      /\ txn'[t].dirty = txn[t].dirty
      /\ txn'[t].base_generation = txn[t].base_generation
      /\ txn[t].base_generation = shared.generation
  BY <1>1, Finalized, Replaced DEF Replaces, OnStore
<1>4. /\ shared' \in StoreData /\ shared'.generation = shared.generation + 1
  BY Replaced
<1>5. TypeOK'
  <2>1. moved' \in [SessionKeys -> Nat]
    BY <1>1 DEF Replaces, TypeOK
  <2> QED BY <1>1, <1>2, <1>4, <2>1 DEF TypeOK
<1>6. \A u \in Txns : txn'[u] # NoTxn =>
        txn'[u].base_generation \in Nat /\ txn'[u].base_generation < shared'.generation
  <2>1. \A u \in Txns : txn[u] # NoTxn =>
          txn[u].base_generation \in Nat /\ txn[u].base_generation < shared'.generation
    BY <1>1, <1>4, HeldIsTyped DEF IInv, Behind
  <2> QED BY <1>1, <1>2, <1>3, <2>1
<1>7. \A u \in Txns : ~OnStore(u)'
  BY <1>6 DEF OnStore, ensure_active
<1>8. CleanMeansUnchanged'
  BY <1>7 DEF CleanMeansUnchanged, OnStore
<1>9. OutboxOrderIsComplete'
  <2>1. OrderComplete(shared')
    BY <1>1, Replaced, OneCopy DEF IInv, StoreInv, OrderComplete
  <2>2. \A u \in Txns : txn'[u] # NoTxn => OrderComplete(txn'[u].working)
    BY <1>1, <1>2, <1>3, OneCopy, EmptyIsTyped DEF IInv, StoreInv
  <2> QED BY <2>1, <2>2 DEF OutboxOrderIsComplete, OrderComplete
<1>10. OneWriterPerGeneration'
  <2>1. \A u \in Txns : (u # t /\ txn'[u] # NoTxn /\ txn'[u].dirty /\ txn'[u].state = "committed")
           => txn'[u] = txn[u] /\ txn[u].base_generation # txn[t].base_generation
    BY <1>1, <1>2, <1>3 DEF IInv, Behind
  <2> SUFFICES ASSUME NEW u \in Txns, NEW v \in Txns,
               txn'[u] # NoTxn, txn'[u].dirty, txn'[u].state = "committed",
               txn'[v] # NoTxn, txn'[v].dirty, txn'[v].state = "committed",
               txn'[u].base_generation = txn'[v].base_generation
        PROVE  u = v
    BY DEF OneWriterPerGeneration
  <2>2. CASE u = t \/ v = t
    BY <1>3, <2>1, <2>2
  <2>3. CASE u # t /\ v # t
    BY <1>2, <2>3 DEF IInv, StoreInv, OneWriterPerGeneration
  <2> QED BY <2>2, <2>3
<1>11. Behind'
  <2>1. shared'.generation \in Nat
    BY <1>1, <1>4
  <2> QED BY <1>6, <2>1 DEF Behind
<1>12. CountsAgree'
  <2>1. \A k \in SessionKeys : CountOf(shared'.sessions[k]) = moved'[k]
    BY Replaced DEF Replaces, IInv, CountsAgree
  <2> QED BY <1>7, <2>1 DEF CountsAgree
<1>13. WorkExtends'
  BY <1>7 DEF WorkExtends
<1> QED BY <1>5, <1>8, <1>9, <1>10, <1>11, <1>12, <1>13 DEF IInv, StoreInv

\* A commit replaces the store, or changes nothing in it.
LEMMA commitInv == ASSUME IInv, NEW t \in Txns, commit(t) PROVE IInv'
<1>1. CASE Replaces(t)
  BY <1>1, ReplaceInv
<1>2. CASE ~txn[t].dirty /\ Finalize(t, "committed") /\ UNCHANGED <<shared, moved>>
  BY <1>2, FinalizeInv DEF commit
<1>3. CASE Finalize(t, "conflicted") /\ UNCHANGED <<shared, moved>>
  BY <1>3, FinalizeInv DEF commit
<1> QED BY <1>1, <1>2, <1>3 DEF commit, Replaces

\* A rollback only ends the transaction.
LEMMA rollbackInv == ASSUME IInv, NEW t \in Txns, rollback(t) PROVE IInv'
BY FinalizeInv DEF rollback

\* The empty store, before any transaction.
LEMMA InitIInv == Init => IInv
<1> SUFFICES ASSUME Init PROVE IInv
  OBVIOUS
<1>1. /\ \A t \in Txns : txn[t] = NoTxn
      /\ \A k \in SessionKeys : moved[k] = 0 /\ shared.sessions[k] = None
      /\ shared.outbox_order = << >> /\ \A k \in OutboxKeys : shared.outbox[k] = None
  BY DEF Init, Empty, NoMoves
<1>2. TypeOK
  BY EmptyIsTyped DEF Init, TypeOK, NoMoves, NoAnswers
<1>3. OutboxOrderIsComplete
  <2>1. OrderComplete(shared)
    BY <1>1 DEF OrderComplete, IsInjective
  <2> QED BY <1>1, <2>1 DEF OutboxOrderIsComplete, OrderComplete
<1>4. CleanMeansUnchanged /\ OneWriterPerGeneration /\ Behind /\ WorkExtends
  BY <1>1 DEF CleanMeansUnchanged, OneWriterPerGeneration, Behind, WorkExtends, OnStore,
     ensure_active
<1>5. CountsAgree
  BY <1>1 DEF CountsAgree, CountOf, OnStore, ensure_active
<1> QED BY <1>2, <1>3, <1>4, <1>5 DEF IInv, StoreInv

\* Every step of every transaction keeps the invariant.
LEMMA NextInv == IInv /\ [Next]_vars => IInv'
<1> SUFFICES ASSUME IInv, [Next]_vars PROVE IInv'
  OBVIOUS
<1>1. CASE UNCHANGED vars
  BY <1>1 DEF vars, IInv, StoreInv, TypeOK, CleanMeansUnchanged, OutboxOrderIsComplete,
     OneWriterPerGeneration, Behind, CountsAgree, WorkExtends, OnStore, ensure_active
<1>2. ASSUME NEW t \in Txns, begin(t) \/ commit(t) \/ rollback(t) PROVE IInv'
  BY <1>2, beginInv, commitInv, rollbackInv
<1>3. ASSUME NEW t \in Txns, NEW k \in SessionKeys,
             \/ session(t, k)
             \/ \E record \in FirstRecords : insert_session(t, k, record)
             \/ \E r \in 0..MaxSessionRevision, s \in SessionState, at \in Timestamps :
                    transition_session(t, k, r, s, at)
      PROVE  IInv'
  BY <1>3, AnswerInv, insert_sessionInv, transition_sessionInv DEF session
<1>4. ASSUME NEW t \in Txns, NEW k \in ReservationKeys, NEW c \in Contents,
             insert_reservation(t, k, c)
      PROVE  IInv'
  BY <1>4, insert_reservationInv
<1>5. ASSUME NEW t \in Txns, NEW k \in OutboxKeys, NEW at \in Timestamps,
             \/ \E c \in Contents :
                    append_outbox(t, k, [content |-> c, occurred_at_ms |-> at])
             \/ acknowledge_outbox(t, k, at)
      PROVE  IInv'
  <2>1. \A c \in Contents : [content |-> c, occurred_at_ms |-> at] \in OutboxRecord
    BY DEF OutboxRecord
  <2> QED BY <1>5, <2>1, append_outboxInv, acknowledge_outboxInv
<1> QED BY <1>1, <1>2, <1>3, <1>4, <1>5 DEF Next

-----------------------------------------------------------------------------
\* Only a commit that wrote changes the store.
LEMMA OnlyCommits ==
  ASSUME [Next]_vars
  PROVE  shared' = shared \/ \E t \in Txns : Replaces(t)
<1>1. CASE UNCHANGED vars
  BY <1>1 DEF vars
<1>2. ASSUME NEW t \in Txns, begin(t) \/ commit(t) \/ rollback(t)
      PROVE  shared' = shared \/ Replaces(t)
  BY <1>2 DEF begin, commit, rollback, Replaces
<1>3. ASSUME NEW t \in Txns, NEW k \in SessionKeys,
             \/ session(t, k)
             \/ \E record \in FirstRecords : insert_session(t, k, record)
             \/ \E r \in 0..MaxSessionRevision, s \in SessionState, at \in Timestamps :
                    transition_session(t, k, r, s, at)
      PROVE  shared' = shared
  BY <1>3 DEF session, insert_session, transition_session, Write
<1>4. ASSUME NEW t \in Txns, NEW k \in ReservationKeys, NEW c \in Contents,
             insert_reservation(t, k, c)
      PROVE  shared' = shared
  BY <1>4 DEF insert_reservation, Write
<1>5. ASSUME NEW t \in Txns, NEW k \in OutboxKeys, NEW at \in Timestamps,
             \/ \E c \in Contents :
                    append_outbox(t, k, [content |-> c, occurred_at_ms |-> at])
             \/ acknowledge_outbox(t, k, at)
      PROVE  shared' = shared
  BY <1>5 DEF append_outbox, acknowledge_outbox, Write
<1> QED BY <1>1, <1>2, <1>3, <1>4, <1>5 DEF Next

\* Whatever the step, the new store is the old one and additions.
LEMMA StoreExtends ==
  ASSUME IInv, [Next]_vars
  PROVE  SessionsFollow(shared, shared') /\ Keeps(shared, shared')
<1>1. CASE shared' = shared
  <2>1. shared \in StoreData
    BY DEF IInv, StoreInv, TypeOK
  <2> QED BY <1>1, <2>1, KeepsItself
<1>2. ASSUME NEW t \in Txns, Replaces(t)
      PROVE  SessionsFollow(shared, shared') /\ Keeps(shared, shared')
  <2>1. SessionsFollow(shared, txn[t].working) /\ Keeps(shared, txn[t].working)
    BY <1>2, Replaced DEF IInv, WorkExtends
  <2> QED BY <1>2, <2>1, Replaced DEF SessionsFollow, Keeps
<1> QED BY <1>1, <1>2, OnlyCommits

\* Nothing was answered before there was a transaction.
LEMMA InitTold == Init => ToldInv
BY DEF Init, ToldInv, Told, ensure_active

\* What was answered in the others stands as the store moves on.
LEMMA OthersTold ==
  ASSUME IInv, IInv', [Next]_vars, NEW u \in Txns, Told(u),
         txn'[u] = txn[u], told'[u] = told[u]
  PROVE  Told(u)'
<1>1. SessionsFollow(shared, shared') /\ shared \in StoreData /\ shared' \in StoreData
  BY StoreExtends DEF IInv, StoreInv, TypeOK
<1>2. ASSUME ensure_active(u) PROVE ~txn[u].dirty => SessionsFollow(txn[u].working, shared')
  BY <1>1, <1>2, Working, StillFollows DEF Told
<1>3. ASSUME txn[u] # NoTxn, txn[u].state = "committed", NEW k \in SessionKeys,
             told[u][k] # None
      PROVE  Follows(told[u][k], shared'.sessions[k])
  <2>1. Follows(told[u][k], shared.sessions[k]) /\ shared.sessions[k] # None
    BY <1>3 DEF Told, Follows
  <2>2. Follows(shared.sessions[k], shared'.sessions[k]) /\ shared'.sessions[k] # None
    BY <1>1, <2>1 DEF SessionsFollow, Follows
  <2>3. /\ told[u][k] \in SessionRecord /\ shared.sessions[k] \in SessionRecord
        /\ shared'.sessions[k] \in SessionRecord
    BY <1>1, <1>3, <2>1, <2>2 DEF IInv, StoreInv, TypeOK, StoreData
  <2> QED BY <2>1, <2>2, <2>3, FollowsOn
<1>4. ASSUME ensure_active(u)
      PROVE  \A k \in SessionKeys : told[u][k] \in {None, txn[u].working.sessions[k]}
  BY <1>4 DEF Told
<1> QED BY <1>2, <1>3, <1>4 DEF Told, ensure_active

\* A write, which answers with what it wrote if it answers.
LEMMA WriteTold ==
  ASSUME IInv, NEW t \in Txns, ensure_active(t), NEW w, Write(t, w),
         \A k \in SessionKeys : told'[t][k] \in {None, w.sessions[k]}
  PROVE  Told(t)' /\ \A u \in Txns : u # t => txn'[u] = txn[u]
<1>1. txn \in [Txns -> Transaction \cup {NoTxn}] /\ txn[t] \in Transaction
  BY DEF IInv, StoreInv, TypeOK, ensure_active
<1>2. /\ txn'[t].working = w /\ txn'[t].dirty = TRUE /\ txn'[t].state = txn[t].state
      /\ \A u \in Txns : u # t => txn'[u] = txn[u]
  BY <1>1 DEF Write, Transaction
<1> QED BY <1>2 DEF Told, ensure_active

\* A write that leaves the answered sessions and the answers alone.
LEMMA QuietTold ==
  ASSUME IInv, ToldInv, NEW t \in Txns, ensure_active(t), NEW w, Write(t, w),
         told' = told,
         \A k \in SessionKeys : txn[t].working.sessions[k] # None =>
            w.sessions[k] = txn[t].working.sessions[k]
  PROVE  Told(t)' /\ \A u \in Txns : u # t => txn'[u] = txn[u]
<1>1. \A k \in SessionKeys : told'[t][k] \in {None, w.sessions[k]}
  BY DEF ToldInv, Told
<1> QED BY <1>1, WriteTold

\* An answer is the record of the working copy.
LEMMA AnswerTold ==
  ASSUME IInv, ToldInv, NEW t \in Txns, NEW k \in SessionKeys, ensure_active(t),
         Answer(t, k, txn[t].working.sessions[k]), UNCHANGED <<shared, txn, moves, moved>>
  PROVE  Told(t)' /\ \A u \in Txns : u # t => txn'[u] = txn[u] /\ told'[u] = told[u]
<1>1. /\ \A j \in SessionKeys : told'[t][j] \in {told[t][j], txn[t].working.sessions[j]}
      /\ \A u \in Txns : u # t => told'[u] = told[u]
  BY DEF Answer, IInv, StoreInv, TypeOK
<1>2. /\ \A j \in SessionKeys : told'[t][j] \in {None, txn[t].working.sessions[j]}
      /\ ~txn[t].dirty => SessionsFollow(txn[t].working, shared)
  BY <1>1 DEF ToldInv, Told
<1> QED BY <1>1, <1>2 DEF Told, ensure_active, SessionsFollow

\* The answers of a transaction that commits are those of its working copy, which is what
\* the store becomes, or what it was at some time before.
LEMMA commitTold ==
  ASSUME IInv, ToldInv, NEW t \in Txns, commit(t)
  PROVE  Told(t)' /\ \A u \in Txns : u # t => txn'[u] = txn[u] /\ told'[u] = told[u]
<1>1. TypeOK /\ ensure_active(t) /\ Told(t)
  BY DEF IInv, StoreInv, commit, ToldInv
<1>2. CASE Finalize(t, "conflicted")
  BY <1>1, <1>2, Finalized DEF Told, ensure_active
<1>3. ASSUME Finalize(t, "committed"), SessionsFollow(txn[t].working, shared')
      PROVE  Told(t)' /\ \A u \in Txns : u # t => txn'[u] = txn[u] /\ told'[u] = told[u]
  <2>1. /\ txn'[t].state = "committed" /\ told'[t] = told[t]
        /\ \A u \in Txns : u # t => txn'[u] = txn[u] /\ told'[u] = told[u]
    BY <1>1, <1>3, Finalized
  <2>2. \A k \in SessionKeys : told[t][k] # None => Follows(told[t][k], shared'.sessions[k])
    BY <1>1, <1>3 DEF Told, SessionsFollow
  <2> QED BY <2>1, <2>2 DEF Told, ensure_active
<1>4. CASE ~txn[t].dirty /\ Finalize(t, "committed") /\ shared' = shared
  BY <1>1, <1>3, <1>4 DEF Told
<1>5. CASE Replaces(t)
  <2>1. SessionsFollow(txn[t].working, txn[t].working)
    BY <1>1, Working, KeepsItself
  <2>2. SessionsFollow(txn[t].working, shared')
    BY <1>5, <2>1, Replaced DEF SessionsFollow
  <2> QED BY <1>3, <1>5, <2>2 DEF Replaces
<1> QED BY <1>2, <1>4, <1>5 DEF commit, Replaces

\* Every step of every transaction leaves the answers standing.
LEMMA NextTold == IInv /\ ToldInv /\ [Next]_vars => ToldInv'
<1> SUFFICES ASSUME IInv, ToldInv, [Next]_vars PROVE ToldInv'
  OBVIOUS
<1>1. IInv' /\ TypeOK
  BY NextInv DEF IInv, StoreInv
<1>2. ASSUME NEW t \in Txns, Told(t)',
             \A u \in Txns : u # t => txn'[u] = txn[u] /\ told'[u] = told[u]
      PROVE  ToldInv'
  BY <1>1, <1>2, OthersTold DEF ToldInv
<1>3. CASE UNCHANGED vars
  BY <1>3 DEF vars, ToldInv, Told, ensure_active, SessionsFollow
<1>4. ASSUME NEW t \in Txns, begin(t) PROVE ToldInv'
  <2> DEFINE tx == [base_generation |-> shared.generation, working |-> shared,
                    dirty |-> FALSE, state |-> "active"]
  <2>1. /\ txn' = [txn EXCEPT ![t] = tx] /\ shared' = shared
        /\ told' = [told EXCEPT ![t] = NoAnswers]
    BY <1>4 DEF begin
  <2>2. /\ txn'[t] = tx /\ tx.working = shared /\ tx.state = "active"
        /\ \A k \in SessionKeys : told'[t][k] = None
        /\ \A u \in Txns : u # t => txn'[u] = txn[u] /\ told'[u] = told[u]
    BY <1>1, <2>1 DEF TypeOK, NoAnswers
  <2>3. SessionsFollow(shared, shared)
    BY <1>1, KeepsItself DEF TypeOK
  <2> HIDE DEF tx
  <2>4. Told(t)'
    BY <2>1, <2>2, <2>3 DEF Told, SessionsFollow
  <2> QED BY <1>2, <2>2, <2>4
<1>5. ASSUME NEW t \in Txns, commit(t) PROVE ToldInv'
  BY <1>2, <1>5, commitTold
<1>6. ASSUME NEW t \in Txns, rollback(t) PROVE ToldInv'
  <2>1. /\ txn'[t].state = "rolled_back"
        /\ \A u \in Txns : u # t => txn'[u] = txn[u] /\ told'[u] = told[u]
    BY <1>1, <1>6, Finalized DEF rollback
  <2> QED BY <1>2, <2>1 DEF Told, ensure_active
<1>7. ASSUME NEW t \in Txns, NEW k \in SessionKeys, ensure_active(t),
             Answer(t, k, txn[t].working.sessions[k]), UNCHANGED <<shared, txn, moves, moved>>
      PROVE  ToldInv'
  BY <1>2, <1>7, AnswerTold
<1>8. ASSUME NEW t \in Txns, NEW w, ensure_active(t), Write(t, w), told' = told,
             \A k \in SessionKeys : txn[t].working.sessions[k] # None =>
                w.sessions[k] = txn[t].working.sessions[k]
      PROVE  ToldInv'
  BY <1>1, <1>2, <1>8, QuietTold
<1>9. ASSUME NEW t \in Txns, NEW k \in SessionKeys, NEW record \in FirstRecords,
             insert_session(t, k, record)
      PROVE  ToldInv'
  <2>1. txn[t].working \in StoreData
    BY <1>9, Working DEF insert_session
  <2> DEFINE w == [txn[t].working EXCEPT !.sessions[k] = record]
  <2>2. \A j \in SessionKeys : j # k => w.sessions[j] = txn[t].working.sessions[j]
    BY <2>1 DEF StoreData
  <2>3. /\ ensure_active(t) /\ Write(t, w) /\ told' = told
        /\ txn[t].working.sessions[k] = None
    BY <1>9 DEF insert_session
  <2> HIDE DEF w
  <2> QED BY <1>8, <2>2, <2>3
<1>10. ASSUME NEW t \in Txns, NEW k \in SessionKeys, NEW e \in 0..MaxSessionRevision,
              NEW s \in SessionState, NEW at \in Timestamps, transition_session(t, k, e, s, at),
              txn[t].working.sessions[k].state # s
       PROVE  ToldInv'
  <2> DEFINE r == transitioned(txn[t].working.sessions[k], s, at)
             w == [txn[t].working EXCEPT !.sessions[k] = r]
  <2>1. /\ txn[t].working \in StoreData /\ ensure_active(t) /\ Write(t, w) /\ Answer(t, k, r)
    BY <1>10, Working DEF transition_session
  <2>2. /\ \A j \in SessionKeys : j # k => w.sessions[j] = txn[t].working.sessions[j]
        /\ w.sessions[k] = r
    BY <2>1 DEF StoreData
  <2> HIDE DEF w, r
  <2>3. /\ told'[t][k] = r /\ \A j \in SessionKeys : j # k => told'[t][j] = told[t][j]
        /\ \A u \in Txns : u # t => told'[u] = told[u]
    BY <1>1, <2>1 DEF Answer, TypeOK
  <2>4. \A j \in SessionKeys : told'[t][j] \in {None, w.sessions[j]}
    BY <2>1, <2>2, <2>3 DEF ToldInv, Told
  <2>5. Told(t)' /\ \A u \in Txns : u # t => txn'[u] = txn[u]
    BY <2>1, <2>4, WriteTold
  <2> QED BY <1>2, <2>3, <2>5
<1>11. ASSUME NEW t \in Txns, NEW k \in SessionKeys,
              \/ session(t, k)
              \/ \E record \in FirstRecords : insert_session(t, k, record)
              \/ \E r \in 0..MaxSessionRevision, s \in SessionState, at \in Timestamps :
                     transition_session(t, k, r, s, at)
       PROVE  ToldInv'
  <2>1. CASE session(t, k)
    BY <1>7, <2>1 DEF session
  <2>2. ASSUME NEW r \in 0..MaxSessionRevision, NEW s \in SessionState, NEW at \in Timestamps,
               transition_session(t, k, r, s, at), txn[t].working.sessions[k].state = s
        PROVE  ToldInv'
    BY <1>7, <2>2 DEF transition_session
  <2> QED BY <1>9, <1>10, <1>11, <2>1, <2>2
<1>12. ASSUME NEW t \in Txns, NEW k \in ReservationKeys, NEW c \in Contents,
              insert_reservation(t, k, c)
       PROVE  ToldInv'
  <2>1. txn[t].working \in StoreData
    BY <1>12, Working DEF insert_reservation
  <2> DEFINE w == [txn[t].working EXCEPT !.reservations[k] = c]
  <2>2. w.sessions = txn[t].working.sessions
    BY <2>1 DEF StoreData
  <2>3. ensure_active(t) /\ Write(t, w) /\ told' = told
    BY <1>12 DEF insert_reservation
  <2> HIDE DEF w
  <2> QED BY <1>8, <2>2, <2>3
<1>13. ASSUME NEW t \in Txns, NEW k \in OutboxKeys, NEW record \in OutboxRecord,
              append_outbox(t, k, record)
       PROVE  ToldInv'
  <2>1. txn[t].working \in StoreData
    BY <1>13, Working DEF append_outbox
  <2> DEFINE w == [txn[t].working EXCEPT !.outbox_order = push(@, k),
                      !.outbox[k] = [record |-> record, acknowledged_at_ms |-> None]]
  <2>2. w.sessions = txn[t].working.sessions
    BY <2>1 DEF StoreData
  <2>3. ensure_active(t) /\ Write(t, w) /\ told' = told
    BY <1>13 DEF append_outbox
  <2> HIDE DEF w
  <2> QED BY <1>8, <2>2, <2>3
<1>14. ASSUME NEW t \in Txns, NEW k \in OutboxKeys, NEW at \in Timestamps,
              acknowledge_outbox(t, k, at)
       PROVE  ToldInv'
  <2>1. txn[t].working \in StoreData
    BY <1>14, Working DEF acknowledge_outbox
  <2> DEFINE w == [txn[t].working EXCEPT !.outbox[k].acknowledged_at_ms = at]
  <2>2. w.sessions = txn[t].working.sessions
    BY <2>1 DEF StoreData
  <2>3. ensure_active(t) /\ Write(t, w) /\ told' = told
    BY <1>14 DEF acknowledge_outbox
  <2> HIDE DEF w
  <2> QED BY <1>8, <2>2, <2>3
<1>15. \A c \in Contents, at \in Timestamps : [content |-> c, occurred_at_ms |-> at] \in OutboxRecord
  BY DEF OutboxRecord
<1> QED BY <1>3, <1>4, <1>5, <1>6, <1>11, <1>12, <1>13, <1>14, <1>15 DEF Next

\* A sequence that has the entries of a shorter one begins with it.
LEMMA PrefixByEntries ==
  ASSUME NEW S, NEW s \in Seq(S), NEW t \in Seq(S), Len(s) <= Len(t),
         \A i \in 1..Len(s) : t[i] = s[i]
  PROVE  IsPrefix(s, t)
<1> DEFINE n == Len(s)
<1>1. n \in Nat /\ Len(t) \in Nat /\ n <= Len(t)
  OBVIOUS
<1>2. (\A i \in 1..n : s[i] \in S) /\ (\A i \in 1..n : t[i] \in S)
  OBVIOUS
<1> HIDE DEF n
<1>3. /\ SubSeq(s, 1, n) \in Seq(S) /\ Len(SubSeq(s, 1, n)) = n
      /\ \A i \in 1..n : SubSeq(s, 1, n)[i] = s[i]
  BY <1>1, <1>2, SubSeqProperties
<1>4. /\ SubSeq(t, 1, n) \in Seq(S) /\ Len(SubSeq(t, 1, n)) = n
      /\ \A i \in 1..n : SubSeq(t, 1, n)[i] = t[i]
  BY <1>1, <1>2, SubSeqProperties
<1>5. \A i \in 1..n : SubSeq(s, 1, n)[i] = SubSeq(t, 1, n)[i]
  BY <1>3, <1>4 DEF n
<1>6. SubSeq(s, 1, n) = SubSeq(t, 1, n)
  BY <1>4, <1>5
<1> QED BY <1>6 DEF IsPrefix, n

\* The types and limits hold, the dirty flag tells the truth, the append order is
\* complete in every copy, each generation has one writer, and a session's revision
\* counts every transition whose commit returned Ok: none is lost to a transaction that
\* began before it, however many transactions run.  What a committed transaction was
\* answered about a session stands, or was moved on from (InMemoryStateStore).
THEOREM Invariance == Spec => []Inv
<1>1. Init => IInv /\ ToldInv
  BY InitIInv, InitTold
<1>2. IInv /\ ToldInv /\ [Next]_vars => IInv' /\ ToldInv'
  BY NextInv, NextTold
<1>3. IInv /\ ToldInv => Inv
  <2>1. IInv => NoLostTransition
    BY DEF IInv, CountsAgree, CountOf, NoLostTransition
  <2>2. ToldInv => AnswersHold
    BY DEF ToldInv, Told, AnswersHold
  <2> QED BY <2>1, <2>2 DEF IInv, StoreInv, Inv
<1> QED BY <1>1, <1>2, <1>3, PTL DEF Spec

\* However many operations one commit publishes, each session moved along the
\* lifecycle, one revision per transition (transition_session, commit).
THEOREM LifecycleIsFollowed == Spec => SessionsFollowLifecycle
<1>1. Spec => []IInv
  BY InitIInv, NextInv, PTL DEF Spec
<1> DEFINE Moves == \A k \in SessionKeys :
          shared.sessions[k] # None => Follows(shared.sessions[k], shared'.sessions[k])
<1>2. IInv /\ [Next]_vars => [Moves]_vars
  BY StoreExtends DEF SessionsFollow
<1> QED BY <1>1, <1>2, PTL DEF Spec, SessionsFollowLifecycle

\* No commit takes back what another published: reservations and entries stay, the
\* order only grows, the first acknowledgement stands (append_outbox, commit).
THEOREM PublishedStays == Spec => NothingTakenBack
<1>1. Spec => []IInv
  BY InitIInv, NextInv, PTL DEF Spec
<1> DEFINE Stays ==
       /\ IsPrefix(shared.outbox_order, shared'.outbox_order)
       /\ \A k \in OutboxKeys : shared.outbox[k] # None =>
             /\ shared'.outbox[k].record = shared.outbox[k].record
             /\ shared.outbox[k].acknowledged_at_ms \in
                    {None, shared'.outbox[k].acknowledged_at_ms}
       /\ \A k \in ReservationKeys : shared.reservations[k] # None =>
             shared'.reservations[k] = shared.reservations[k]
<1>2. IInv /\ [Next]_vars => [Stays]_vars
  <2> SUFFICES ASSUME IInv, [Next]_vars PROVE Stays
    OBVIOUS
  <2>1. Keeps(shared, shared')
    BY StoreExtends
  <2>2. shared.outbox_order \in Seq(OutboxKeys) /\ shared'.outbox_order \in Seq(OutboxKeys)
    BY NextInv DEF IInv, StoreInv, TypeOK, StoreData
  <2>3. IsPrefix(shared.outbox_order, shared'.outbox_order)
    BY <2>1, <2>2, PrefixByEntries DEF Keeps
  <2> QED BY <2>1, <2>3 DEF Keeps
<1> QED BY <1>1, <1>2, PTL DEF Spec, NothingTakenBack

-----------------------------------------------------------------------------
HeldData == [sessions : [SessionKeys -> SessionRecord \cup {None}],
             reservations : [ReservationKeys -> Contents \cup {None}],
             outbox : [OutboxKeys -> OutboxEntry \cup {None}],
             outbox_order : Seq(OutboxKeys)]

\* What a transaction has seen is a run of operations up to its working copy, and it
\* began with what is stored unless a commit moved the generation on.
Run(t) ==
    LET seen == sights[t] IN
    /\ seen # <<>> /\ seen[Len(seen)] = Held(txn[t].working)
    /\ \A i \in 1..Len(seen) - 1 : Serial!Operation(seen[i], seen[i + 1])
    /\ txn[t].base_generation = shared.generation => seen[1] = Held(shared)

Runs ==
    /\ sights \in [Txns -> Seq(HeldData)]
    /\ \A t \in Txns : Active(txn[t]) => Run(t)

HistoryInv == IInv /\ Runs

\* What a typed copy holds is typed.
LEMMA HeldTyped == ASSUME NEW data \in StoreData PROVE Held(data) \in HeldData
BY DEF Held, HeldData, StoreData

\* A copy with one part changed holds what was held with that part changed.
LEMMA HeldParts ==
  ASSUME NEW data \in StoreData
  PROVE  /\ Held(data).sessions = data.sessions
         /\ Held(data).reservations = data.reservations
         /\ Held(data).outbox = data.outbox
         /\ Held(data).outbox_order = data.outbox_order
BY DEF Held

LEMMA HeldSet ==
  ASSUME NEW data \in StoreData, NEW x, NEW y
  PROVE  /\ Held([data EXCEPT !.sessions = x]) = [Held(data) EXCEPT !.sessions = x]
         /\ Held([data EXCEPT !.reservations = x]) = [Held(data) EXCEPT !.reservations = x]
         /\ Held([data EXCEPT !.outbox = x]) = [Held(data) EXCEPT !.outbox = x]
<1>1. Held([data EXCEPT !.sessions = x]) = [Held(data) EXCEPT !.sessions = x]
  BY DEF Held, StoreData
<1>2. Held([data EXCEPT !.reservations = x]) = [Held(data) EXCEPT !.reservations = x]
  BY DEF Held, StoreData
<1>3. Held([data EXCEPT !.outbox = x]) = [Held(data) EXCEPT !.outbox = x]
  BY DEF Held, StoreData
<1> QED BY <1>1, <1>2, <1>3

Sent(data, k, entry) == [data EXCEPT !.outbox_order = Append(@, k), !.outbox[k] = entry]

LEMMA HeldSend ==
  ASSUME NEW data \in StoreData, NEW k \in OutboxKeys, NEW entry
  PROVE  Held(Sent(data, k, entry)) = Sent(Held(data), k, entry)
<1> DEFINE new == Sent(data, k, entry)
           order == Append(data.outbox_order, k)
           outbox == [data.outbox EXCEPT ![k] = entry]
           middle == [data EXCEPT !.outbox_order = order]
           held == [Held(data) EXCEPT !.outbox_order = order]
<1>1. middle.outbox = data.outbox /\ new = [middle EXCEPT !.outbox = outbox]
  BY DEF StoreData, Sent
<1>2. /\ middle.sessions = data.sessions /\ middle.reservations = data.reservations
      /\ middle.outbox_order = order
      /\ middle \in [generation : {data.generation}, sessions : {data.sessions},
                     reservations : {data.reservations}, outbox : {data.outbox},
                     outbox_order : {order}]
  BY DEF StoreData
<1> HIDE DEF new, order, outbox, middle
<1>3. held = [sessions |-> data.sessions, reservations |-> data.reservations,
              outbox |-> data.outbox, outbox_order |-> order]
  BY DEF Held
<1> HIDE DEF held
<1>4. Held(new) = [sessions |-> data.sessions, reservations |-> data.reservations,
                   outbox |-> outbox, outbox_order |-> order]
  BY <1>1, <1>2 DEF Held
<1>5. held.outbox = data.outbox /\ Held(data).outbox_order = data.outbox_order
  BY <1>3 DEF Held
<1>6. [held EXCEPT !.outbox = outbox] = [sessions |-> data.sessions,
                   reservations |-> data.reservations,
                   outbox |-> outbox, outbox_order |-> order]
  BY <1>3
<1>7. Held(new) = [held EXCEPT !.outbox = [held.outbox EXCEPT ![k] = entry]]
  BY <1>4, <1>5, <1>6 DEF outbox
<1>8. held = [Held(data) EXCEPT !.outbox_order = Append(@, k)]
  BY <1>5 DEF held, order
<1>9. Held(new) = Sent(Held(data), k, entry)
  BY <1>7, <1>8, Zenon DEF Sent
<1> QED BY <1>9 DEF new

\* What a transaction begins with.
LEMMA OneSight ==
  ASSUME NEW held \in HeldData
  PROVE  /\ Len(<<held>>) = 1 /\ <<held>>[1] = held /\ <<held>> # <<>>
         /\ <<held>> \in Seq(HeldData) /\ 1..Len(<<held>>) - 1 = {}
OBVIOUS

\* One more operation is the next of a run.
LEMMA RunOn ==
  ASSUME NEW seen \in Seq(HeldData), seen # <<>>, NEW next \in HeldData,
         \A i \in 1..Len(seen) - 1 : Serial!Operation(seen[i], seen[i + 1]),
         Serial!Operation(seen[Len(seen)], next)
  PROVE  LET longer == Append(seen, next) IN
         /\ longer \in Seq(HeldData) /\ longer # <<>>
         /\ longer[1] = seen[1] /\ longer[Len(longer)] = next
         /\ \A i \in 1..Len(longer) - 1 : Serial!Operation(longer[i], longer[i + 1])
<1> DEFINE longer == Append(seen, next)
<1>1. /\ Len(seen) \in Nat /\ Len(seen) >= 1
      /\ longer \in Seq(HeldData) /\ Len(longer) = Len(seen) + 1
      /\ \A i \in 1..Len(seen) : longer[i] = seen[i]
      /\ longer[Len(seen) + 1] = next
  OBVIOUS
<1> HIDE DEF longer
<1>2. ASSUME NEW i \in 1..Len(longer) - 1 PROVE Serial!Operation(longer[i], longer[i + 1])
  <2>1. CASE i = Len(seen)
    BY <1>1, <2>1
  <2>2. CASE i \in 1..Len(seen) - 1
    <3>1. longer[i] = seen[i] /\ longer[i + 1] = seen[i + 1]
      BY <1>1, <2>2
    <3> QED BY <2>2, <3>1
  <2> QED BY <1>1, <2>1, <2>2
<1>3. longer # <<>> /\ longer[1] = seen[1] /\ longer[Len(longer)] = next
  BY <1>1
<1> QED BY <1>1, <1>2, <1>3 DEF longer

\* A transaction that writes, all others and the store untouched.
LEMMA WriteRuns ==
  ASSUME HistoryInv, IInv', NEW t \in Txns, ensure_active(t), NEW working \in StoreData,
         Write(t, working), sights' = [u \in Txns |-> Seen(u)],
         Serial!Operation(Held(txn[t].working), Held(working))
  PROVE  Runs'
<1>1. /\ TypeOK /\ TypeOK' /\ shared' = shared
      /\ txn'[t] = [txn[t] EXCEPT !.working = working, !.dirty = TRUE]
      /\ \A u \in Txns : u # t => txn'[u] = txn[u]
      /\ txn[t] \in Transaction
  BY DEF HistoryInv, IInv, StoreInv, TypeOK, Write, ensure_active
<1>2. /\ Active(txn[t]) /\ Active(txn'[t]) /\ txn'[t].working = working
      /\ txn'[t].base_generation = txn[t].base_generation
      /\ Run(t) /\ sights[t] \in Seq(HeldData)
  <2>1. Active(txn[t]) /\ Run(t) /\ sights[t] \in Seq(HeldData)
    BY DEF Active, ensure_active, HistoryInv, Runs
  <2>2. txn'[t] \in Transaction
    BY <1>1 DEF Transaction
  <2>3. txn'[t] # NoTxn
    BY <2>2, NoneAssumption
  <2>4. /\ txn'[t].state = txn[t].state /\ txn'[t].working = working
        /\ txn'[t].base_generation = txn[t].base_generation
    BY <1>1 DEF Transaction
  <2> QED BY <2>1, <2>3, <2>4 DEF Active
<1>3. Held(working) \in HeldData
  BY <1>1, <1>2, HeldTyped DEF TypeOK, Active, Transaction
<1>4. ASSUME NEW u \in Txns PROVE sights'[u] \in Seq(HeldData) /\ (Active(txn'[u]) => Run(u)')
  <2>1. CASE u # t \/ txn'[u] = txn[u]
    <3>1. txn'[u] = txn[u]
      BY <1>1, <2>1
    <3>2. sights'[u] = IF Active(txn[u]) THEN sights[u] ELSE <<>>
      BY <3>1 DEF Seen
    <3>3. sights[u] \in Seq(HeldData) /\ (Active(txn[u]) => Run(u))
      BY DEF HistoryInv, Runs
    <3>4. ASSUME Active(txn[u]) PROVE Run(u)'
      <4>1. sights'[u] = sights[u]
        BY <3>2, <3>4
      <4> QED BY <1>1, <3>1, <3>3, <3>4, <4>1 DEF Run
    <3>5. sights'[u] \in Seq(HeldData)
      <4>1. <<>> \in Seq(HeldData)
        OBVIOUS
      <4>2. sights[u] \in Seq(HeldData)
        BY <3>3
      <4> QED BY <3>2, <4>1, <4>2, Zenon
    <3> QED BY <3>1, <3>4, <3>5
  <2>2. CASE u = t /\ txn'[u] # txn[u]
    <3>1. sights'[t] = Append(sights[t], Held(working))
      BY <1>2, <2>2 DEF Seen
    <3>2. LET longer == Append(sights[t], Held(working)) IN
             /\ longer \in Seq(HeldData) /\ longer # <<>>
             /\ longer[1] = sights[t][1] /\ longer[Len(longer)] = Held(working)
             /\ \A i \in 1..Len(longer) - 1 : Serial!Operation(longer[i], longer[i + 1])
      BY <1>2, <1>3, RunOn DEF Run
    <3> QED BY <1>1, <1>2, <2>2, <3>1, <3>2 DEF Run
  <2> QED BY <2>1, <2>2
<1> QED
  <2>1. sights' \in [Txns -> Seq(HeldData)]
    BY <1>4
  <2> QED BY <1>4, <2>1 DEF Runs

\* An answer that is read alone is no operation of a run.
LEMMA StillRuns ==
  ASSUME HistoryInv, IInv', UNCHANGED <<shared, txn>>, sights' = [u \in Txns |-> Seen(u)]
  PROVE  Runs'
<1>1. ASSUME NEW u \in Txns PROVE sights'[u] \in Seq(HeldData) /\ (Active(txn'[u]) => Run(u)')
  <2>1. sights'[u] = IF Active(txn[u]) THEN sights[u] ELSE <<>>
    BY DEF Seen
  <2>2. sights[u] \in Seq(HeldData) /\ (Active(txn[u]) => Run(u)) /\ <<>> \in Seq(HeldData)
    BY DEF HistoryInv, Runs
  <2>3. sights'[u] \in Seq(HeldData)
    BY <2>1, <2>2, Zenon
  <2>4. ASSUME Active(txn[u]) PROVE Run(u)'
    <3>1. sights'[u] = sights[u]
      BY <2>1, <2>4
    <3> QED BY <2>2, <2>4, <3>1 DEF Run
  <2> QED BY <2>3, <2>4
<1>2. sights' \in [Txns -> Seq(HeldData)]
  BY <1>1
<1> QED BY <1>1, <1>2 DEF Runs

\* A transaction that begins or ends, while the others and their claims on the store
\* stand: those it outdated are owed nothing.
LEMMA EdgeRuns ==
  ASSUME HistoryInv, IInv', NEW t \in Txns, sights' = [u \in Txns |-> Seen(u)],
         \A u \in Txns : u # t => txn'[u] = txn[u],
         Active(txn'[t]) => /\ ~Active(txn[t]) /\ txn'[t].working = shared
                            /\ shared' = shared,
         shared' = shared \/ \A u \in Txns : ~OnStore(u)'
  PROVE  Runs'
<1>1. TypeOK /\ shared \in StoreData /\ <<>> \in Seq(HeldData)
  BY DEF HistoryInv, IInv, StoreInv, TypeOK
<1>2. ASSUME NEW u \in Txns PROVE sights'[u] \in Seq(HeldData) /\ (Active(txn'[u]) => Run(u)')
  <2>1. CASE u # t
    <3>1. txn'[u] = txn[u] /\ sights[u] \in Seq(HeldData) /\ (Active(txn[u]) => Run(u))
      BY <2>1 DEF HistoryInv, Runs
    <3>2. sights'[u] = IF Active(txn[u]) THEN sights[u] ELSE <<>>
      BY <3>1 DEF Seen
    <3>3. sights'[u] \in Seq(HeldData)
      BY <1>1, <3>1, <3>2, Zenon
    <3>4. ASSUME Active(txn[u]) PROVE Run(u)'
      <4>1. sights'[u] = sights[u]
        BY <3>2, <3>4
      <4>2. shared' = shared \/ txn'[u].base_generation # shared'.generation
        BY <3>1, <3>4 DEF OnStore, ensure_active, Active
      <4> QED BY <3>1, <3>4, <4>1, <4>2 DEF Run
    <3> QED BY <3>1, <3>3, <3>4
  <2>2. CASE u = t /\ ~Active(txn'[t])
    BY <1>1, <2>2 DEF Seen
  <2>3. CASE u = t /\ Active(txn'[t])
    <3>1. sights'[t] = <<Held(shared)>>
      BY <2>3 DEF Seen
    <3>2. Held(shared) \in HeldData
      BY <1>1, HeldTyped
    <3>3. /\ Len(sights'[t]) = 1 /\ sights'[t][1] = Held(shared) /\ sights'[t] # <<>>
          /\ sights'[t] \in Seq(HeldData) /\ 1..Len(sights'[t]) - 1 = {}
      BY <3>1, <3>2, OneSight
    <3>4. Run(t)'
      <4>1. txn'[t].working = shared /\ shared' = shared
        BY <2>3
      <4>2. Held(txn'[t].working) = Held(shared) /\ Held(shared)' = Held(shared)
        BY <4>1 DEF Held
      <4> QED BY <3>3, <4>2 DEF Run
    <3> QED BY <2>3, <3>3, <3>4
  <2> QED BY <2>1, <2>2, <2>3
<1> QED
  <2>1. sights' \in [Txns -> Seq(HeldData)]
    BY <1>2
  <2> QED BY <1>2, <2>1 DEF Runs

\* Each operation makes of the working copy what the serial operation of its name does.
LEMMA insert_sessionRuns ==
  ASSUME HistoryInv, IInv', NEW t \in Txns, NEW k \in SessionKeys,
         NEW record \in FirstRecords, insert_session(t, k, record),
         sights' = [u \in Txns |-> Seen(u)]
  PROVE  Runs'
<1> DEFINE w == txn[t].working
           new == [w EXCEPT !.sessions[k] = record]
<1>1. w \in StoreData /\ ensure_active(t) /\ w.sessions[k] = None /\ Write(t, new)
  BY Working DEF HistoryInv, IInv, StoreInv, insert_session
<1>2. record \in SessionRecord /\ new \in StoreData
  <2>1. record \in SessionRecord
    BY FirstAreRecords
  <2> QED BY <1>1, <2>1 DEF StoreData
<1>3. record \in Serial!SessionRecord
  <2>1. Serial!SessionState = SessionState
    BY DEF Serial!SessionState, SessionState, Serial!Forward, Forward, Serial!Terminal, Terminal
  <2> QED BY <1>2, <2>1 DEF SessionRecord, Serial!SessionRecord
<1>4. /\ Held(w).sessions[k] = None /\ Held(new) = [Held(w) EXCEPT !.sessions[k] = record]
      /\ Held(new).sessions[k] = record
  <2> DEFINE f == [w.sessions EXCEPT ![k] = record]
  <2>1. /\ new = [w EXCEPT !.sessions = f] /\ f = [Held(w).sessions EXCEPT ![k] = record]
        /\ f[k] = record /\ new.sessions = f
    BY <1>1, HeldParts DEF StoreData
  <2> HIDE DEF w, f, new
  <2>2. Held(new) = [Held(w) EXCEPT !.sessions = f]
    BY <1>1, <2>1, HeldSet
  <2> QED BY <1>1, <1>2, <2>1, <2>2, HeldParts
<1>5. Serial!Operation(Held(w), Held(new))
  <2> HIDE DEF w, new
  <2> QED BY <1>3, <1>4 DEF Serial!Operation, Serial!Open
<1> QED BY <1>1, <1>2, <1>5, WriteRuns

LEMMA transition_sessionRuns ==
  ASSUME HistoryInv, IInv', NEW t \in Txns, NEW k \in SessionKeys, NEW at \in Timestamps,
         NEW r \in 0..MaxSessionRevision, NEW s \in SessionState,
         transition_session(t, k, r, s, at), sights' = [u \in Txns |-> Seen(u)]
  PROVE  Runs'
<1> DEFINE w == txn[t].working
           record == transitioned(w.sessions[k], s, at)
           new == [w EXCEPT !.sessions[k] = record]
<1>a. CASE w.sessions[k].state = s
  BY <1>a, StillRuns DEF transition_session
<1>b. SUFFICES ASSUME w.sessions[k].state # s PROVE Runs'
  BY <1>a
<1>1. /\ w \in StoreData /\ ensure_active(t) /\ Write(t, new)
      /\ w.sessions[k] # None /\ CanMove(w.sessions[k], s, at)
  BY <1>b, Working DEF HistoryInv, IInv, StoreInv, transition_session
<1>2. new \in StoreData
  <2>1. w.sessions[k] \in SessionRecord /\ w.sessions[k].revision < MaxSessionRevision
    BY <1>1 DEF StoreData, CanMove
  <2>2. w.sessions[k].revision + 1 \in 0..MaxSessionRevision
    BY <2>1, StoreBounds DEF SessionRecord
  <2>3. record \in SessionRecord
    BY <2>1, <2>2 DEF SessionRecord, transitioned
  <2> QED BY <1>1, <2>3 DEF StoreData
<1>3. s \in Serial!SessionState
  BY DEF Serial!SessionState, SessionState, Serial!Forward, Forward,
     Serial!Terminal, Terminal
<1>4. Serial!CanMove(w.sessions[k], s, at)
  BY <1>1 DEF CanMove, Serial!CanMove, can_transition_to, Serial!can_transition_to,
     is_terminal, Serial!is_terminal, Terminal, Serial!Terminal, Forward, Serial!Forward
<1>5. /\ Held(w).sessions[k] = w.sessions[k]
      /\ Held(new) = [Held(w) EXCEPT !.sessions[k] = Serial!transitioned(@, s, at)]
  <2> DEFINE f == [w.sessions EXCEPT ![k] = record]
  <2>1. new = [w EXCEPT !.sessions = f] /\ Held(w).sessions = w.sessions
    BY <1>1, HeldParts
  <2>2. record = Serial!transitioned(w.sessions[k], s, at)
    BY DEF transitioned, Serial!transitioned
  <2> HIDE DEF w, f, record, new
  <2>3. Held(new) = [Held(w) EXCEPT !.sessions = f]
    BY <1>1, <2>1, HeldSet
  <2>4. f = [Held(w).sessions EXCEPT ![k] = Serial!transitioned(@, s, at)]
    BY <2>1, <2>2 DEF f
  <2> QED BY <2>1, <2>3, <2>4
<1>6. Serial!Operation(Held(w), Held(new))
  BY <1>1, <1>3, <1>4, <1>5 DEF Serial!Operation, Serial!Move
<1> QED BY <1>1, <1>2, <1>6, WriteRuns

LEMMA insert_reservationRuns ==
  ASSUME HistoryInv, IInv', NEW t \in Txns, NEW k \in ReservationKeys, NEW c \in Contents,
         insert_reservation(t, k, c), sights' = [u \in Txns |-> Seen(u)]
  PROVE  Runs'
<1> DEFINE w == txn[t].working
           new == [w EXCEPT !.reservations[k] = c]
<1>1. w \in StoreData /\ ensure_active(t) /\ w.reservations[k] = None /\ Write(t, new)
  BY Working DEF HistoryInv, IInv, StoreInv, insert_reservation
<1>2. new \in StoreData
  BY <1>1 DEF StoreData
<1>3. Held(w).reservations[k] = None /\ Held(new) = [Held(w) EXCEPT !.reservations[k] = c]
  BY <1>1 DEF Held, StoreData
<1>4. Serial!Operation(Held(w), Held(new))
  BY <1>3 DEF Serial!Operation, Serial!Reserve
<1> QED BY <1>1, <1>2, <1>4, WriteRuns

LEMMA append_outboxRuns ==
  ASSUME HistoryInv, IInv', NEW t \in Txns, NEW k \in OutboxKeys, NEW at \in Timestamps,
         NEW c \in Contents, append_outbox(t, k, [content |-> c, occurred_at_ms |-> at]),
         sights' = [u \in Txns |-> Seen(u)]
  PROVE  Runs'
<1> DEFINE w == txn[t].working
           entry == [record |-> [content |-> c, occurred_at_ms |-> at],
                     acknowledged_at_ms |-> None]
           new == Sent(w, k, entry)
<1>1. w \in StoreData /\ ensure_active(t) /\ w.outbox[k] = None /\ Write(t, new)
  BY Working DEF HistoryInv, IInv, StoreInv, append_outbox, push, Sent
<1>2. new \in StoreData
  <2>1. entry \in OutboxEntry
    BY DEF OutboxEntry, OutboxRecord
  <2>2. Append(w.outbox_order, k) \in Seq(OutboxKeys)
    BY <1>1 DEF StoreData
  <2> QED BY <1>1, <2>1, <2>2 DEF StoreData, Sent
<1>3. /\ Held(w).outbox[k] = None
      /\ Held(new) = Sent(Held(w), k, entry)
  BY <1>1, HeldParts, HeldSend
<1>4. Serial!Operation(Held(w), Held(new))
  BY <1>3, Zenon DEF Serial!Operation, Serial!Send, Sent
<1> QED BY <1>1, <1>2, <1>4, WriteRuns

LEMMA acknowledge_outboxRuns ==
  ASSUME HistoryInv, IInv', NEW t \in Txns, NEW k \in OutboxKeys, NEW at \in Timestamps,
         acknowledge_outbox(t, k, at), sights' = [u \in Txns |-> Seen(u)]
  PROVE  Runs'
<1> DEFINE w == txn[t].working
           new == [w EXCEPT !.outbox[k].acknowledged_at_ms = at]
<1>1. /\ w \in StoreData /\ ensure_active(t) /\ Write(t, new)
      /\ w.outbox[k] # None /\ w.outbox[k].acknowledged_at_ms = None
      /\ at >= w.outbox[k].record.occurred_at_ms
  BY Working DEF HistoryInv, IInv, StoreInv, acknowledge_outbox
<1>2. new \in StoreData
  <2>1. [w.outbox[k] EXCEPT !.acknowledged_at_ms = at] \in OutboxEntry
    BY <1>1 DEF StoreData, OutboxEntry
  <2> QED BY <1>1, <2>1 DEF StoreData
<1>3. /\ Held(w).outbox[k] = w.outbox[k]
      /\ Held(new) = [Held(w) EXCEPT !.outbox[k].acknowledged_at_ms = at]
  <2> DEFINE f == [w.outbox EXCEPT ![k].acknowledged_at_ms = at]
  <2>1. new = [w EXCEPT !.outbox = f] /\ Held(w).outbox = w.outbox
    BY <1>1, HeldParts
  <2> HIDE DEF w, f, new
  <2>2. Held(new) = [Held(w) EXCEPT !.outbox = f]
    BY <1>1, <2>1, HeldSet
  <2> QED BY <2>1, <2>2 DEF f
<1>4. Serial!Operation(Held(w), Held(new))
  BY <1>1, <1>3 DEF Serial!Operation, Serial!Acknowledge
<1> QED BY <1>1, <1>2, <1>4, WriteRuns

\* The start of a transaction, and its end without a trace in the store.
LEMMA beginRuns ==
  ASSUME HistoryInv, IInv', NEW t \in Txns, begin(t), sights' = [u \in Txns |-> Seen(u)]
  PROVE  Runs'
<1>1. txn \in [Txns -> Transaction \cup {NoTxn}]
  BY DEF HistoryInv, IInv, StoreInv, TypeOK
<1>2. /\ \A u \in Txns : u # t => txn'[u] = txn[u]
      /\ txn'[t].working = shared /\ shared' = shared /\ ~Active(txn[t])
  BY <1>1 DEF begin, ensure_active, Active
<1> QED BY <1>2, EdgeRuns

LEMMA FinalizeRuns ==
  ASSUME HistoryInv, IInv', NEW t \in Txns, NEW state \in {"committed", "conflicted", "rolled_back"},
         ensure_active(t), Finalize(t, state), sights' = [u \in Txns |-> Seen(u)],
         shared' = shared \/ \A u \in Txns : ~OnStore(u)'
  PROVE  Runs'
<1>1. TypeOK
  BY DEF HistoryInv, IInv, StoreInv
<1>2. /\ \A u \in Txns : u # t => txn'[u] = txn[u]
      /\ txn'[t].state = state
  BY <1>1, Finalized
<1>3. ~Active(txn'[t])
  BY <1>2 DEF Active
<1> QED BY <1>2, <1>3, EdgeRuns

\* A commit leaves every other transaction behind.
LEMMA commitRuns ==
  ASSUME HistoryInv, IInv', NEW t \in Txns, commit(t), sights' = [u \in Txns |-> Seen(u)]
  PROVE  Runs'
<1>1. CASE Replaces(t)
  <2>1. IInv
    BY DEF HistoryInv
  <2>2. /\ shared'.generation = shared.generation + 1 /\ shared.generation \in Nat
        /\ \A u \in Txns : txn'[u] # NoTxn /\ txn'[u].state = "active" =>
              txn'[u] = txn[u] /\ txn[u] # NoTxn
    <3>1. shared.generation \in Nat /\ TypeOK
      BY <2>1 DEF IInv, StoreInv, TypeOK, StoreData
    <3>2. txn'[t].state = "committed" /\ \A u \in Txns : u # t => txn'[u] = txn[u]
      BY <1>1, <3>1, Finalized DEF Replaces
    <3> QED BY <1>1, <2>1, <3>1, <3>2, Replaced
  <2>3. \A u \in Txns : txn[u] # NoTxn =>
          txn[u].base_generation \in Nat /\ txn[u].base_generation <= shared.generation
    BY <2>1, HeldIsTyped DEF IInv, StoreInv, Behind
  <2>4. \A u \in Txns : ~OnStore(u)'
    BY <2>2, <2>3 DEF OnStore, ensure_active
  <2> QED BY <1>1, <2>4, FinalizeRuns DEF Replaces
<1>2. CASE ~Replaces(t)
  BY <1>2, FinalizeRuns DEF commit, Replaces
<1> QED BY <1>1, <1>2

\* Every step keeps the runs of the transactions.
LEMMA NextRuns ==
  ASSUME HistoryInv, [HistoryNext]_<<vars, sights>>
  PROVE  HistoryInv'
<1>1. IInv'
  BY NextInv DEF HistoryInv, HistoryNext, vars
<1>2. CASE UNCHANGED <<vars, sights>>
  <2>1. shared' = shared /\ txn' = txn /\ sights' = sights
    BY <1>2 DEF vars
  <2> QED BY <1>1, <2>1 DEF HistoryInv, Runs, Run
<1>3. CASE HistoryNext
  <2>1. sights' = [u \in Txns |-> Seen(u)] /\ Next
    BY <1>3 DEF HistoryNext
  <2>2. ASSUME NEW t \in Txns, begin(t) \/ commit(t) \/ rollback(t) PROVE Runs'
    BY <1>1, <2>1, <2>2, beginRuns, commitRuns, FinalizeRuns DEF rollback
  <2>3. ASSUME NEW t \in Txns, NEW k \in SessionKeys,
               \/ session(t, k)
               \/ \E record \in FirstRecords : insert_session(t, k, record)
               \/ \E r \in 0..MaxSessionRevision, s \in SessionState, at \in Timestamps :
                      transition_session(t, k, r, s, at)
        PROVE  Runs'
    BY <1>1, <2>1, <2>3, StillRuns, insert_sessionRuns, transition_sessionRuns DEF session
  <2>4. ASSUME NEW t \in Txns, NEW k \in ReservationKeys, NEW c \in Contents,
               insert_reservation(t, k, c)
        PROVE  Runs'
    BY <1>1, <2>1, <2>4, insert_reservationRuns
  <2>5. ASSUME NEW t \in Txns, NEW k \in OutboxKeys, NEW at \in Timestamps,
               \/ \E c \in Contents :
                      append_outbox(t, k, [content |-> c, occurred_at_ms |-> at])
               \/ acknowledge_outbox(t, k, at)
        PROVE  Runs'
    BY <1>1, <2>1, <2>5, append_outboxRuns, acknowledge_outboxRuns
  <2>6. Runs'
    BY <2>1, <2>2, <2>3, <2>4, <2>5 DEF Next
  <2> QED BY <1>1, <2>6 DEF HistoryInv
<1> QED BY <1>2, <1>3

\* A step that changes the store is the commit of a run that began with what it held.
LEMMA StepIsSerial ==
  ASSUME HistoryInv, [HistoryNext]_<<vars, sights>>
  PROVE  Held(shared)' = Held(shared) \/ \E t \in Txns : Serial!Commit(t)
<1>1. [Next]_vars
  BY DEF HistoryNext, vars
<1>2. CASE shared' = shared
  BY <1>2 DEF Held
<1>3. ASSUME NEW t \in Txns, Replaces(t) PROVE Serial!Commit(t)
  <2>1. /\ shared'.sessions = txn[t].working.sessions
        /\ shared'.outbox = txn[t].working.outbox
        /\ shared'.outbox_order = txn[t].working.outbox_order
        /\ shared'.reservations = txn[t].working.reservations
        /\ OnStore(t)
    BY <1>3, Replaced DEF HistoryInv
  <2>2. Held(shared)' = Held(txn[t].working)
    BY <2>1 DEF Held
  <2>3. Run(t) /\ txn[t].base_generation = shared.generation
    BY <2>1 DEF HistoryInv, Runs, OnStore, ensure_active, Active
  <2>4. Held(shared) = sights[t][1] /\ Held(shared)' = sights[t][Len(sights[t])]
    BY <2>2, <2>3 DEF Run
  <2> QED BY <2>3, <2>4 DEF Run, Serial!Commit, Serial!Ran
<1> QED BY <1>1, <1>2, <1>3, OnlyCommits

\* The store is one of serial transactions: whatever the interleaving of snapshots,
\* operations, commits, conflicts and rollbacks, each commit that changes the store is
\* that of its operations run on what the commit before it left
\* (begin, the operations and commit of InMemoryTransaction).
THEOREM Serializable == HistorySpec => IsSerial
<1>1. HistoryInit => HistoryInv
  <2> SUFFICES ASSUME HistoryInit PROVE HistoryInv
    OBVIOUS
  <2>1. \A t \in Txns : txn[t] = NoTxn
    BY DEF HistoryInit, Init
  <2>2. sights \in [Txns -> Seq(HeldData)]
    <3>1. <<>> \in Seq(HeldData)
      OBVIOUS
    <3> QED BY <3>1 DEF HistoryInit
  <2> QED BY <2>1, <2>2, InitIInv DEF HistoryInit, HistoryInv, Runs, Active
<1>2. HistoryInv /\ [HistoryNext]_<<vars, sights>> => HistoryInv'
  BY NextRuns
<1>3. HistoryInit => Serial!Init
  BY DEF HistoryInit, Init, Empty, Serial!Init, Held
<1>4. HistoryInv /\ [HistoryNext]_<<vars, sights>>
        => [\E t \in Txns : Serial!Commit(t)]_(Held(shared))
  BY StepIsSerial
<1> QED BY <1>1, <1>2, <1>3, <1>4, PTL DEF HistorySpec, IsSerial, Serial!Spec
=============================================================================
