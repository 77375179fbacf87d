--------------------------- MODULE MCDurableStore ---------------------------
\* A small instance of DurableStore.
EXTENDS DurableHistory, TLC

Symmetry == Permutations(Txns) \cup Permutations(OutboxIds)

\* A new session, and one that was moved on before it is stored.
MCFirst == {<<"created", 0>>, <<"active", 1>>}

\* Bounds: a behaviour is followed while its transactions, of two writes each, hold
\* sessions alone; or reservations and outbox entries alone, through three commits.
Copies == {shared} \cup {txn[t].working : t \in {u \in Txns : txn[u] # NoTxn}}
SessionsOnly == \A data \in Copies :
  (\A k \in OutboxKeys : data.outbox[k] = None) /\ (\A k \in ReservationKeys : data.reservations[k] = None)
OutboxOnly == \A data \in Copies, k \in SessionKeys : data.sessions[k] = None
Bounded ==
  /\ SessionsOnly \/ (OutboxOnly /\ shared.generation <= 2)
  /\ \A t \in Txns : Len(sights[t]) <= 3
=============================================================================
