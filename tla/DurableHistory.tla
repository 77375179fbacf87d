--------------------------- MODULE DurableHistory ---------------------------
(***************************************************************************)
(* DurableStore with a history of what each open transaction has had       *)
(* before it, and the claim that this makes it a SerialStore.              *)
(***************************************************************************)
EXTENDS DurableStore

VARIABLE sights    \* history: the working copies of each transaction, one after another

\* What the store or a working copy holds, apart from the generation.
Held(data) == [sessions |-> data.sessions, reservations |-> data.reservations,
               outbox |-> data.outbox, outbox_order |-> data.outbox_order]

Active(tx) == tx # NoTxn /\ tx.state = "active"

\* A transaction begins with the snapshot; an operation that writes sees what it made.
Seen(t) ==
    IF ~Active(txn'[t]) THEN <<>>
    ELSE IF ~Active(txn[t]) THEN <<Held(txn'[t].working)>>
    ELSE IF txn'[t] # txn[t] THEN Append(sights[t], Held(txn'[t].working))
    ELSE sights[t]

HistoryInit == Init /\ sights = [t \in Txns |-> <<>>]
HistoryNext == Next /\ sights' = [t \in Txns |-> Seen(t)]
HistorySpec == HistoryInit /\ [][HistoryNext]_<<vars, sights>>

Serial == INSTANCE SerialStore WITH Handles <- Txns, contents <- Held(shared)

\* Optimistic transactions over snapshots are transactions that run one after another:
\* what a transaction that committed a change was told, it would have been told at the
\* moment of its commit (begin, the operations and commit of InMemoryTransaction).
IsSerial == Serial!Spec
=============================================================================
