---------------------------- MODULE SerialStore ----------------------------
(***************************************************************************)
(* What a DurableStateStore promises: no snapshots, no generations and no  *)
(* conflicts.  A transaction that commits a change might as well have run  *)
(* by itself at that moment: the first of its operations saw what the      *)
(* transaction before it left, every other one saw what the one before it  *)
(* made of that, and the last left what is stored from then on.            *)
(***************************************************************************)
EXTENDS SessionLifecycle, Sequences

CONSTANTS SessionKeys, ReservationKeys, OutboxKeys,
          Contents, Timestamps,
          Handles,     \* of transactions
          None

VARIABLES contents,    \* what is stored
          sights       \* of each transaction, what its operations have seen so far

Init ==
    contents = [sessions |-> [k \in SessionKeys |-> None],
                reservations |-> [k \in ReservationKeys |-> None],
                outbox |-> [k \in OutboxKeys |-> None],
                outbox_order |-> <<>>]

SessionRecord == [content : Contents, state : SessionState, revision : 0..MaxSessionRevision,
                  created_at_ms : Timestamps, updated_at_ms : Timestamps]

\* The operations, each of which makes something of what it sees.
Open(old, new) ==
    \E k \in SessionKeys :
        /\ old.sessions[k] = None /\ new.sessions[k] \in SessionRecord
        /\ new = [old EXCEPT !.sessions[k] = new.sessions[k]]

Move(old, new) ==
    \E k \in SessionKeys, s \in SessionState, at \in Timestamps :
        /\ old.sessions[k] # None /\ CanMove(old.sessions[k], s, at)
        /\ new = [old EXCEPT !.sessions[k] = transitioned(@, s, at)]

Reserve(old, new) ==
    \E k \in ReservationKeys, c \in Contents :
        /\ old.reservations[k] = None
        /\ new = [old EXCEPT !.reservations[k] = c]

Send(old, new) ==
    \E k \in OutboxKeys, c \in Contents, at \in Timestamps :
        /\ old.outbox[k] = None
        /\ new = [old EXCEPT !.outbox_order = Append(@, k),
                             !.outbox[k] = [record |-> [content |-> c, occurred_at_ms |-> at],
                                            acknowledged_at_ms |-> None]]

Acknowledge(old, new) ==
    \E k \in OutboxKeys, at \in Timestamps :
        /\ old.outbox[k] # None /\ old.outbox[k].acknowledged_at_ms = None
        /\ at >= old.outbox[k].record.occurred_at_ms
        /\ new = [old EXCEPT !.outbox[k].acknowledged_at_ms = at]

Operation(old, new) ==
    Open(old, new) \/ Move(old, new) \/ Reserve(old, new) \/ Send(old, new) \/ Acknowledge(old, new)

\* The operations of one transaction, one after another.
Ran(states) == \A i \in 1..Len(states) - 1 : Operation(states[i], states[i + 1])

Commit(t) ==
    /\ sights[t] # <<>> /\ Ran(sights[t])
    /\ contents = sights[t][1]
    /\ contents' = sights[t][Len(sights[t])]

\* The sights of a transaction are what its callers saw; they are of no concern here
\* before it commits.
Spec == Init /\ [][\E t \in Handles : Commit(t)]_contents
=============================================================================
