-------------------------- MODULE SessionLifecycle --------------------------
(***************************************************************************)
(* The canonical session state machine (qingyin-types/src/lib.rs) and the  *)
(* revisioned record that moves along it (qingyin-state/src/model.rs).     *)
(***************************************************************************)
EXTENDS Naturals

CONSTANT MaxSessionRevision   \* u64::MAX for SessionRecord.revision

Terminal == {"completed", "cancelled", "expired", "failed"}

Forward ==
    {<<"created", "authorized">>, <<"authorized", "routing">>, <<"routing", "leased">>,
     <<"leased", "connecting">>, <<"connecting", "active">>, <<"active", "draining">>,
     <<"active", "retrying">>, <<"retrying", "active">>, <<"draining", "completed">>}

SessionState == {edge[1] : edge \in Forward} \cup Terminal

is_terminal(state) == state \in Terminal

can_transition_to(state, next) ==
    /\ ~is_terminal(state)
    /\ next \in {"cancelled", "expired", "failed"} \/ <<state, next>> \in Forward

\* Mutant: updated_at may go back.
CanMoveUndated(record, next, at) ==
    can_transition_to(record.state, next) /\ record.revision < MaxSessionRevision

\* What transitioned admits for a next state other than the present one.
CanMove(record, next, at) ==
    /\ can_transition_to(record.state, next)
    /\ at >= record.updated_at_ms
    /\ record.revision < MaxSessionRevision

transitioned(record, next, at) ==
    [record EXCEPT !.state = next, !.revision = @ + 1, !.updated_at_ms = at]

\* The states that exactly n transitions, as many as a record can count, lead between.
Walks == [n \in 0..MaxSessionRevision |->
            {path \in [0..n -> SessionState] : \A i \in 1..n : can_transition_to(path[i - 1], path[i])}]
Ends == [n \in 0..MaxSessionRevision |-> {<<path[0], path[n]>> : path \in Walks[n]}]

Joined(from, to, n) == <<from, to>> \in Ends[n]
=============================================================================
