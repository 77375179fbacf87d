--------------------------- MODULE RevisionLedger ---------------------------
(***************************************************************************)
(* What a TtlStore promises its callers about revisions, with no clock, no *)
(* threads and no lock: a revision is handed out once, is the live one of  *)
(* its slot until exactly one thing ends it, and is never live again.      *)
(***************************************************************************)
EXTENDS Naturals

CONSTANTS Slots,        \* (tenant scope, key) pairs
          Values,       \* stored payloads
          MaxRevision,  \* last revision a u64 counter can hand out
          NoSlot, NoValue

VARIABLE ledger         \* what became of each revision

Revisions == 1..MaxRevision

Fates == {"unissued", "live", "renewed", "taken", "removed", "expired"}

Closed(fate) == fate \notin {"unissued", "live"}

Unissued == [fate |-> "unissued", slot |-> NoSlot, value |-> NoValue]

LiveAt(s) == {r \in Revisions : ledger[r].fate = "live" /\ ledger[r].slot = s}

\* Revisions are handed out in order, so r is next when all below it are used.
IsNext(r) == \A q \in Revisions : ledger[q].fate = "unissued" <=> q >= r

Init == ledger = [r \in Revisions |-> Unissued]

End(r, fate) ==
    /\ ledger[r].fate = "live"
    /\ ledger' = [ledger EXCEPT ![r].fate = fate]

\* A first value for a slot. A value that had expired there is dropped with it.
Issue(r, s, v) ==
    /\ IsNext(r)
    /\ ledger' = [q \in Revisions |->
                    IF q = r THEN [fate |-> "live", slot |-> s, value |-> v]
                    ELSE IF q \in LiveAt(s) THEN [ledger[q] EXCEPT !.fate = "expired"]
                    ELSE ledger[q]]

\* The same value in the same slot under a new revision.
Renew(r, old) ==
    /\ IsNext(r)
    /\ ledger[old].fate = "live"
    /\ ledger' = [ledger EXCEPT ![r] = ledger[old], ![old].fate = "renewed"]

Next ==
    \E r \in Revisions :
        \/ \E fate \in {"taken", "removed", "expired"} : End(r, fate)
        \/ \E s \in Slots, v \in Values : Issue(r, s, v)
        \/ \E old \in Revisions : Renew(r, old)

Spec == Init /\ [][Next]_ledger

-----------------------------------------------------------------------------
\* A slot never holds two live revisions.
OneLivePerSlot ==
    \A q, r \in Revisions :
        (ledger[q].fate = "live" /\ ledger[r].fate = "live"
            /\ ledger[q].slot = ledger[r].slot) => q = r

\* Once taken, removed, renewed or expired, a revision stays so.
ClosedIsFinal ==
    [][\A r \in Revisions : Closed(ledger[r].fate) => ledger'[r] = ledger[r]]_ledger
=============================================================================
