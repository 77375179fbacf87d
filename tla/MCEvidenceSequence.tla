------------------------- MODULE MCEvidenceSequence -------------------------
\* A small instance of EvidenceSequence: an owner who reads as slowly as may be, and one
\* who reads each package at once, the pull request first or last.
EXTENDS EvidenceSequence

InventoryOrder == <<"pull", "metadata", "rest", "comments", "attestation", "main-ref", "merged">>
MCOrders == {InventoryOrder, Reverse(InventoryOrder)}

\* Bound: the slow owner reads in the order of the inventory.  A behaviour is followed
\* until a package or a window of it is refused for good, or no time is left for the
\* ticks between packages.
InOrder ==
  \E n \in 0 .. Len(InventoryOrder) :
    DOMAIN draft = ToSet(SubSeq(InventoryOrder, 1, n)) \cap COMPONENTS(stage)
Hopeful ==
  /\ habit = "any" => InOrder
  /\ stage = "pre" => clock + 2 <= MaxTime
  /\ stage = "start" => ~Refused /\ clock + 1 <= MaxTime
  /\ stage = "end" => ~Refused
  /\ stage = "verify" => WindowAccepted
=============================================================================
