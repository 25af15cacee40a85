----------------------------- MODULE MCReaders -----------------------------
(* A small instance of Readers for TLC: two apps, two personas of which one  *)
(* publishes a good, a malformed or an empty profile, or is destroyed.       *)
EXTENDS Readers, TLC

CONSTANTS shop, forum, good, bad, profile, me, other

MCContents == {good, bad, Tombstone}

MCSize == good :> 1 @@ bad :> 1 @@ Tombstone :> 0

MCHash == good :> 1 @@ bad :> 2 @@ Tombstone :> 0

MCWellFormed == profile :> {good}

MCForeign ==
    {[return |-> shop, plain |-> TRUE, challenge |-> 0],
     [return |-> forum, plain |-> FALSE, challenge |-> 1]}

MCWritings ==
    {SlotState(profile, SignSlot(me, profile, 0, good)),
     SlotState(profile, SignSlot(me, profile, 1, bad)),
     SlotState(profile, SignSlot(me, profile, 1, Tombstone)),
     SlotState(profile, SignSlot(other, profile, 1, good)),
     MarkerState(SignDestroy(me, 1))}
============================================================================
