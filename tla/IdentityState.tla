--------------------------- MODULE IdentityState ---------------------------
(***************************************************************************)
(* The state of one identity contract and the pure functions over it:      *)
(* common/src/state.rs and common/src/merge.rs.  A state is a map of named *)
(* slots, each signed and timestamped by the identity key, or a signed     *)
(* destruction marker.  Content bytes are members of Contents; what the    *)
(* code reads of them is their size and the order of their hashes.  A      *)
(* signature is the pair of the key that made it and the message it covers.*)
(***************************************************************************)
EXTENDS Integers, FiniteSets, FiniteSetsExt

CONSTANTS
    Keys,           \* the ed25519 identity keys
    Owner,          \* the key this contract is parameterised by
    Names,          \* resource names: "profile", "avatar", ...
    Contents,       \* slot contents; the empty one is a tombstone
    Size,           \* Size[c]: the length of content c in bytes
    Hash,           \* Hash[c]: blake3 of content c, read as a number
    EntryBytes,     \* serialized size of a slot apart from its content
    MaxSlotBytes,   \* hard cap on the content of one slot
    MaxStateBytes,  \* hard cap on the whole serialized state
    MaxFuture,      \* tolerated lead of a timestamp over the host clock
    None            \* no slot, no marker

ASSUME OwnerAssumption == Owner \in Keys

ASSUME SizeAssumption ==
    /\ Size \in [Contents -> Nat]
    /\ EntryBytes \in Nat
    /\ MaxSlotBytes \in Nat
    /\ MaxStateBytes \in Nat
    /\ MaxFuture \in Nat

\* blake3 is taken to be free of collisions on the contents in play.
ASSUME HashAssumption ==
    /\ Hash \in [Contents -> Nat]
    /\ \A c, d \in Contents : Hash[c] = Hash[d] => c = d

-----------------------------------------------------------------------------
(* Signatures and the messages they cover.                                 *)

SlotMessage(pk, name, time, hash) ==
    [domain |-> "whoiam-slot-v1", pk |-> pk, name |-> name,
     time |-> time, hash |-> hash]

DestroyMessage(pk, time) ==
    [domain |-> "whoiam-destroy-v1", pk |-> pk, time |-> time]

Messages ==
    [domain : {"whoiam-slot-v1"}, pk : Keys, name : Names,
     time : Nat, hash : Nat]
    \cup [domain : {"whoiam-destroy-v1"}, pk : Keys, time : Nat]

Signatures == [key : Keys, msg : Messages]

Sign(sk, msg) == [key |-> sk, msg |-> msg]

Verify(pk, msg, sig) == sig = Sign(pk, msg)

SignedSlot == [time : Nat, bytes : Contents, sig : Signatures]

DestroyedMarker == [time : Nat, sig : Signatures]

ASSUME NoneAssumption == None \notin SignedSlot \cup DestroyedMarker

SignSlot(sk, name, time, bytes) ==
    [time |-> time, bytes |-> bytes,
     sig |-> Sign(sk, SlotMessage(sk, name, time, Hash[bytes]))]

SignDestroy(sk, time) ==
    [time |-> time, sig |-> Sign(sk, DestroyMessage(sk, time))]

\* Mutation: the signature is looked at, the name it was made for is not.
CheckSlotAnyName(slot, name) ==
    /\ Size[slot.bytes] <= MaxSlotBytes
    /\ \E n \in Names :
          Verify(Owner, SlotMessage(Owner, n, slot.time, Hash[slot.bytes]),
                 slot.sig)

CheckSlot(slot, name) ==
    /\ Size[slot.bytes] <= MaxSlotBytes
    /\ Verify(Owner, SlotMessage(Owner, name, slot.time, Hash[slot.bytes]),
              slot.sig)

CheckDestroy(m) == Verify(Owner, DestroyMessage(Owner, m.time), m.sig)

-----------------------------------------------------------------------------
(* States.  The map is total, with None at the names it does not hold.     *)

IdentityStateV1 ==
    [slots : [Names -> SignedSlot \cup {None}],
     destroyed : DestroyedMarker \cup {None}]

EmptyState == [slots |-> [n \in Names |-> None], destroyed |-> None]

SlotState(name, slot) ==
    [EmptyState EXCEPT !.slots = [EmptyState.slots EXCEPT ![name] = slot]]

MarkerState(m) == [EmptyState EXCEPT !.destroyed = m]

Held(st) == {n \in Names : st.slots[n] # None}

Destroyed(st) == st.destroyed # None

StateSize(st) ==
    MapThenSumSet(LAMBDA n : EntryBytes + Size[st.slots[n].bytes], Held(st))

\* Newer time wins; the content hash breaks ties.
SlotOrderKey(slot) == <<slot.time, Hash[slot.bytes]>>

\* Mutation: the hash is compared before the time.
KeyNewerByHash(a, b) == a[2] > b[2] \/ (a[2] = b[2] /\ a[1] > b[1])

KeyNewer(a, b) == a[1] > b[1] \/ (a[1] = b[1] /\ a[2] > b[2])

\* Mutation: writes of the same time are left in the order they came.
SupersedesByTime(slot, held) ==
    /\ slot # None
    /\ held # None => slot.time > held.time

\* slot replaces held: nothing is held, or slot has the greater order key.
Supersedes(slot, held) ==
    /\ slot # None
    /\ held # None => KeyNewer(SlotOrderKey(slot), SlotOrderKey(held))

-----------------------------------------------------------------------------
(* merge.rs                                                                *)

TimeAcceptable(time, now) == time <= now + MaxFuture

CheckIncomingSlot(name, slot, now) ==
    TimeAcceptable(slot.time, now) /\ CheckSlot(slot, name)

CheckMarker(m, now) == CheckDestroy(m) /\ TimeAcceptable(m.time, now)

ValidateFull(st, now) ==
    IF Destroyed(st)
    THEN CheckMarker(st.destroyed, now) /\ Held(st) = {}
    ELSE /\ \A n \in Held(st) : CheckIncomingSlot(n, st.slots[n], now)
         /\ StateSize(st) <= MaxStateBytes

\* The names at which merging incoming into current inserts a slot.
Inserted(current, incoming) ==
    {n \in Names : Supersedes(incoming.slots[n], current.slots[n])}

MergedSlots(current, incoming) ==
    [n \in Names |-> IF n \in Inserted(current, incoming)
                     THEN incoming.slots[n] ELSE current.slots[n]]

\* Mutation: the state cap is not checked after the inserts.
MergeAcceptsAnySize(current, incoming, now) ==
    IF Destroyed(incoming) THEN CheckMarker(incoming.destroyed, now)
    ELSE IF Destroyed(current) THEN Held(incoming) = {}
    ELSE \A n \in Held(incoming) :
            CheckIncomingSlot(n, incoming.slots[n], now)

\* merge_state returns Ok: any fault in incoming rejects all of it.
MergeAccepts(current, incoming, now) ==
    IF Destroyed(incoming) THEN CheckMarker(incoming.destroyed, now)
    ELSE IF Destroyed(current) THEN Held(incoming) = {}
    ELSE /\ \A n \in Held(incoming) :
                CheckIncomingSlot(n, incoming.slots[n], now)
         /\ Inserted(current, incoming) # {} =>
                StateSize([current EXCEPT
                             !.slots = MergedSlots(current, incoming)])
                    <= MaxStateBytes

\* Mutation: a marker is taken without comparing it with the one held.
MergeResultAnyMarker(current, incoming) ==
    IF Destroyed(incoming) THEN MarkerState(incoming.destroyed)
    ELSE IF Destroyed(current) THEN current
    ELSE [current EXCEPT !.slots = MergedSlots(current, incoming)]

\* The state merge_state leaves in current when it returns Ok.
MergeResult(current, incoming) ==
    IF Destroyed(incoming)
    THEN IF Destroyed(current)
            /\ current.destroyed.time >= incoming.destroyed.time
         THEN current
         ELSE MarkerState(incoming.destroyed)
    ELSE IF Destroyed(current) THEN current
    ELSE [current EXCEPT !.slots = MergedSlots(current, incoming)]

\* On Err current is left untouched.
MergeState(current, incoming, now) ==
    IF MergeAccepts(current, incoming, now)
    THEN MergeResult(current, incoming) ELSE current

SummaryV1 ==
    [slots : [Names -> (Nat \X Nat) \cup {None}], destroyed : Nat \cup {None}]

EmptySummary == [slots |-> [n \in Names |-> None], destroyed |-> None]

Summarize(st) ==
    [slots |-> [n \in Names |-> IF n \in Held(st)
                                THEN SlotOrderKey(st.slots[n]) ELSE None],
     destroyed |-> IF Destroyed(st) THEN st.destroyed.time ELSE None]

\* Mutation: an equal time is taken for an equal slot.
DeltaSinceByTime(st, summary) ==
    IF Destroyed(st) THEN st
    ELSE [slots |-> [n \in Names |->
                       IF /\ n \in Held(st)
                          /\ summary.slots[n] # None =>
                                st.slots[n].time > summary.slots[n][1]
                       THEN st.slots[n] ELSE None],
          destroyed |-> None]

\* Mutation: a destroyed state has no slots, so there is nothing to send.
DeltaSinceNoMarker(st, summary) ==
    [slots |-> [n \in Names |->
                  IF /\ n \in Held(st)
                     /\ summary.slots[n] # None =>
                           KeyNewer(SlotOrderKey(st.slots[n]), summary.slots[n])
                  THEN st.slots[n] ELSE None],
     destroyed |-> None]

\* A destroyed state is returned whole; summary.destroyed is not read.
DeltaSince(st, summary) ==
    IF Destroyed(st) THEN st
    ELSE [slots |-> [n \in Names |->
                       IF /\ n \in Held(st)
                          /\ summary.slots[n] # None =>
                                KeyNewer(SlotOrderKey(st.slots[n]),
                                         summary.slots[n])
                       THEN st.slots[n] ELSE None],
          destroyed |-> None]

-----------------------------------------------------------------------------
(* The order merge climbs, used by the properties: a destroyed state is    *)
(* above every live one and markers are ordered by time.                   *)

AtLeast(new, old) ==
    IF Destroyed(old)
    THEN Destroyed(new) /\ new.destroyed.time >= old.destroyed.time
    ELSE \/ Destroyed(new)
         \/ \A n \in Held(old) :
               \/ new.slots[n] = old.slots[n]
               \/ /\ new.slots[n] # None
                  /\ KeyNewer(SlotOrderKey(new.slots[n]),
                              SlotOrderKey(old.slots[n]))


\* st has everything that summary lists, or newer.
Covers(st, summary) ==
    Destroyed(st) \/ \A n \in Names : summary.slots[n] # None =>
        /\ st.slots[n] # None
        /\ ~ KeyNewer(summary.slots[n], SlotOrderKey(st.slots[n]))
=============================================================================
