------------------------ MODULE IdentityStateProofs ------------------------
(***************************************************************************)
(* Lemmas about the functions of IdentityState, for all constants: what    *)
(* merging returns, preserves and reflects, and what a delta leaves out.   *)
(***************************************************************************)
EXTENDS IdentityState, TLAPS

\* merge_state returns a state: a map of signed slots and perhaps a marker.
LEMMA MergeType ==
    ASSUME NEW cur \in IdentityStateV1, NEW inc \in IdentityStateV1, NEW now
    PROVE  /\ MergeResult(cur, inc) \in IdentityStateV1
           /\ MergeState(cur, inc, now) \in IdentityStateV1
<1>1. MergedSlots(cur, inc) \in [Names -> SignedSlot \cup {None}]
  BY DEF MergedSlots, IdentityStateV1
<1>2. \A m \in DestroyedMarker : MarkerState(m) \in IdentityStateV1
  BY DEF MarkerState, EmptyState, IdentityStateV1
<1>3. MergeResult(cur, inc) \in IdentityStateV1
  BY <1>1, <1>2 DEF MergeResult, IdentityStateV1, Destroyed
<1> QED
  BY <1>3 DEF MergeState

\* A delta has the shape of a state.
LEMMA DeltaType ==
    ASSUME NEW st \in IdentityStateV1, NEW summary
    PROVE  DeltaSince(st, summary) \in IdentityStateV1
BY DEF DeltaSince, IdentityStateV1

LEMMA EmptyStateType == EmptyState \in IdentityStateV1
BY DEF EmptyState, IdentityStateV1

\* An order key is a pair of numbers.
LEMMA KeyType ==
    ASSUME NEW slot \in SignedSlot
    PROVE  /\ SlotOrderKey(slot) \in Nat \X Nat
           /\ SlotOrderKey(slot)[1] = slot.time
           /\ SlotOrderKey(slot)[2] = Hash[slot.bytes]
BY HashAssumption DEF SlotOrderKey, SignedSlot

\* summarize returns a summary.
LEMMA SummarizeType ==
    ASSUME NEW st \in IdentityStateV1
    PROVE  Summarize(st) \in SummaryV1
<1>1. \A n \in Held(st) : SlotOrderKey(st.slots[n]) \in Nat \X Nat
  BY KeyType DEF Held, IdentityStateV1
<1>2. Destroyed(st) => st.destroyed.time \in Nat
  BY DEF Destroyed, IdentityStateV1, DestroyedMarker
<1> QED
  BY <1>1, <1>2 DEF Summarize, SummaryV1

\* Slots that pass check_slot under one name and have equal order keys are
\* the same slot: the content follows from its hash, the signature from both.
LEMMA EqualKeysEqualSlots ==
    ASSUME NEW a \in SignedSlot, NEW b \in SignedSlot, NEW name \in Names,
           CheckSlot(a, name), CheckSlot(b, name),
           a.time = b.time, Hash[a.bytes] = Hash[b.bytes]
    PROVE  a = b
<1>1. a.bytes = b.bytes
  BY HashAssumption DEF SignedSlot
<1>2. a.sig = b.sig
  BY DEF CheckSlot, Verify
<1> QED
  BY <1>1, <1>2 DEF SignedSlot

\* The order merge climbs is reflexive.
LEMMA AtLeastReflexive ==
    ASSUME NEW st \in IdentityStateV1
    PROVE  AtLeast(st, st)
BY DEF AtLeast, Destroyed, IdentityStateV1, DestroyedMarker

\* The order merge climbs is transitive.
LEMMA AtLeastTransitive ==
    ASSUME NEW a \in IdentityStateV1, NEW b \in IdentityStateV1,
           NEW c \in IdentityStateV1, AtLeast(b, a), AtLeast(c, b)
    PROVE  AtLeast(c, a)
<1>1. CASE Destroyed(a)
  BY <1>1 DEF AtLeast, Destroyed, IdentityStateV1, DestroyedMarker
<1>2. CASE ~ Destroyed(a) /\ Destroyed(c)
  BY <1>2 DEF AtLeast
<1>3. CASE ~ Destroyed(a) /\ ~ Destroyed(c)
  <2>1. ~ Destroyed(b)
    BY <1>3 DEF AtLeast
  <2>2. SUFFICES ASSUME NEW n \in Held(a)
                 PROVE  \/ c.slots[n] = a.slots[n]
                        \/ /\ c.slots[n] # None
                           /\ KeyNewer(SlotOrderKey(c.slots[n]),
                                       SlotOrderKey(a.slots[n]))
    BY <1>3 DEF AtLeast
  <2>3. n \in Names /\ a.slots[n] \in SignedSlot /\ a.slots[n] # None
    BY DEF Held, IdentityStateV1
  <2>4. CASE b.slots[n] = a.slots[n]
    BY <1>3, <2>1, <2>3, <2>4 DEF AtLeast, Held
  <2>5. CASE /\ b.slots[n] # None
             /\ KeyNewer(SlotOrderKey(b.slots[n]), SlotOrderKey(a.slots[n]))
    <3>1. b.slots[n] \in SignedSlot /\ n \in Held(b)
      BY <2>3, <2>5 DEF Held, IdentityStateV1
    <3>2. CASE c.slots[n] = b.slots[n]
      BY <2>5, <3>2
    <3>3. CASE /\ c.slots[n] # None
               /\ KeyNewer(SlotOrderKey(c.slots[n]), SlotOrderKey(b.slots[n]))
      <4>1. c.slots[n] \in SignedSlot
        BY <2>3, <3>3 DEF IdentityStateV1
      <4> QED
        BY <2>3, <2>5, <3>1, <3>3, <4>1, KeyType DEF KeyNewer
    <3> QED
      BY <1>3, <2>1, <3>1, <3>2, <3>3 DEF AtLeast
  <2> QED
    BY <1>3, <2>1, <2>4, <2>5 DEF AtLeast
<1> QED
  BY <1>1, <1>2, <1>3

\* What a slot map merges to, name by name.
LEMMA MergedSlot ==
    ASSUME NEW cur \in IdentityStateV1, NEW inc \in IdentityStateV1,
           ~ Destroyed(cur), ~ Destroyed(inc), NEW n \in Names
    PROVE  /\ Supersedes(inc.slots[n], cur.slots[n]) =>
                 MergeResult(cur, inc).slots[n] = inc.slots[n]
           /\ ~ Supersedes(inc.slots[n], cur.slots[n]) =>
                 MergeResult(cur, inc).slots[n] = cur.slots[n]
           /\ ~ Destroyed(MergeResult(cur, inc))
BY DEF MergeResult, MergedSlots, Inserted, IdentityStateV1, Destroyed

\* merge_state never takes a state backwards.
LEMMA MergeClimbs ==
    ASSUME NEW cur \in IdentityStateV1, NEW inc \in IdentityStateV1
    PROVE  AtLeast(MergeResult(cur, inc), cur)
<1>1. CASE Destroyed(inc) \/ Destroyed(cur)
  BY <1>1, NoneAssumption
  DEF MergeResult, AtLeast, Destroyed, MarkerState, EmptyState,
      IdentityStateV1, DestroyedMarker
<1>2. CASE ~ Destroyed(inc) /\ ~ Destroyed(cur)
  <2>1. SUFFICES ASSUME NEW n \in Held(cur)
                 PROVE  LET new == MergeResult(cur, inc)
                        IN  \/ new.slots[n] = cur.slots[n]
                            \/ /\ new.slots[n] # None
                               /\ KeyNewer(SlotOrderKey(new.slots[n]),
                                           SlotOrderKey(cur.slots[n]))
    BY <1>2 DEF AtLeast
  <2>2. n \in Names /\ cur.slots[n] # None
    BY DEF Held
  <2>3. CASE Supersedes(inc.slots[n], cur.slots[n])
    BY <1>2, <2>2, <2>3, MergedSlot DEF Supersedes
  <2>4. CASE ~ Supersedes(inc.slots[n], cur.slots[n])
    BY <1>2, <2>2, <2>4, MergedSlot
  <2> QED
    BY <2>3, <2>4
<1> QED
  BY <1>1, <1>2

\* A state that validates at some clock validates at every later one.
LEMMA ValidLater ==
    ASSUME NEW st \in IdentityStateV1, NEW now \in Nat, NEW later \in Nat,
           now <= later, ValidateFull(st, now)
    PROVE  ValidateFull(st, later)
<1>1. \A t \in Nat : TimeAcceptable(t, now) => TimeAcceptable(t, later)
  BY SizeAssumption DEF TimeAcceptable
<1>2. CASE Destroyed(st)
  <2>1. st.destroyed.time \in Nat
    BY <1>2 DEF Destroyed, IdentityStateV1, DestroyedMarker
  <2> QED
    BY <1>1, <1>2, <2>1 DEF ValidateFull, CheckMarker
<1>3. CASE ~ Destroyed(st)
  <2>1. \A n \in Held(st) : st.slots[n].time \in Nat
    BY DEF Held, IdentityStateV1, SignedSlot
  <2> QED
    BY <1>1, <1>3, <2>1 DEF ValidateFull, CheckIncomingSlot
<1> QED
  BY <1>2, <1>3

\* Nothing held weighs nothing.
LEMMA EmptySize == StateSize(EmptyState) = 0
<1> DEFINE f(n) == EntryBytes + Size[EmptyState.slots[n].bytes]
           pick(s) == CHOOSE x \in s : TRUE
           IsIter(iter) == iter = [s \in SUBSET Held(EmptyState) |->
                             IF s = {} THEN 0 ELSE f(pick(s)) + iter[s \ {pick(s)}]]
           fold == CHOOSE iter : IsIter(iter)
<1>1. Held(EmptyState) = {}
  BY DEF Held, EmptyState
<1>2. StateSize(EmptyState) = fold[Held(EmptyState)]
  BY Zenon DEF StateSize, MapThenSumSet, MapThenFoldSet
<1>3. \E iter : IsIter(iter)
  <2> DEFINE zero == [s \in SUBSET Held(EmptyState) |-> 0]
  <2> HIDE DEF f, pick
  <2>1. IsIter(zero)
    BY <1>1
  <2> QED
    BY <2>1
<1>4. IsIter(fold)
  BY <1>3, Zenon
<1> HIDE DEF f, pick, fold
<1>5. fold[{}] = 0
  BY <1>1, <1>4
<1> QED
  BY <1>1, <1>2, <1>5

\* So the empty state is always valid.
LEMMA EmptyValid == ASSUME NEW t PROVE ValidateFull(EmptyState, t)
<1>1. ~ Destroyed(EmptyState) /\ Held(EmptyState) = {}
  BY DEF EmptyState, Destroyed, Held
<1> QED
  BY <1>1, EmptySize, SizeAssumption DEF ValidateFull

\* What merges into a valid state leaves a valid state.
LEMMA MergeValid ==
    ASSUME NEW cur \in IdentityStateV1, NEW inc \in IdentityStateV1,
           NEW now \in Nat, ValidateFull(cur, now),
           MergeAccepts(cur, inc, now)
    PROVE  ValidateFull(MergeResult(cur, inc), now)
<1>1. CASE Destroyed(inc)
  <2>1. /\ Destroyed(MarkerState(inc.destroyed))
        /\ MarkerState(inc.destroyed).destroyed = inc.destroyed
        /\ Held(MarkerState(inc.destroyed)) = {}
    BY <1>1 DEF MarkerState, EmptyState, Held, Destroyed
  <2> QED
    BY <1>1, <2>1 DEF MergeAccepts, MergeResult, ValidateFull
<1>2. CASE ~ Destroyed(inc) /\ Destroyed(cur)
  BY <1>2 DEF MergeResult
<1>3. CASE ~ Destroyed(inc) /\ ~ Destroyed(cur)
  <2> DEFINE new == MergeResult(cur, inc)
  <2>1. ASSUME NEW n \in Held(new)
        PROVE  CheckIncomingSlot(n, new.slots[n], now)
    <3>1. n \in Names /\ new.slots[n] # None
      BY DEF Held
    <3>2. CASE Supersedes(inc.slots[n], cur.slots[n])
      BY <1>3, <3>1, <3>2, MergedSlot DEF Held, MergeAccepts
    <3>3. CASE ~ Supersedes(inc.slots[n], cur.slots[n])
      BY <1>3, <3>1, <3>3, MergedSlot DEF Held, ValidateFull
    <3> QED
      BY <3>2, <3>3
  <2>2. StateSize(new) <= MaxStateBytes
    <3>1. CASE Inserted(cur, inc) = {}
      <4>1. new = cur
        BY <1>3, <3>1 DEF MergeResult, MergedSlots, IdentityStateV1
      <4> QED
        BY <1>3, <4>1 DEF ValidateFull
    <3>2. CASE Inserted(cur, inc) # {}
      BY <1>3, <3>2 DEF MergeResult, MergeAccepts
    <3> QED
      BY <3>1, <3>2
  <2>3. ~ Destroyed(new)
    BY <1>3 DEF MergeResult, Destroyed, IdentityStateV1
  <2> QED
    BY <2>1, <2>2, <2>3 DEF ValidateFull
<1> QED
  BY <1>1, <1>2, <1>3

\* What merges is reflected: the result is at least as new as the update.
LEMMA MergeReflects ==
    ASSUME NEW cur \in IdentityStateV1, NEW inc \in IdentityStateV1,
           NEW now \in Nat, ValidateFull(cur, now),
           MergeAccepts(cur, inc, now)
    PROVE  AtLeast(MergeResult(cur, inc), inc)
<1>1. CASE Destroyed(inc)
  BY <1>1 DEF MergeResult, AtLeast, Destroyed, MarkerState, EmptyState,
              IdentityStateV1, DestroyedMarker
<1>2. CASE ~ Destroyed(inc) /\ Destroyed(cur)
  BY <1>2 DEF MergeResult, AtLeast
<1>3. CASE ~ Destroyed(inc) /\ ~ Destroyed(cur)
  <2> DEFINE new == MergeResult(cur, inc)
  <2>1. SUFFICES ASSUME NEW n \in Held(inc)
                 PROVE  \/ new.slots[n] = inc.slots[n]
                        \/ /\ new.slots[n] # None
                           /\ KeyNewer(SlotOrderKey(new.slots[n]),
                                       SlotOrderKey(inc.slots[n]))
    BY <1>3 DEF AtLeast
  <2>2. n \in Names /\ inc.slots[n] \in SignedSlot /\ inc.slots[n] # None
    BY DEF Held, IdentityStateV1
  <2>3. CASE Supersedes(inc.slots[n], cur.slots[n])
    BY <1>3, <2>2, <2>3, MergedSlot
  <2>4. CASE ~ Supersedes(inc.slots[n], cur.slots[n])
    <3>1. /\ cur.slots[n] \in SignedSlot /\ n \in Held(cur)
          /\ ~ KeyNewer(SlotOrderKey(inc.slots[n]), SlotOrderKey(cur.slots[n]))
      BY <2>2, <2>4 DEF Supersedes, Held, IdentityStateV1
    <3>2. CheckSlot(cur.slots[n], n) /\ CheckSlot(inc.slots[n], n)
      BY <1>3, <3>1 DEF ValidateFull, MergeAccepts, CheckIncomingSlot
    <3>3. \/ KeyNewer(SlotOrderKey(cur.slots[n]), SlotOrderKey(inc.slots[n]))
          \/ /\ cur.slots[n].time = inc.slots[n].time
             /\ Hash[cur.slots[n].bytes] = Hash[inc.slots[n].bytes]
      BY <2>2, <3>1, KeyType DEF KeyNewer
    <3>4. \/ KeyNewer(SlotOrderKey(cur.slots[n]), SlotOrderKey(inc.slots[n]))
          \/ cur.slots[n] = inc.slots[n]
      BY <2>2, <3>1, <3>2, <3>3, EqualKeysEqualSlots
    <3>5. new.slots[n] = cur.slots[n] /\ cur.slots[n] # None
      BY <1>3, <2>2, <2>4, <3>1, MergedSlot DEF Held
    <3> QED
      BY <3>4, <3>5
  <2> QED
    BY <2>3, <2>4
<1> QED
  BY <1>1, <1>2, <1>3


-----------------------------------------------------------------------------
(* Summaries and deltas.                                                   *)

\* A state covers its own summary.
LEMMA SummaryCovered ==
    ASSUME NEW st \in IdentityStateV1
    PROVE  Covers(st, Summarize(st))
<1>1. ASSUME NEW n \in Names, Summarize(st).slots[n] # None
      PROVE  /\ st.slots[n] \in SignedSlot /\ st.slots[n] # None
             /\ Summarize(st).slots[n] = SlotOrderKey(st.slots[n])
  BY <1>1 DEF Summarize, Held, IdentityStateV1
<1> QED
  BY <1>1, KeyType DEF Covers, KeyNewer

\* A newer state covers every summary an older one covered.
LEMMA CoversLater ==
    ASSUME NEW old \in IdentityStateV1, NEW new \in IdentityStateV1,
           NEW summary \in SummaryV1,
           Covers(old, summary), AtLeast(new, old)
    PROVE  Covers(new, summary)
<1>1. CASE Destroyed(new)
  BY <1>1 DEF Covers
<1>2. CASE ~ Destroyed(new)
  <2>1. ~ Destroyed(old)
    BY <1>2 DEF AtLeast
  <2>2. SUFFICES ASSUME NEW n \in Names, summary.slots[n] # None
                 PROVE  /\ new.slots[n] # None
                        /\ ~ KeyNewer(summary.slots[n],
                                      SlotOrderKey(new.slots[n]))
    BY DEF Covers
  <2>3. /\ old.slots[n] \in SignedSlot /\ n \in Held(old)
        /\ ~ KeyNewer(summary.slots[n], SlotOrderKey(old.slots[n]))
    BY <2>1, <2>2 DEF Covers, Held, IdentityStateV1
  <2>4. summary.slots[n] \in Nat \X Nat
    BY <2>2 DEF SummaryV1
  <2>5. CASE new.slots[n] = old.slots[n]
    BY <2>3, <2>5 DEF Held
  <2>6. CASE /\ new.slots[n] # None
             /\ KeyNewer(SlotOrderKey(new.slots[n]), SlotOrderKey(old.slots[n]))
    <3>1. new.slots[n] \in SignedSlot
      BY <2>6 DEF IdentityStateV1
    <3> QED
      BY <2>3, <2>4, <2>6, <3>1, KeyType DEF KeyNewer
  <2> QED
    BY <1>2, <2>1, <2>3, <2>5, <2>6 DEF AtLeast
<1> QED
  BY <1>1, <1>2

\* What delta_since leaves out would not have been inserted: the delta for a
\* summary that held covers merges into held exactly as the whole state does.
LEMMA DeltaSufficient ==
    ASSUME NEW held \in IdentityStateV1, NEW src \in IdentityStateV1,
           NEW summary \in SummaryV1, NEW now \in Nat, NEW past \in Nat,
           Covers(held, summary),
           ValidateFull(held, now), ValidateFull(src, past)
    PROVE  MergeState(held, DeltaSince(src, summary), now)
              = MergeState(held, src, now)
<1> DEFINE delta == DeltaSince(src, summary)
<1>1. CASE Destroyed(src)
  BY <1>1 DEF DeltaSince
<1>2. CASE ~ Destroyed(src) /\ Destroyed(held)
  BY <1>2 DEF DeltaSince, MergeState, MergeResult, Destroyed
<1>3. CASE ~ Destroyed(src) /\ ~ Destroyed(held)
  <2>1. ~ Destroyed(delta)
    BY <1>3 DEF DeltaSince, Destroyed
  <2>2. ASSUME NEW n \in Names
        PROVE  /\ delta.slots[n] # None => delta.slots[n] = src.slots[n]
               /\ delta.slots[n] = None /\ src.slots[n] # None =>
                     /\ held.slots[n] # None
                     /\ held.slots[n] \in SignedSlot
                     /\ ~ KeyNewer(SlotOrderKey(src.slots[n]),
                                   SlotOrderKey(held.slots[n]))
    <3>1. delta.slots[n] # None => delta.slots[n] = src.slots[n]
      BY <1>3 DEF DeltaSince
    <3>2. ASSUME delta.slots[n] = None, src.slots[n] # None
          PROVE  /\ held.slots[n] # None
                 /\ held.slots[n] \in SignedSlot
                 /\ ~ KeyNewer(SlotOrderKey(src.slots[n]),
                               SlotOrderKey(held.slots[n]))
      <4>1. /\ summary.slots[n] # None
            /\ ~ KeyNewer(SlotOrderKey(src.slots[n]), summary.slots[n])
        BY <1>3, <3>2 DEF DeltaSince, Held
      <4>2. summary.slots[n] \in Nat \X Nat /\ src.slots[n] \in SignedSlot
        BY <3>2, <4>1 DEF SummaryV1, IdentityStateV1
      <4>3. /\ held.slots[n] # None
            /\ held.slots[n] \in SignedSlot
            /\ ~ KeyNewer(summary.slots[n], SlotOrderKey(held.slots[n]))
        BY <1>3, <4>1 DEF Covers, IdentityStateV1
      <4> QED
        BY <4>1, <4>2, <4>3, KeyType DEF KeyNewer
    <3> QED
      BY <3>1, <3>2
  <2>3. \A n \in Names : Supersedes(delta.slots[n], held.slots[n])
                            <=> Supersedes(src.slots[n], held.slots[n])
    BY <2>2 DEF Supersedes
  <2>4. Inserted(held, delta) = Inserted(held, src)
    BY <2>3 DEF Inserted
  <2>5. MergedSlots(held, delta) = MergedSlots(held, src)
    <3>1. \A n \in Inserted(held, delta) : delta.slots[n] = src.slots[n]
      BY <2>2 DEF Inserted, Supersedes
    <3> QED
      BY <2>4, <3>1 DEF MergedSlots
  <2>6. MergeAccepts(held, delta, now) <=> MergeAccepts(held, src, now)
    <3>1. (\A n \in Held(delta) : CheckIncomingSlot(n, delta.slots[n], now))
            <=> (\A n \in Held(src) : CheckIncomingSlot(n, src.slots[n], now))
      <4>1. ASSUME NEW n \in Held(src), n \notin Held(delta)
            PROVE  CheckIncomingSlot(n, src.slots[n], now)
        <5>1. /\ n \in Names /\ delta.slots[n] = None
              /\ src.slots[n] # None /\ src.slots[n] \in SignedSlot
          BY <4>1 DEF Held, IdentityStateV1
        <5>2. /\ held.slots[n] \in SignedSlot
              /\ ~ KeyNewer(SlotOrderKey(src.slots[n]),
                            SlotOrderKey(held.slots[n]))
              /\ n \in Held(held)
          BY <2>2, <5>1 DEF Held
        <5>3. /\ src.slots[n].time \in Nat
              /\ held.slots[n].time \in Nat
              /\ src.slots[n].time <= held.slots[n].time
          BY <5>1, <5>2, KeyType DEF KeyNewer, SignedSlot
        <5>4. TimeAcceptable(held.slots[n].time, now)
          BY <1>3, <5>2 DEF ValidateFull, CheckIncomingSlot
        <5>5. TimeAcceptable(src.slots[n].time, now)
          BY <5>3, <5>4, SizeAssumption DEF TimeAcceptable
        <5>6. CheckSlot(src.slots[n], n)
          BY <1>3 DEF ValidateFull, CheckIncomingSlot
        <5> QED
          BY <5>5, <5>6 DEF CheckIncomingSlot
      <4>2. \A n \in Held(delta) :
               n \in Held(src) /\ delta.slots[n] = src.slots[n]
        BY <2>2 DEF Held
      <4> QED
        BY <4>1, <4>2
    <3> QED
      BY <1>3, <2>1, <2>4, <2>5, <3>1 DEF MergeAccepts
  <2>7. MergeResult(held, delta) = MergeResult(held, src)
    BY <1>3, <2>1, <2>5 DEF MergeResult
  <2> QED
    BY <2>6, <2>7 DEF MergeState
<1> QED
  BY <1>1, <1>2, <1>3
=============================================================================
