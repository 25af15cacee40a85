----------------------- MODULE IdentityContractProofs ----------------------
(***************************************************************************)
(* Proofs about IdentityContract for every set of hosts, names, contents   *)
(* and every bound: IInv is inductive, and the safety properties and the   *)
(* refinement of IdentityRegister follow from it.                          *)
(***************************************************************************)
EXTENDS IdentityContract, IdentityStateProofs, TLAPS

\* Nothing is None but None.
LEMMA NoneFacts ==
    /\ None \notin IdentityStateV1
    /\ None \notin Job
    /\ None \notin SignedSlot
    /\ None \notin DestroyedMarker
    /\ None \notin Nat
    /\ None \notin Nat \X Nat
BY NoneAssumption, NoneNodeAssumption

\* The owner never unsigns: what was authentic or unforged stays so.
LEMMA SignaturesPersist ==
    ASSUME issued \subseteq issued', NEW st
    PROVE  /\ Authentic(st) => Authentic(st)'
           /\ Unforged(st) => Unforged(st)'
BY DEF Authentic, Unforged

\* A signature that verifies is the owner's over the message recomputed.
LEMMA CheckedSignature ==
    ASSUME NEW slot, NEW name, CheckSlot(slot, name)
    PROVE  /\ slot.sig.key = Owner
           /\ slot.sig.msg =
                 SlotMessage(Owner, name, slot.time, Hash[slot.bytes])
BY DEF CheckSlot, Verify, Sign

\* A payload that passes the checks and is not forged is authentic.
LEMMA CheckedIsAuthentic ==
    ASSUME NEW st, Unforged(st),
           \A n \in Held(st) : CheckSlot(st.slots[n], n),
           Destroyed(st) => CheckDestroy(st.destroyed)
    PROVE  Authentic(st)
<1>1. ASSUME NEW n \in Held(st)
      PROVE  SlotMessage(Owner, n, st.slots[n].time, Hash[st.slots[n].bytes])
                \in issued
  BY <1>1, CheckedSignature DEF Unforged
<1>2. Destroyed(st) => DestroyMessage(Owner, st.destroyed.time) \in issued
  BY DEF CheckDestroy, Verify, Sign, Unforged
<1> QED
  BY <1>1, <1>2 DEF Authentic

\* A valid authentic state is unforged.
LEMMA ValidIsUnforged ==
    ASSUME NEW st, NEW now, Authentic(st), ValidateFull(st, now)
    PROVE  Unforged(st)
<1>1. CASE Destroyed(st)
  BY <1>1 DEF ValidateFull, CheckMarker, CheckDestroy, Verify, Sign,
              Unforged, Authentic
<1>2. CASE ~ Destroyed(st)
  BY <1>2, CheckedSignature
  DEF ValidateFull, CheckIncomingSlot, Unforged, Authentic
<1> QED
  BY <1>1, <1>2

\* A state that validates and is unforged is authentic.
LEMMA ValidIsAuthentic ==
    ASSUME NEW st, NEW now, Unforged(st), ValidateFull(st, now)
    PROVE  Authentic(st)
<1>1. CASE Destroyed(st)
  BY <1>1, CheckedIsAuthentic DEF ValidateFull, CheckMarker
<1>2. CASE ~ Destroyed(st)
  BY <1>2, CheckedIsAuthentic DEF ValidateFull, CheckIncomingSlot
<1> QED
  BY <1>1, <1>2

\* Merging an unforged payload into an authentic state leaves it authentic.
LEMMA MergeAuthentic ==
    ASSUME NEW cur \in IdentityStateV1, NEW inc \in IdentityStateV1, NEW now,
           Authentic(cur), Unforged(inc), MergeAccepts(cur, inc, now)
    PROVE  Authentic(MergeResult(cur, inc))
<1>1. CASE Destroyed(inc)
  <2>1. /\ Held(MarkerState(inc.destroyed)) = {}
        /\ MarkerState(inc.destroyed).destroyed = inc.destroyed
    BY DEF Held, MarkerState, EmptyState
  <2>2. DestroyMessage(Owner, inc.destroyed.time) \in issued
    BY <1>1 DEF MergeAccepts, CheckMarker, CheckDestroy, Verify, Sign,
                Unforged
  <2> QED
    BY <1>1, <2>1, <2>2 DEF MergeResult, Authentic
<1>2. CASE ~ Destroyed(inc) /\ Destroyed(cur)
  BY <1>2 DEF MergeResult
<1>3. CASE ~ Destroyed(inc) /\ ~ Destroyed(cur)
  <2> DEFINE new == MergeResult(cur, inc)
  <2>1. ASSUME NEW n \in Held(new)
        PROVE  SlotMessage(Owner, n, new.slots[n].time,
                           Hash[new.slots[n].bytes]) \in issued
    <3>1. n \in Names /\ new.slots[n] # None
      BY DEF Held
    <3>2. CASE Supersedes(inc.slots[n], cur.slots[n])
      <4>1. n \in Held(inc) /\ new.slots[n] = inc.slots[n]
        BY <1>3, <3>1, <3>2, MergedSlot DEF Held
      <4>2. CheckSlot(inc.slots[n], n)
        BY <1>3, <4>1 DEF MergeAccepts, CheckIncomingSlot
      <4> QED
        BY <4>1, <4>2, CheckedSignature DEF Unforged
    <3>3. CASE ~ Supersedes(inc.slots[n], cur.slots[n])
      BY <1>3, <3>1, <3>3, MergedSlot DEF Held, Authentic
    <3> QED
      BY <3>2, <3>3
  <2>2. ~ Destroyed(new)
    BY <1>3 DEF MergeResult, Destroyed, IdentityStateV1
  <2> QED
    BY <2>1, <2>2 DEF Authentic
<1> QED
  BY <1>1, <1>2, <1>3

-----------------------------------------------------------------------------
(* Init and the steps of the world around the contract.                    *)

LEMMA InitInv == Init => IInv
<1> SUFFICES ASSUME Init PROVE IInv
  OBVIOUS
<1> USE DEF Init
<1>1. TypeOK
  BY EmptyStateType DEF TypeOK
<1>2. Held(EmptyState) = {} /\ ~ Destroyed(EmptyState)
  BY DEF Held, Destroyed, EmptyState
<1>3. NetUnforged
  BY <1>2 DEF NetUnforged, Unforged
<1>4. ReplicasAuthentic /\ ReplicasValid /\ JobsSound
      /\ AcknowledgedIsApplied /\ SumsCovered
  BY DEF ReplicasAuthentic, ReplicasValid, JobsSound, AcknowledgedIsApplied,
         SumsCovered
<1> QED
  BY <1>1, <1>3, <1>4 DEF IInv

LEMMA TickInv ==
    ASSUME IInv, NEW n \in Nodes, Tick(n)
    PROVE  IInv'
<1> USE DEF IInv
<1>1. /\ clock' \in [Nodes -> Nat]
      /\ \A k \in Nodes : clock[k] \in Nat /\ clock'[k] \in Nat
                          /\ clock[k] <= clock'[k]
  BY DEF Tick, TypeOK
<1>2. UNCHANGED <<replica, job, net, sums, issued>>
  BY DEF Tick
<1>3. TypeOK'
  BY <1>1, <1>2 DEF TypeOK
<1>4. ReplicasValid'
  <2>1. SUFFICES ASSUME NEW k \in Nodes, replica[k] # None
                 PROVE  ValidateFull(replica[k], clock'[k])
    BY <1>2 DEF ReplicasValid
  <2>2. replica[k] \in IdentityStateV1
    BY <2>1 DEF TypeOK
  <2> QED
    BY <1>1, <2>1, <2>2, ValidLater DEF ReplicasValid
<1>5. JobsSound'
  <2>1. \A k \in Nodes : job[k] # None => job[k].now \in Nat
    BY DEF TypeOK, Job
  <2> QED
    BY <1>1, <1>2, <2>1 DEF JobsSound, JobSound, Authentic
<1>6. NetUnforged' /\ ReplicasAuthentic' /\ AcknowledgedIsApplied'
      /\ SumsCovered'
  BY <1>2 DEF NetUnforged, Unforged, ReplicasAuthentic, Authentic,
              AcknowledgedIsApplied, SumsCovered
<1> QED
  BY <1>3, <1>4, <1>5, <1>6

\* Signing more and sending more payloads preserves the invariant, as long as
\* the payloads are unforged.
LEMMA SendInv ==
    ASSUME IInv, issued \subseteq issued', issued' \subseteq Messages,
           NEW st \in IdentityStateV1, net' = net \cup {st}, Unforged(st)',
           UNCHANGED <<clock, replica, job, sums>>
    PROVE  IInv'
<1> USE DEF IInv
<1>1. TypeOK'
  BY DEF TypeOK
<1>2. NetUnforged'
  BY SignaturesPersist DEF NetUnforged
<1>3. ReplicasAuthentic'
  BY SignaturesPersist DEF ReplicasAuthentic
<1>4. JobsSound'
  <2>1. ASSUME NEW k \in Nodes, job[k] # None
        PROVE  JobSound(k)'
    BY <2>1, SignaturesPersist DEF JobsSound, JobSound
  <2> QED
    BY <2>1 DEF JobsSound
<1>5. ReplicasValid' /\ AcknowledgedIsApplied' /\ SumsCovered'
  BY DEF ReplicasValid, AcknowledgedIsApplied, SumsCovered
<1> QED
  BY <1>1, <1>2, <1>3, <1>4, <1>5

LEMMA PublishSlotInv ==
    ASSUME IInv, NEW name \in Names, NEW time \in Nat, NEW bytes \in Contents,
           PublishSlot(name, time, bytes)
    PROVE  IInv'
<1> DEFINE slot == SignSlot(Owner, name, time, bytes)
<1>1. slot.sig.msg \in Messages /\ slot.sig.key = Owner /\ slot \in SignedSlot
  BY OwnerAssumption, HashAssumption
  DEF SignSlot, Sign, SlotMessage, SignedSlot, Signatures, Messages
<1>2. SlotState(name, slot) \in IdentityStateV1
  BY <1>1 DEF SlotState, EmptyState, IdentityStateV1
<1>3. /\ issued' = issued \cup {slot.sig.msg}
      /\ net' = net \cup {SlotState(name, slot)}
      /\ UNCHANGED <<clock, replica, job, sums>>
  BY DEF PublishSlot
<1>4. Unforged(SlotState(name, slot))'
  <2>1. /\ \A n \in Held(SlotState(name, slot)) :
              SlotState(name, slot).slots[n] = slot
        /\ ~ Destroyed(SlotState(name, slot))
    BY DEF SlotState, EmptyState, Held, Destroyed
  <2> QED
    BY <1>3, <2>1 DEF Unforged
<1>5. issued' \subseteq Messages
  BY <1>1, <1>3 DEF IInv, TypeOK
<1> QED
  BY <1>2, <1>3, <1>4, <1>5, SendInv

LEMMA PublishMarkerInv ==
    ASSUME IInv, NEW time \in Nat, PublishMarker(time)
    PROVE  IInv'
<1> DEFINE marker == SignDestroy(Owner, time)
<1>1. marker.sig.msg \in Messages /\ marker \in DestroyedMarker
  BY OwnerAssumption
  DEF SignDestroy, Sign, DestroyMessage, DestroyedMarker, Signatures, Messages
<1>2. MarkerState(marker) \in IdentityStateV1
  BY <1>1 DEF MarkerState, EmptyState, IdentityStateV1
<1>3. /\ issued' = issued \cup {marker.sig.msg}
      /\ net' = net \cup {MarkerState(marker)}
      /\ UNCHANGED <<clock, replica, job, sums>>
  BY DEF PublishMarker
<1>4. Unforged(MarkerState(marker))'
  <2>1. /\ Held(MarkerState(marker)) = {}
        /\ MarkerState(marker).destroyed = marker
    BY DEF MarkerState, EmptyState, Held
  <2> QED
    BY <1>3, <2>1 DEF Unforged
<1>5. issued' \subseteq Messages
  BY <1>1, <1>3 DEF IInv, TypeOK
<1> QED
  BY <1>2, <1>3, <1>4, <1>5, SendInv

LEMMA GarbleInv ==
    ASSUME IInv, NEW name \in Names, NEW time \in Nat, NEW bytes \in Contents,
           NEW sig \in Signatures, Garble(name, time, bytes, sig)
    PROVE  IInv'
<1> DEFINE slot == [time |-> time, bytes |-> bytes, sig |-> sig]
           marker == [time |-> time, sig |-> sig]
<1>1. slot \in SignedSlot /\ marker \in DestroyedMarker
  BY DEF SignedSlot, DestroyedMarker
<1>2. PICK st \in {SlotState(name, slot), MarkerState(marker)} :
         net' = net \cup {st}
  BY DEF Garble
<1>3. st \in IdentityStateV1
  BY <1>1 DEF SlotState, MarkerState, EmptyState, IdentityStateV1
<1>4. /\ UNCHANGED <<clock, replica, job, sums, issued>>
      /\ sig.key = Owner => sig.msg \in issued
  BY DEF Garble
<1>5. Unforged(st)'
  <2>1. /\ \A n \in Held(SlotState(name, slot)) :
              SlotState(name, slot).slots[n] = slot
        /\ ~ Destroyed(SlotState(name, slot))
        /\ Held(MarkerState(marker)) = {}
        /\ MarkerState(marker).destroyed = marker
    BY DEF SlotState, MarkerState, EmptyState, Held, Destroyed
  <2> QED
    BY <1>4, <2>1 DEF Unforged
<1>6. issued \subseteq issued' /\ issued' \subseteq Messages
  BY <1>4 DEF IInv, TypeOK
<1> QED
  BY <1>2, <1>3, <1>4, <1>5, <1>6, SendInv

-----------------------------------------------------------------------------
(* The entry points.                                                       *)

LEMMA HostInv ==
    ASSUME IInv, NEW n \in Nodes, NEW st \in net, Host(n, st)
    PROVE  IInv'
<1> USE DEF IInv
<1>1. /\ replica[n] = None
      /\ ValidateFull(st, clock[n])
      /\ replica' = [replica EXCEPT ![n] = st]
      /\ UNCHANGED <<clock, job, net, sums, issued>>
      /\ st \in IdentityStateV1
  BY DEF Host, TypeOK
<1>2. \A k \in Nodes : replica'[k] = IF k = n THEN st ELSE replica[k]
  BY <1>1 DEF TypeOK
<1>3. TypeOK'
  BY <1>1 DEF TypeOK
<1>4. Authentic(st)
  BY <1>1, ValidIsAuthentic DEF NetUnforged
<1>5. ReplicasAuthentic'
  BY <1>1, <1>2, <1>4 DEF ReplicasAuthentic, Authentic
<1>6. ReplicasValid'
  BY <1>1, <1>2 DEF ReplicasValid
<1>7. JobsSound'
  <2>1. job[n] = None
    BY <1>1 DEF JobsSound, JobSound
  <2> QED
    BY <1>1, <1>2, <2>1 DEF JobsSound, JobSound, Authentic
<1>8. SumsCovered'
  <2>1. \A s \in sums : s.node \in Nodes /\ s.node # n
    BY <1>1 DEF SumsCovered, TypeOK
  <2> QED
    BY <1>1, <1>2, <2>1 DEF SumsCovered
<1>9. NetUnforged' /\ AcknowledgedIsApplied'
  BY <1>1 DEF NetUnforged, Unforged, AcknowledgedIsApplied
<1> QED
  BY <1>3, <1>5, <1>6, <1>7, <1>8, <1>9

\* Calls begin, go on and end without touching what is stored or sent.
LEMMA JobStepInv ==
    ASSUME IInv, NEW n \in Nodes, NEW call \in Job \cup {None},
           job' = [job EXCEPT ![n] = call],
           UNCHANGED <<clock, replica, net, sums, issued>>,
           call # None =>
              /\ JobSound(n)'
              /\ \A st \in call.folded : AtLeast(call.cur, st)
    PROVE  IInv'
<1> USE DEF IInv
<1>1. \A k \in Nodes : job'[k] = IF k = n THEN call ELSE job[k]
  BY DEF TypeOK
<1>2. TypeOK'
  BY DEF TypeOK
<1>3. JobsSound'
  <2>1. ASSUME NEW k \in Nodes, job'[k] # None
        PROVE  JobSound(k)'
    <3>1. CASE k = n
      BY <1>1, <2>1, <3>1
    <3>2. CASE k # n
      BY <1>1, <2>1, <3>2 DEF JobsSound, JobSound, Authentic
    <3> QED
      BY <3>1, <3>2
  <2> QED
    BY <2>1 DEF JobsSound
<1>4. AcknowledgedIsApplied'
  BY <1>1 DEF AcknowledgedIsApplied
<1>5. NetUnforged' /\ ReplicasAuthentic' /\ ReplicasValid' /\ SumsCovered'
  BY DEF NetUnforged, Unforged, ReplicasAuthentic, Authentic, ReplicasValid,
         SumsCovered
<1> QED
  BY <1>2, <1>3, <1>4, <1>5

LEMMA BeginUpdateInv ==
    ASSUME IInv, NEW n \in Nodes, BeginUpdate(n)
    PROVE  IInv'
<1> DEFINE call == [cur |-> replica[n], now |-> clock[n], folded |-> {}]
<1>1. /\ replica[n] \in IdentityStateV1
      /\ replica[n] # None
      /\ clock[n] \in Nat
  BY DEF BeginUpdate, IInv, TypeOK
<1>2. call \in Job
  BY <1>1 DEF Job
<1>3. /\ job' = [job EXCEPT ![n] = call]
      /\ UNCHANGED <<clock, replica, net, sums, issued>>
  BY DEF BeginUpdate
<1>4. JobSound(n)'
  <2>1. job'[n] = call
    BY <1>3 DEF IInv, TypeOK
  <2>2. AtLeast(replica[n], replica[n])
    BY <1>1, AtLeastReflexive
  <2> QED
    BY <1>1, <1>3, <2>1, <2>2
    DEF JobSound, IInv, ReplicasValid, ReplicasAuthentic, Authentic
<1> QED
  BY <1>2, <1>3, <1>4, JobStepInv

LEMMA FoldUpdateInv ==
    ASSUME IInv, NEW n \in Nodes, NEW st \in net, FoldUpdate(n, st)
    PROVE  IInv'
<1> DEFINE old == job[n]
           new == [cur |-> MergeState(old.cur, st, old.now), now |-> old.now,
                   folded |-> old.folded \cup {st}]
<1>1. /\ old \in Job /\ old # None /\ JobSound(n)
      /\ st \in IdentityStateV1 /\ Unforged(st)
      /\ UNCHANGED <<clock, replica, net, sums, issued>>
  BY DEF FoldUpdate, IInv, TypeOK, JobsSound, NetUnforged
<1>2. /\ old.cur \in IdentityStateV1 /\ old.now \in Nat
      /\ old.folded \subseteq IdentityStateV1
      /\ replica[n] \in IdentityStateV1
  BY <1>1 DEF Job, JobSound, IInv, TypeOK
<1>3. CASE ~ MergeAccepts(old.cur, st, old.now)
  BY <1>1, <1>3, JobStepInv DEF FoldUpdate
<1>4. CASE MergeAccepts(old.cur, st, old.now)
  <2> DEFINE res == MergeResult(old.cur, st)
  <2>1. /\ job' = [job EXCEPT ![n] = new]
        /\ new.cur = res /\ new.now = old.now
        /\ new.folded = old.folded \cup {st}
        /\ new \in Job
    <3>1. MergeState(old.cur, st, old.now) = res /\ res \in IdentityStateV1
      BY <1>1, <1>2, <1>4, MergeType DEF MergeState
    <3>2. job' = [job EXCEPT ![n] = new]
      BY <1>4 DEF FoldUpdate
    <3> QED
      BY <1>1, <1>2, <3>1, <3>2 DEF Job
  <2>2. res \in IdentityStateV1
    BY <1>1, <1>2, MergeType
  <2>3. ValidateFull(res, old.now)
    BY <1>1, <1>2, <1>4, MergeValid DEF JobSound
  <2>4. Authentic(res)
    BY <1>1, <1>2, <1>4, MergeAuthentic DEF JobSound
  <2>5. AtLeast(res, old.cur)
    BY <1>1, <1>2, MergeClimbs
  <2>6. AtLeast(res, replica[n])
    BY <1>1, <1>2, <2>2, <2>5, AtLeastTransitive DEF JobSound
  <2>7. AtLeast(res, st)
    BY <1>1, <1>2, <1>4, MergeReflects DEF JobSound
  <2>8. ASSUME NEW x \in new.folded
        PROVE  AtLeast(new.cur, x)
    <3>1. CASE x = st
      BY <2>1, <2>7, <3>1
    <3>2. CASE x \in old.folded
      <4>1. AtLeast(old.cur, x) /\ x \in IdentityStateV1
        BY <1>1, <1>2, <3>2 DEF IInv, AcknowledgedIsApplied
      <4> QED
        BY <1>2, <2>1, <2>2, <2>5, <4>1, AtLeastTransitive
    <3> QED
      BY <2>1, <2>8, <3>1, <3>2
  <2>9. JobSound(n)'
    <3>1. job'[n] = new
      BY <2>1 DEF IInv, TypeOK
    <3> QED
      BY <1>1, <2>1, <2>3, <2>4, <2>6, <3>1 DEF JobSound, Authentic
  <2> QED
    BY <1>1, <2>1, <2>8, <2>9, JobStepInv
<1> QED
  BY <1>3, <1>4

LEMMA CrashInv ==
    ASSUME IInv, NEW n \in Nodes, Crash(n)
    PROVE  IInv'
BY JobStepInv DEF Crash

LEMMA FinishUpdateInv ==
    ASSUME IInv, NEW n \in Nodes, FinishUpdate(n)
    PROVE  IInv'
<1> USE DEF IInv
<1> DEFINE new == job[n].cur
<1>1. /\ job[n] # None /\ JobSound(n)
      /\ new \in IdentityStateV1 /\ job[n].now \in Nat /\ clock[n] \in Nat
      /\ replica[n] \in IdentityStateV1
  BY DEF FinishUpdate, JobsSound, JobSound, TypeOK, Job
<1>2. /\ replica' = [replica EXCEPT ![n] = new]
      /\ job' = [job EXCEPT ![n] = None]
      /\ UNCHANGED <<clock, net, sums, issued>>
  BY DEF FinishUpdate
<1>3. /\ \A k \in Nodes : replica'[k] = IF k = n THEN new ELSE replica[k]
      /\ \A k \in Nodes : job'[k] = IF k = n THEN None ELSE job[k]
  BY <1>2 DEF TypeOK
<1>4. new # None
  BY <1>1, NoneFacts
<1>5. TypeOK'
  BY <1>1, <1>2 DEF TypeOK
<1>6. ReplicasAuthentic'
  BY <1>1, <1>2, <1>3 DEF ReplicasAuthentic, JobSound, Authentic
<1>7. ReplicasValid'
  <2>1. ValidateFull(new, clock[n])
    BY <1>1, ValidLater DEF JobSound
  <2> QED
    BY <1>2, <1>3, <2>1 DEF ReplicasValid
<1>8. JobsSound'
  BY <1>2, <1>3 DEF JobsSound, JobSound, Authentic
<1>9. AcknowledgedIsApplied'
  BY <1>3 DEF AcknowledgedIsApplied
<1>10. SumsCovered'
  <2>1. ASSUME NEW s \in sums
        PROVE  replica'[s.node] # None /\ Covers(replica'[s.node], s.summary)
    <3>1. s.node \in Nodes /\ s.summary \in SummaryV1
      BY DEF TypeOK
    <3>2. CASE s.node = n
      <4>1. Covers(replica[n], s.summary)
        BY <3>2 DEF SumsCovered
      <4>2. Covers(new, s.summary)
        BY <1>1, <3>1, <4>1, CoversLater DEF JobSound
      <4> QED
        BY <1>3, <1>4, <3>1, <3>2, <4>2
    <3>3. CASE s.node # n
      BY <1>3, <3>1, <3>3 DEF SumsCovered
    <3> QED
      BY <3>2, <3>3
  <2> QED
    BY <1>2, <2>1 DEF SumsCovered
<1>11. NetUnforged'
  BY <1>2 DEF NetUnforged, Unforged
<1> QED
  BY <1>5, <1>6, <1>7, <1>8, <1>9, <1>10, <1>11

LEMMA SummarizeStateInv ==
    ASSUME IInv, NEW n \in Nodes, SummarizeState(n)
    PROVE  IInv'
<1> USE DEF IInv
<1> DEFINE s == [node |-> n, summary |-> Summarize(replica[n])]
<1>1. /\ replica[n] # None /\ replica[n] \in IdentityStateV1
      /\ sums' = sums \cup {s}
      /\ UNCHANGED <<clock, replica, job, net, issued>>
  BY DEF SummarizeState, TypeOK
<1>2. TypeOK'
  BY <1>1, SummarizeType DEF TypeOK
<1>3. Covers(replica[n], Summarize(replica[n]))
  BY <1>1, SummaryCovered
<1>4. SumsCovered'
  BY <1>1, <1>3 DEF SumsCovered
<1>5. JobsSound'
  BY <1>1 DEF JobsSound, JobSound, Authentic
<1>6. NetUnforged' /\ ReplicasAuthentic' /\ ReplicasValid'
      /\ AcknowledgedIsApplied'
  BY <1>1 DEF NetUnforged, Unforged, ReplicasAuthentic, Authentic,
              ReplicasValid, AcknowledgedIsApplied
<1> QED
  BY <1>2, <1>4, <1>5, <1>6

LEMMA GetStateDeltaInv ==
    ASSUME IInv, NEW n \in Nodes, NEW summary, GetStateDelta(n, summary)
    PROVE  IInv'
<1> DEFINE delta == DeltaSince(replica[n], summary)
<1>1. /\ replica[n] # None /\ replica[n] \in IdentityStateV1
      /\ delta \in IdentityStateV1
      /\ net' = net \cup {delta}
      /\ UNCHANGED <<clock, replica, job, sums, issued>>
  BY DeltaType DEF GetStateDelta, IInv, TypeOK
<1>2. Unforged(replica[n])
  BY <1>1, ValidIsUnforged DEF IInv, ReplicasAuthentic, ReplicasValid
<1>3. Unforged(delta)
  <2>1. CASE Destroyed(replica[n])
    BY <1>2, <2>1 DEF DeltaSince
  <2>2. CASE ~ Destroyed(replica[n])
    <3>1. /\ ~ Destroyed(delta)
          /\ \A k \in Held(delta) : /\ k \in Held(replica[n])
                                     /\ delta.slots[k] = replica[n].slots[k]
      BY <2>2 DEF DeltaSince, Destroyed, Held
    <3> QED
      BY <1>2, <3>1 DEF Unforged
  <2> QED
    BY <2>1, <2>2
<1>4. Unforged(delta)'
  BY <1>1, <1>3 DEF Unforged
<1>5. issued \subseteq issued' /\ issued' \subseteq Messages
  BY <1>1 DEF IInv, TypeOK
<1> QED
  BY <1>1, <1>4, <1>5, SendInv

-----------------------------------------------------------------------------
(* The whole next-state relation.                                          *)

LEMMA StepInv ==
    ASSUME IInv, NEW n \in Nodes, Step(n)
    PROVE  IInv'
<1>1. CASE Tick(n)
  BY <1>1, TickInv
<1>2. CASE \E st \in net : Host(n, st)
  BY <1>2, HostInv
<1>3. CASE BeginUpdate(n)
  BY <1>3, BeginUpdateInv
<1>4. CASE \E st \in net : FoldUpdate(n, st)
  BY <1>4, FoldUpdateInv
<1>5. CASE FinishUpdate(n)
  BY <1>5, FinishUpdateInv
<1>6. CASE Crash(n)
  BY <1>6, CrashInv
<1>7. CASE SummarizeState(n)
  BY <1>7, SummarizeStateInv
<1>8. CASE \E s \in sums : GetStateDelta(n, s.summary)
  BY <1>8, GetStateDeltaInv
<1>9. CASE GetStateDelta(n, EmptySummary)
  BY <1>9, GetStateDeltaInv
<1> QED
  BY <1>1, <1>2, <1>3, <1>4, <1>5, <1>6, <1>7, <1>8, <1>9 DEF Step

LEMMA NextInv == IInv /\ [Next]_vars => IInv'
<1> SUFFICES ASSUME IInv, [Next]_vars PROVE IInv'
  OBVIOUS
<1>1. 0..MaxTime \subseteq Nat
  BY BoundAssumption
<1>2. CASE Writes
  BY <1>1, <1>2, PublishSlotInv, PublishMarkerInv DEF Writes
<1>3. CASE Damage
  <2>1. PICK name \in Names, time \in Nat, bytes \in Contents :
           \E sig \in {Sign(Owner, m) : m \in issued}
                      \cup {SignSlot(k, name, time, bytes).sig :
                              k \in Keys \ {Owner}} :
              Garble(name, time, bytes, sig)
    BY <1>1, <1>3 DEF Damage
  <2>2. \A m \in issued : Sign(Owner, m) \in Signatures
    BY OwnerAssumption DEF Sign, Signatures, IInv, TypeOK
  <2>3. \A k \in Keys : SignSlot(k, name, time, bytes).sig \in Signatures
    BY HashAssumption DEF SignSlot, Sign, SlotMessage, Signatures, Messages
  <2> QED
    BY <2>1, <2>2, <2>3, GarbleInv
<1>4. CASE \E n \in Nodes : Step(n)
  BY <1>4, StepInv
<1>5. CASE UNCHANGED vars
  <2>1. UNCHANGED <<clock, replica, job, net, sums, issued>>
    BY <1>5 DEF vars
  <2> QED
    BY <2>1 DEF IInv, TypeOK, NetUnforged, Unforged, ReplicasAuthentic,
                Authentic, ReplicasValid, JobsSound, JobSound,
                AcknowledgedIsApplied, SumsCovered
<1> QED
  BY <1>2, <1>3, <1>4, <1>5 DEF Next

\* The inductive invariant holds in every reachable state.
THEOREM Invariance == Spec => []IInv
BY InitInv, NextInv, PTL DEF Spec

\* Every variable keeps its type.
THEOREM TypeCorrect == Spec => []TypeOK
<1>1. IInv => TypeOK
  BY DEF IInv
<1> QED
  BY Invariance, <1>1, PTL

\* Hosts store nothing the owner did not sign for that name, time and content.
THEOREM Authenticity == Spec => []ReplicasAuthentic
<1>1. IInv => ReplicasAuthentic
  BY DEF IInv
<1> QED
  BY Invariance, <1>1, PTL

\* Every replica passes validate_state at its own host, after any merges.
THEOREM Validity == Spec => []ReplicasValid
<1>1. IInv => ReplicasValid
  BY DEF IInv
<1> QED
  BY Invariance, <1>1, PTL

\* update_state applies, or has something newer than, all it acknowledges.
THEOREM Acknowledgement == Spec => []AcknowledgedIsApplied
<1>1. IInv => AcknowledgedIsApplied
  BY DEF IInv
<1> QED
  BY Invariance, <1>1, PTL

\* Deltas for stale summaries merge as whole states do.
THEOREM DeltaSync == Spec => []DeltaIsEnough
<1>1. ASSUME IInv PROVE DeltaIsEnough
  <2>1. SUFFICES ASSUME NEW s \in sums, NEW m \in Nodes,
                        NEW st \in (net \cup {replica[m]}) \ {None},
                        ValidateFull(st, clock[m])
                 PROVE  MergeState(replica[s.node], DeltaSince(st, s.summary),
                                   clock[s.node])
                           = MergeState(replica[s.node], st, clock[s.node])
    BY DEF DeltaIsEnough
  <2>2. /\ s.node \in Nodes /\ s.summary \in SummaryV1
        /\ replica[s.node] # None
        /\ Covers(replica[s.node], s.summary)
    BY <1>1 DEF IInv, TypeOK, SumsCovered
  <2>3. /\ replica[s.node] \in IdentityStateV1
        /\ st \in IdentityStateV1
        /\ clock[s.node] \in Nat /\ clock[m] \in Nat
    BY <1>1, <2>1, <2>2 DEF IInv, TypeOK
  <2>4. ValidateFull(replica[s.node], clock[s.node])
    BY <1>1, <2>2 DEF IInv, ReplicasValid
  <2> QED
    BY <2>1, <2>2, <2>3, <2>4, DeltaSufficient
<1> QED
  BY Invariance, <1>1, PTL

-----------------------------------------------------------------------------
(* Steps of the contract never go back.                                    *)

\* Only Host and FinishUpdate store anything.
LEMMA StoringSteps ==
    ASSUME [Next]_vars
    PROVE  \/ UNCHANGED replica
           \/ \E n \in Nodes, st \in net : Host(n, st)
           \/ \E n \in Nodes : FinishUpdate(n)
BY DEF Next, Writes, Damage, Step, vars, PublishSlot, PublishMarker, Garble,
       Tick, BeginUpdate, FoldUpdate, Crash, SummarizeState, GetStateDelta

\* What a host stores lies above what it held.
LEMMA StoreClimbs ==
    ASSUME IInv, [Next]_vars, NEW n \in Nodes, replica[n] # None
    PROVE  replica'[n] # None /\ AtLeast(replica'[n], replica[n])
<1>1. replica[n] \in IdentityStateV1 /\ AtLeast(replica[n], replica[n])
  BY AtLeastReflexive DEF IInv, TypeOK
<1>2. CASE UNCHANGED replica
  BY <1>1, <1>2
<1>3. CASE \E k \in Nodes, st \in net : Host(k, st)
  BY <1>1, <1>3 DEF Host, IInv, TypeOK
<1>4. ASSUME NEW k \in Nodes, FinishUpdate(k)
      PROVE  replica'[n] # None /\ AtLeast(replica'[n], replica[n])
  <2>1. /\ replica'[n] = IF n = k THEN job[k].cur ELSE replica[n]
        /\ job[k] # None /\ JobSound(k)
        /\ job[k].cur \in IdentityStateV1
    BY <1>4 DEF FinishUpdate, IInv, TypeOK, JobsSound, Job
  <2>2. job[k].cur # None
    BY <2>1, NoneFacts
  <2> QED
    BY <1>1, <2>1, <2>2 DEF JobSound
<1> QED
  BY <1>2, <1>3, <1>4, StoringSteps

\* No replica is lost or regresses, and no destroyed identity comes back.
THEOREM Monotone == Spec => NeverRegresses
<1>1. IInv /\ [Next]_vars =>
         [\A n \in Nodes : replica[n] # None =>
             replica'[n] # None /\ AtLeast(replica'[n], replica[n])]_vars
  BY StoreClimbs
<1> QED
  BY Invariance, <1>1, PTL DEF Spec, NeverRegresses

-----------------------------------------------------------------------------
(* The refinement.                                                         *)

\* Signing a slot is a write of the register, signing a marker its end.
LEMMA IssueRefines ==
    ASSUME IInv, issued \subseteq issued', issued' \subseteq Messages,
           UNCHANGED replica,
           \/ UNCHANGED DestroyMessages
           \/ UNCHANGED SlotMessages
    PROVE  Register!Write \/ Register!End
<1>1. \A m \in SlotMessages' :
         m.name \in Names /\ m.time \in Nat /\ m.hash \in Nat
  BY DEF SlotMessages, Messages
<1>2. \A m \in DestroyMessages' : m.time \in Nat
  BY DEF DestroyMessages, Messages
<1>3. SlotMessages \subseteq SlotMessages'
      /\ DestroyMessages \subseteq DestroyMessages'
  BY DEF SlotMessages, DestroyMessages
<1>4. UNCHANGED [n \in Nodes |-> View(Stored(n))]
  BY DEF Stored
<1>5. CASE UNCHANGED DestroyMessages
  BY <1>1, <1>3, <1>4, <1>5
  DEF Register!Write, Register!Writes, Register!Stamps
<1>6. CASE UNCHANGED SlotMessages
  BY <1>2, <1>3, <1>4, <1>6 DEF Register!End
<1> QED
  BY <1>5, <1>6

\* What a host stores as it climbs is one move of its register: newer stamps
\* that were written, the end, or nothing.
LEMMA MoveRefines ==
    ASSUME NEW n \in Nodes, NEW old \in IdentityStateV1,
           NEW new \in IdentityStateV1, NEW now,
           Stored(n) = old, AtLeast(new, old),
           Destroyed(old) => Held(old) = {},
           Authentic(new), ValidateFull(new, now), UNCHANGED issued,
           [k \in Nodes |-> View(Stored(k))]'
              = [[k \in Nodes |-> View(Stored(k))] EXCEPT ![n] = View(new)]
    PROVE  \/ Register!Advance(n)
           \/ Register!Collapse(n)
           \/ UNCHANGED [k \in Nodes |-> View(Stored(k))]
<1> DEFINE V == [k \in Nodes |-> View(Stored(k))]
<1>1. V[n] = View(old)
  OBVIOUS
<1>2. UNCHANGED <<SlotMessages, DestroyMessages>>
  BY DEF SlotMessages, DestroyMessages
<1>3. CASE Destroyed(new)
  <2> DEFINE time == new.destroyed.time
  <2>1. Held(new) = {} /\ time \in Nat
    BY <1>3 DEF ValidateFull, Destroyed, IdentityStateV1, DestroyedMarker
  <2>2. time \in {m.time : m \in DestroyMessages}
    <3>1. DestroyMessage(Owner, time) \in DestroyMessages
      BY <1>3 DEF Authentic, DestroyMessages, DestroyMessage
    <3> QED
      BY <3>1 DEF DestroyMessage
  <2>3. View(new) = [Register!Blank EXCEPT !.end = time]
    <3>1. \A name \in Names : new.slots[name] = None
      BY <2>1 DEF Held
    <3>2. View(new) = [live |-> [name \in Names |-> None], end |-> time]
      BY <1>3, <3>1 DEF View
    <3> QED
      BY <3>2 DEF Register!Blank
  <2>4. CASE Destroyed(old) /\ old.destroyed.time = time
    <3>1. View(old) = View(new)
      BY <1>3, <2>1, <2>4 DEF View, Held
    <3> QED
      BY <1>1, <3>1
  <2>5. CASE ~ (Destroyed(old) /\ old.destroyed.time = time)
    <3>1. V[n].end # None => time > V[n].end
      <4>1. V[n].end # None => Destroyed(old) /\ V[n].end = old.destroyed.time
        BY <1>1 DEF View
      <4>2. Destroyed(old) => old.destroyed.time \in Nat
        BY DEF Destroyed, IdentityStateV1, DestroyedMarker
      <4>3. Destroyed(old) => time >= old.destroyed.time
        BY DEF AtLeast
      <4> QED
        BY <2>1, <2>5, <4>1, <4>2, <4>3
    <3> QED
      BY <1>2, <2>2, <2>3, <3>1 DEF Register!Collapse
  <2> QED
    BY <2>4, <2>5
<1>4. CASE ~ Destroyed(new)
  <2> DEFINE live == View(new).live
  <2>1. ~ Destroyed(old)
    BY <1>4 DEF AtLeast
  <2>2. V[n].end = None
    BY <1>1, <2>1 DEF View
  <2>3. View(new) = [live |-> live, end |-> None]
    BY <1>4 DEF View
  <2>4. ASSUME NEW name \in Names, live[name] # V[n].live[name]
        PROVE  /\ live[name] # None
               /\ [name |-> name, stamp |-> live[name]]
                     \in {[name |-> m.name, stamp |-> <<m.time, m.hash>>] :
                             m \in SlotMessages}
               /\ V[n].live[name] # None =>
                     Register!Newer(live[name], V[n].live[name])
    <3>1. /\ live[name] = IF new.slots[name] = None THEN None
                          ELSE SlotOrderKey(new.slots[name])
          /\ V[n].live[name] = IF old.slots[name] = None THEN None
                               ELSE SlotOrderKey(old.slots[name])
      BY <1>1 DEF View
    <3>2. old.slots[name] # None =>
             /\ new.slots[name] # None
             /\ KeyNewer(SlotOrderKey(new.slots[name]),
                         SlotOrderKey(old.slots[name]))
      BY <1>4, <2>1, <2>4, <3>1 DEF AtLeast, Held
    <3>3. /\ new.slots[name] # None
          /\ new.slots[name] \in SignedSlot
          /\ name \in Held(new)
      BY <2>4, <3>1, <3>2 DEF Held, IdentityStateV1
    <3>4. live[name] # None
      BY <3>1, <3>3, KeyType, NoneFacts
    <3> DEFINE msg == SlotMessage(Owner, name, new.slots[name].time,
                                  Hash[new.slots[name].bytes])
    <3>5. msg \in SlotMessages
      BY <3>3 DEF Authentic, SlotMessages, SlotMessage
    <3>6. live[name] = <<msg.time, msg.hash>> /\ msg.name = name
      BY <3>1, <3>3 DEF SlotOrderKey, SlotMessage
    <3>7. V[n].live[name] # None =>
             Register!Newer(live[name], V[n].live[name])
      BY <3>1, <3>2, <3>3 DEF KeyNewer, Register!Newer
    <3> QED
      BY <3>4, <3>5, <3>6, <3>7
  <2>5. live \in [Names -> {w.stamp : w \in
                             {[name |-> m.name, stamp |-> <<m.time, m.hash>>] :
                                m \in SlotMessages}}
                            \cup {V[n].live[name] : name \in Names}]
    <3> DEFINE W == {[name |-> m.name, stamp |-> <<m.time, m.hash>>] :
                       m \in SlotMessages}
               S == {w.stamp : w \in W} \cup {V[n].live[name] : name \in Names}
    <3>1. live = [name \in Names |-> live[name]]
      BY DEF View
    <3>2. ASSUME NEW name \in Names
          PROVE  live[name] \in S
      <4>1. CASE live[name] = V[n].live[name]
        BY <4>1
      <4>2. CASE live[name] # V[n].live[name]
        <5>1. [name |-> name, stamp |-> live[name]] \in W
          BY <2>4, <4>2
        <5>2. [name |-> name, stamp |-> live[name]].stamp
                 \in {w.stamp : w \in W}
          BY <5>1
        <5> QED
          BY <5>2
      <4> QED
        BY <4>1, <4>2
    <3> HIDE DEF W, S, live, V
    <3>3. live \in [Names -> S]
      BY <3>1, <3>2
    <3> QED
      BY <3>3 DEF S, W
  <2> QED
    BY <1>2, <2>2, <2>3, <2>4, <2>5
    DEF Register!Advance, Register!Candidates
<1> QED
  BY <1>3, <1>4

LEMMA InitRefines == Init => Register!RegisterInit
<1>1. View(EmptyState) = Register!Blank
  BY DEF View, EmptyState, Destroyed, Register!Blank
<1>2. ASSUME Init
      PROVE  [n \in Nodes |-> View(Stored(n))] = [n \in Nodes |-> Register!Blank]
  BY <1>1, <1>2 DEF Init, Stored
<1> QED
  BY <1>2 DEF Init, Register!RegisterInit, SlotMessages, DestroyMessages

\* A host that stores a valid authentic state above its own moves its register.
LEMMA StoreRefines ==
    ASSUME IInv, NEW n \in Nodes, NEW new \in IdentityStateV1, NEW now,
           replica' = [replica EXCEPT ![n] = new], UNCHANGED issued,
           AtLeast(new, Stored(n)), Authentic(new), ValidateFull(new, now)
    PROVE  \/ Register!RegisterNext
           \/ UNCHANGED Register!registerVars
<1> DEFINE V == [k \in Nodes |-> View(Stored(k))]
<1>1. /\ Stored(n) \in IdentityStateV1
      /\ Destroyed(Stored(n)) => Held(Stored(n)) = {}
  BY EmptyStateType
  DEF Stored, IInv, TypeOK, ReplicasValid, ValidateFull, Destroyed, EmptyState
<1>2. V' = [V EXCEPT ![n] = View(new)]
  <2>1. \A k \in Nodes : Stored(k)' = IF k = n THEN new ELSE Stored(k)
    BY NoneFacts DEF Stored, IInv, TypeOK
  <2> QED
    BY <2>1
<1>3. \/ Register!Advance(n)
      \/ Register!Collapse(n)
      \/ UNCHANGED V
  BY <1>1, <1>2, MoveRefines
<1>4. UNCHANGED V => UNCHANGED Register!registerVars
  BY DEF Register!registerVars, SlotMessages, DestroyMessages
<1> QED
  BY <1>3, <1>4 DEF Register!RegisterNext

LEMMA NextRefines ==
    ASSUME IInv, IInv', [Next]_vars
    PROVE  [Register!RegisterNext]_Register!registerVars
<1> DEFINE Simulated == \/ Register!RegisterNext
                        \/ UNCHANGED Register!registerVars
<1>1. CASE \E n \in Nodes, st \in net : Host(n, st)
  <2>1. PICK n \in Nodes, st \in net : Host(n, st)
    BY <1>1
  <2>2. /\ st \in IdentityStateV1
        /\ replica' = [replica EXCEPT ![n] = st]
        /\ UNCHANGED issued
        /\ Stored(n) = EmptyState
        /\ ValidateFull(st, clock[n])
        /\ Unforged(st)
    BY <2>1 DEF Host, Stored, IInv, TypeOK, NetUnforged
  <2>3. AtLeast(st, EmptyState)
    BY DEF AtLeast, EmptyState, Destroyed, Held
  <2>4. Authentic(st)
    BY <2>2, ValidIsAuthentic
  <2> QED
    BY <2>2, <2>3, <2>4, StoreRefines
<1>2. CASE \E n \in Nodes : FinishUpdate(n)
  <2>1. PICK n \in Nodes : FinishUpdate(n)
    BY <1>2
  <2>2. /\ job[n].cur \in IdentityStateV1
        /\ replica' = [replica EXCEPT ![n] = job[n].cur]
        /\ UNCHANGED issued
        /\ JobSound(n)
    BY <2>1 DEF FinishUpdate, IInv, TypeOK, JobsSound, Job
  <2>3. Stored(n) = replica[n]
    BY <2>2 DEF JobSound, Stored
  <2> QED
    BY <2>2, <2>3, StoreRefines DEF JobSound
<1>3. CASE UNCHANGED <<replica, issued>>
  BY <1>3 DEF Stored, SlotMessages, DestroyMessages, Register!registerVars
<1>4. ASSUME NEW name, NEW time, NEW bytes, PublishSlot(name, time, bytes)
      PROVE  Simulated
  <2>1. /\ issued \subseteq issued' /\ issued' \subseteq Messages
        /\ UNCHANGED replica
    BY <1>4 DEF PublishSlot, IInv, TypeOK
  <2>2. UNCHANGED DestroyMessages
    BY <1>4
    DEF PublishSlot, SignSlot, Sign, SlotMessage, DestroyMessages
  <2> QED
    BY <2>1, <2>2, IssueRefines DEF Register!RegisterNext
<1>5. ASSUME NEW time, PublishMarker(time)
      PROVE  Simulated
  <2>1. /\ issued \subseteq issued' /\ issued' \subseteq Messages
        /\ UNCHANGED replica
    BY <1>5 DEF PublishMarker, IInv, TypeOK
  <2>2. UNCHANGED SlotMessages
    BY <1>5
    DEF PublishMarker, SignDestroy, Sign, DestroyMessage, SlotMessages
  <2> QED
    BY <2>1, <2>2, IssueRefines DEF Register!RegisterNext
<1>6. \/ \E n \in Nodes, st \in net : Host(n, st)
      \/ \E n \in Nodes : FinishUpdate(n)
      \/ UNCHANGED <<replica, issued>>
      \/ \E name, time, bytes : PublishSlot(name, time, bytes)
      \/ \E time : PublishMarker(time)
  BY DEF Next, Writes, Damage, Step, vars, Garble, Tick, BeginUpdate,
         FoldUpdate, Crash, SummarizeState, GetStateDelta
<1> QED
  BY <1>1, <1>2, <1>3, <1>4, <1>5, <1>6

\* The contract implements the register: each host's view only moves, name by
\* name, to newer writes of the owner, until it ends for good.
THEOREM Refinement == Spec => ImplementsRegister
<1>1. IInv /\ IInv' /\ [Next]_vars => [Register!RegisterNext]_Register!registerVars
  BY NextRefines
<1> QED
  BY Invariance, InitRefines, <1>1, PTL
  DEF Spec, ImplementsRegister, Register!RegisterSpec
=============================================================================
