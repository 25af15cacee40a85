------------------------- MODULE PersonaPageProofs --------------------------
(***************************************************************************)
(* Proofs about PersonaPage for every set of texts, pictures, other        *)
(* devices' writes and faults: the types, that a late publish does not     *)
(* undo a later one, that a publish told of while nothing else was under   *)
(* way was taken, and, where a whole state arrives first, that a field the *)
(* owner did not type into is published as it was published before.        *)
(***************************************************************************)
EXTENDS PersonaPage, IdentityStateProofs, TLAPS

Sent == [name : Names, slot : SignedSlot, beside : SUBSET Nat]

\* A task that waits, waits for a request that was made.
WaitsForSent ==
    \A f \in BusyFlags : task[f].pc = "wait" => task[f].req \in DOMAIN sent

TypeInv == TypeOK /\ WaitsForSent

-----------------------------------------------------------------------------
(* What is signed and sent is well-typed.                                  *)

\* A signed slot is a slot.
LEMMA SignSlotType ==
    ASSUME NEW name \in Names, NEW time \in Nat, NEW bytes \in Contents
    PROVE  SignSlot(Owner, name, time, bytes) \in SignedSlot
<1>1. SlotMessage(Owner, name, time, Hash[bytes]) \in Messages
  BY OwnerAssumption, HashAssumption DEF SlotMessage, Messages
<1> QED
  BY <1>1, OwnerAssumption DEF SignSlot, Sign, SignedSlot, Signatures

\* A state of one slot holds that slot and no marker.
LEMMA SlotStateType ==
    ASSUME NEW name \in Names, NEW slot \in SignedSlot
    PROVE  /\ SlotState(name, slot) \in IdentityStateV1
           /\ ~ Destroyed(SlotState(name, slot))
           /\ SlotState(name, slot).slots[name] = slot
           /\ slot # None
<1> DEFINE u == SlotState(name, slot)
<1>1. u = [EmptyState EXCEPT !.slots = [EmptyState.slots EXCEPT ![name] = slot]]
  BY DEF SlotState
<1> HIDE DEF u
<1>2. /\ u.destroyed = None
      /\ u.slots = [n \in Names |-> IF n = name THEN slot ELSE None]
      /\ u = [slots |-> u.slots, destroyed |-> u.destroyed]
  BY <1>1 DEF EmptyState
<1>3. u \in IdentityStateV1 /\ u.slots[name] = slot
  BY <1>2 DEF IdentityStateV1
<1> QED
  BY <1>2, <1>3, NoneAssumption DEF Destroyed, u

\* The form is filled with texts.
LEMMA ShownType ==
    ASSUME NEW st
    PROVE  /\ Shown(st) \in [Fields -> Texts]
           /\ ProfileOf(st) # None => ProfileOf(st) \in [Fields -> Texts]
BY PageAssumption DEF Shown, ProfileOf, BlankProfile

\* Rendering keeps the page well-typed.
LEMMA RenderedType ==
    ASSUME NEW p \in Page, NEW st
    PROVE  Rendered(p, st) \in Page
<1>1. CASE p.open /\ ~ p.seeded /\ st # None
  <2>1. (IF ProfileOf(st) = None THEN p.form ELSE ProfileOf(st)) \in [Fields -> Texts]
    BY ShownType DEF Page
  <2> QED
    BY <1>1, <2>1 DEF Rendered, Page
<1>2. CASE ~ (p.open /\ ~ p.seeded /\ st # None)
  BY <1>2 DEF Rendered
<1> QED
  BY <1>1, <1>2

\* A request is a name and a slot.
LEMMA SentType == ASSUME TypeInv, NEW i \in DOMAIN sent PROVE sent[i] \in Sent
<1>1. sent \in Seq(Sent)
  BY DEF TypeInv, TypeOK, Sent
<1> QED
  BY <1>1

\* A new request is one, with the name, the content and the time of now.
LEMMA RequestType ==
    ASSUME TypeInv, NEW name \in Names, NEW bytes \in Contents
    PROVE  /\ Request(name, bytes) \in Sent
           /\ Request(name, bytes).name = name
           /\ Request(name, bytes).slot.bytes = bytes
           /\ Request(name, bytes).slot.time = now
           /\ Request(name, bytes).beside = Underway
<1>1. SignedNow(name, bytes) \in SignedSlot
  <2>1. now \in Nat
    BY PageAssumption DEF TypeInv, TypeOK
  <2> QED
    BY <2>1, SignSlotType DEF SignedNow
<1>2. SignedNow(name, bytes).bytes = bytes /\ SignedNow(name, bytes).time = now
  BY DEF SignedNow, SignSlot
<1>3. Underway \subseteq Nat
  <2>1. sent \in Seq(Sent) /\ wire \cup acks \subseteq {0} \cup DOMAIN sent
    BY DEF TypeInv, TypeOK, Sent, Reput
  <2>2. \A g \in BusyFlags : task[g].req \in Nat
    BY PageAssumption DEF TypeInv, TypeOK, Task
  <2> QED
    BY <2>1, <2>2 DEF Underway
<1> QED
  BY <1>1, <1>2, <1>3 DEF Request, Sent

\* A published profile is within the limits.
LEMMA PublishSlotType ==
    ASSUME TypeInv, NEW flag \in BusyFlags, NEW name \in Names, NEW bytes \in Contents,
           PublishSlot(flag, name, bytes), name = "profile" => bytes \in ProfileV1
    PROVE  TypeInv'
<1> DEFINE new == Request(name, bytes)
<1>1. sent \in Seq(Sent) /\ Len(sent) < MaxSent /\ MaxSent \in Nat
  BY PageAssumption DEF TypeInv, TypeOK, PublishSlot, Sent
<1>2. new \in Sent /\ new.name = name /\ new.slot.bytes = bytes
  BY RequestType
<1>3. sent' = Append(sent, new)
  BY DEF PublishSlot
<1> HIDE DEF new
<1>4. /\ sent' \in Seq(Sent) /\ Len(sent') = Len(sent) + 1
      /\ DOMAIN sent' = 1..Len(sent') /\ DOMAIN sent = 1..Len(sent)
      /\ \A i \in DOMAIN sent : sent'[i] = sent[i]
      /\ sent'[Len(sent')] = new
  BY <1>1, <1>2, <1>3
<1>5. \A i \in DOMAIN sent' : sent'[i].name = "profile" => sent'[i].slot.bytes \in ProfileV1
  BY <1>2, <1>4 DEF TypeInv, TypeOK
<1>6. DOMAIN sent \subseteq DOMAIN sent' /\ Len(sent') \in DOMAIN sent'
      /\ Len(sent') \in 0..MaxSent /\ Len(sent) + 1 = Len(sent')
  BY <1>1, <1>4
<1>7. /\ wire' = wire \cup {Len(sent')}
      /\ task' = [task EXCEPT ![flag] = [pc |-> "wait", req |-> Len(sent'), hit |-> FALSE]]
      /\ UNCHANGED <<now, local, page, chain, states, acks, accepted, told>>
  BY DEF PublishSlot
<1>8. task' \in [BusyFlags -> Task] /\ WaitsForSent'
  BY <1>6, <1>7 DEF TypeInv, TypeOK, WaitsForSent, Task
<1>9. wire' \cup acks' \subseteq {Reput} \cup DOMAIN sent'
      /\ accepted' \cup told' \subseteq DOMAIN sent'
  BY <1>6, <1>7 DEF TypeInv, TypeOK
<1> QED
  BY <1>4, <1>5, <1>7, <1>8, <1>9 DEF TypeInv, TypeOK, Sent

\* The local copy and the contract merge well-typed states.
LEMMA ArriveType ==
    ASSUME TypeInv, NEW update \in IdentityStateV1
    PROVE  MergeState(IF local = None THEN EmptyState ELSE local, update, now)
             \in IdentityStateV1
BY EmptyStateType, MergeType DEF TypeInv, TypeOK

\* What a node sends of the contract is a state.
LEMMA NotifiedType ==
    ASSUME TypeInv, NEW update \in Notified
    PROVE  update \in IdentityStateV1
<1>1. states \subseteq IdentityStateV1
  BY DEF TypeInv, TypeOK
<1>2. ASSUME NEW st \in states, NEW n \in Held(st)
      PROVE  SlotState(n, st.slots[n]) \in IdentityStateV1
  <2>1. n \in Names /\ st.slots[n] \in SignedSlot
    BY <1>1 DEF IdentityStateV1, Held
  <2> QED
    BY <2>1, SlotStateType
<1>3. Deltas \subseteq IdentityStateV1
  BY <1>1, <1>2 DEF Deltas
<1> QED
  BY <1>1, <1>3 DEF Notified

\* The page starts well-typed.
LEMMA TypeInit == Init => TypeInv
<1> SUFFICES ASSUME Init PROVE TypeInv
  OBVIOUS
<1>1. chain \in IdentityStateV1
  <2>1. ASSUME NEW p \in Before
        PROVE  SlotState("profile", SignSlot(Owner, "profile", 0, p)) \in IdentityStateV1
    <3>1. p \in Contents /\ "profile" \in Names
      BY PageAssumption
    <3> QED
      BY <3>1, SignSlotType, SlotStateType
  <2> QED
    BY <2>1, EmptyStateType DEF Init
<1>2. page \in Page
  BY PageAssumption DEF Init, Away, Page, BlankProfile
<1>3. task \in [BusyFlags -> Task] /\ WaitsForSent
  BY PageAssumption DEF Init, Idle, Task, WaitsForSent
<1>4. sent \in Seq(Sent) /\ DOMAIN sent = {}
  BY DEF Init
<1>5. now \in 0..MaxTime
  BY PageAssumption DEF Init
<1> QED
  BY <1>1, <1>2, <1>3, <1>4, <1>5 DEF Init, TypeInv, TypeOK, Sent

\* Every step of the page, of the node and of the other devices is well-typed.
LEMMA TypeNext == TypeInv /\ [Next]_vars => TypeInv'
<1> SUFFICES ASSUME TypeInv, [Next]_vars PROVE TypeInv'
  OBVIOUS
<1> USE DEF TypeInv, TypeOK
<1>1. CASE Open
  <2>1. Away \in Page /\ [Away EXCEPT !.open = TRUE] \in Page
    BY PageAssumption DEF Away, Page, BlankProfile
  <2>2. page' \in Page
    BY <1>1, <2>1, RenderedType DEF Open
  <2> QED
    BY <1>1, <2>2 DEF Open, node, WaitsForSent
<1>2. CASE Leave
  <2>1. Away \in Page /\ Idle \in Task /\ Idle.pc # "wait"
    BY PageAssumption DEF Away, Page, BlankProfile, Idle, Task
  <2> QED
    BY <1>2, <2>1 DEF Leave, node, WaitsForSent
<1>3. CASE Change \/ Cancel \/ \E f \in Fields : \E text \in Typed[f] : Type(f, text)
  <2>1. page' \in Page
    <3>1. CASE Change
      BY <3>1 DEF Change, Page
    <3>2. CASE Cancel
      BY <3>2, ShownType DEF Cancel, Page
    <3>3. ASSUME NEW f \in Fields, NEW text \in Typed[f], Type(f, text)
          PROVE  page' \in Page
      <4>1. text \in Texts
        BY PageAssumption
      <4> QED
        BY <3>3, <4>1 DEF Type, Page
    <3> QED
      BY <1>3, <3>1, <3>2, <3>3
  <2>2. UNCHANGED <<now, local, task, node, acks, sent, told>>
    BY <1>3 DEF Change, Cancel, Type
  <2> QED
    BY <2>1, <2>2 DEF node, WaitsForSent
<1>4. CASE SaveProfile
  <2>1. /\ Trimmed(page.form) \in ProfileV1
        /\ PublishSlot("save", "profile", Trimmed(page.form))
    BY <1>4 DEF SaveProfile, CheckProfile
  <2>2. Trimmed(page.form) \in Contents /\ "profile" \in Names
    BY <2>1, PageAssumption DEF ProfileV1
  <2> QED
    BY <2>1, <2>2, PublishSlotType DEF BusyFlags
<1>5. CASE RemoveAvatar \/ \E bytes \in Pictures : PublishAvatar(bytes)
  <2>1. PICK bytes \in Contents : PublishSlot("pic", "avatar", bytes)
    BY <1>5, PageAssumption DEF RemoveAvatar, PublishAvatar
  <2>2. "avatar" \in Names
    BY PageAssumption
  <2> QED
    BY <2>1, <2>2, PublishSlotType DEF BusyFlags
<1>6. ASSUME NEW f \in BusyFlags, Confirm(f) PROVE TypeInv'
  <2> DEFINE r == sent[task[f].req]
  <2>1. task[f].req \in DOMAIN sent /\ r \in Sent
    BY <1>6, SentType DEF Confirm, WaitsForSent
  <2>2. SlotState(r.name, r.slot) \in IdentityStateV1
    BY <2>1, SlotStateType DEF Sent
  <2>3. local' \in IdentityStateV1
    BY <1>6, <2>2, ArriveType DEF Confirm
  <2>4. page' \in Page
    <3>1. page \in Page /\ [page EXCEPT !.editing = FALSE] \in Page
      BY DEF Page
    <3> QED
      BY <1>6, <3>1, RenderedType DEF Confirm
  <2>5. task' = [task EXCEPT ![f] = Idle] /\ told' \in {told, told \cup {task[f].req}}
        /\ UNCHANGED <<now, node, acks, sent>>
    BY <1>6 DEF Confirm
  <2>6. task' \in [BusyFlags -> Task] /\ WaitsForSent'
    BY <2>5, PageAssumption DEF Idle, Task, WaitsForSent
  <2> QED
    BY <2>1, <2>3, <2>4, <2>5, <2>6 DEF node
<1>7. ASSUME NEW f \in BusyFlags, GiveUp(f) PROVE TypeInv'
  <2>1. task' \in [BusyFlags -> Task] /\ WaitsForSent'
    BY <1>7, PageAssumption DEF GiveUp, Idle, Task, WaitsForSent
  <2> QED
    BY <1>7, <2>1 DEF GiveUp, node
<1>8. ASSUME NEW i \in wire, Serve(i) PROVE TypeInv'
  <2> DEFINE update == IF i = Reput THEN EmptyState ELSE SlotState(sent[i].name, sent[i].slot)
  <2>1. update \in IdentityStateV1
    <3>1. CASE i = Reput
      BY <3>1, EmptyStateType
    <3>2. CASE i # Reput
      <4>1. i \in DOMAIN sent /\ sent[i] \in Sent
        BY <3>2, SentType
      <4> QED
        BY <3>2, <4>1, SlotStateType DEF Sent
    <3> QED
      BY <3>1, <3>2
  <2> HIDE DEF update
  <2>2. /\ wire' = wire \ {i} /\ accepted' \subseteq accepted \cup ({i} \ {Reput})
        /\ acks' \subseteq acks \cup {i}
        /\ UNCHANGED <<now, local, page, task, sent, told>>
        /\ \/ UNCHANGED <<chain, states>>
           \/ chain' = MergeResult(chain, update) /\ states' = states \cup {chain'}
    BY <1>8 DEF Serve, Becomes, update
  <2>3. chain' \in states' /\ states' \subseteq IdentityStateV1
    BY <2>1, <2>2, MergeType
  <2> QED
    BY <2>2, <2>3 DEF WaitsForSent
<1>9. ASSUME NEW i \in acks, Ack(i) PROVE TypeInv'
  <2>1. task' \in [BusyFlags -> Task] /\ WaitsForSent'
    BY <1>9 DEF Ack, Task, WaitsForSent
  <2> QED
    BY <1>9, <2>1 DEF Ack, node
<1>10. ASSUME NEW update \in Elsewhere, WriteElsewhere(update) PROVE TypeInv'
  <2>1. MergeResult(chain, update) \in IdentityStateV1
    BY PageAssumption, MergeType
  <2> QED
    BY <1>10, <2>1 DEF WriteElsewhere, Becomes, WaitsForSent
<1>11. ASSUME NEW st \in Notified, Arrive(st) PROVE TypeInv'
  <2>1. local' \in IdentityStateV1
    BY <1>11, NotifiedType, ArriveType DEF Arrive
  <2>2. page' \in Page
    BY <1>11, RenderedType DEF Arrive
  <2> QED
    BY <1>11, <2>1, <2>2 DEF Arrive, node, WaitsForSent
<1>12. CASE Tick
  BY <1>12, PageAssumption DEF Tick, node, WaitsForSent
<1>13. CASE UNCHANGED vars
  BY <1>13 DEF vars, node, WaitsForSent
<1> QED
  BY <1>1, <1>2, <1>3, <1>4, <1>5, <1>6, <1>7, <1>8, <1>9, <1>10, <1>11, <1>12, <1>13
  DEF Next, User

\* Every reachable state of the page, the node and the contract is well-typed;
\* every profile ever sent is within the limits.
THEOREM PageTypeCorrect == Spec => []TypeOK
<1>1. TypeInv => TypeOK
  BY DEF TypeInv
<1> QED
  BY <1>1, TypeInit, TypeNext, PTL DEF Spec

-----------------------------------------------------------------------------
(* The last word.  Publishes of the page have increasing times, and the    *)
(* contract lies at or above every one it took.                            *)

TimesClimb ==
    \A i, j \in DOMAIN sent : i < j => sent[i].slot.time < sent[j].slot.time

\* The contract holds request i, or something newer, or has ended.
Above(st, i) ==
    \/ Destroyed(st)
    \/ /\ st.slots[sent[i].name] # None
       /\ ~ KeyNewer(SlotOrderKey(sent[i].slot), SlotOrderKey(st.slots[sent[i].name]))

ChainInv ==
    /\ Destroyed(chain) => Held(chain) = {}
    /\ \A i \in accepted : Above(chain, i)

WordInv == TypeInv /\ TimesClimb /\ ChainInv

\* The order of keys, spelled out.
LEMMA KeyNewerIs ==
    ASSUME NEW a \in SignedSlot, NEW b \in SignedSlot
    PROVE  KeyNewer(SlotOrderKey(a), SlotOrderKey(b)) <=>
              a.time > b.time \/ (a.time = b.time /\ Hash[a.bytes] > Hash[b.bytes])
BY KeyType DEF KeyNewer

\* A merge leaves the contract above what it was above.
LEMMA AboveStays ==
    ASSUME TypeInv, NEW update \in IdentityStateV1, NEW i \in DOMAIN sent, Above(chain, i)
    PROVE  Above(MergeResult(chain, update), i)
<1> DEFINE new == MergeResult(chain, update)
           n == sent[i].name
<1>1. chain \in IdentityStateV1 /\ new \in IdentityStateV1 /\ sent[i] \in Sent
  BY MergeType, SentType DEF TypeInv, TypeOK
<1>2. AtLeast(new, chain)
  BY <1>1, MergeClimbs
<1> HIDE DEF new
<1>3. CASE Destroyed(new)
  BY <1>3 DEF Above, new
<1>4. CASE ~ Destroyed(new)
  <2>1. ~ Destroyed(chain) /\ n \in Names /\ chain.slots[n] \in SignedSlot
        /\ chain.slots[n] # None
        /\ ~ KeyNewer(SlotOrderKey(sent[i].slot), SlotOrderKey(chain.slots[n]))
    BY <1>1, <1>2, <1>4 DEF AtLeast, Above, Sent, IdentityStateV1
  <2>2. \/ new.slots[n] = chain.slots[n]
        \/ /\ new.slots[n] # None
           /\ KeyNewer(SlotOrderKey(new.slots[n]), SlotOrderKey(chain.slots[n]))
    BY <1>2, <1>4, <2>1 DEF AtLeast, Held
  <2>3. new.slots[n] \in SignedSlot /\ new.slots[n] # None
    BY <1>1, <2>1, <2>2 DEF IdentityStateV1
  <2>4. sent[i].slot \in SignedSlot
    BY <1>1 DEF Sent
  <2>5. sent[i].slot.time \in Nat /\ chain.slots[n].time \in Nat /\ new.slots[n].time \in Nat
        /\ Hash[sent[i].slot.bytes] \in Nat /\ Hash[chain.slots[n].bytes] \in Nat
        /\ Hash[new.slots[n].bytes] \in Nat
    BY <2>1, <2>3, <2>4, HashAssumption DEF SignedSlot
  <2>6. ~ KeyNewer(SlotOrderKey(sent[i].slot), SlotOrderKey(new.slots[n]))
    BY <2>1, <2>2, <2>3, <2>4, <2>5, KeyNewerIs
  <2> QED
    BY <2>3, <2>6 DEF Above, new
<1> QED
  BY <1>3, <1>4

\* What the contract takes it is above.
LEMMA AboveTaken ==
    ASSUME TypeInv, NEW i \in DOMAIN sent, NEW time,
           MergeAccepts(chain, SlotState(sent[i].name, sent[i].slot), time)
    PROVE  Above(MergeResult(chain, SlotState(sent[i].name, sent[i].slot)), i)
<1> DEFINE update == SlotState(sent[i].name, sent[i].slot)
           n == sent[i].name
           slot == sent[i].slot
<1>1. chain \in IdentityStateV1 /\ n \in Names /\ slot \in SignedSlot
  BY SentType DEF TypeInv, TypeOK, Sent
<1>2. /\ update \in IdentityStateV1 /\ ~ Destroyed(update)
      /\ update.slots[n] = slot /\ slot # None
  BY <1>1, SlotStateType
<1>3. ~ Destroyed(chain)
  BY <1>1, <1>2 DEF MergeAccepts, Held
<1> HIDE DEF update
<1>4. CASE Supersedes(slot, chain.slots[n])
  <2>1. MergeResult(chain, update).slots[n] = slot
    BY <1>1, <1>2, <1>3, <1>4, MergedSlot
  <2>2. ~ KeyNewer(SlotOrderKey(slot), SlotOrderKey(slot))
    <3>1. slot.time \in Nat /\ Hash[slot.bytes] \in Nat
      BY <1>1, HashAssumption DEF SignedSlot
    <3> QED
      BY <1>1, <3>1, KeyNewerIs
  <2> QED
    BY <1>2, <2>1, <2>2 DEF Above, update
<1>5. CASE ~ Supersedes(slot, chain.slots[n])
  <2>1. MergeResult(chain, update).slots[n] = chain.slots[n]
    BY <1>1, <1>2, <1>3, <1>5, MergedSlot
  <2> QED
    BY <1>2, <1>5, <2>1 DEF Above, update, Supersedes
<1> QED
  BY <1>4, <1>5

\* A destroyed contract stays empty.
LEMMA MergeEmpties ==
    ASSUME NEW cur \in IdentityStateV1, NEW inc \in IdentityStateV1,
           Destroyed(cur) => Held(cur) = {}, Destroyed(MergeResult(cur, inc))
    PROVE  Held(MergeResult(cur, inc)) = {}
<1>1. CASE Destroyed(inc)
  BY <1>1 DEF MergeResult, MarkerState, EmptyState, Held, IdentityStateV1, Destroyed
<1>2. CASE ~ Destroyed(inc)
  BY <1>2 DEF MergeResult, IdentityStateV1, Destroyed
<1> QED
  BY <1>1, <1>2

\* A merge into the contract, whoever sent it.
LEMMA ChainMerges ==
    ASSUME WordInv, NEW update \in IdentityStateV1,
           chain' = MergeResult(chain, update), UNCHANGED sent,
           \A i \in accepted' \ accepted : i \in DOMAIN sent /\ Above(chain', i)
    PROVE  ChainInv'
<1>1. chain \in IdentityStateV1 /\ accepted \subseteq DOMAIN sent
  BY DEF WordInv, TypeInv, TypeOK
<1>2. \A i \in accepted : Above(chain', i)
  BY <1>1, AboveStays DEF WordInv, ChainInv
<1>3. Destroyed(chain') => Held(chain') = {}
  BY <1>1, MergeEmpties DEF WordInv, ChainInv
<1>4. \A i \in accepted' : Above(chain', i)
  BY <1>2
<1> QED
  BY <1>3, <1>4 DEF ChainInv, Above, Destroyed, Held

\* A publish is dated after those before it.
LEMMA PublishKeepsWord ==
    ASSUME WordInv, NEW flag, NEW name \in Names, NEW bytes \in Contents,
           PublishSlot(flag, name, bytes)
    PROVE  TimesClimb' /\ ChainInv'
<1> DEFINE new == Request(name, bytes)
<1>1. sent \in Seq(Sent) /\ now \in Nat
  BY PageAssumption DEF WordInv, TypeInv, TypeOK, Sent
<1>2. new \in Sent /\ new.slot.time = now
  BY RequestType DEF WordInv
<1>3. /\ sent' = Append(sent, new)
      /\ \A i \in DOMAIN sent : sent[i].slot.time < now
      /\ UNCHANGED <<chain, accepted>>
  BY DEF PublishSlot
<1> HIDE DEF new
<1>4. /\ DOMAIN sent' = 1..(Len(sent) + 1) /\ DOMAIN sent = 1..Len(sent) /\ Len(sent) \in Nat
      /\ \A i \in DOMAIN sent : sent'[i] = sent[i]
      /\ sent'[Len(sent) + 1] = new
  BY <1>1, <1>2, <1>3
<1>5. TimesClimb'
  BY <1>2, <1>3, <1>4 DEF WordInv, TimesClimb
<1>6. accepted \subseteq DOMAIN sent
  BY DEF WordInv, TypeInv, TypeOK
<1>7. \A i \in accepted : sent'[i] = sent[i]
  BY <1>4, <1>6
<1>8. ASSUME NEW i \in accepted
      PROVE  \/ Destroyed(chain')
             \/ /\ chain'.slots[sent'[i].name] # None
                /\ ~ KeyNewer(SlotOrderKey(sent'[i].slot),
                              SlotOrderKey(chain'.slots[sent'[i].name]))
  <2>1. chain' = chain /\ sent'[i] = sent[i] /\ Above(chain, i)
    BY <1>3, <1>7 DEF WordInv, ChainInv
  <2> QED
    BY <2>1 DEF Above
<1>9. ChainInv'
  BY <1>3, <1>8 DEF WordInv, ChainInv, Above, Destroyed, Held
<1> QED
  BY <1>5, <1>9

\* Every step keeps the last word.
LEMMA WordNext == WordInv /\ [Next]_vars => WordInv'
<1> SUFFICES ASSUME WordInv, [Next]_vars PROVE WordInv'
  OBVIOUS
<1>1. TypeInv'
  BY TypeNext DEF WordInv
<1>2. CASE SaveProfile
  <2>1. PublishSlot("save", "profile", Trimmed(page.form))
        /\ Trimmed(page.form) \in Contents /\ "profile" \in Names
    BY <1>2, PageAssumption DEF SaveProfile, CheckProfile, ProfileV1
  <2> QED
    BY <1>1, <2>1, PublishKeepsWord DEF WordInv
<1>3. CASE RemoveAvatar \/ \E bytes \in Pictures : PublishAvatar(bytes)
  <2>1. (\E bytes \in Contents : PublishSlot("pic", "avatar", bytes)) /\ "avatar" \in Names
    BY <1>3, PageAssumption DEF RemoveAvatar, PublishAvatar
  <2> QED
    BY <1>1, <2>1, PublishKeepsWord DEF WordInv
<1>4. ASSUME NEW i \in wire, Serve(i) PROVE WordInv'
  <2> DEFINE update == IF i = Reput THEN EmptyState ELSE SlotState(sent[i].name, sent[i].slot)
  <2>1. UNCHANGED sent
    BY <1>4 DEF Serve
  <2>2. CASE UNCHANGED <<chain, accepted>>
    BY <1>1, <2>1, <2>2 DEF WordInv, TimesClimb, ChainInv, Above, Destroyed, Held
  <2>3. CASE /\ MergeAccepts(chain, update, now) /\ chain' = MergeResult(chain, update)
             /\ accepted' = accepted \cup ({i} \ {Reput})
    <3>1. i # Reput => i \in DOMAIN sent
      BY DEF WordInv, TypeInv, TypeOK
    <3>2. update \in IdentityStateV1
      BY <3>1, EmptyStateType, SlotStateType, SentType DEF WordInv, Sent
    <3>3. i # Reput => Above(chain', i)
      BY <2>3, <3>1, AboveTaken DEF WordInv
    <3> HIDE DEF update
    <3>4. ChainInv'
      BY <2>1, <2>3, <3>1, <3>2, <3>3, ChainMerges
    <3> QED
      BY <1>1, <2>1, <3>4 DEF WordInv, TimesClimb
  <2> QED
    BY <1>4, <2>2, <2>3 DEF Serve, Becomes
<1>5. ASSUME NEW update \in Elsewhere, WriteElsewhere(update) PROVE WordInv'
  <2>1. /\ chain' = MergeResult(chain, update) /\ UNCHANGED <<sent, accepted>>
        /\ update \in IdentityStateV1
    BY <1>5, PageAssumption DEF WriteElsewhere, Becomes
  <2>2. ChainInv'
    BY <2>1, ChainMerges
  <2> QED
    BY <1>1, <2>1, <2>2 DEF WordInv, TimesClimb
<1>6. CASE UNCHANGED <<chain, accepted, sent>>
  BY <1>1, <1>6 DEF WordInv, TimesClimb, ChainInv, Above, Destroyed, Held
<1>7. \/ UNCHANGED <<chain, accepted, sent>>
      \/ SaveProfile \/ RemoveAvatar \/ \E bytes \in Pictures : PublishAvatar(bytes)
      \/ \E i \in wire : Serve(i)
      \/ \E update \in Elsewhere : WriteElsewhere(update)
  BY Zenon DEF Next, User, Open, Leave, Change, Type, Cancel, Confirm, GiveUp, Ack,
         Arrive, Tick, node, vars
<1> QED
  BY <1>2, <1>3, <1>4, <1>5, <1>6, <1>7

\* Nothing has been published at the start.
LEMMA WordInit == Init => WordInv
<1> SUFFICES ASSUME Init PROVE WordInv
  OBVIOUS
<1>1. ~ Destroyed(chain)
  BY DEF Init, EmptyState, SlotState, Destroyed
<1> QED
  BY <1>1, TypeInit DEF Init, WordInv, TimesClimb, ChainInv

\* publish_slot against merge_state: for any number of publishes, given up,
\* overtaken or late, and whatever other devices write in between, the contract
\* never holds a publish of this page once it took a later one.
THEOREM LastWordStands == Spec => []LastWordWins
<1>1. WordInv => LastWordWins
  <2> SUFFICES ASSUME WordInv, NEW i \in accepted, NEW j \in accepted,
                      i < j, sent[i].name = sent[j].name,
                      chain.slots[sent[i].name] = sent[i].slot
               PROVE  FALSE
    BY DEF LastWordWins
  <2>1. i \in DOMAIN sent /\ j \in DOMAIN sent /\ chain \in IdentityStateV1
    BY DEF WordInv, TypeInv, TypeOK
  <2>2. sent[i].slot \in SignedSlot /\ sent[j].slot \in SignedSlot
        /\ sent[i].name \in Names
    BY <2>1, SentType DEF WordInv, Sent
  <2>3. ~ Destroyed(chain)
    BY <2>2, NoneAssumption DEF WordInv, ChainInv, Held
  <2>4. ~ KeyNewer(SlotOrderKey(sent[j].slot), SlotOrderKey(sent[i].slot))
    BY <2>3 DEF WordInv, ChainInv, Above
  <2>5. sent[i].slot.time < sent[j].slot.time
    BY <2>1 DEF WordInv, TimesClimb
  <2> QED
    BY <2>2, <2>4, <2>5, KeyNewerIs
<1> QED
  BY <1>1, WordInit, WordNext, PTL DEF Spec

-----------------------------------------------------------------------------
(* What was told.  A task waits for the last publish of its own slot; where *)
(* nothing else is under way, the only ack that can come is its own.        *)

SlotOf(f) == IF f = "save" THEN "profile" ELSE "avatar"

\* The contract held, at some time, request i or one dated later.
HeldOnce(i) ==
    \E st \in states : /\ st.slots[sent[i].name] # None
                       /\ st.slots[sent[i].name].time >= sent[i].slot.time

\* Only what the contract took is answered.
AckedInv ==
    /\ \A i \in accepted : HeldOnce(i)
    /\ acks \subseteq accepted \cup {Reput}

LastOf(f, i) ==
    /\ sent[i].name = SlotOf(f)
    /\ \A j \in DOMAIN sent : sent[j].name = SlotOf(f) => j <= i

\* The only request of the contract that is still to be answered is i, and an
\* answer that came was to i.
OwnAck(f, i) == wire \cup acks \subseteq {i} /\ (task[f].hit => HeldOnce(i))

WaitInv ==
    \A f \in BusyFlags, i \in DOMAIN sent :
       task[f].pc = "wait" /\ task[f].req = i =>
          LastOf(f, i) /\ (Alone(i) => OwnAck(f, i))

\* Slot n of the local copy came from the contract, or is one the user was told
\* of.
CopiedFrom(slot, n) ==
    \/ slot = None
    \/ \E st \in states : slot = st.slots[n]
    \/ \E j \in told : sent[j].name = n /\ slot = sent[j].slot

CopyInv == local # None => \A n \in Names : CopiedFrom(local.slots[n], n)

TakenInv == WordInv /\ AckedInv /\ WaitInv /\ CopyInv /\ PublishedWasTaken

\* The contract holds what it just took, or something later.
LEMMA TakenIsHeld ==
    ASSUME TypeInv, NEW i \in DOMAIN sent, NEW time,
           MergeAccepts(chain, SlotState(sent[i].name, sent[i].slot), time)
    PROVE  LET slot == MergeResult(chain, SlotState(sent[i].name, sent[i].slot)).slots[sent[i].name]
           IN  slot # None /\ slot.time >= sent[i].slot.time
<1> DEFINE update == SlotState(sent[i].name, sent[i].slot)
           n == sent[i].name
           slot == sent[i].slot
<1>1. chain \in IdentityStateV1 /\ n \in Names /\ slot \in SignedSlot
  BY SentType DEF TypeInv, TypeOK, Sent
<1>2. /\ update \in IdentityStateV1 /\ ~ Destroyed(update)
      /\ update.slots[n] = slot /\ slot # None
  BY <1>1, SlotStateType
<1>3. ~ Destroyed(chain)
  BY <1>1, <1>2 DEF MergeAccepts, Held
<1> HIDE DEF update
<1>4. CASE Supersedes(slot, chain.slots[n])
  <2>1. MergeResult(chain, update).slots[n] = slot
    BY <1>1, <1>2, <1>3, <1>4, MergedSlot
  <2>2. slot.time >= slot.time
    BY <1>1 DEF SignedSlot
  <2> QED
    BY <1>2, <2>1, <2>2 DEF update
<1>5. CASE ~ Supersedes(slot, chain.slots[n])
  <2>1. MergeResult(chain, update).slots[n] = chain.slots[n]
    BY <1>1, <1>2, <1>3, <1>5, MergedSlot
  <2>2. chain.slots[n] # None /\ chain.slots[n] \in SignedSlot
        /\ ~ KeyNewer(SlotOrderKey(slot), SlotOrderKey(chain.slots[n]))
    BY <1>1, <1>2, <1>5 DEF Supersedes, IdentityStateV1
  <2>3. chain.slots[n].time \in Nat /\ slot.time \in Nat
    BY <1>1, <2>2 DEF SignedSlot
  <2>4. chain.slots[n].time >= slot.time
    BY <1>1, <2>2, <2>3, KeyNewerIs
  <2> QED
    BY <2>1, <2>2, <2>4 DEF update
<1> QED
  BY <1>4, <1>5

\* A slot of the merged copy is the copy's, the update's, or none.
LEMMA MergePicks ==
    ASSUME NEW cur \in IdentityStateV1, NEW inc \in IdentityStateV1, NEW time,
           NEW n \in Names
    PROVE  MergeState(cur, inc, time).slots[n] \in {cur.slots[n], inc.slots[n], None}
<1>1. CASE Destroyed(inc)
  <2>1. MarkerState(inc.destroyed).slots[n] = None
    BY DEF MarkerState, EmptyState
  <2>2. MergeResult(cur, inc) \in {cur, MarkerState(inc.destroyed)}
    BY <1>1 DEF MergeResult
  <2> QED
    BY <2>1, <2>2 DEF MergeState
<1>2. CASE ~ Destroyed(inc) /\ Destroyed(cur)
  BY <1>2 DEF MergeState, MergeResult
<1>3. CASE ~ Destroyed(inc) /\ ~ Destroyed(cur)
  BY <1>3, MergedSlot DEF MergeState
<1> QED
  BY <1>1, <1>2, <1>3

\* A step that publishes nothing: what was held or copied stays so.
LEMMA HeldStays ==
    ASSUME states \subseteq states', told \subseteq told', UNCHANGED sent
    PROVE  /\ \A i : HeldOnce(i) => HeldOnce(i)'
           /\ \A i : Alone(i)' <=> Alone(i)
           /\ \A f, i : LastOf(f, i)' <=> LastOf(f, i)
           /\ \A slot, n : CopiedFrom(slot, n) => CopiedFrom(slot, n)'
BY DEF HeldOnce, Alone, LastOf, CopiedFrom

\* A publish: the other flag's task, if it waits, is not alone any more.
LEMMA PublishKeepsTaken ==
    ASSUME TakenInv, NEW flag \in BusyFlags, NEW bytes \in Contents,
           PublishSlot(flag, SlotOf(flag), bytes)
    PROVE  AckedInv' /\ WaitInv' /\ CopyInv' /\ PublishedWasTaken'
<1> DEFINE new == Request(SlotOf(flag), bytes)
<1>1. TypeInv /\ SlotOf(flag) \in Names /\ sent \in Seq(Sent)
  BY PageAssumption DEF TakenInv, WordInv, TypeInv, TypeOK, Sent, SlotOf, BusyFlags
<1>2. new \in Sent /\ new.name = SlotOf(flag) /\ new.beside = Underway
  BY <1>1, RequestType
<1>3. /\ sent' = Append(sent, new)
      /\ wire' = wire \cup {Len(sent')}
      /\ task' = [task EXCEPT ![flag] = [pc |-> "wait", req |-> Len(sent'), hit |-> FALSE]]
      /\ UNCHANGED <<local, states, acks, accepted, told>>
  BY DEF PublishSlot
<1> HIDE DEF new
<1>4. PICK k \in Nat :
         /\ DOMAIN sent' = 1..k /\ DOMAIN sent = 1..(k - 1) /\ k >= 1
         /\ \A i \in DOMAIN sent : sent'[i] = sent[i]
         /\ sent'[k] = new /\ Len(sent') = k
  <2>1. Len(sent) + 1 \in Nat
    BY <1>1
  <2> QED
    BY <1>1, <1>2, <1>3, <2>1
<1>5. accepted \subseteq DOMAIN sent /\ told \subseteq DOMAIN sent
      /\ task \in [BusyFlags -> Task]
  BY <1>1 DEF TypeInv, TypeOK
<1>6. ASSUME NEW i \in DOMAIN sent
      PROVE  (HeldOnce(i) => HeldOnce(i)') /\ (Alone(i)' => Alone(i) /\ i \notin Underway)
  <2>1. sent'[i] = sent[i] /\ sent'[k] = new /\ k \in DOMAIN sent' /\ states' = states
    BY <1>3, <1>4
  <2>2. HeldOnce(i) => HeldOnce(i)'
    BY <2>1 DEF HeldOnce
  <2>3. Alone(i)' => Alone(i)
    BY <1>4, <2>1 DEF Alone
  <2>4. Alone(i)' => i \notin Underway
    BY <1>2, <2>1 DEF Alone
  <2> QED
    BY <2>2, <2>3, <2>4
<1>7. AckedInv'
  BY <1>3, <1>5, <1>6 DEF TakenInv, AckedInv
<1>8. PublishedWasTaken'
  <2> SUFFICES ASSUME NEW i \in told', Alone(i)' PROVE HeldOnce(i)'
    BY DEF PublishedWasTaken, HeldOnce
  <2>1. i \in told /\ i \in DOMAIN sent
    BY <1>3, <1>5
  <2>2. HeldOnce(i)
    BY <1>6, <2>1 DEF TakenInv, PublishedWasTaken, HeldOnce
  <2> QED
    BY <1>6, <2>1, <2>2
<1>9. CopyInv'
  <2> SUFFICES ASSUME local' # None, NEW n \in Names PROVE CopiedFrom(local.slots[n], n)'
    BY DEF CopyInv
  <2>1. CopiedFrom(local.slots[n], n)
    BY <1>3 DEF TakenInv, CopyInv
  <2> QED
    BY <1>3, <1>4, <1>5, <2>1 DEF CopiedFrom
<1>10. WaitInv'
  <2> SUFFICES ASSUME NEW f \in BusyFlags, NEW i \in DOMAIN sent',
                      task'[f].pc = "wait", task'[f].req = i
               PROVE  LastOf(f, i)' /\ (Alone(i)' => OwnAck(f, i)')
    BY DEF WaitInv
  <2>1. CASE f = flag
    <3>1. i = k /\ task'[f].hit = FALSE
      BY <1>3, <1>4, <1>5, <2>1 DEF Task
    <3>2. LastOf(f, i)'
      BY <1>2, <1>4, <2>1, <3>1 DEF LastOf, SlotOf
    <3>3. ASSUME Alone(i)' PROVE wire' \cup acks' \subseteq {i}
      <4>1. Underway = {}
        BY <1>2, <1>4, <3>1, <3>3 DEF Alone
      <4> QED
        BY <1>3, <1>4, <3>1, <4>1 DEF Underway
    <3> QED
      BY <3>1, <3>2, <3>3 DEF OwnAck
  <2>2. CASE f # flag
    <3>1. task'[f] = task[f] /\ task[f].pc = "wait" /\ task[f].req = i
      BY <1>3, <1>5, <2>2
    <3>2. i \in DOMAIN sent /\ LastOf(f, i)
      BY <1>1, <3>1 DEF TakenInv, TypeInv, WaitsForSent, WaitInv
    <3>3. SlotOf(f) # SlotOf(flag)
      BY <2>2 DEF SlotOf, BusyFlags
    <3>4. i \in Underway
      BY <3>1 DEF Underway
    <3>5. LastOf(f, i)'
      BY <1>2, <1>4, <3>2, <3>3 DEF LastOf
    <3> QED
      BY <1>6, <3>2, <3>4, <3>5
  <2> QED
    BY <2>1, <2>2
<1> QED
  BY <1>7, <1>8, <1>9, <1>10

\* A step that publishes nothing and tells nothing new, and after which fewer
\* tasks wait, for no more answers.
LEMMA AsideKeepsTaken ==
    ASSUME TakenInv, states \subseteq states', UNCHANGED <<told, sent>>,
           wire' \cup acks' \subseteq wire \cup acks,
           \A f \in BusyFlags : task'[f].pc = "wait" =>
              /\ task[f].pc = "wait" /\ task'[f].req = task[f].req
              /\ task'[f].hit /\ Alone(task[f].req) => HeldOnce(task[f].req)
    PROVE  WaitInv' /\ PublishedWasTaken'
<1>1. /\ \A i : HeldOnce(i) => HeldOnce(i)'
      /\ \A i : Alone(i)' <=> Alone(i)
      /\ \A f, i : LastOf(f, i)' <=> LastOf(f, i)
  BY HeldStays
<1>2. PublishedWasTaken'
  <2> SUFFICES ASSUME NEW i \in told', Alone(i)' PROVE HeldOnce(i)'
    BY DEF PublishedWasTaken, HeldOnce
  <2>1. HeldOnce(i)
    BY <1>1 DEF TakenInv, PublishedWasTaken, HeldOnce
  <2> QED
    BY <1>1, <2>1
<1>3. WaitInv'
  <2> SUFFICES ASSUME NEW f \in BusyFlags, NEW i \in DOMAIN sent',
                      task'[f].pc = "wait", task'[f].req = i
               PROVE  LastOf(f, i)' /\ (Alone(i)' => OwnAck(f, i)')
    BY DEF WaitInv
  <2>1. /\ i \in DOMAIN sent /\ task[f].req = i
        /\ LastOf(f, i) /\ (Alone(i) => OwnAck(f, i))
        /\ task'[f].hit /\ Alone(i) => HeldOnce(i)
    BY DEF TakenInv, WaitInv
  <2>2. LastOf(f, i)' /\ (Alone(i)' <=> Alone(i)) /\ (HeldOnce(i) => HeldOnce(i)')
    BY <1>1, <2>1
  <2>3. Alone(i) => OwnAck(f, i)'
    BY <2>1, <2>2 DEF OwnAck
  <2> QED
    BY <2>2, <2>3
<1> QED
  BY <1>2, <1>3

\* The copy takes in an update.
LEMMA CopyMerges ==
    ASSUME TypeInv, CopyInv, states \subseteq states', told \subseteq told', UNCHANGED sent,
           NEW update \in IdentityStateV1,
           local' = MergeState(IF local = None THEN EmptyState ELSE local, update, now),
           \A n \in Names : CopiedFrom(update.slots[n], n)'
    PROVE  CopyInv'
<1> DEFINE current == IF local = None THEN EmptyState ELSE local
<1>1. current \in IdentityStateV1
  BY EmptyStateType DEF TypeInv, TypeOK
<1>2. ASSUME NEW n \in Names PROVE CopiedFrom(local.slots[n], n)'
  <2>1. local'.slots[n] \in {current.slots[n], update.slots[n], None}
    BY <1>1, MergePicks
  <2>2. CASE local'.slots[n] = None
    BY <2>2 DEF CopiedFrom
  <2>3. CASE local'.slots[n] = update.slots[n]
    BY <2>3 DEF CopiedFrom
  <2>4. CASE local'.slots[n] = current.slots[n]
    <3>1. CASE local = None
      BY <2>4, <3>1 DEF CopiedFrom, EmptyState
    <3>2. CASE local # None
      <4>1. CopiedFrom(local.slots[n], n) /\ local'.slots[n] = local.slots[n]
        BY <2>4, <3>2 DEF CopyInv
      <4> QED
        BY <4>1 DEF CopiedFrom
    <3> QED
      BY <3>1, <3>2
  <2> QED
    BY <2>1, <2>2, <2>3, <2>4
<1> QED
  BY <1>2 DEF CopyInv

\* The copy stays as it is.
LEMMA CopyStays ==
    ASSUME CopyInv, states \subseteq states', told \subseteq told', UNCHANGED <<local, sent>>
    PROVE  CopyInv'
<1> SUFFICES ASSUME local' # None, NEW n \in Names PROVE CopiedFrom(local.slots[n], n)'
  BY DEF CopyInv
<1>1. CopiedFrom(local.slots[n], n)
  BY DEF CopyInv
<1> QED
  BY <1>1 DEF CopiedFrom

\* A task ends well.  Alone, its ack is its own; and a slot of that date in the
\* copy is one of the contract, for the page's own are earlier.
LEMMA ConfirmedIsHeld ==
    ASSUME TakenInv, NEW f \in BusyFlags, task[f].pc = "wait", Confirmed(f),
           Alone(task[f].req)
    PROVE  HeldOnce(task[f].req)
<1>1. PICK i \in DOMAIN sent : i = task[f].req
  BY DEF TakenInv, WordInv, TypeInv, WaitsForSent
<1>2. TypeInv /\ LastOf(f, i) /\ OwnAck(f, i) /\ sent[i] \in Sent
  BY <1>1, SentType DEF TakenInv, WordInv, WaitInv
<1>3. CASE task[f].hit
  BY <1>1, <1>2, <1>3 DEF OwnAck
<1>4. CASE /\ local # None /\ local.slots[sent[i].name] # None
           /\ local.slots[sent[i].name].time >= sent[i].slot.time
  <2>1. CopiedFrom(local.slots[sent[i].name], sent[i].name)
    BY <1>2, <1>4 DEF TakenInv, CopyInv, Sent
  <2>2. CASE \E st \in states : local.slots[sent[i].name] = st.slots[sent[i].name]
    BY <1>1, <1>4, <2>2 DEF HeldOnce
  <2>3. CASE \E j \in told : /\ sent[j].name = sent[i].name
                             /\ local.slots[sent[i].name] = sent[j].slot
    <3>1. PICK j \in told : /\ sent[j].name = sent[i].name
                            /\ local.slots[sent[i].name] = sent[j].slot
      BY <2>3
    <3>2. j \in DOMAIN sent /\ sent[j] \in Sent /\ sent \in Seq(Sent)
      BY <1>2, SentType DEF TypeInv, TypeOK, Sent
    <3>3. sent[i].slot.time \in Nat /\ sent[j].slot.time \in Nat /\ i \in Nat /\ j \in Nat
      BY <1>2, <3>2 DEF Sent, SignedSlot
    <3>4. j <= i /\ sent[j].slot.time >= sent[i].slot.time
      BY <1>2, <1>4, <3>1, <3>2 DEF LastOf
    <3>5. j = i
      BY <3>2, <3>3, <3>4 DEF TakenInv, WordInv, TimesClimb
    <3> QED
      BY <1>1, <3>5 DEF TakenInv, PublishedWasTaken, HeldOnce
  <2> QED
    BY <1>4, <2>1, <2>2, <2>3 DEF CopiedFrom
<1> QED
  BY <1>1, <1>3, <1>4 DEF Confirmed

\* A publish is told, and its slot goes into the copy.
LEMMA ConfirmKeepsTaken ==
    ASSUME TakenInv, NEW f \in BusyFlags, Confirm(f)
    PROVE  AckedInv' /\ WaitInv' /\ CopyInv' /\ PublishedWasTaken'
<1>1. TypeInv /\ task \in [BusyFlags -> Task]
  BY DEF TakenInv, WordInv, TypeInv, TypeOK
<1>2. PICK i \in DOMAIN sent : i = task[f].req
  BY <1>1 DEF Confirm, TypeInv, WaitsForSent
<1> DEFINE update == SlotState(sent[i].name, sent[i].slot)
           current == IF local = None THEN EmptyState ELSE local
<1>3. /\ task[f].pc = "wait" /\ Confirmed(f)
      /\ local' = MergeState(current, update, now)
      /\ told' = IF MergeAccepts(current, update, now) THEN told \cup {i} ELSE told
      /\ task' = [task EXCEPT ![f] = Idle]
      /\ UNCHANGED <<states, accepted, acks, wire, sent>>
  BY <1>2 DEF Confirm, node
<1>4. sent[i] \in Sent
  BY <1>1, SentType
<1>5. /\ update \in IdentityStateV1 /\ update.slots[sent[i].name] = sent[i].slot
      /\ \A n \in Names : n # sent[i].name => update.slots[n] = None
  <2>1. \A n \in Names : n # sent[i].name => update.slots[n] = None
    BY DEF SlotState, EmptyState
  <2> QED
    BY <1>4, <2>1, SlotStateType DEF Sent
<1>6. told \subseteq told' /\ states \subseteq states' /\ told \subseteq DOMAIN sent
  BY <1>1, <1>3 DEF TypeInv, TypeOK
<1> HIDE DEF update, current
<1>7. /\ \A j : HeldOnce(j) => HeldOnce(j)'
      /\ \A j : Alone(j)' <=> Alone(j)
      /\ \A g, j : LastOf(g, j)' <=> LastOf(g, j)
  BY <1>3, <1>6, HeldStays
<1>8. AckedInv'
  BY <1>3, <1>7 DEF TakenInv, AckedInv
<1>9. PublishedWasTaken'
  <2> SUFFICES ASSUME NEW j \in told', Alone(j)' PROVE HeldOnce(j)'
    BY DEF PublishedWasTaken, HeldOnce
  <2>1. CASE j = i
    BY <1>2, <1>3, <1>7, <2>1, ConfirmedIsHeld
  <2>2. CASE j \in told
    <3>1. HeldOnce(j)
      BY <1>7, <2>2 DEF TakenInv, PublishedWasTaken, HeldOnce
    <3> QED
      BY <1>7, <3>1
  <2> QED
    BY <1>3, <2>1, <2>2
<1>10. WaitInv'
  <2> SUFFICES ASSUME NEW g \in BusyFlags, NEW j \in DOMAIN sent',
                      task'[g].pc = "wait", task'[g].req = j
               PROVE  LastOf(g, j)' /\ (Alone(j)' => OwnAck(g, j)')
    BY DEF WaitInv
  <2>1. task'[g] = task[g] /\ j \in DOMAIN sent
    BY <1>1, <1>3 DEF Idle
  <2>2. LastOf(g, j) /\ (Alone(j) => OwnAck(g, j))
    BY <2>1 DEF TakenInv, WaitInv
  <2> QED
    BY <1>3, <1>7, <2>1, <2>2 DEF OwnAck
<1>11. CopyInv'
  <2>1. CASE MergeAccepts(current, update, now)
    <3>1. PICK inc \in IdentityStateV1 : inc = update
      BY <1>5
    <3>2. /\ \A n \in Names : CopiedFrom(inc.slots[n], n)'
          /\ local' = MergeState(IF local = None THEN EmptyState ELSE local, inc, now)
      BY <1>3, <1>5, <2>1, <3>1 DEF CopiedFrom, current
    <3> QED
      BY <1>1, <1>3, <1>6, <3>2, CopyMerges DEF TakenInv
  <2>2. CASE ~ MergeAccepts(current, update, now)
    <3>1. local' = current
      BY <1>3, <2>2 DEF MergeState
    <3> SUFFICES ASSUME local' # None, NEW n \in Names PROVE CopiedFrom(local.slots[n], n)'
      BY DEF CopyInv
    <3>2. local'.slots[n] = None \/ (CopiedFrom(local.slots[n], n) /\ local' = local)
      BY <3>1 DEF current, EmptyState, TakenInv, CopyInv
    <3> QED
      BY <1>3, <1>6, <3>2 DEF CopiedFrom
  <2> QED
    BY <2>1, <2>2
<1> QED
  BY <1>8, <1>9, <1>10, <1>11

\* What the node sends holds slots of the contract.
LEMMA NotifiedCopies ==
    ASSUME TypeInv, NEW update \in Notified, NEW n \in Names
    PROVE  CopiedFrom(update.slots[n], n)
<1>1. CASE update \in states
  BY <1>1 DEF CopiedFrom
<1>2. CASE update \notin states
  <2>1. PICK st \in states, m \in Names : m \in Held(st) /\ update = SlotState(m, st.slots[m])
    BY <1>2 DEF Notified, Deltas, Held
  <2>2. m \in Names /\ st.slots[m] \in SignedSlot
    BY <2>1 DEF TypeInv, TypeOK, IdentityStateV1, Held
  <2>3. update.slots[m] = st.slots[m]
    BY <2>1, <2>2, SlotStateType
  <2>4. n # m => update.slots[n] = None
    BY <2>1 DEF SlotState, EmptyState
  <2> QED
    BY <2>3, <2>4 DEF CopiedFrom
<1> QED
  BY <1>1, <1>2

\* The node handles a request: what it answers it took.
LEMMA ServeKeepsTaken ==
    ASSUME TakenInv, NEW i \in wire, Serve(i)
    PROVE  AckedInv' /\ WaitInv' /\ CopyInv' /\ PublishedWasTaken'
<1>1. TypeInv /\ (i # Reput => i \in DOMAIN sent) /\ accepted \subseteq DOMAIN sent
  BY DEF TakenInv, WordInv, TypeInv, TypeOK
<1> DEFINE update == IF i = Reput THEN EmptyState ELSE SlotState(sent[i].name, sent[i].slot)
<1>2. /\ UNCHANGED <<local, task, sent, told>> /\ wire' = wire \ {i}
      /\ \/ /\ MergeAccepts(chain, update, now)
            /\ states' = states \cup {MergeResult(chain, update)}
            /\ accepted' = accepted \cup ({i} \ {Reput}) /\ acks' = acks \cup {i}
         \/ UNCHANGED <<states, accepted, acks>>
  BY DEF Serve, Becomes
<1>3. ASSUME MergeAccepts(chain, update, now), i # Reput,
             states' = states \cup {MergeResult(chain, update)}
      PROVE  HeldOnce(i)'
  <2>1. LET slot == MergeResult(chain, update).slots[sent[i].name]
        IN  slot # None /\ slot.time >= sent[i].slot.time
    BY <1>1, <1>3, TakenIsHeld
  <2> HIDE DEF update
  <2> QED
    BY <1>2, <1>3, <2>1 DEF HeldOnce
<1> HIDE DEF update
<1>4. states \subseteq states' /\ wire' \cup acks' \subseteq wire \cup acks
  BY <1>2
<1>5. \A j : HeldOnce(j) => HeldOnce(j)'
  BY <1>2, <1>4, HeldStays
<1>6. AckedInv'
  BY <1>2, <1>3, <1>5 DEF TakenInv, AckedInv
<1>7. \A f \in BusyFlags : task[f].pc = "wait" /\ task[f].hit /\ Alone(task[f].req)
                              => HeldOnce(task[f].req)
  BY <1>1 DEF TakenInv, TypeInv, WaitsForSent, WaitInv, OwnAck
<1>8. WaitInv' /\ PublishedWasTaken'
  BY <1>2, <1>4, <1>7, AsideKeepsTaken
<1>9. CopyInv'
  BY <1>2, <1>4, CopyStays DEF TakenInv
<1> QED
  BY <1>6, <1>8, <1>9

\* An ack: whoever waits alone, waits for this one.
LEMMA AckKeepsTaken ==
    ASSUME TakenInv, NEW i \in acks, Ack(i)
    PROVE  AckedInv' /\ WaitInv' /\ CopyInv' /\ PublishedWasTaken'
<1>1. /\ TypeInv /\ task \in [BusyFlags -> Task]
      /\ \A f \in BusyFlags : task[f].pc = "wait" => task[f].req \in DOMAIN sent
  BY DEF TakenInv, WordInv, TypeInv, TypeOK, WaitsForSent
<1>2. /\ acks' = acks \ {i} /\ UNCHANGED <<local, states, accepted, wire, sent, told>>
      /\ \A f \in BusyFlags : task'[f].pc = task[f].pc /\ task'[f].req = task[f].req
  BY <1>1 DEF Ack, node, Task
<1>3. ASSUME NEW f \in BusyFlags, task[f].pc = "wait", Alone(task[f].req)
      PROVE  HeldOnce(task[f].req)
  <2>1. PICK j \in DOMAIN sent : j = task[f].req
    BY <1>1, <1>3
  <2>2. wire \cup acks \subseteq {j}
    BY <1>3, <2>1 DEF TakenInv, WaitInv, OwnAck
  <2>3. j \in accepted \cup {Reput}
    BY <2>2 DEF TakenInv, AckedInv
  <2>4. j # Reput
    <3>1. sent \in Seq(Sent)
      BY <1>1 DEF TypeInv, TypeOK, Sent
    <3> QED
      BY <2>1, <3>1 DEF Reput
  <2> QED
    BY <2>1, <2>3, <2>4 DEF TakenInv, AckedInv
<1>4. WaitInv' /\ PublishedWasTaken'
  BY <1>2, <1>3, AsideKeepsTaken
<1>5. AckedInv'
  BY <1>2 DEF TakenInv, AckedInv, HeldOnce
<1>6. CopyInv'
  BY <1>2, CopyStays DEF TakenInv
<1> QED
  BY <1>4, <1>5, <1>6

\* Every step keeps what is told, taken.
LEMMA TakenNext == TakenInv /\ [Next]_vars => TakenInv'
<1> SUFFICES ASSUME TakenInv, [Next]_vars PROVE TakenInv'
  OBVIOUS
<1>1. WordInv' /\ TypeInv
  BY WordNext DEF TakenInv, WordInv
<1> SUFFICES AckedInv' /\ WaitInv' /\ CopyInv' /\ PublishedWasTaken'
  BY <1>1 DEF TakenInv
<1>2. CASE SaveProfile
  <2>1. PublishSlot("save", SlotOf("save"), Trimmed(page.form))
        /\ Trimmed(page.form) \in Contents /\ "save" \in BusyFlags
    BY <1>2, PageAssumption DEF SaveProfile, CheckProfile, ProfileV1, SlotOf, BusyFlags
  <2> QED
    BY <2>1, PublishKeepsTaken
<1>3. CASE RemoveAvatar \/ \E bytes \in Pictures : PublishAvatar(bytes)
  <2>1. (\E bytes \in Contents : PublishSlot("pic", SlotOf("pic"), bytes))
        /\ "pic" \in BusyFlags
    BY <1>3, PageAssumption DEF RemoveAvatar, PublishAvatar, SlotOf, BusyFlags
  <2> QED
    BY <2>1, PublishKeepsTaken
<1>4. ASSUME NEW f \in BusyFlags, Confirm(f)
      PROVE  AckedInv' /\ WaitInv' /\ CopyInv' /\ PublishedWasTaken'
  BY <1>4, ConfirmKeepsTaken
<1>5. ASSUME NEW i \in wire, Serve(i)
      PROVE  AckedInv' /\ WaitInv' /\ CopyInv' /\ PublishedWasTaken'
  BY <1>5, ServeKeepsTaken
<1>6. ASSUME NEW i \in acks, Ack(i)
      PROVE  AckedInv' /\ WaitInv' /\ CopyInv' /\ PublishedWasTaken'
  BY <1>6, AckKeepsTaken
<1>7. \A f \in BusyFlags : task[f].pc = "wait" /\ task[f].hit /\ Alone(task[f].req)
                              => HeldOnce(task[f].req)
  BY <1>1 DEF TakenInv, TypeInv, WaitsForSent, WaitInv, OwnAck
<1>8. ASSUME states \subseteq states', UNCHANGED <<wire, acks, accepted, sent, told>>,
             \A f \in BusyFlags : task'[f].pc = "wait" => task'[f] = task[f]
      PROVE  AckedInv' /\ WaitInv' /\ PublishedWasTaken'
  <2>1. WaitInv' /\ PublishedWasTaken'
    BY <1>7, <1>8, AsideKeepsTaken
  <2>2. \A j : HeldOnce(j) => HeldOnce(j)'
    BY <1>8, HeldStays
  <2>3. AckedInv'
    BY <1>8, <2>2 DEF TakenInv, AckedInv
  <2> QED
    BY <2>1, <2>3
<1>9. ASSUME NEW update \in Notified, Arrive(update)
      PROVE  AckedInv' /\ WaitInv' /\ CopyInv' /\ PublishedWasTaken'
  <2>1. /\ local' = MergeState(IF local = None THEN EmptyState ELSE local, update, now)
        /\ UNCHANGED <<states, wire, acks, accepted, sent, told, task>>
    BY <1>9 DEF Arrive, node
  <2>2. update \in IdentityStateV1 /\ \A n \in Names : CopiedFrom(update.slots[n], n)
    BY <1>1, NotifiedType, NotifiedCopies
  <2>3. \A n \in Names : CopiedFrom(update.slots[n], n)'
    BY <2>1, <2>2 DEF CopiedFrom
  <2>4. CopyInv'
    BY <1>1, <2>1, <2>2, <2>3, CopyMerges DEF TakenInv
  <2> QED
    BY <1>8, <2>1, <2>4
<1>10. CASE /\ states \subseteq states'
            /\ UNCHANGED <<local, wire, acks, accepted, sent, told>>
            /\ \A f \in BusyFlags : task'[f].pc = "wait" => task'[f] = task[f]
  BY <1>8, <1>10, CopyStays DEF TakenInv
<1>11. CASE Leave \/ \E f \in BusyFlags : GiveUp(f)
  <2>1. task \in [BusyFlags -> Task]
    BY <1>1 DEF TypeInv, TypeOK
  <2>2. /\ UNCHANGED <<local, states, wire, acks, accepted, sent, told>>
        /\ \A f \in BusyFlags : task'[f].pc = "wait" => task'[f] = task[f]
    BY <1>11, <2>1 DEF Leave, GiveUp, Idle, node
  <2> QED
    BY <1>10, <2>2
<1>12. CASE \E update \in Elsewhere : WriteElsewhere(update)
  BY <1>10, <1>12 DEF WriteElsewhere, Becomes
<1>13. CASE UNCHANGED <<local, states, wire, acks, accepted, sent, told, task>>
  BY <1>10, <1>13
<1>14. \/ UNCHANGED <<local, states, wire, acks, accepted, sent, told, task>>
       \/ SaveProfile \/ RemoveAvatar \/ \E bytes \in Pictures : PublishAvatar(bytes)
       \/ \E f \in BusyFlags : Confirm(f)
       \/ \E i \in wire : Serve(i)
       \/ \E i \in acks : Ack(i)
       \/ \E update \in Notified : Arrive(update)
       \/ Leave \/ \E f \in BusyFlags : GiveUp(f)
       \/ \E update \in Elsewhere : WriteElsewhere(update)
  BY Zenon DEF Next, User, Open, Change, Type, Cancel, Tick, node, vars
<1> QED
  BY <1>2, <1>3, <1>4, <1>5, <1>6, <1>9, <1>11, <1>12, <1>13, <1>14

\* publish_slot, wait_until and merge_state: over a node that refuses, is slow,
\* answers in any order and sends what it likes, a publish with no other request
\* of the contract under way is told only when the contract has held it or one
\* dated later.
THEOREM ToldIsTaken == Spec => []PublishedWasTaken
<1>1. Init => TakenInv
  <2> SUFFICES ASSUME Init PROVE TakenInv
    OBVIOUS
  <2>1. WordInv
    BY WordInit
  <2>2. \A f \in BusyFlags : task[f].pc # "wait"
    BY DEF Init, Idle
  <2> QED
    BY <2>1, <2>2 DEF Init, TakenInv, AckedInv, WaitInv, CopyInv, PublishedWasTaken
<1>2. TakenInv => PublishedWasTaken
  BY DEF TakenInv
<1> QED
  BY <1>1, <1>2, TakenNext, PTL DEF Spec

-----------------------------------------------------------------------------
(* What the owner did not type.  The local copy's profile is one that the  *)
(* contract held or that this page published, and the form was filled from *)
(* such a copy.                                                            *)

\* A slot the contract held or this page published as the profile.
ProfileKnown(slot) ==
    \/ \E st \in states : slot = st.slots["profile"]
    \/ \E j \in DOMAIN sent : sent[j].name = "profile" /\ slot = sent[j].slot

\* A text that field f of such a profile shows.
TextKnown(f, text) ==
    \/ \E st \in states : text = Shown(st)[f]
    \/ \E j \in DOMAIN sent : sent[j].name = "profile" /\ text = sent[j].slot.bytes[f]

\* The form is filled as soon as there is a state, and with known texts; the
\* fields the owner typed into are set apart.
FormInv ==
    /\ page.open /\ local # None => page.seeded
    /\ ~ page.seeded => page.form = BlankProfile
    /\ page.seeded => \A f \in Fields \ page.touched : TextKnown(f, page.form[f])

\* Nothing is published before a state has arrived, and what is, is trimmed.
SentInv ==
    \A j \in DOMAIN sent :
       /\ local # None
       /\ sent[j].name = "profile" =>
             \A f \in Fields : Trim[sent[j].slot.bytes[f]] = sent[j].slot.bytes[f]

StatesValid == \A st \in states : ValidateFull(st, now)

KnownInv ==
    /\ TypeInv
    /\ local # None => ProfileKnown(local.slots["profile"])
    /\ FormInv
    /\ SentInv
    /\ StatesValid

\* The copy of a known profile shows known texts.
LEMMA ShownKnown ==
    ASSUME TypeInv, NEW st, ProfileKnown(st.slots["profile"])
    PROVE  \A f \in Fields : TextKnown(f, Shown(st)[f])
<1>1. CASE \E old \in states : st.slots["profile"] = old.slots["profile"]
  <2>1. PICK old \in states : st.slots["profile"] = old.slots["profile"]
    BY <1>1
  <2>2. Shown(st) = Shown(old)
    BY <2>1 DEF Shown, ProfileOf
  <2> QED
    BY <2>2 DEF TextKnown
<1>2. CASE \E j \in DOMAIN sent : sent[j].name = "profile" /\ st.slots["profile"] = sent[j].slot
  <2>1. PICK j \in DOMAIN sent : sent[j].name = "profile" /\ st.slots["profile"] = sent[j].slot
    BY <1>2
  <2>2. sent[j].slot.bytes \in [Fields -> Texts]
    BY <2>1 DEF TypeInv, TypeOK, ProfileV1
  <2>3. sent[j].slot # None
    BY SentType, NoneAssumption DEF Sent
  <2>4. sent[j].slot.bytes # None
    BY <2>2, PageAssumption, ContentAssumption
  <2>5. Shown(st) = sent[j].slot.bytes
    BY <2>1, <2>2, <2>3, <2>4 DEF Shown, ProfileOf
  <2> QED
    BY <2>1, <2>5 DEF TextKnown
<1> QED
  BY <1>1, <1>2 DEF ProfileKnown

\* What was known stays known.
LEMMA KnownStays ==
    ASSUME states \subseteq states', DOMAIN sent \subseteq DOMAIN sent',
           \A i \in DOMAIN sent : sent'[i] = sent[i]
    PROVE  /\ \A slot : ProfileKnown(slot) =>
                 \/ \E st \in states' : slot = st.slots["profile"]
                 \/ \E j \in DOMAIN sent' :
                       sent'[j].name = "profile" /\ slot = sent'[j].slot
           /\ \A f, text : TextKnown(f, text) =>
                 \/ \E st \in states' : text = Shown(st)[f]
                 \/ \E j \in DOMAIN sent' :
                       sent'[j].name = "profile" /\ text = sent'[j].slot.bytes[f]
<1>1. ASSUME NEW slot, ProfileKnown(slot)
      PROVE  \/ \E st \in states' : slot = st.slots["profile"]
             \/ \E j \in DOMAIN sent' : sent'[j].name = "profile" /\ slot = sent'[j].slot
  BY <1>1 DEF ProfileKnown
<1>2. ASSUME NEW f, NEW text, TextKnown(f, text)
      PROVE  \/ \E st \in states' : text = Shown(st)[f]
             \/ \E j \in DOMAIN sent' :
                   sent'[j].name = "profile" /\ text = sent'[j].slot.bytes[f]
  <2>1. CASE \E st \in states : text = Shown(st)[f]
    BY <2>1
  <2>2. CASE \E j \in DOMAIN sent : sent[j].name = "profile" /\ text = sent[j].slot.bytes[f]
    BY <2>2
  <2> QED
    BY <1>2, <2>1, <2>2 DEF TextKnown
<1> QED
  BY <1>1, <1>2, Zenon

\* The first state that arrives is shown as it is.
LEMMA FirstArrival ==
    ASSUME NEW st \in IdentityStateV1, NEW time, ValidateFull(st, time), NEW n \in Names
    PROVE  MergeState(EmptyState, st, time).slots[n] = st.slots[n]
<1>1. ~ Destroyed(EmptyState) /\ EmptyState \in IdentityStateV1 /\ EmptyState.slots[n] = None
      /\ EmptyState.destroyed = None
  BY EmptyStateType DEF EmptyState, Destroyed
<1>2. CASE Destroyed(st)
  <2>1. MergeAccepts(EmptyState, st, time) /\ st.slots[n] = None
    BY <1>2 DEF MergeAccepts, ValidateFull, Held
  <2>2. MergeResult(EmptyState, st) = MarkerState(st.destroyed)
    BY <1>1, <1>2 DEF MergeResult
  <2>3. MarkerState(st.destroyed).slots[n] = None
    BY DEF MarkerState, EmptyState
  <2> QED
    BY <2>1, <2>2, <2>3 DEF MergeState
<1>3. CASE ~ Destroyed(st)
  <2>1. MergedSlots(EmptyState, st) = st.slots
    <3>1. st.slots \in [Names -> SignedSlot \cup {None}]
      BY DEF IdentityStateV1
    <3>2. \A m \in Names : EmptyState.slots[m] = None
      BY DEF EmptyState
    <3> QED
      BY <3>1, <3>2 DEF MergedSlots, Inserted, Supersedes
  <2>2. [EmptyState EXCEPT !.slots = st.slots] = st
    BY <1>3 DEF EmptyState, IdentityStateV1, Destroyed
  <2>3. MergeAccepts(EmptyState, st, time)
    BY <1>1, <1>3, <2>1, <2>2 DEF MergeAccepts, ValidateFull
  <2>4. MergeResult(EmptyState, st) = st
    BY <1>1, <1>3, <2>1, <2>2 DEF MergeResult
  <2> QED
    BY <2>3, <2>4 DEF MergeState
<1> QED
  BY <1>2, <1>3

\* A later one leaves a slot, or puts its own there.
LEMMA LaterArrival ==
    ASSUME NEW cur \in IdentityStateV1, NEW inc \in IdentityStateV1, NEW time,
           Destroyed(inc) => Held(inc) = {}, NEW n \in Names
    PROVE  LET slot == MergeState(cur, inc, time).slots[n] IN
           \/ slot = cur.slots[n]
           \/ slot = inc.slots[n] /\ (inc.slots[n] # None \/ Destroyed(inc))
<1>1. CASE Destroyed(inc)
  <2>1. inc.slots[n] = None
    BY <1>1 DEF Held
  <2>2. MarkerState(inc.destroyed).slots[n] = None
    BY DEF MarkerState, EmptyState
  <2>3. MergeResult(cur, inc) \in {cur, MarkerState(inc.destroyed)}
    BY <1>1 DEF MergeResult
  <2> QED
    BY <1>1, <2>1, <2>2, <2>3 DEF MergeState
<1>2. CASE ~ Destroyed(inc) /\ Destroyed(cur)
  BY <1>2 DEF MergeState, MergeResult
<1>3. CASE ~ Destroyed(inc) /\ ~ Destroyed(cur)
  BY <1>3, MergedSlot DEF MergeState, Supersedes
<1> QED
  BY <1>1, <1>2, <1>3

\* Whatever comes, the copy's profile is a known one: the first to come is a
\* whole state, and of the parts of a state each slot was in it.
LEMMA LocalStaysKnown ==
    ASSUME KnownInv, NEW update \in IdentityStateV1,
           \/ update \in states
           \/ /\ local # None /\ ~ Destroyed(update)
              /\ \/ update.slots["profile"] = None
                 \/ ProfileKnown(update.slots["profile"])
    PROVE  LET new == MergeState(IF local = None THEN EmptyState ELSE local, update, now)
           IN  ProfileKnown(new.slots["profile"])
<1> DEFINE new == MergeState(IF local = None THEN EmptyState ELSE local, update, now)
<1>1. "profile" \in Names
  BY PageAssumption
<1>2. update \in states => ProfileKnown(update.slots["profile"])
                           /\ ValidateFull(update, now)
  BY DEF ProfileKnown, KnownInv, StatesValid
<1>3. CASE local = None
  <2>1. new.slots["profile"] = update.slots["profile"]
    BY <1>1, <1>2, <1>3, FirstArrival
  <2> QED
    BY <1>2, <1>3, <2>1
<1>4. CASE local # None
  <2>1. local \in IdentityStateV1 /\ ProfileKnown(local.slots["profile"])
    BY <1>4 DEF KnownInv, TypeInv, TypeOK
  <2>2. Destroyed(update) => Held(update) = {} /\ update \in states
    BY <1>2 DEF ValidateFull
  <2>3. \/ new.slots["profile"] = local.slots["profile"]
        \/ /\ new.slots["profile"] = update.slots["profile"]
           /\ update.slots["profile"] # None \/ Destroyed(update)
    BY <1>1, <1>4, <2>1, <2>2, LaterArrival
  <2> HIDE DEF new
  <2>4. new.slots["profile"] = update.slots["profile"] /\ Destroyed(update)
          => ProfileKnown(new.slots["profile"])
    BY <1>2, <2>2
  <2>5. new.slots["profile"] = update.slots["profile"] /\ update.slots["profile"] # None
          => ProfileKnown(new.slots["profile"])
    BY <1>2
  <2> QED
    BY <2>1, <2>3, <2>4, <2>5 DEF new
<1> QED
  BY <1>3, <1>4

\* What the node sends is a state of the contract or, later, a part of one.
LEMMA NotifiedKnown ==
    ASSUME KnownInv, "early" \notin Faults, NEW update \in Notified
    PROVE  \/ update \in states
           \/ /\ local # None /\ ~ Destroyed(update)
              /\ \/ update.slots["profile"] = None
                 \/ ProfileKnown(update.slots["profile"])
<1>1. states \subseteq IdentityStateV1
  BY DEF KnownInv, TypeInv, TypeOK
<1>2. ASSUME NEW st \in states, NEW n \in Held(st), update = SlotState(n, st.slots[n])
      PROVE  /\ ~ Destroyed(update)
             /\ \/ update.slots["profile"] = None
                \/ ProfileKnown(update.slots["profile"])
  <2>1. n \in Names /\ st.slots[n] \in SignedSlot /\ "profile" \in Names
    BY <1>1, PageAssumption DEF IdentityStateV1, Held
  <2>2. ~ Destroyed(update) /\ update.slots[n] = st.slots[n]
    BY <1>2, <2>1, SlotStateType
  <2>3. CASE n = "profile"
    BY <2>2, <2>3 DEF ProfileKnown
  <2>4. CASE n # "profile"
    BY <1>2, <2>1, <2>2, <2>4 DEF SlotState, EmptyState
  <2> QED
    BY <2>2, <2>3, <2>4
<1>3. CASE update \in states
  BY <1>3
<1>4. CASE update \notin states
  <2>1. local # None /\ \E st \in states : \E n \in Held(st) : update = SlotState(n, st.slots[n])
    BY <1>4 DEF Notified, Deltas
  <2> QED
    BY <1>2, <2>1
<1> QED
  BY <1>3, <1>4

\* A page whose form is blank until it is filled, and then of known texts.
FormOf(p) ==
    /\ ~ p.seeded => p.form = BlankProfile
    /\ p.seeded => \A f \in Fields \ p.touched : TextKnown(f, p.form[f])

\* Rendering over a known copy fills the form with known texts.
LEMMA RenderedKnown ==
    ASSUME TypeInv, NEW p \in Page, FormOf(p), NEW st,
           st # None => ProfileKnown(st.slots["profile"])
    PROVE  /\ FormOf(Rendered(p, st))
           /\ Rendered(p, st).open /\ st # None => Rendered(p, st).seeded
<1> DEFINE q == Rendered(p, st)
           form == IF ProfileOf(st) = None THEN p.form ELSE ProfileOf(st)
<1>1. CASE p.open /\ ~ p.seeded /\ st # None
  <2>1. form = Shown(st)
    BY <1>1 DEF FormOf, Shown
  <2>2. q = [p EXCEPT !.seeded = TRUE, !.form = form]
    BY <1>1 DEF Rendered
  <2> HIDE DEF form, q
  <2>3. q.seeded /\ q.form = Shown(st)
    BY <2>1, <2>2, Zenon DEF Page
  <2>4. \A f \in Fields : TextKnown(f, Shown(st)[f])
    BY <1>1, ShownKnown
  <2> QED
    BY <2>3, <2>4 DEF FormOf, q
<1>2. CASE ~ (p.open /\ ~ p.seeded /\ st # None)
  <2>1. q = p
    BY <1>2 DEF Rendered
  <2> QED
    BY <1>2, <2>1
<1> QED
  BY <1>1, <1>2

\* What a step has to keep.
LEMMA KnownStep ==
    ASSUME KnownInv, TypeInv', states \subseteq states', DOMAIN sent \subseteq DOMAIN sent',
           \A i \in DOMAIN sent : sent'[i] = sent[i], StatesValid', SentInv',
           local' # None => ProfileKnown(local'.slots["profile"]),
           FormOf(page'), page'.open /\ local' # None => page'.seeded
    PROVE  KnownInv'
<1>1. local' # None => ProfileKnown(local.slots["profile"])'
  BY KnownStays, Zenon DEF ProfileKnown
<1>2. ASSUME page'.seeded, NEW f \in Fields \ page'.touched
      PROVE  TextKnown(f, page.form[f])'
  <2>1. TextKnown(f, page'.form[f])
    BY <1>2 DEF FormOf
  <2> QED
    BY <2>1, KnownStays, Zenon DEF TextKnown
<1>3. FormInv'
  BY <1>2 DEF FormOf, FormInv
<1> QED
  BY <1>1, <1>3 DEF KnownInv

\* A step that leaves the page and its copy alone, and publishes nothing.
LEMMA AsideKnown ==
    ASSUME KnownInv, TypeInv', UNCHANGED <<local, page, sent>>, states \subseteq states',
           StatesValid'
    PROVE  KnownInv'
<1>1. FormOf(page) /\ (page.open /\ local # None => page.seeded)
      /\ (local # None => ProfileKnown(local.slots["profile"])) /\ SentInv
  BY DEF KnownInv, FormInv, FormOf
<1>2. SentInv'
  BY <1>1 DEF SentInv
<1>3. FormOf(page') /\ (page'.open /\ local' # None => page'.seeded)
      /\ (local' # None => ProfileKnown(local'.slots["profile"]))
  BY <1>1
<1> QED
  BY <1>2, <1>3, KnownStep

\* A step of the page or of its copy.
LEMMA PageKnown ==
    ASSUME KnownInv, TypeInv', UNCHANGED <<now, states, sent>>,
           local' = None => local = None,
           local' # None => ProfileKnown(local'.slots["profile"]),
           FormOf(page'), page'.open /\ local' # None => page'.seeded
    PROVE  KnownInv'
<1>1. StatesValid' /\ SentInv'
  BY DEF KnownInv, StatesValid, SentInv
<1> QED
  BY <1>1, KnownStep

\* A publish: what it sends is trimmed.
LEMMA PublishKnown ==
    ASSUME KnownInv, TypeInv', NEW flag, NEW name \in Names, NEW bytes \in Contents,
           local # None, PublishSlot(flag, name, bytes),
           name = "profile" => \A f \in Fields : Trim[bytes[f]] = bytes[f]
    PROVE  KnownInv'
<1> DEFINE new == Request(name, bytes)
<1>1. sent \in Seq(Sent)
  BY DEF KnownInv, TypeInv, TypeOK, Sent
<1>2. new \in Sent /\ new.name = name /\ new.slot.bytes = bytes
  BY RequestType DEF KnownInv
<1>3. /\ sent' = Append(sent, new)
      /\ UNCHANGED <<now, local, page, states>>
  BY DEF PublishSlot
<1> HIDE DEF new
<1>4. /\ DOMAIN sent' = 1..(Len(sent) + 1) /\ DOMAIN sent = 1..Len(sent) /\ Len(sent) \in Nat
      /\ \A i \in DOMAIN sent : sent'[i] = sent[i]
      /\ sent'[Len(sent) + 1] = new
  BY <1>1, <1>2, <1>3
<1>5. StatesValid'
  BY <1>3 DEF KnownInv, StatesValid
<1>6. ASSUME NEW j \in DOMAIN sent', sent'[j].name = "profile"
      PROVE  \A f \in Fields : Trim[sent'[j].slot.bytes[f]] = sent'[j].slot.bytes[f]
  <2>1. CASE j \in DOMAIN sent
    BY <1>4, <1>6, <2>1 DEF KnownInv, SentInv
  <2>2. CASE j = Len(sent) + 1
    BY <1>2, <1>4, <1>6, <2>2
  <2> QED
    BY <1>4, <2>1, <2>2
<1>7. SentInv'
  BY <1>3, <1>6 DEF SentInv
<1>8. FormOf(page) /\ (page.open /\ local # None => page.seeded)
      /\ (local # None => ProfileKnown(local.slots["profile"]))
  BY DEF KnownInv, FormInv, FormOf
<1>9. FormOf(page') /\ (page'.open /\ local' # None => page'.seeded)
      /\ (local' # None => ProfileKnown(local'.slots["profile"]))
  BY <1>3, <1>8
<1>10. states \subseteq states' /\ DOMAIN sent \subseteq DOMAIN sent'
  BY <1>3, <1>4
<1> QED
  BY <1>4, <1>5, <1>7, <1>9, <1>10, KnownStep

\* What save_profile sends is the form, trimmed; trimming it again is nothing.
LEMMA TrimmedForm ==
    ASSUME NEW form \in [Fields -> Texts]
    PROVE  /\ \A f \in Fields : Trimmed(form)[f] = Trim[form[f]]
           /\ \A f \in Fields : Trim[Trimmed(form)[f]] = Trimmed(form)[f]
BY ContentAssumption DEF Trimmed

\* The contract goes on to a state that merge_state let in.
LEMMA BecomesKnown ==
    ASSUME KnownInv, TypeInv', NEW update \in IdentityStateV1,
           MergeAccepts(chain, update, now), Becomes(MergeResult(chain, update)),
           UNCHANGED <<now, local, page, sent>>
    PROVE  KnownInv'
<1>1. /\ chain \in states /\ chain \in IdentityStateV1 /\ now \in Nat
      /\ \A st \in states : ValidateFull(st, now)
  BY PageAssumption DEF KnownInv, TypeInv, TypeOK, StatesValid
<1>2. ValidateFull(MergeResult(chain, update), now)
  BY <1>1, MergeValid
<1>3. states' = states \cup {MergeResult(chain, update)} /\ now' = now
  BY DEF Becomes
<1>4. StatesValid'
  BY <1>1, <1>2, <1>3 DEF StatesValid
<1> QED
  BY <1>3, <1>4, AsideKnown

\* Every step keeps what is shown and sent known.
LEMMA KnownNext ==
    ASSUME "early" \notin Faults, KnownInv, [Next]_vars
    PROVE  KnownInv'
<1>1. TypeInv' /\ TypeInv
  BY TypeNext DEF KnownInv
<1>2. FormOf(page) /\ (page.open /\ local # None => page.seeded)
      /\ (local # None => ProfileKnown(local.slots["profile"]))
      /\ page \in Page /\ StatesValid
  BY <1>1 DEF KnownInv, FormInv, FormOf, TypeInv, TypeOK
<1>3. FormOf(Away) /\ FormOf([Away EXCEPT !.open = TRUE])
      /\ Away \in Page /\ [Away EXCEPT !.open = TRUE] \in Page /\ ~ Away.open
  BY PageAssumption DEF FormOf, Away, Page, BlankProfile
<1>4. CASE Open
  <2>1. page' = Rendered([Away EXCEPT !.open = TRUE], local)
        /\ UNCHANGED <<now, local, states, sent>>
    BY <1>4 DEF Open, node
  <2>2. FormOf(page') /\ (page'.open /\ local' # None => page'.seeded)
    BY <1>1, <1>2, <1>3, <2>1, RenderedKnown
  <2> QED
    BY <1>1, <1>2, <2>1, <2>2, PageKnown
<1>5. CASE Leave
  <2>1. page' = Away /\ UNCHANGED <<now, local, states, sent>>
    BY <1>5 DEF Leave, node
  <2> QED
    BY <1>1, <1>2, <1>3, <2>1, PageKnown
<1>6. CASE Change
  <2>1. page' = [page EXCEPT !.editing = TRUE] /\ UNCHANGED <<now, local, states, sent>>
    BY <1>6 DEF Change, node
  <2>2. /\ page'.open = page.open /\ page'.seeded = page.seeded
        /\ page'.form = page.form /\ page'.touched = page.touched
    BY <1>2, <2>1, Zenon DEF Page
  <2>3. FormOf(page')
    BY <1>2, <2>2 DEF FormOf
  <2> QED
    BY <1>1, <1>2, <2>1, <2>2, <2>3, PageKnown
<1>7. ASSUME NEW f \in Fields, NEW text \in Typed[f], Type(f, text)
      PROVE  KnownInv'
  <2>1. page' = [page EXCEPT !.form[f] = text, !.touched = @ \cup {f}]
        /\ UNCHANGED <<now, local, states, sent>> /\ page.open /\ local # None
    BY <1>7 DEF Type, Usable, node
  <2>2. /\ page'.open = page.open /\ page'.seeded = page.seeded
        /\ page'.form = [page.form EXCEPT ![f] = text]
        /\ page'.touched = page.touched \cup {f}
    BY <1>2, <2>1, Zenon DEF Page
  <2>3. \A g \in Fields \ {f} : page'.form[g] = page.form[g]
    BY <1>2, <2>2 DEF Page
  <2>4. FormOf(page')
    BY <1>2, <2>1, <2>2, <2>3 DEF FormOf
  <2> QED
    BY <1>1, <1>2, <2>1, <2>2, <2>4, PageKnown
<1>8. CASE Cancel
  <2>1. page' = [page EXCEPT !.form = Shown(local), !.editing = FALSE, !.touched = {}]
        /\ UNCHANGED <<now, local, states, sent>> /\ page.open /\ local # None
    BY <1>8 DEF Cancel, Usable, node
  <2>2. /\ page'.seeded = page.seeded /\ page'.form = Shown(local)
    BY <1>2, <2>1, Zenon DEF Page
  <2>3. \A f \in Fields : TextKnown(f, Shown(local)[f])
    BY <1>1, <1>2, <2>1, ShownKnown
  <2>4. FormOf(page')
    BY <1>2, <2>1, <2>2, <2>3 DEF FormOf
  <2> QED
    BY <1>1, <1>2, <2>1, <2>2, <2>4, PageKnown
<1>9. CASE SaveProfile
  <2>1. local # None /\ PublishSlot("save", "profile", Trimmed(page.form))
        /\ Trimmed(page.form) \in Contents /\ "profile" \in Names
    BY <1>9, PageAssumption DEF SaveProfile, CheckProfile, ProfileV1, Usable
  <2>2. page.form \in [Fields -> Texts]
    BY <1>2 DEF Page
  <2> QED
    BY <1>1, <2>1, <2>2, TrimmedForm, PublishKnown
<1>10. CASE RemoveAvatar \/ \E bytes \in Pictures : PublishAvatar(bytes)
  <2>1. (\E bytes \in Contents : PublishSlot("pic", "avatar", bytes)) /\ "avatar" \in Names
        /\ local # None
    BY <1>10, PageAssumption DEF RemoveAvatar, PublishAvatar, Usable
  <2> QED
    BY <1>1, <2>1, PublishKnown
<1>11. ASSUME NEW f \in BusyFlags, Confirm(f) PROVE KnownInv'
  <2> DEFINE r == sent[task[f].req]
             update == SlotState(r.name, r.slot)
  <2>1. task[f].req \in DOMAIN sent /\ r \in Sent /\ "profile" \in Names
    BY <1>1, <1>11, SentType, PageAssumption DEF Confirm, TypeInv, WaitsForSent
  <2>2. /\ local' = MergeState(IF local = None THEN EmptyState ELSE local, update, now)
        /\ \E p \in {page, [page EXCEPT !.editing = FALSE]} : page' = Rendered(p, local')
        /\ UNCHANGED <<now, states, sent>>
    BY <1>11 DEF Confirm, node
  <2>3. /\ update \in IdentityStateV1 /\ ~ Destroyed(update)
        /\ update.slots[r.name] = r.slot /\ r.name \in Names
    BY <2>1, SlotStateType DEF Sent
  <2>4. local # None
    BY <2>1 DEF KnownInv, SentInv
  <2>5. update.slots["profile"] = None \/ ProfileKnown(update.slots["profile"])
    <3>1. CASE r.name = "profile"
      BY <2>1, <2>3, <3>1 DEF ProfileKnown
    <3>2. CASE r.name # "profile"
      BY <2>1, <2>3, <3>2 DEF SlotState, EmptyState
    <3> QED
      BY <3>1, <3>2
  <2> HIDE DEF update
  <2>6. ProfileKnown(local'.slots["profile"])
    BY <2>2, <2>3, <2>4, <2>5, LocalStaysKnown
  <2>7. PICK p \in {page, [page EXCEPT !.editing = FALSE]} : page' = Rendered(p, local')
    BY <2>2
  <2>8. p \in Page /\ FormOf(p)
    BY <1>2 DEF Page, FormOf
  <2>9. FormOf(page') /\ (page'.open /\ local' # None => page'.seeded)
    BY <1>1, <2>6, <2>7, <2>8, RenderedKnown
  <2>10. local' # None
    BY <1>1, <2>2, <2>3, ArriveType, ContentAssumption
  <2> QED
    BY <1>1, <2>2, <2>6, <2>9, <2>10, PageKnown
<1>12. ASSUME NEW update \in Notified, Arrive(update) PROVE KnownInv'
  <2>1. /\ local' = MergeState(IF local = None THEN EmptyState ELSE local, update, now)
        /\ page' = Rendered(page, local') /\ UNCHANGED <<now, states, sent>>
    BY <1>12 DEF Arrive, node
  <2>2. ProfileKnown(local'.slots["profile"])
    BY <1>1, <2>1, NotifiedKnown, NotifiedType, LocalStaysKnown
  <2>3. FormOf(page') /\ (page'.open /\ local' # None => page'.seeded)
    BY <1>1, <1>2, <2>1, <2>2, RenderedKnown
  <2>4. local' \in IdentityStateV1
    BY <1>1, <2>1, NotifiedType, ArriveType
  <2>5. local' # None
    BY <2>4, ContentAssumption
  <2> QED
    BY <1>1, <2>1, <2>2, <2>3, <2>5, PageKnown
<1>13. ASSUME NEW i \in wire, Serve(i) PROVE KnownInv'
  <2> DEFINE update == IF i = Reput THEN EmptyState ELSE SlotState(sent[i].name, sent[i].slot)
  <2>1. update \in IdentityStateV1
    <3>1. CASE i = Reput
      BY <3>1, EmptyStateType
    <3>2. CASE i # Reput
      <4>1. i \in DOMAIN sent /\ sent[i] \in Sent
        BY <1>1, <3>2, SentType DEF TypeInv, TypeOK
      <4> QED
        BY <3>2, <4>1, SlotStateType DEF Sent
    <3> QED
      BY <3>1, <3>2
  <2>2. UNCHANGED <<now, local, page, sent>>
    BY <1>13 DEF Serve
  <2> HIDE DEF update
  <2>3. CASE UNCHANGED states
    BY <1>1, <1>2, <2>2, <2>3, AsideKnown DEF StatesValid
  <2>4. CASE MergeAccepts(chain, update, now) /\ Becomes(MergeResult(chain, update))
    BY <1>1, <2>1, <2>2, <2>4, BecomesKnown
  <2> QED
    BY <1>13, <2>3, <2>4 DEF Serve, update
<1>14. ASSUME NEW update \in Elsewhere, WriteElsewhere(update) PROVE KnownInv'
  <2>1. /\ MergeAccepts(chain, update, now) /\ Becomes(MergeResult(chain, update))
        /\ UNCHANGED <<now, local, page, sent>> /\ update \in IdentityStateV1
    BY <1>14, PageAssumption DEF WriteElsewhere
  <2> QED
    BY <1>1, <2>1, BecomesKnown
<1>15. CASE Tick
  <2>1. /\ now \in Nat /\ now' \in Nat /\ now <= now' /\ states \subseteq IdentityStateV1
        /\ UNCHANGED <<local, page, sent, states>>
    BY <1>1, <1>15, PageAssumption DEF Tick, TypeInv, TypeOK, node
  <2>2. StatesValid'
    BY <1>2, <2>1, ValidLater DEF StatesValid
  <2> QED
    BY <1>1, <2>1, <2>2, AsideKnown
<1>16. CASE UNCHANGED <<now, local, page, states, sent>>
  BY <1>1, <1>2, <1>16, AsideKnown DEF StatesValid
<1>17. \/ User \/ Tick \/ UNCHANGED <<now, local, page, states, sent>>
       \/ \E f \in BusyFlags : Confirm(f)
       \/ \E i \in wire : Serve(i)
       \/ \E update \in Elsewhere : WriteElsewhere(update)
       \/ \E update \in Notified : Arrive(update)
  BY Zenon DEF Next, GiveUp, Ack, node, vars
<1> QED
  BY <1>4, <1>5, <1>6, <1>7, <1>8, <1>9, <1>10, <1>11, <1>12, <1>13, <1>14, <1>15, <1>16,
     <1>17 DEF User

\* The step of UntouchedWasPublished.
NewProfilesKnown ==
    \A i \in DOMAIN sent' \ DOMAIN sent : sent'[i].name = "profile" =>
       \A f \in Fields \ page.touched :
          \/ \E st \in states : sent'[i].slot.bytes[f] = Trim[Shown(st)[f]]
          \/ \E j \in DOMAIN sent :
                /\ sent[j].name = "profile"
                /\ sent'[i].slot.bytes[f] = sent[j].slot.bytes[f]

\* A publish is the last of those sent.
LEMMA PublishAppends ==
    ASSUME TypeInv, NEW flag, NEW name \in Names, NEW bytes \in Contents,
           PublishSlot(flag, name, bytes)
    PROVE  \A i \in DOMAIN sent' \ DOMAIN sent :
              sent'[i].name = name /\ sent'[i].slot.bytes = bytes
<1> DEFINE new == Request(name, bytes)
<1>1. sent \in Seq(Sent)
  BY DEF TypeInv, TypeOK, Sent
<1>2. new \in Sent /\ new.name = name /\ new.slot.bytes = bytes
  BY RequestType
<1>3. sent' = Append(sent, new)
  BY DEF PublishSlot
<1> HIDE DEF new
<1>4. \A i \in DOMAIN sent' \ DOMAIN sent : sent'[i] = new
  BY <1>1, <1>2, <1>3
<1> QED
  BY <1>2, <1>4

\* Only publishing sends, and what save_profile sends is the form.
LEMMA PublishNext ==
    ASSUME KnownInv, [Next]_vars
    PROVE  NewProfilesKnown
<1>1. TypeInv /\ "profile" \in Names /\ "avatar" \in Names
  BY PageAssumption DEF KnownInv
<1>2. CASE SaveProfile
  <2>1. /\ page.open /\ local # None
        /\ PublishSlot("save", "profile", Trimmed(page.form))
        /\ Trimmed(page.form) \in Contents
    BY <1>2, PageAssumption DEF SaveProfile, CheckProfile, ProfileV1, Usable
  <2>2. page.form \in [Fields -> Texts]
    BY <1>1 DEF TypeInv, TypeOK, Page
  <2>3. \A f \in Fields \ page.touched : TextKnown(f, page.form[f])
    BY <2>1 DEF KnownInv, FormInv
  <2>4. ASSUME NEW f \in Fields \ page.touched
        PROVE  \/ \E st \in states : Trimmed(page.form)[f] = Trim[Shown(st)[f]]
               \/ \E j \in DOMAIN sent :
                     /\ sent[j].name = "profile"
                     /\ Trimmed(page.form)[f] = sent[j].slot.bytes[f]
    <3>1. Trimmed(page.form)[f] = Trim[page.form[f]]
      BY <2>2, TrimmedForm
    <3>2. CASE \E st \in states : page.form[f] = Shown(st)[f]
      BY <3>1, <3>2
    <3>3. CASE \E j \in DOMAIN sent :
                  sent[j].name = "profile" /\ page.form[f] = sent[j].slot.bytes[f]
      BY <3>1, <3>3 DEF KnownInv, SentInv
    <3> QED
      BY <2>3, <3>2, <3>3 DEF TextKnown
  <2>5. \A i \in DOMAIN sent' \ DOMAIN sent : sent'[i].slot.bytes = Trimmed(page.form)
    BY <1>1, <2>1, PublishAppends
  <2> QED
    BY <2>4, <2>5 DEF NewProfilesKnown
<1>3. CASE RemoveAvatar \/ \E bytes \in Pictures : PublishAvatar(bytes)
  <2>1. \E bytes \in Contents : PublishSlot("pic", "avatar", bytes)
    BY <1>3, PageAssumption DEF RemoveAvatar, PublishAvatar
  <2>2. \A i \in DOMAIN sent' \ DOMAIN sent : sent'[i].name = "avatar"
    BY <1>1, <2>1, PublishAppends
  <2> QED
    BY <2>2 DEF NewProfilesKnown
<1>4. CASE UNCHANGED sent
  BY <1>4 DEF NewProfilesKnown
<1>5. \/ UNCHANGED sent \/ SaveProfile \/ RemoveAvatar
      \/ \E bytes \in Pictures : PublishAvatar(bytes)
  BY Zenon DEF Next, User, Open, Leave, Change, Type, Cancel, Confirm, GiveUp, Serve,
         WriteElsewhere, Ack, Arrive, Tick, node, vars
<1> QED
  BY <1>2, <1>3, <1>4, <1>5

\* save_profile and the seeding of the form: for any texts and pictures, any
\* writes of other devices and any number of publishes, given up or late, a
\* field the owner did not type into is published as the contract held it at
\* some time of the session, or as this page published it before.  The node
\* sends a whole state before parts of one; "early" is where it does not.
THEOREM UntouchedStands ==
    ASSUME "early" \notin Faults
    PROVE  Spec => UntouchedWasPublished
<1>1. Init => KnownInv
  <2> SUFFICES ASSUME Init PROVE KnownInv
    OBVIOUS
  <2>1. ValidateFull(chain, 1)
    BY ContentAssumption, EmptyValid DEF Init
  <2>2. FormInv
    BY DEF Init, FormInv, Away
  <2>3. SentInv
    BY DEF Init, SentInv
  <2> QED
    BY <2>1, <2>2, <2>3, TypeInit DEF Init, KnownInv, StatesValid
<1>2. KnownInv /\ [Next]_vars => KnownInv'
  BY KnownNext
<1>3. KnownInv /\ [Next]_vars => NewProfilesKnown
  BY PublishNext
<1> QED
  BY <1>1, <1>2, <1>3, PTL DEF Spec, UntouchedWasPublished, NewProfilesKnown
=============================================================================
