------------------------- MODULE ReadersStateProofs -------------------------
(***************************************************************************)
(* Proofs about Readers for every set of apps, personas, names, contents   *)
(* and every bound: what the page and the toolkit show of a persona was    *)
(* published by its owner.  A contract's state is signed by one key only;  *)
(* a state of another contract therefore fails every check but the empty   *)
(* one's.                                                                  *)
(***************************************************************************)
EXTENDS ReadersProofs

-----------------------------------------------------------------------------
(* merge_state under another key than Owner.                               *)

\* What a merge leaves does not depend on the key.
LEMMA SameResult ==
    ASSUME NEW k, NEW a, NEW b
    PROVE  Of(k)!MergeResult(a, b) = MergeResult(a, b)
BY DEF Of!MergeResult, MergeResult, Of!Destroyed, Destroyed, Of!MarkerState, MarkerState,
       Of!EmptyState, EmptyState, Of!MergedSlots, MergedSlots, Of!Inserted, Inserted,
       Of!Supersedes, Supersedes, Of!KeyNewer, KeyNewer, Of!SlotOrderKey, SlotOrderKey

\* A slot of the result was there before or came in with a signature of the key.
LEMMA SlotFrom ==
    ASSUME NEW k, NEW cur \in IdentityStateV1, NEW inc \in IdentityStateV1, NEW time,
           Of(k)!MergeAccepts(cur, inc, time), NEW n \in Names,
           MergeResult(cur, inc).slots[n] # None
    PROVE  \/ MergeResult(cur, inc).slots[n] = cur.slots[n]
           \/ /\ MergeResult(cur, inc).slots[n] = inc.slots[n]
              /\ inc.slots[n].sig.key = k
<1>1. CASE Destroyed(inc)
  BY <1>1 DEF MergeResult, MarkerState, EmptyState, IdentityStateV1
<1>2. CASE ~ Destroyed(inc) /\ Destroyed(cur)
  BY <1>2 DEF MergeResult
<1>3. CASE ~ Destroyed(inc) /\ ~ Destroyed(cur)
  <2>1. CASE ~ Supersedes(inc.slots[n], cur.slots[n])
    BY <1>3, <2>1, MergedSlot
  <2>2. CASE Supersedes(inc.slots[n], cur.slots[n])
    <3>1. inc.slots[n] # None
      BY <2>2 DEF Supersedes
    <3>2. Of(k)!CheckSlot(inc.slots[n], n)
      BY <1>3, <3>1 DEF Of!MergeAccepts, Of!Destroyed, Destroyed, Of!Held,
                        Of!CheckIncomingSlot
    <3>3. inc.slots[n].sig.key = k
      BY <3>2 DEF Of!CheckSlot, Of!Verify, Of!Sign
    <3> QED
      BY <1>3, <2>2, <3>3, MergedSlot
  <2> QED
    BY <2>1, <2>2
<1> QED
  BY <1>1, <1>2, <1>3

\* So was the marker.
LEMMA MarkerFrom ==
    ASSUME NEW k, NEW cur \in IdentityStateV1, NEW inc \in IdentityStateV1, NEW time,
           Of(k)!MergeAccepts(cur, inc, time), Destroyed(MergeResult(cur, inc))
    PROVE  \/ MergeResult(cur, inc).destroyed = cur.destroyed
           \/ /\ MergeResult(cur, inc).destroyed = inc.destroyed
              /\ inc.destroyed.sig.key = k
<1>1. CASE Destroyed(inc)
  <2>1. inc.destroyed.sig.key = k
    BY <1>1 DEF Of!MergeAccepts, Of!Destroyed, Destroyed, Of!CheckMarker,
                Of!CheckDestroy, Of!Verify, Of!Sign
  <2> QED
    BY <1>1, <2>1 DEF MergeResult, MarkerState, EmptyState, IdentityStateV1
<1>2. CASE ~ Destroyed(inc)
  BY <1>2 DEF MergeResult, IdentityStateV1
<1> QED
  BY <1>1, <1>2

-----------------------------------------------------------------------------
(* The contracts.                                                          *)

\* Everything in the state was signed with the key.
SignedBy(k, st) ==
    /\ \A n \in Names : st.slots[n] # None => st.slots[n].sig.key = k
    /\ Destroyed(st) => st.destroyed.sig.key = k

PublishedInv ==
    /\ published \in [Keys -> SUBSET IdentityStateV1]
    /\ \A k \in Keys : EmptyState \in published[k]
    /\ \A k \in Keys : \A st \in published[k] : SignedBy(k, st)

\* Only a state without content passes for the state of two contracts.
LEMMA TwoKeys ==
    ASSUME NEW k, NEW l, k # l, NEW st \in IdentityStateV1, SignedBy(k, st), SignedBy(l, st)
    PROVE  st = EmptyState
<1>1. st.slots = [n \in Names |-> None] /\ st.destroyed = None
  BY DEF SignedBy, Destroyed, IdentityStateV1
<1> QED
  BY <1>1 DEF EmptyState, IdentityStateV1

\* A merge into the state of a contract keeps it signed by its key.
LEMMA MergeSigned ==
    ASSUME NEW k, NEW cur \in IdentityStateV1, NEW inc \in IdentityStateV1, NEW time,
           Of(k)!MergeAccepts(cur, inc, time), SignedBy(k, cur)
    PROVE  SignedBy(k, MergeResult(cur, inc))
BY SlotFrom, MarkerFrom DEF SignedBy, Destroyed

\* What a node sends of the contracts is made of slots and markers of theirs.
LEMMA UpdatesAre ==
    ASSUME PublishedInv, NEW u \in Updates
    PROVE  /\ u \in IdentityStateV1
           /\ \E k \in Keys : \E st \in published[k] :
                 /\ \A n \in Names : u.slots[n] # None => u.slots[n] = st.slots[n]
                 /\ SignedBy(k, u)
<1>1. CASE u \in UNION {published[k] : k \in Keys}
  BY <1>1 DEF PublishedInv
<1>2. ASSUME NEW k \in Keys, NEW st \in published[k], NEW m \in Held(st),
             u = SlotState(m, st.slots[m])
      PROVE  /\ u \in IdentityStateV1
             /\ \A n \in Names : u.slots[n] # None => u.slots[n] = st.slots[n]
             /\ SignedBy(k, u)
  <2>1. st \in IdentityStateV1 /\ m \in Names /\ SignedBy(k, st) /\ st.slots[m] # None
    BY DEF PublishedInv, Held
  <2>2. /\ u.destroyed = None /\ u.slots = [n \in Names |-> IF n = m THEN st.slots[m] ELSE None]
        /\ u = [slots |-> u.slots, destroyed |-> u.destroyed]
    BY <1>2 DEF SlotState, EmptyState
  <2>3. u \in IdentityStateV1
    BY <2>1, <2>2 DEF IdentityStateV1
  <2> QED
    BY <2>1, <2>2, <2>3 DEF SignedBy, Destroyed
<1> QED
  BY <1>1, <1>2 DEF Updates
\* Publishing adds a state of the right key above the others.
LEMMA PublishKeeps ==
    ASSUME PublishedInv, NEW k \in Keys, NEW update \in IdentityStateV1, Publish(k, update)
    PROVE  PublishedInv' /\ \A l \in Keys : published[l] \subseteq published'[l]
<1>1. PICK st \in published[k] :
         /\ Of(k)!MergeAccepts(st, update, now)
         /\ published' = [published EXCEPT ![k] = @ \cup {Of(k)!MergeResult(st, update)}]
  BY DEF Publish
<1> DEFINE new == MergeResult(st, update)
<1>2. Of(k)!MergeResult(st, update) = new
  BY SameResult
<1>3. st \in IdentityStateV1 /\ SignedBy(k, st)
  BY <1>1 DEF PublishedInv
<1>4. new \in IdentityStateV1 /\ SignedBy(k, new)
  BY <1>1, <1>3, MergeType, MergeSigned
<1> HIDE DEF new
<1>5. published' = [published EXCEPT ![k] = @ \cup {new}]
  BY <1>1, <1>2
<1>6. \A l \in Keys : published'[l] = IF l = k THEN published[k] \cup {new} ELSE published[l]
  BY <1>5 DEF PublishedInv
<1>7. published' \in [Keys -> SUBSET IdentityStateV1]
  BY <1>4, <1>5 DEF PublishedInv
<1> QED
  BY <1>4, <1>6, <1>7 DEF PublishedInv, SignedBy, Destroyed

\* No other step writes to a contract.
LEMMA PublishedNext ==
    ASSUME PublishedInv, [NextReaders]_all
    PROVE  PublishedInv' /\ \A l \in Keys : published[l] \subseteq published'[l]
<1>1. ASSUME NEW k \in Personas, NEW update \in Writings, Publish(k, update)
      PROVE  PublishedInv' /\ \A l \in Keys : published[l] \subseteq published'[l]
  BY <1>1, FlowAssumption, PublishKeeps
<1>2. CASE UNCHANGED published
  BY <1>2 DEF PublishedInv
<1>3. UNCHANGED published \/ \E k \in Personas, update \in Writings : Publish(k, update)
  BY Zenon
     DEF NextReaders, Next, User, Session, World, OpenApp, StartConnect, OpenWhoiam,
         Approve, Deny, ClosePicker, Load, GoHome, SocketOpens, Watchdog, Arrive, Tick,
         Lookup, Client!Next, contracts, vars, all
<1> QED
  BY <1>1, <1>2, <1>3

-----------------------------------------------------------------------------
(* The page.                                                               *)

\* What is shown is shown of the proven key.
PageInv ==
    /\ page \in Page
    /\ page.socket # "off" \/ page.state # None => page.pk \in Personas
    /\ ShownIsPublished

\* A notification merges only what the owner of the proven key signed.
LEMMA ArriveKeeps ==
    ASSUME PublishedInv, PageInv, NEW update \in Updates, Arrive(update)
    PROVE  PageInv' /\ UNCHANGED published
<1> DEFINE pk == page.pk
           st == page'.state
<1>1. /\ pk \in Personas /\ pk \in Keys /\ page \in Page
      /\ page' = [page EXCEPT !.state = ApplyContract(update)]
      /\ UNCHANGED published
  BY FlowAssumption DEF Arrive, PageInv, contracts
<1>2. update \in IdentityStateV1
  BY UpdatesAre
<1>3. Shown \in IdentityStateV1
  BY <1>1, EmptyStateType DEF Shown, Page
<1>4. CASE Of(pk)!MergeAccepts(Shown, update, now)
  <2>1. st = MergeResult(Shown, update) /\ st \in IdentityStateV1
    BY <1>1, <1>2, <1>3, <1>4, SameResult, MergeType DEF ApplyContract, Page
  <2>2. page' \in Page /\ page'.pk = pk
    BY <1>1, <2>1 DEF Page
  <2>3. ASSUME NEW n \in Names, st.slots[n] # None
        PROVE  \E old \in published[pk] : old.slots[n] = st.slots[n]
    <3>1. CASE st.slots[n] = Shown.slots[n]
      BY <2>3, <3>1 DEF Shown, EmptyState, PageInv, ShownIsPublished
    <3>2. CASE st.slots[n] = update.slots[n] /\ update.slots[n].sig.key = pk
      <4>1. PICK k \in Keys : \E old \in published[k] :
               /\ \A m \in Names : update.slots[m] # None => update.slots[m] = old.slots[m]
               /\ SignedBy(k, update)
        BY UpdatesAre
      <4>2. k = pk
        BY <2>3, <3>2, <4>1 DEF SignedBy
      <4> QED
        BY <2>3, <3>2, <4>1, <4>2
    <3> QED
      BY <1>2, <1>3, <1>4, <2>1, <2>3, <3>1, <3>2, SlotFrom
  <2> HIDE DEF st
  <2>4. ShownIsPublished'
    BY <1>1, <2>2, <2>3 DEF ShownIsPublished, st
  <2> QED
    BY <1>1, <2>2, <2>4 DEF PageInv
<1>5. CASE ~ Of(pk)!MergeAccepts(Shown, update, now)
  <2>1. page' = page
    BY <1>1, <1>5 DEF ApplyContract, Page
  <2> QED
    BY <1>1, <2>1 DEF PageInv, ShownIsPublished
<1> QED
  BY <1>4, <1>5

\* The steps that touch the page.
PageSteps ==
    \/ UNCHANGED page
    \/ \E app \in Apps : OpenApp(app)
    \/ \E app \in Apps, url \in callbacks : Load(app, url)
    \/ GoHome \/ SocketOpens \/ Watchdog
    \/ \E update \in Updates : Arrive(update)

LEMMA PageStepsOnly == ASSUME [NextReaders]_all PROVE PageSteps
BY DEF PageSteps, NextReaders, Next, User, Session, World, StartConnect, OpenWhoiam,
       Approve, Deny, ClosePicker, Publish, Tick, Lookup, vars, all

\* Loading takes the persona of a proof; what else happens to the page keeps
\* what it shows.
LEMMA PageKept ==
    ASSUME PageInv, page' \in Page,
           page'.pk = page.pk, page'.state \in {page.state, None},
           page'.socket # "off" => page.socket # "off",
           \A l \in Keys : published[l] \subseteq published'[l]
    PROVE  PageInv'
<1>1. page'.socket # "off" \/ page'.state # None => page'.pk \in Personas
  BY DEF PageInv
<1>2. ShownIsPublished'
  BY FlowAssumption DEF PageInv, ShownIsPublished
<1> QED
  BY <1>1, <1>2 DEF PageInv

\* Every step of the flow, and the fetch, keep the page's invariant.
LEMMA PageNext ==
    ASSUME ConsentInv, PublishedInv, PageInv, [NextReaders]_all
    PROVE  PageInv'
<1>1. \A l \in Keys : published[l] \subseteq published'[l]
  BY PublishedNext
<1>2. CASE UNCHANGED page
  BY <1>1, <1>2, PageKept DEF PageInv
<1>3. ASSUME NEW app \in Apps, OpenApp(app) PROVE PageInv'
  <2>1. page' = [Blank EXCEPT !.at = app] /\ 0 \in 0..MaxTime
    BY <1>3, FlowAssumption DEF OpenApp
  <2>2. page' \in Page /\ page'.state = None /\ page'.socket = "off"
    BY <2>1 DEF Blank, Page
  <2> QED
    BY <2>2 DEF PageInv, ShownIsPublished
<1>4. ASSUME NEW app \in Apps, NEW url \in callbacks, Load(app, url) PROVE PageInv'
  <2>1. url \in Callbacks /\ now \in 0..MaxTime
    BY DEF ConsentInv, FlowTypeOK
  <2>2. url.whoiam = "ok" => url.pk \in Personas
    BY <2>1 DEF Callbacks, OkUrl, DeniedUrl, Approvals
  <2>3. page' \in Page /\ page'.state = None
        /\ (page'.socket # "off" => page'.pk \in Personas)
    <3>1. 0 \in 0..MaxTime
      BY FlowAssumption
    <3>2. CASE url.whoiam = "denied"
      BY <1>4, <3>1, <3>2 DEF Load, Blank, Page
    <3>3. CASE url.whoiam = "ok" /\ VerifyCallback(app, url)
      BY <1>4, <2>1, <2>2, <3>3 DEF Load, Blank, Page
    <3>4. CASE ~ (url.whoiam = "denied") /\ ~ (url.whoiam = "ok" /\ VerifyCallback(app, url))
      BY <1>4, <3>1, <3>4 DEF Load, Blank, Page
    <3> QED
      BY <3>2, <3>3, <3>4
  <2> QED
    BY <2>3 DEF PageInv, ShownIsPublished
<1>5. CASE GoHome
  <2>1. page' \in Page /\ page'.pk = page.pk /\ page'.state = None
        /\ page'.socket = page.socket
    BY <1>5 DEF GoHome, PageInv, Page
  <2> QED
    BY <1>1, <2>1, PageKept
<1>6. CASE SocketOpens
  <2>1. page' \in Page /\ page'.pk = page.pk /\ page'.state = page.state
        /\ page.socket # "off"
    BY <1>6 DEF SocketOpens, PageInv, Page
  <2> QED
    BY <1>1, <2>1, PageKept
<1>7. CASE Watchdog
  <2>1. page' \in Page /\ page'.pk = page.pk /\ page'.state = page.state
        /\ page.socket # "off"
    BY <1>7 DEF Watchdog, PageInv, Page
  <2> QED
    BY <1>1, <2>1, PageKept
<1>8. ASSUME NEW update \in Updates, Arrive(update) PROVE PageInv'
  BY <1>8, ArriveKeeps
<1>9. PageSteps
  BY PageStepsOnly
<1> QED
  BY <1>2, <1>3, <1>4, <1>5, <1>6, <1>7, <1>8, <1>9 DEF PageSteps

-----------------------------------------------------------------------------
(* The page, for ever.                                                     *)

\* A blank page shows nothing.
LEMMA PageInit == InitReaders => PublishedInv /\ PageInv
<1> SUFFICES ASSUME InitReaders PROVE PublishedInv /\ PageInv
  OBVIOUS
<1>1. published = [k \in Keys |-> {EmptyState}] /\ page = Blank
  BY DEF InitReaders, Init
<1>2. \A k : SignedBy(k, EmptyState)
  BY DEF SignedBy, EmptyState, Destroyed
<1>3. Blank \in Page
  BY FlowAssumption DEF Blank, Page
<1> QED
  BY <1>1, <1>2, <1>3, EmptyStateType
  DEF PublishedInv, PageInv, Blank, ShownIsPublished

LEMMA PageInvariant == Spec => [](ConsentInv /\ PublishedInv /\ PageInv)
<1>1. InitReaders => ConsentInv /\ PublishedInv /\ PageInv
  BY ConsentInit, PageInit
<1>2. ConsentInv /\ PublishedInv /\ PageInv /\ [NextReaders]_all
         => (ConsentInv /\ PublishedInv /\ PageInv)'
  BY ConsentStep, PublishedNext, PageNext
<1> QED
  BY <1>1, <1>2, PTL DEF Spec

\* merge_state with the proven key: whatever a node sends under the key, in any
\* order and number, of any contract, the page shows only what the owner of
\* the proven key has published.
THEOREM ShowsPublished == Spec => []ShownIsPublished
<1>1. PageInv => ShownIsPublished
  BY DEF PageInv
<1> QED
  BY <1>1, PageInvariant, PTL

\* apply_contract: late and repeated notifications never take the page back.
THEOREM Climbs == Spec => ShownClimbs
<1> DEFINE Climb == page'.url = page.url /\ page'.boot = page.boot
                    /\ page.state # None /\ page'.state # None
                       => AtLeast(page'.state, page.state)
<1>1. ConsentInv /\ PublishedInv /\ PageInv /\ [NextReaders]_all => [Climb]_vars
  <2> SUFFICES ASSUME ConsentInv, PublishedInv, PageInv, [NextReaders]_all,
                      page.state # None, page'.state # None
               PROVE  AtLeast(page'.state, page.state)
    OBVIOUS
  <2>1. page.state \in IdentityStateV1
    BY DEF PageInv, Page
  <2>2. CASE page'.state = page.state
    BY <2>1, <2>2, AtLeastReflexive
  <2>3. ASSUME NEW update \in Updates, Arrive(update)
        PROVE  AtLeast(page'.state, page.state)
    <3>1. page'.state = ApplyContract(update)
      BY <2>3 DEF Arrive, PageInv, Page
    <3>2. ApplyContract(update) \in {page.state, MergeResult(page.state, update)}
      BY SameResult DEF ApplyContract, Shown
    <3> QED
      BY <2>1, <3>1, <3>2, UpdatesAre, AtLeastReflexive, MergeClimbs
  <2>4. ASSUME NEW app, OpenApp(app) PROVE page'.state = None
    BY <2>4 DEF OpenApp, Blank
  <2>5. ASSUME NEW app, NEW url, Load(app, url) PROVE page'.state = None
    BY <2>5 DEF Load, Blank
  <2>6. CASE GoHome \/ SocketOpens \/ Watchdog
    <3>1. page \in Page
      BY DEF PageInv
    <3>2. page'.state \in {page.state, None}
      BY <2>6, <3>1 DEF GoHome, SocketOpens, Watchdog, Page
    <3> QED
      BY <2>2, <3>2
  <2> QED
    BY <2>2, <2>3, <2>4, <2>5, <2>6, PageStepsOnly DEF PageSteps
<1> QED
  BY <1>1, PageInvariant, PTL DEF Spec, ShownClimbs

-----------------------------------------------------------------------------
(* Validity in the contract of Owner.                                      *)

\* A state weighs the same whoever weighs it.
LEMMA SizeOf == ASSUME NEW k, NEW st PROVE Of(k)!StateSize(st) = StateSize(st)
BY Zenon DEF Of!StateSize, StateSize, Of!Held, Held, Of!MapThenSumSet, MapThenSumSet,
             Of!MapThenFoldSet, MapThenFoldSet

\* For the contract of Owner merge_state is that of IdentityState.
LEMMA OwnerAccepts ==
    ASSUME NEW cur, NEW inc, NEW t
    PROVE  Of(Owner)!MergeAccepts(cur, inc, t) = MergeAccepts(cur, inc, t)
<1>1. Of(Owner)!Held(inc) = Held(inc) /\ Of(Owner)!Inserted(cur, inc) = Inserted(cur, inc)
      /\ Of(Owner)!MergedSlots(cur, inc) = MergedSlots(cur, inc)
  BY DEF Of!Held, Held, Of!MergedSlots, MergedSlots, Of!Inserted, Inserted,
       Of!Supersedes, Supersedes, Of!KeyNewer, KeyNewer, Of!SlotOrderKey, SlotOrderKey
<1>2. \A n, slot : Of(Owner)!CheckIncomingSlot(n, slot, t) = CheckIncomingSlot(n, slot, t)
  BY DEF Of!CheckIncomingSlot, CheckIncomingSlot, Of!TimeAcceptable, TimeAcceptable,
     Of!CheckSlot, CheckSlot, Of!Verify, Verify, Of!Sign, Sign, Of!SlotMessage, SlotMessage
<1>3. \A m : Of(Owner)!CheckMarker(m, t) = CheckMarker(m, t)
  BY DEF Of!CheckMarker, CheckMarker, Of!TimeAcceptable, TimeAcceptable,
     Of!CheckDestroy, CheckDestroy, Of!Verify, Verify, Of!Sign, Sign, Of!DestroyMessage, DestroyMessage
<1> QED
  BY <1>1, <1>2, <1>3, SizeOf, Zenon DEF Of!MergeAccepts, MergeAccepts, Of!Destroyed, Destroyed

\* The toolkit checks with the same validate_full.
LEMMA ClientValid ==
    ASSUME NEW st, NEW t
    PROVE  Client!ValidateFull(st, t) = ValidateFull(st, t)
<1>1. Client!Held(st) = Held(st)
  BY DEF Client!Held, Held
<1>2. \A n, slot : Client!CheckIncomingSlot(n, slot, t) = CheckIncomingSlot(n, slot, t)
  BY DEF Client!CheckIncomingSlot, CheckIncomingSlot, Client!TimeAcceptable, TimeAcceptable,
     Client!CheckSlot, CheckSlot, Client!Verify, Verify, Client!Sign, Sign, Client!SlotMessage, SlotMessage
<1>3. \A m : Client!CheckMarker(m, t) = CheckMarker(m, t)
  BY DEF Client!CheckMarker, CheckMarker, Client!TimeAcceptable, TimeAcceptable,
     Client!CheckDestroy, CheckDestroy, Client!Verify, Verify, Client!Sign, Sign, Client!DestroyMessage, DestroyMessage
<1>4. Client!StateSize(st) = StateSize(st)
  BY Zenon DEF Client!StateSize, StateSize, Client!Held, Held, Client!MapThenSumSet, MapThenSumSet,
             Client!MapThenFoldSet, MapThenFoldSet
<1> QED
  BY <1>1, <1>2, <1>3, <1>4, Zenon DEF Client!ValidateFull, ValidateFull, Client!Destroyed, Destroyed

\* Whatever the contract of Owner went through is valid.
OwnerValid ==
    /\ now \in Nat
    /\ \A st \in published[Owner] : ValidateFull(st, now)

LEMMA OwnerValidNext ==
    ASSUME PublishedInv, OwnerValid, [NextReaders]_all
    PROVE  OwnerValid'
<1>1. Owner \in Keys /\ published[Owner] \subseteq IdentityStateV1
  BY OwnerAssumption DEF PublishedInv
<1>2. ASSUME NEW k \in Personas, NEW update \in Writings, Publish(k, update)
      PROVE  OwnerValid'
  <2>1. PICK st \in published[k] :
           /\ Of(k)!MergeAccepts(st, update, now)
           /\ published' = [published EXCEPT ![k] = @ \cup {Of(k)!MergeResult(st, update)}]
    BY <1>2 DEF Publish
  <2>2. now' = now
    BY <1>2 DEF Publish
  <2>3. CASE k = Owner
    <3>1. ValidateFull(MergeResult(st, update), now)
      BY <1>1, <2>1, <2>3, FlowAssumption, OwnerAccepts, MergeValid DEF OwnerValid
    <3>2. published'[Owner] = published[Owner] \cup {MergeResult(st, update)}
      BY <1>1, <2>1, <2>3, SameResult DEF PublishedInv
    <3> QED
      BY <2>2, <3>1, <3>2 DEF OwnerValid
  <2>4. CASE k # Owner
    <3>1. published'[Owner] = published[Owner]
      BY <1>1, <2>1, <2>4 DEF PublishedInv
    <3> QED
      BY <2>2, <3>1 DEF OwnerValid
  <2> QED
    BY <2>3, <2>4
<1>3. CASE Tick /\ UNCHANGED fetch
  BY <1>1, <1>3, ValidLater DEF Tick, OwnerValid
<1>4. CASE UNCHANGED <<now, published>>
  BY <1>4 DEF OwnerValid
<1>5. \/ UNCHANGED <<now, published>>
      \/ Tick /\ UNCHANGED fetch
      \/ \E k \in Personas, update \in Writings : Publish(k, update)
  BY Zenon
     DEF NextReaders, Next, User, Session, World, OpenApp, StartConnect, OpenWhoiam,
         Approve, Deny, ClosePicker, Load, GoHome, SocketOpens, Watchdog, Arrive,
         Lookup, Client!Next, contracts, vars, all
<1> QED
  BY <1>2, <1>3, <1>4, <1>5

-----------------------------------------------------------------------------
(* The toolkit.                                                            *)

FetchInv ==
    /\ fetch \in Client!Fetch
    /\ ReturnsOnlyPublished
    /\ HonestStateIsRead

Results == {Client!Nothing} \cup Client!Errors
           \cup [kind : {"destroyed"}, since : Nat]
           \cup [kind : {"ok"}, raw : [Names -> (Contents \ {Tombstone}) \cup {None}]]

\* What identity_from_state makes of a state.
LEMMA FromState ==
    ASSUME NEW st \in IdentityStateV1
    PROVE  LET o == Client!IdentityFromState(st)
           IN  /\ o \in Results
               /\ o.kind \in {"destroyed", "malformed", "ok"}
               /\ o.kind = "destroyed" => Destroyed(st)
               /\ o.kind = "ok" => ~ Destroyed(st) /\ \A n \in Names :
                     /\ o.raw[n] \in WellFormed[n] \cup {None}
                     /\ o.raw[n] # None =>
                           st.slots[n] # None /\ st.slots[n].bytes = o.raw[n]
               /\ o.kind = "malformed" => \E n \in Held(st) :
                     st.slots[n].bytes \notin WellFormed[n] \cup {Tombstone}
<1> DEFINE o == Client!IdentityFromState(st)
           raw == Client!RawSlots(st)
<1>1. \A n \in Names :
         /\ raw[n] = IF st.slots[n] # None /\ Size[st.slots[n].bytes] # 0
                     THEN st.slots[n].bytes ELSE None
         /\ st.slots[n] # None => st.slots[n].bytes \in Contents
  BY DEF Client!RawSlots, IdentityStateV1, SignedSlot
<1>2. raw \in [Names -> (Contents \ {Tombstone}) \cup {None}]
  <2>1. \A n \in Names : raw[n] \in (Contents \ {Tombstone}) \cup {None}
    BY <1>1, ReadersAssumption
  <2>2. raw = [n \in Names |-> raw[n]]
    BY DEF Client!RawSlots
  <2> QED
    BY <2>1, <2>2
<1>3. CASE Destroyed(st)
  <2>1. o = [kind |-> "destroyed", since |-> st.destroyed.time]
    BY <1>3 DEF Client!IdentityFromState, Client!Destroyed, Destroyed
  <2>2. st.destroyed.time \in Nat
    BY <1>3 DEF Destroyed, IdentityStateV1, DestroyedMarker
  <2> QED
    BY <1>3, <2>1, <2>2 DEF Results
<1>4. CASE ~ Destroyed(st) /\ Client!Broken(st) # {}
  <2>1. o = Client!Outcome("malformed")
    BY <1>4 DEF Client!IdentityFromState, Client!Destroyed, Destroyed
  <2>2. PICK n \in Names : raw[n] \notin WellFormed[n] \cup {None}
    BY <1>4 DEF Client!Broken
  <2>3. st.slots[n] # None /\ Size[st.slots[n].bytes] # 0
        /\ raw[n] = st.slots[n].bytes
    BY <1>1, <2>2
  <2>4. n \in Held(st) /\ st.slots[n].bytes \notin WellFormed[n] \cup {Tombstone}
    BY <2>2, <2>3, ReadersAssumption DEF Held
  <2> HIDE DEF o
  <2>5. o = [kind |-> "malformed"]
    BY <2>1 DEF Client!Outcome
  <2>6. o \in Client!Errors
    BY <2>1 DEF Client!Errors
  <2> QED
    BY <2>4, <2>5, <2>6 DEF Results, o
<1>5. CASE ~ Destroyed(st) /\ Client!Broken(st) = {}
  <2>1. o = [kind |-> "ok", raw |-> raw]
    BY <1>5 DEF Client!IdentityFromState, Client!Destroyed, Destroyed, Client!Found
  <2>2. \A n \in Names : raw[n] \in WellFormed[n] \cup {None}
    BY <1>5 DEF Client!Broken
  <2>3. \A n \in Names : raw[n] # None => st.slots[n] # None /\ st.slots[n].bytes = raw[n]
    BY <1>1
  <2> HIDE DEF raw
  <2>4. o \in Results
    BY <1>2, <2>1 DEF Results
  <2> QED
    BY <1>5, <2>1, <2>2, <2>3, <2>4
<1> QED
  BY <1>3, <1>4, <1>5

\* A valid state is signed by Owner.
LEMMA ValidSigned ==
    ASSUME NEW st, NEW time, ValidateFull(st, time)
    PROVE  SignedBy(Owner, st)
<1>1. CASE Destroyed(st)
  <2>1. Held(st) = {} /\ st.destroyed.sig = [key |-> Owner,
                                            msg |-> DestroyMessage(Owner, st.destroyed.time)]
    BY <1>1 DEF ValidateFull, CheckMarker, CheckDestroy, Verify, Sign
  <2> QED
    BY <2>1 DEF SignedBy, Held
<1>2. CASE ~ Destroyed(st)
  <2>1. ASSUME NEW n \in Names, st.slots[n] # None PROVE st.slots[n].sig.key = Owner
    <3>1. CheckSlot(st.slots[n], n)
      BY <1>2, <2>1 DEF ValidateFull, CheckIncomingSlot, Held
    <3> QED
      BY <3>1 DEF CheckSlot, Verify, Sign
  <2> QED
    BY <1>2, <2>1 DEF SignedBy
<1> QED
  BY <1>1, <1>2

\* What the answer of the node comes to.
LEMMA OutcomeOf ==
    ASSUME PublishedInv, OwnerValid, NEW payload \in Client!Payloads
    PROVE  LET o == Client!VerifiedOutcome(payload)
           IN  /\ o \in Results
               /\ o.kind = "ok" => \A n \in Names : o.raw[n] # None =>
                     \E st \in published[Owner] :
                        st.slots[n] # None /\ st.slots[n].bytes = o.raw[n]
               /\ o.kind = "destroyed" => \E st \in published[Owner] : Destroyed(st)
               /\ \A st \in published[Owner] : payload = [kind |-> "state", state |-> st] =>
                     \/ o.kind = "destroyed" /\ Destroyed(st)
                     \/ o.kind = "ok" /\ ~ Destroyed(st)
                           /\ \A n \in Names : o.raw[n] \in WellFormed[n] \cup {None}
                     \/ o.kind = "malformed" /\ \E n \in Held(st) :
                           st.slots[n].bytes \notin WellFormed[n] \cup {Tombstone}
<1> DEFINE o == Client!VerifiedOutcome(payload)
<1>0. /\ Owner \in Keys /\ EmptyState \in published[Owner]
      /\ published[Owner] \subseteq IdentityStateV1
  BY OwnerAssumption DEF PublishedInv
<1>1. CASE payload.kind = "empty"
  <2>1. o = Client!IdentityFromState(EmptyState)
    BY <1>1 DEF Client!VerifiedOutcome, Client!EmptyState, EmptyState
  <2>2. EmptyState \in IdentityStateV1
    BY EmptyStateType
  <2>3. \A st : payload # [kind |-> "state", state |-> st]
    BY <1>1
  <2>4. ~ Destroyed(EmptyState) /\ Held(EmptyState) = {}
    BY DEF Destroyed, Held, EmptyState
  <2> HIDE DEF o
  <2> QED
    BY <1>0, <2>1, <2>2, <2>3, <2>4, FromState DEF o
<1>2. CASE payload.kind = "junk"
  <2>1. o = [kind |-> "malformed"]
    BY <1>2 DEF Client!VerifiedOutcome, Client!Outcome
  <2>2. o \in Results
    BY <1>2 DEF Client!VerifiedOutcome, Client!Errors, Results
  <2>3. \A st : payload # [kind |-> "state", state |-> st]
    BY <1>2
  <2> QED
    BY <2>1, <2>2, <2>3
<1>3. ASSUME NEW k \in Keys, NEW st \in published[k],
             payload = [kind |-> "state", state |-> st]
      PROVE  /\ o \in Results
             /\ o.kind = "ok" => \A n \in Names : o.raw[n] # None =>
                   \E old \in published[Owner] :
                      old.slots[n] # None /\ old.slots[n].bytes = o.raw[n]
             /\ o.kind = "destroyed" => \E old \in published[Owner] : Destroyed(old)
             /\ st \in published[Owner] =>
                   \/ o.kind = "destroyed" /\ Destroyed(st)
                   \/ o.kind = "ok" /\ ~ Destroyed(st)
                         /\ \A n \in Names : o.raw[n] \in WellFormed[n] \cup {None}
                   \/ o.kind = "malformed" /\ \E n \in Held(st) :
                         st.slots[n].bytes \notin WellFormed[n] \cup {Tombstone}
  <2>1. st \in IdentityStateV1 /\ SignedBy(k, st)
    BY DEF PublishedInv
  <2>2. o = IF ValidateFull(st, now) THEN Client!IdentityFromState(st)
            ELSE Client!Outcome("bad signature")
    BY <1>3, ClientValid DEF Client!VerifiedOutcome
  <2>3. CASE ~ ValidateFull(st, now)
    <3>1. o = [kind |-> "bad signature"] /\ st \notin published[Owner]
      BY <2>2, <2>3 DEF Client!Outcome, OwnerValid
    <3>2. o \in Results
      BY <2>2, <2>3 DEF Client!Errors, Results
    <3> HIDE DEF o
    <3>3. o.kind = "bad signature"
      BY <3>1
    <3> QED
      BY <3>1, <3>2, <3>3
  <2>4. CASE ValidateFull(st, now)
    <3>1. SignedBy(Owner, st)
      BY <2>4, ValidSigned
    <3>2. st \in published[Owner]
      BY <1>0, <2>1, <3>1, TwoKeys
    <3>3. o = Client!IdentityFromState(st)
      BY <2>2, <2>4
    <3> HIDE DEF o
    <3> QED
      BY <2>1, <3>2, <3>3, FromState
  <2> QED
    BY <2>3, <2>4
<1> HIDE DEF o
<1>4. \/ payload.kind \in {"empty", "junk"}
      \/ \E k \in Keys : \E st \in published[k] : payload = [kind |-> "state", state |-> st]
  BY DEF Client!Payloads
<1>5. CASE \E k \in Keys : \E st \in published[k] : payload = [kind |-> "state", state |-> st]
  <2>0. PICK k \in Keys : \E st \in published[k] : payload = [kind |-> "state", state |-> st]
    BY <1>5
  <2>1. PICK st \in published[k] : payload = [kind |-> "state", state |-> st]
    BY <2>0
  <2>2. \A other : payload = [kind |-> "state", state |-> other] => other = st
    BY <2>1
  <2> QED
    BY <1>3, <2>1, <2>2 DEF o
<1> QED
  BY <1>1, <1>2, <1>4, <1>5

\* Other contracts and later states do not take back what was true.
LEMMA FetchKept ==
    ASSUME PublishedInv, PublishedInv', FetchInv, UNCHANGED fetch,
           \A l \in Keys : published[l] \subseteq published'[l]
    PROVE  FetchInv'
<1>0. Owner \in Keys
  BY OwnerAssumption
<1>1. Client!Payloads \subseteq (Client!Payloads)'
  BY DEF Client!Payloads
<1>2. fetch \in (Client!Fetch)'
  <2>1. fetch.got \in {Client!Nothing} \cup (Client!Payloads)'
    BY <1>1 DEF FetchInv, Client!Fetch
  <2> QED
    BY <1>1, <2>1 DEF FetchInv, Client!Fetch
<1>3. ReturnsOnlyPublished'
  BY <1>0 DEF FetchInv, ReturnsOnlyPublished, Client!ReturnsOnlyPublished,
              Client!Destroyed
<1>4. ASSUME NEW st \in published'[Owner], fetch.got = [kind |-> "state", state |-> st]
      PROVE  st \in published[Owner]
  <2>1. fetch.got \in Client!Payloads
    BY <1>4 DEF FetchInv, Client!Fetch, Client!Nothing
  <2>2. PICK k \in Keys : st \in published[k]
    BY <1>4, <2>1 DEF Client!Payloads
  <2>3. SignedBy(k, st) /\ st \in IdentityStateV1 /\ EmptyState \in published[Owner]
    BY <1>0, <2>2 DEF PublishedInv
  <2>4. (\A n \in Names : st.slots[n] # None => st.slots[n].sig.key = Owner)
        /\ (Destroyed(st) => st.destroyed.sig.key = Owner)
    BY <1>0, <1>4 DEF PublishedInv, SignedBy, Destroyed
  <2> QED
    BY <2>2, <2>3, <2>4, TwoKeys DEF SignedBy
<1>5. HonestStateIsRead'
  BY <1>4 DEF FetchInv, HonestStateIsRead, Client!HonestStateIsRead, Client!Held,
              Client!Destroyed
<1> QED
  BY <1>2, <1>3, <1>5 DEF FetchInv

\* A result of the fetch, whichever it is.
LEMMA FetchReturns ==
    ASSUME FetchInv, NEW o \in Client!Errors, Client!Return(o), UNCHANGED published,
           \A st : fetch.got # [kind |-> "state", state |-> st]
    PROVE  FetchInv'
<1>1. o.kind \in {"not found", "bad signature", "malformed", "transport", "timeout"}
      /\ fetch \in Client!Fetch
  <2>1. PICK k \in {"not found", "bad signature", "malformed", "transport", "timeout"} :
           o = [kind |-> k]
    BY Zenon DEF Client!Errors, Client!Outcome
  <2> QED
    BY <2>1 DEF FetchInv
<1>2. fetch' = [fetch EXCEPT !.phase = "done", !.result = o]
  BY DEF Client!Return
<1>3. fetch' \in Client!Fetch /\ fetch'.result = o /\ fetch'.got = fetch.got
  BY <1>1, <1>2 DEF Client!Fetch
<1>4. fetch' \in (Client!Fetch)'
  BY <1>3 DEF Client!Fetch, Client!Payloads
<1> QED
  BY <1>1, <1>3, <1>4 DEF FetchInv, ReturnsOnlyPublished, Client!ReturnsOnlyPublished,
                          HonestStateIsRead, Client!HonestStateIsRead

\* Nothing came before the fetch is done.
Waiting == fetch.phase # "done" => fetch.got = Client!Nothing /\ fetch.result = Client!Nothing

\* Every step of the fetch, and of the others, keeps the invariant of the fetch.
LEMMA FetchNext ==
    ASSUME PublishedInv, OwnerValid, FetchInv, Waiting, [NextReaders]_all
    PROVE  FetchInv' /\ Waiting'
<1>1. PublishedInv' /\ \A l \in Keys : published[l] \subseteq published'[l]
  BY PublishedNext
<1>2. CASE UNCHANGED fetch
  BY <1>1, <1>2, FetchKept DEF Waiting
<1>3. CASE Client!Next
  <2>1. UNCHANGED published /\ fetch \in Client!Fetch
    BY <1>3 DEF Client!Next, FetchInv
  <2>2. fetch.phase # "done" => \A st : fetch.got # [kind |-> "state", state |-> st]
    BY DEF Waiting, Client!Nothing
  <2>3. CASE Client!Start \/ Client!Ask
    <3>1. /\ fetch'.got = fetch.got /\ fetch'.result = fetch.result
          /\ fetch.phase # "done" /\ fetch' \in Client!Fetch
      BY <2>1, <2>3 DEF Client!Start, Client!Ask, Client!Fetch
    <3>2. fetch' \in (Client!Fetch)'
      BY <2>1, <3>1 DEF Client!Fetch, Client!Payloads
    <3> QED
      BY <2>1, <3>1, <3>2
      DEF Waiting, FetchInv, ReturnsOnlyPublished, Client!ReturnsOnlyPublished,
          HonestStateIsRead, Client!HonestStateIsRead
  <2>4. CASE Client!Fail \/ Client!Timeout
    <3>1. PICK o \in Client!Errors : Client!Return(o) /\ fetch.phase # "done"
      BY <2>4 DEF Client!Fail, Client!Timeout, Client!Errors
    <3>2. Waiting'
      BY <2>1, <3>1 DEF Waiting, Client!Return, Client!Fetch
    <3> QED
      BY <2>1, <2>2, <3>1, <3>2, FetchReturns
  <2>5. ASSUME NEW payload \in Client!Payloads, Client!Receive(payload)
        PROVE  FetchInv' /\ Waiting'
    <3> DEFINE o == Client!VerifiedOutcome(payload)
    <3>1. fetch' = [phase |-> "done", got |-> payload, result |-> o]
      BY <2>5 DEF Client!Receive
    <3>2. o \in Results
      BY OutcomeOf
    <3>3. o.kind = "ok" => \A n \in Names : o.raw[n] # None =>
             \E st \in published[Owner] :
                st.slots[n] # None /\ st.slots[n].bytes = o.raw[n]
      BY OutcomeOf
    <3>4. o.kind = "destroyed" => \E st \in published[Owner] : Destroyed(st)
      BY OutcomeOf
    <3>5. \A st \in published[Owner] : payload = [kind |-> "state", state |-> st] =>
             \/ o.kind = "destroyed" /\ Destroyed(st)
             \/ o.kind = "ok" /\ ~ Destroyed(st)
                   /\ \A n \in Names : o.raw[n] \in WellFormed[n] \cup {None}
             \/ o.kind = "malformed" /\ \E n \in Held(st) :
                   st.slots[n].bytes \notin WellFormed[n] \cup {Tombstone}
      BY OutcomeOf
    <3> HIDE DEF o
    <3>6. fetch' \in (Client!Fetch)'
      BY <2>1, <3>1, <3>2 DEF Client!Fetch, Client!Payloads, Results
    <3>7. ReturnsOnlyPublished'
      BY <2>1, <3>1, <3>3, <3>4
      DEF ReturnsOnlyPublished, Client!ReturnsOnlyPublished, Client!Destroyed, Destroyed
    <3>8. HonestStateIsRead'
      BY <2>1, <3>1, <3>5
      DEF HonestStateIsRead, Client!HonestStateIsRead, Client!Held, Held,
          Client!Destroyed, Destroyed
    <3> QED
      BY <3>1, <3>6, <3>7, <3>8 DEF FetchInv, Waiting
  <2> QED
    BY <1>3, <2>3, <2>4, <2>5 DEF Client!Next
<1> QED
  BY <1>2, <1>3 DEF NextReaders, Lookup, all

\* At first no contract holds anything and no fetch is under way.
LEMMA FetchInit == InitReaders => OwnerValid /\ FetchInv /\ Waiting
<1> SUFFICES ASSUME InitReaders PROVE OwnerValid /\ FetchInv /\ Waiting
  OBVIOUS
<1>1. now = 0 /\ published[Owner] = {EmptyState}
  BY OwnerAssumption DEF InitReaders, Init
<1>2. fetch = [phase |-> "idle", got |-> Client!Nothing, result |-> Client!Nothing]
  BY DEF InitReaders, Client!Init, Client!Idle
<1>3. fetch.got.kind = "nothing" /\ fetch.result.kind = "nothing" /\ fetch \in Client!Fetch
  BY <1>2 DEF Client!Nothing, Client!Fetch
<1> QED
  BY <1>1, <1>2, <1>3, EmptyValid
  DEF OwnerValid, FetchInv, Waiting, ReturnsOnlyPublished, Client!ReturnsOnlyPublished,
      HonestStateIsRead, Client!HonestStateIsRead

LEMMA FetchInvariant == Spec => [](PublishedInv /\ OwnerValid /\ FetchInv /\ Waiting)
<1>1. InitReaders => PublishedInv /\ OwnerValid /\ FetchInv /\ Waiting
  BY PageInit, FetchInit
<1>2. PublishedInv /\ OwnerValid /\ FetchInv /\ Waiting /\ [NextReaders]_all
         => (PublishedInv /\ OwnerValid /\ FetchInv /\ Waiting)'
  BY PublishedNext, OwnerValidNext, FetchNext
<1> QED
  BY <1>1, <1>2, PTL DEF Spec

\* validate_full before identity_from_state: whatever the node answers, the
\* site is told only contents the owner of the key published under that name,
\* and of a destruction only if there was one.
THEOREM FetchReturnsOnlyPublished == Spec => []ReturnsOnlyPublished
<1>1. FetchInv => ReturnsOnlyPublished
  BY DEF FetchInv
<1> QED
  BY <1>1, FetchInvariant, PTL

\* validate_full against merge_state: an honest answer, however late and
\* whoever serves it, is never called a forgery.
THEOREM FetchReadsHonestState == Spec => []HonestStateIsRead
<1>1. FetchInv => HonestStateIsRead
  BY DEF FetchInv
<1> QED
  BY <1>1, FetchInvariant, PTL

\* Every state of the flow, of the contracts and of the fetch is well-typed.
THEOREM FlowTypesCorrect == Spec => []TypesOK
<1>1. ConsentInv /\ PublishedInv /\ PageInv /\ FetchInv => TypesOK
  BY DEF ConsentInv, FlowTypeOK, PublishedInv, PageInv, FetchInv, TypesOK, TypeOK,
         Client!TypeOK
<1> QED
  BY <1>1, PageInvariant, FetchInvariant, PTL
=============================================================================
