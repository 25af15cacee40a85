----------------------------- MODULE PersonaPage -----------------------------
(***************************************************************************)
(* The page of one persona in the web app: Detail in ui/src/views.rs, the  *)
(* publishing half of ui/src/actions.rs and apply_contract_bytes of        *)
(* ui/src/api.rs, over the states of IdentityState.  Owner is the persona. *)
(* The page keeps a form of its own, filled once from the local copy of    *)
(* the state; publishing it replaces the whole profile.  The node is an    *)
(* outside party: it applies requests in any order, answers in any order,  *)
(* and sends states, and parts of states, old ones too.                    *)
(***************************************************************************)
EXTENDS IdentityState, Sequences

CONSTANTS
    Texts,         \* what may stand in a field
    Blank,         \* the empty text
    Trim,          \* Trim[t]: text t without the spaces around it
    Chars,         \* Chars[t]: its number of characters
    MaxNameChars,
    MaxBioChars,
    Typed,         \* Typed[f]: what the user types into field f
    Tombstone,     \* the empty content
    Pictures,      \* contents that hold a picture
    Before,        \* profiles the contract may hold at the start
    Elsewhere,     \* what the owner writes from another device, as states
    Faults,        \* what goes wrong: "refuse" "slow" "early"
    MaxSent,       \* bound on publishes
    MaxStates,     \* bound on the states the contract goes through
    MaxTime        \* bound on the clock

Fields == {"name", "bio"}

ASSUME PageAssumption ==
    /\ Names = {"profile", "avatar"}
    /\ [Fields -> Texts] \cup Pictures \cup {Tombstone} \subseteq Contents
    /\ Size[Tombstone] = 0
    /\ Blank \in Texts /\ Trim \in [Texts -> Texts] /\ Chars \in [Texts -> Nat]
    /\ Typed \in [Fields -> SUBSET Texts]
    /\ Before \subseteq [Fields -> Texts] /\ Elsewhere \subseteq IdentityStateV1
    /\ MaxSent \in Nat /\ MaxTime \in Nat \ {0}

\* str::trim leaves no spaces to trim; None is neither a content nor a state;
\* and a contract holds what validate_full lets in, at the start too.
ASSUME ContentAssumption ==
    /\ \A t \in Texts : Trim[Trim[t]] = Trim[t]
    /\ None \notin Contents \cup IdentityStateV1
    /\ \A p \in Before :
          ValidateFull(SlotState("profile", SignSlot(Owner, "profile", 0, p)), 1)

VARIABLES
    now,       \* the clock
    local,     \* the entry of IDENTITY_STATES, None while it is pending
    page,      \* the signals of Detail
    task,      \* task[f]: the task behind save_busy and pic_busy
    chain,     \* the contract's state as the node holds it
    states,    \* every state the contract went through, chain among them
    wire,      \* requests the node has not handled, by number
    acks,      \* answers on their way to the page, by the request's number
    sent,      \* every publish so far: the slot and its name
    accepted,  \* publishes the contract took
    told       \* publishes the user was told have succeeded

node == <<chain, states, wire, accepted>>
vars == <<now, local, page, task, node, acks, sent, told>>

-----------------------------------------------------------------------------
(* Profiles and pictures (common/src/resources.rs).                        *)

ProfileV1 ==
    {p \in [Fields -> Texts] :
        Chars[p["name"]] <= MaxNameChars /\ Chars[p["bio"]] <= MaxBioChars}

\* Mutation: the limits are left to the browser's inputs.
CheckProfileNot(p) == TRUE

CheckProfile(p) == p \in ProfileV1

\* The profile in state st, None when the slot is missing, removed or is not
\* a profile.
ProfileOf(st) ==
    IF st.slots["profile"] # None /\ st.slots["profile"].bytes \in [Fields -> Texts]
    THEN st.slots["profile"].bytes ELSE None

PictureOf(st) ==
    IF st.slots["avatar"] # None /\ st.slots["avatar"].bytes \in Pictures
    THEN st.slots["avatar"].bytes ELSE None

BlankProfile == [f \in Fields |-> Blank]

\* What the page shows, and compares the form with.
Shown(st) == IF ProfileOf(st) = None THEN BlankProfile ELSE ProfileOf(st)

-----------------------------------------------------------------------------
(* Types.                                                                  *)

BusyFlags == {"save", "pic"}

Idle == [pc |-> "idle", req |-> 0, hit |-> FALSE]

\* hit: an ack of this contract came after the request was sent.
Task == [pc : {"idle", "wait"}, req : 0..MaxSent, hit : BOOLEAN]

Away == [open |-> FALSE, seeded |-> FALSE, form |-> BlankProfile,
         editing |-> FALSE, touched |-> {}]

\* touched: the fields whose text is the user's own.
Page == [open : BOOLEAN, seeded : BOOLEAN, form : [Fields -> Texts],
         editing : BOOLEAN, touched : SUBSET Fields]

Reput == 0

\* beside: what was under way when the request was sent; no step reads it.
TypeOK ==
    /\ now \in 0..MaxTime
    /\ local \in IdentityStateV1 \cup {None}
    /\ page \in Page
    /\ task \in [BusyFlags -> Task]
    /\ chain \in states /\ states \subseteq IdentityStateV1
    /\ sent \in Seq([name : Names, slot : SignedSlot, beside : SUBSET Nat])
    /\ \A i \in DOMAIN sent : sent[i].name = "profile" => sent[i].slot.bytes \in ProfileV1
    /\ wire \cup acks \subseteq {Reput} \cup DOMAIN sent
    /\ accepted \cup told \subseteq DOMAIN sent

\* The session has fetched the persona and put an empty state, which is a
\* no-op to the contract; neither is answered yet.
Init ==
    /\ now = 1
    /\ local = None
    /\ page = Away
    /\ task = [f \in BusyFlags |-> Idle]
    /\ chain \in {EmptyState}
                 \cup {SlotState("profile", SignSlot(Owner, "profile", 0, p)) : p \in Before}
    /\ states = {chain}
    /\ wire = {Reput}
    /\ acks = {} /\ sent = <<>> /\ accepted = {} /\ told = {}

-----------------------------------------------------------------------------
(* The page.                                                               *)

\* Mutation: the form is filled whether the state has arrived or not.
RenderedAtOnce(p, st) ==
    IF p.open /\ ~ p.seeded
    THEN [p EXCEPT !.seeded = TRUE, !.form = IF st = None THEN @ ELSE Shown(st)]
    ELSE p

\* Rendering page p over state st: the form is filled once, when st is there.
Rendered(p, st) ==
    IF p.open /\ ~ p.seeded /\ st # None
    THEN [p EXCEPT !.seeded = TRUE,
                   !.form = IF ProfileOf(st) = None THEN @ ELSE ProfileOf(st)]
    ELSE p

\* The controls are on the page once the state has arrived.
Usable == page.open /\ local # None

Open ==
    /\ ~ page.open
    /\ page' = Rendered([Away EXCEPT !.open = TRUE], local)
    /\ UNCHANGED <<now, local, task, node, acks, sent, told>>

\* The component goes, and its signals and tasks with it.
Leave ==
    /\ page.open
    /\ page' = Away
    /\ task' = [f \in BusyFlags |-> Idle]
    /\ UNCHANGED <<now, local, node, acks, sent, told>>

Change ==
    /\ Usable /\ ~ page.editing
    /\ page' = [page EXCEPT !.editing = TRUE]
    /\ UNCHANGED <<now, local, task, node, acks, sent, told>>

\* The fields stay open while a publish is under way.
Type(f, text) ==
    /\ Usable /\ page.editing
    /\ page' = [page EXCEPT !.form[f] = text, !.touched = @ \cup {f}]
    /\ UNCHANGED <<now, local, task, node, acks, sent, told>>

Cancel ==
    /\ Usable /\ page.editing /\ task["save"] = Idle
    /\ page' = [page EXCEPT !.form = Shown(local), !.editing = FALSE, !.touched = {}]
    /\ UNCHANGED <<now, local, task, node, acks, sent, told>>

\* What save_profile makes of the form.
Trimmed(form) == [f \in Fields |-> Trim[form[f]]]

Dirty == Trimmed(page.form) # Shown(local)

SignedNow(name, bytes) == SignSlot(Owner, name, now, bytes)

\* Requests that may still be answered, and those that are waited for.
Underway ==
    wire \cup acks \cup {task[f].req : f \in {g \in BusyFlags : task[g].pc = "wait"}}

Request(name, bytes) ==
    [name |-> name, slot |-> SignedNow(name, bytes), beside |-> Underway]

\* Mutation: an ack of this contract from before the request counts.
PublishSlotAnyAck(flag, name, bytes) ==
    /\ task[flag] = Idle /\ Len(sent) < MaxSent
    /\ \A i \in DOMAIN sent : sent[i].slot.time < now
    /\ sent' = Append(sent, Request(name, bytes))
    /\ wire' = wire \cup {Len(sent')}
    /\ task' = [task EXCEPT ![flag] = [pc |-> "wait", req |-> Len(sent'),
                                      hit |-> accepted \ acks # {}]]
    /\ UNCHANGED <<now, local, page, chain, states, acks, accepted, told>>

\* publish_slot, up to the wait; without a connection it ends before, and
\* nothing changes.  The user's hand is slower than the clock.
PublishSlot(flag, name, bytes) ==
    /\ task[flag] = Idle /\ Len(sent) < MaxSent
    /\ \A i \in DOMAIN sent : sent[i].slot.time < now
    /\ sent' = Append(sent, Request(name, bytes))
    /\ wire' = wire \cup {Len(sent')}
    /\ task' = [task EXCEPT ![flag] = [pc |-> "wait", req |-> Len(sent'), hit |-> FALSE]]
    /\ UNCHANGED <<now, local, page, chain, states, acks, accepted, told>>

\* A profile over the limits is an error and is not sent.
SaveProfile ==
    /\ Usable /\ page.editing /\ Dirty
    /\ CheckProfile(Trimmed(page.form))
    /\ PublishSlot("save", "profile", Trimmed(page.form))

PublishAvatar(bytes) == Usable /\ PublishSlot("pic", "avatar", bytes)

RemoveAvatar ==
    Usable /\ PictureOf(local) # None /\ PublishSlot("pic", "avatar", Tombstone)

-----------------------------------------------------------------------------
(* A publish ends.                                                         *)

\* An ack, any ack of this contract, or the local copy showing a slot of that
\* name and of that time or later.
Confirmed(flag) ==
    LET r == sent[task[flag].req]
    IN  \/ task[flag].hit
        \/ /\ local # None
           /\ local.slots[r.name] # None
           /\ local.slots[r.name].time >= r.slot.time

\* The slot is mirrored into the local copy.  When that is refused, because a
\* marker came in between, the user is told of an error.
Confirm(flag) ==
    LET r == sent[task[flag].req]
        delta == SlotState(r.name, r.slot)
        current == IF local = None THEN EmptyState ELSE local
        ok == MergeAccepts(current, delta, now)
        p == IF ok /\ flag = "save" THEN [page EXCEPT !.editing = FALSE] ELSE page
    IN  /\ task[flag].pc = "wait" /\ Confirmed(flag)
        /\ local' = MergeState(current, delta, now)
        /\ page' = Rendered(p, local')
        /\ task' = [task EXCEPT ![flag] = Idle]
        /\ told' = IF ok THEN told \cup {task[flag].req} ELSE told
        /\ UNCHANGED <<now, node, acks, sent>>

\* wait_until runs out: when the request has come to rest without an answer,
\* or, when the node is slow, at any time.
GiveUp(flag) ==
    /\ task[flag].pc = "wait"
    /\ "slow" \in Faults \/ (~ Confirmed(flag) /\ task[flag].req \notin wire \cup acks)
    /\ task' = [task EXCEPT ![flag] = Idle]
    /\ UNCHANGED <<now, local, page, node, acks, sent, told>>

-----------------------------------------------------------------------------
(* The node and the owner's other devices.                                 *)

Becomes(st) == chain' = st /\ states' = states \cup {st}

Serve(i) ==
    LET update == IF i = Reput THEN EmptyState ELSE SlotState(sent[i].name, sent[i].slot)
    IN  /\ wire' = wire \ {i}
        /\ \/ /\ MergeAccepts(chain, update, now)
              /\ Becomes(MergeResult(chain, update))
              /\ accepted' = accepted \cup ({i} \ {Reput})
              /\ acks' = acks \cup {i}
           \/ /\ ~ MergeAccepts(chain, update, now) \/ "refuse" \in Faults
              /\ UNCHANGED <<chain, states, accepted, acks>>
        /\ UNCHANGED <<now, local, page, task, sent, told>>

WriteElsewhere(update) ==
    /\ Cardinality(states) < MaxStates
    /\ update \in Elsewhere /\ MergeAccepts(chain, update, now)
    /\ Becomes(MergeResult(chain, update))
    /\ UNCHANGED <<now, local, page, task, wire, accepted, acks, sent, told>>

Tick ==
    /\ now < MaxTime
    /\ now' = now + 1
    /\ UNCHANGED <<local, page, task, node, acks, sent, told>>

\* bump_contract_ack: every task that waits sees it.
Ack(i) ==
    /\ acks' = acks \ {i}
    /\ task' = [f \in BusyFlags |-> IF task[f].pc = "wait"
                                    THEN [task[f] EXCEPT !.hit = TRUE] ELSE task[f]]
    /\ UNCHANGED <<now, local, page, node, sent, told>>

\* One slot of a state the contract went through, or its marker, by itself.
Deltas ==
    (UNION {{SlotState(n, st.slots[n]) : n \in Held(st)} : st \in states})
    \cup {st \in states : Destroyed(st)}

\* What the node sends apart from answers: states and, with "early" even before
\* the first state, parts of states.
Notified == states \cup (IF local # None \/ "early" \in Faults THEN Deltas ELSE {})

\* apply_contract_bytes: a pending entry is there from now on, whatever came.
Arrive(update) ==
    /\ local' = MergeState(IF local = None THEN EmptyState ELSE local, update, now)
    /\ page' = Rendered(page, local')
    /\ <<local', page'>> # <<local, page>>
    /\ UNCHANGED <<now, task, node, acks, sent, told>>

-----------------------------------------------------------------------------

User ==
    \/ Open
    \/ Leave
    \/ Change
    \/ \E f \in Fields : \E text \in Typed[f] : Type(f, text)
    \/ Cancel
    \/ SaveProfile
    \/ \E bytes \in Pictures : PublishAvatar(bytes)
    \/ RemoveAvatar

Next ==
    \/ User
    \/ \E f \in BusyFlags : Confirm(f) \/ GiveUp(f)
    \/ \E i \in wire : Serve(i)
    \/ \E i \in acks : Ack(i)
    \/ \E update \in Elsewhere : WriteElsewhere(update)
    \/ \E st \in Notified : Arrive(st)
    \/ Tick

Spec == Init /\ [][Next]_vars

\* The node handles what it was sent, taking or refusing it.  Nothing is assumed
\* of the user, of the notices or of the clock.
FairSpec == Spec /\ \A i \in 0..MaxSent : WF_vars(i \in wire /\ Serve(i))

-----------------------------------------------------------------------------
(* Properties.                                                             *)

\* Seeding the form only from a state that has arrived: a field the user did
\* not type into is published as the contract held it at some time since the
\* session began, or as this page published it before, never as the blank of a
\* fetch that is still under way.  It may be older than what the contract holds
\* by then.
UntouchedWasPublished ==
    [][\A i \in DOMAIN sent' \ DOMAIN sent : sent'[i].name = "profile" =>
          \A f \in Fields \ page.touched :
             \/ \E st \in states : sent'[i].slot.bytes[f] = Trim[Shown(st)[f]]
             \/ \E j \in DOMAIN sent :
                   /\ sent[j].name = "profile"
                   /\ sent'[i].slot.bytes[f] = sent[j].slot.bytes[f]]_vars

\* What the code does not promise: that such a field is published as the page
\* shows it.  The form is filled once, when the page opens, and "change" does
\* not fill it again, so a profile that came from another device since is
\* written over with the text from before.
UntouchedIsShown ==
    [][\A i \in DOMAIN sent' \ DOMAIN sent : sent'[i].name = "profile" =>
          \A f \in Fields \ page.touched :
             sent'[i].slot.bytes[f] = Trim[Shown(local)[f]]]_vars

\* What the comment of publish_slot says and the code does not keep: that a
\* publish the user was told of was accepted, so that the contract comes to hold
\* it, or something newer, or the persona ends.  An ack is not tied to a request,
\* and that of the boot re-PUT confirms a publish the node refuses.
PublishedTakesEffect ==
    \A i \in 1..MaxSent :
       i \in told ~>
          \/ Destroyed(chain)
          \/ /\ i \in told /\ chain.slots[sent[i].name] # None
             /\ ~ KeyNewer(SlotOrderKey(sent[i].slot),
                           SlotOrderKey(chain.slots[sent[i].name]))

\* Nothing else was under way while request i was.
Alone(i) == sent[i].beside = {} /\ \A j \in DOMAIN sent : i \notin sent[j].beside

\* publish_slot and wait_until where the acks are not mixed up: a publish with
\* no other request of this contract under way, neither before it nor after, is
\* told only if the contract took it, or has held one as late.  A refused or
\* lost one is never told, whatever was answered before it and whatever the
\* local copy holds.
PublishedWasTaken ==
    \A i \in told : Alone(i) =>
       \E st \in states : /\ st.slots[sent[i].name] # None
                          /\ st.slots[sent[i].name].time >= sent[i].slot.time

\* A publish that was given up, or overtaken, and reaches the contract late
\* does not undo a later one: once both were taken the earlier one is not what
\* the contract holds.
LastWordWins ==
    \A i, j \in accepted :
       i < j /\ sent[i].name = sent[j].name =>
          chain.slots[sent[i].name] # sent[i].slot
=============================================================================
