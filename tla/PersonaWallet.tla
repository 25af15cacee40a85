--------------------------- MODULE PersonaWallet ---------------------------
(***************************************************************************)
(* The web app of ui/src: sessions (tabs) that keep a master seed and the  *)
(* list of personas in the key-store delegate of the local node, and one   *)
(* contract per persona on the network.  Every action of the user is a     *)
(* task that sends a request, waits for a sign that it took effect, and    *)
(* goes on.  The protocol has no request ids: the sign is any later answer *)
(* for the same key or contract, or an echo of the contract's state.       *)
(* Requests carry an id here only to tell when one has come to rest, and   *)
(* whether a state shows the very slot that was published.                 *)
(***************************************************************************)
EXTENDS Integers, FiniteSets, FiniteSetsExt, SequencesExt

CONSTANTS
    Tabs,         \* the sessions over one node
    Seeds,        \* master seeds
    Backup,       \* the seed the user can restore
    Installed,    \* the seed the delegate holds at the start, or Absent
    MaxIndex,     \* bound on the indices of personas
    MaxSent,      \* once so many requests are sent the user starts nothing more
    ProbeLimit,   \* restore looks at the indices below it
    KeepsTasks,   \* whether a task outlives the screen that started it
    Deeds,        \* what users do: "start" "restore" "create" "publish" "destroy"
    Faults,       \* what goes wrong: "refuse" "fail" "corrupt" "cut" "slow" "reload"
    Unknown,      \* not answered yet
    Absent,       \* answered: nothing stored
    Corrupt       \* answered: something that cannot be decoded

Indices == 0..MaxIndex

\* The key of a persona is derived from a seed and an index.
Pks == Seeds \X Indices

\* Which indices are listed, and the watermark.  Labels are left out.
IdentityMeta == [ids : SUBSET Indices, next : 0..MaxIndex + 1]
DefaultMeta == [ids |-> {}, next |-> 0]

ASSUME WalletAssumption ==
    /\ IsFiniteSet(Tabs) /\ Absent \notin Tabs
    /\ Backup \in Seeds /\ Installed \in Seeds \cup {Absent}
    /\ MaxIndex \in Nat /\ MaxSent \in Nat /\ ProbeLimit \in 0..MaxIndex + 1
    /\ KeepsTasks \in BOOLEAN
    /\ {Unknown, Absent, Corrupt} \cap (Seeds \cup IdentityMeta) = {}
    /\ Unknown # Absent /\ Unknown # Corrupt /\ Absent # Corrupt
    /\ Unknown \notin {"live", "dead"}

VARIABLES
    store,     \* the delegate's secrets: seed and meta
    chain,     \* chain[pk]: the contract of pk: "absent", "live" or "dead"
    tab,       \* tab[t]: the signals of session t
    task,      \* task[t][f]: the task behind busy flag f of session t
    kvq,       \* kvq[t]: requests of t the delegate has not read, in order
    wire,      \* contract requests the node has not answered
    answers,   \* answers on their way to a session
    sent,      \* number of requests sent by tasks
    accepted   \* ids of the requests that took effect

history == <<sent, accepted>>
vars == <<store, chain, tab, task, kvq, wire, answers, history>>

-----------------------------------------------------------------------------
(* Types.                                                                  *)

\* A task sends two requests at most.
Ids == 1..2 * MaxSent

BusyFlags == {"onboard", "home", "save", "pic", "destroy"}

NoPk == <<Absent, 0>>

IdleTask ==
    [pc |-> "idle", pk |-> NoPk, req |-> 0, hit |-> FALSE, meta |-> DefaultMeta]

Home == <<"home">>
BackupView == <<"backup">>
Detail(index) == <<"detail", index>>

\* hit: an answer that moves the task's ack counter came after it began.
Task ==
    [pc : {"idle", "seed", "restoreSeed", "probe", "put", "slot", "marker", "meta"},
     pk : Pks \cup {NoPk}, req : {0} \cup Ids, hit : BOOLEAN, meta : IdentityMeta]

NewTab ==
    [seed |-> Unknown, meta |-> DefaultMeta, metaLoaded |-> FALSE,
     unreachable |-> FALSE, empties |-> 0, fetched |-> FALSE,
     states |-> [pk \in Pks |-> Unknown], tracked |-> {}, view |-> Home]

Tab ==
    [seed : Seeds \cup {Unknown, Absent}, meta : IdentityMeta,
     metaLoaded : BOOLEAN, unreachable : BOOLEAN, empties : 0..2,
     fetched : BOOLEAN,
     states : [Pks -> {Unknown, "live", "dead"}], tracked : SUBSET Pks,
     view : {Home, BackupView} \cup {Detail(i) : i \in Indices}]

\* What App sends at boot: register the delegate, get the seed, get the meta.
BootRequests == <<[op |-> "register"], [op |-> "get", key |-> "seed"],
                  [op |-> "get", key |-> "meta"]>>

Store(key, value, id) == [op |-> "store", key |-> key, value |-> value, id |-> id]

KvRequest ==
    Range(BootRequests)
    \cup {Store("seed", s, id) : s \in Seeds, id \in Ids}
    \cup {Store("meta", m, id) : m \in IdentityMeta, id \in Ids}

\* id 0 is a re-PUT by fetch_all_identities; a closed session gets no answer.
ContractRequest ==
    [tab : Tabs \cup {Absent}, op : {"put", "slot", "marker"},
     pk : Pks, id : {0} \cup Ids]

Answer ==
    [tab : Tabs, kind : {"ack"}, pk : Pks, id : {0} \cup Ids]
    \cup [tab : Tabs, kind : {"stored"}, key : {"seed", "meta"}, id : Ids]
    \cup [tab : Tabs, kind : {"seed"}, value : Seeds \cup {Absent, Corrupt}]
    \cup [tab : Tabs, kind : {"meta"}, value : IdentityMeta \cup {Absent, Corrupt}]
    \cup [tab : Tabs, kind : {"empty"}, to : KvRequest]

TypeOK ==
    /\ store \in [seed : Seeds \cup {Absent}, meta : IdentityMeta \cup {Absent}]
    /\ chain \in [Pks -> {"absent", "live", "dead"}]
    /\ tab \in [Tabs -> Tab]
    /\ task \in [Tabs -> [BusyFlags -> Task]]
    /\ kvq \in [Tabs -> Seq(KvRequest)]
    /\ wire \subseteq ContractRequest
    /\ answers \subseteq Answer
    /\ sent \in {0} \cup Ids
    /\ accepted \subseteq {0} \cup Ids

\* The metas a wallet comes to rest in, with room left for one persona, and
\* the contract each index then has.
RestMetas ==
    {m \in IdentityMeta : m.next <= MaxIndex /\ \A i \in m.ids : i < m.next}

RestState(m, i) ==
    IF i \in m.ids THEN "live" ELSE IF i < m.next THEN "dead" ELSE "absent"

\* The delegate holds nothing, or a wallet in use.  Personas of the backup
\* seed may exist, made on another device.
Init ==
    /\ store \in IF Installed = Absent
                 THEN {[seed |-> Absent, meta |-> Absent]}
                 ELSE [seed : {Installed}, meta : RestMetas]
    /\ chain \in {c \in [Pks -> {"absent", "live", "dead"}] :
          \A pk \in Pks :
             CASE pk[1] = Installed -> c[pk] = RestState(store.meta, pk[2])
               [] pk[1] = Backup /\ pk[1] # Installed /\ pk[2] < ProbeLimit -> TRUE
               [] OTHER -> c[pk] = "absent"}
    /\ tab = [t \in Tabs |-> NewTab]
    /\ task = [t \in Tabs |-> [f \in BusyFlags |-> IdleTask]]
    /\ kvq = [t \in Tabs |-> BootRequests]
    /\ wire = {}
    /\ answers = {}
    /\ sent = 0
    /\ accepted = {}

-----------------------------------------------------------------------------
(* What a session w shows, and the component each task belongs to.         *)

BootComplete(w) == w.seed \in Seeds /\ w.metaLoaded

Screen(w) ==
    IF w.unreachable /\ ~ BootComplete(w) THEN <<"unreachable">>
    ELSE IF w.seed = Absent THEN <<"onboarding">>
    ELSE IF BootComplete(w) THEN w.view
    ELSE <<"loading">>

KeyOf(w, index) == <<w.seed, index>>

\* Detail shows its controls once the state of its persona has arrived.
ShowsDetail(w, index) ==
    Screen(w) = Detail(index) /\ w.states[KeyOf(w, index)] # Unknown

Mounted(w, flag, k) ==
    CASE flag = "onboard" -> Screen(w) = <<"onboarding">>
      [] flag = "home"    -> Screen(w) = Home
      [] OTHER            -> Screen(w) = Detail(k.pk[2])

\* Session t comes to w, its tasks to ks; tasks end with their component.
Become(t, w, ks) ==
    /\ tab' = [tab EXCEPT ![t] = w]
    /\ task' = [task EXCEPT ![t] =
                  [f \in BusyFlags |->
                     IF KeepsTasks \/ Mounted(w, f, ks[f])
                     THEN ks[f] ELSE IdleTask]]

\* Mutation: the watermark is not read.
AllocIndexAboveListed(meta) == Max({0} \cup {i + 1 : i \in meta.ids})

\* Next index to create under: the watermark, or above all that is listed.
AllocIndex(meta) == Max({meta.next} \cup {i + 1 : i \in meta.ids})

-----------------------------------------------------------------------------
(* Sending.  A task that sends waits for its answer.                       *)

Waiting(pc, pk, meta) ==
    [pc |-> pc, pk |-> pk, req |-> sent + 1, hit |-> FALSE, meta |-> meta]

Free(t, flag) == task[t][flag].pc = "idle" /\ sent < MaxSent

SendKv(t, key, value) ==
    /\ sent' = sent + 1
    /\ kvq' = [kvq EXCEPT ![t] = Append(@, Store(key, value, sent + 1))]
    /\ UNCHANGED wire

SendContract(t, op, pk) ==
    /\ sent' = sent + 1
    /\ wire' = wire \cup {[tab |-> t, op |-> op, pk |-> pk, id |-> sent + 1]}
    /\ UNCHANGED kvq

\* store_meta: send the meta and wait; without a connection the task ends.
StoreMeta(t, flag, w, pk, meta) ==
    \/ /\ SendKv(t, "meta", meta)
       /\ Become(t, w, [task[t] EXCEPT ![flag] = Waiting("meta", pk, meta)])
    \/ /\ "cut" \in Faults
       /\ Become(t, w, [task[t] EXCEPT ![flag] = IdleTask])
       /\ UNCHANGED <<sent, kvq, wire>>

-----------------------------------------------------------------------------
(* What the user does.                                                     *)

\* Seeds in use somewhere; a random one is none of them.
Drawn ==
    {store.seed, Backup}
    \cup {tab[t].seed : t \in Tabs}
    \cup {task[t]["onboard"].pk[1] : t \in Tabs}
    \cup {r.value : r \in {q \in UNION {Range(kvq[t]) : t \in Tabs} :
                             q.op = "store" /\ q.key = "seed"}}

\* create_seed and restore_seed, up to the wait for the seed's Stored ack.
StoreSeed(t, pc, seed) ==
    /\ Screen(tab[t]) = <<"onboarding">>
    /\ Free(t, "onboard")
    /\ SendKv(t, "seed", seed)
    /\ Become(t, tab[t], [task[t] EXCEPT !["onboard"] =
                            Waiting(pc, <<seed, 0>>, DefaultMeta)])
    /\ UNCHANGED <<store, chain, answers, accepted>>

GetStarted(t) ==
    "start" \in Deeds /\ \E s \in Seeds \ Drawn : StoreSeed(t, "seed", s)

Restore(t) == "restore" \in Deeds /\ StoreSeed(t, "restoreSeed", Backup)

\* create_identity, up to the wait for the PutResponse.
Create(t) ==
    /\ "create" \in Deeds
    /\ Screen(tab[t]) = Home
    /\ Free(t, "home")
    /\ LET index == AllocIndex(tab[t].meta)
           pk    == KeyOf(tab[t], index)
       IN  /\ index \in Indices
           /\ SendContract(t, "put", pk)
           /\ Become(t, [tab[t] EXCEPT !.tracked = @ \cup {pk}],
                     [task[t] EXCEPT !["home"] =
                        Waiting("put", pk, tab[t].meta)])
    /\ UNCHANGED <<store, chain, answers, accepted>>

\* publish_slot and destroy_identity, up to the wait for a confirmation.
Push(t, flag, pc, index) ==
    /\ ShowsDetail(tab[t], index)
    /\ Free(t, flag)
    /\ LET pk == KeyOf(tab[t], index)
       IN  /\ SendContract(t, pc, pk)
           /\ Become(t, [tab[t] EXCEPT !.tracked = @ \cup {pk}],
                     [task[t] EXCEPT ![flag] = Waiting(pc, pk, DefaultMeta)])
    /\ UNCHANGED <<store, chain, answers, accepted>>

\* save_profile has a busy flag of its own; publish_avatar and remove_avatar
\* share one.
Publish(t, flag, index) ==
    "publish" \in Deeds /\ flag \in {"save", "pic"} /\ Push(t, flag, "slot", index)

Destroy(t, index) ==
    "destroy" \in Deeds /\ Push(t, "destroy", "marker", index)

\* The header and the footer, with their buttons, are on every screen.
Look(t, view) ==
    /\ tab[t].view # view
    /\ Become(t, [tab[t] EXCEPT !.view = view], task[t])
    /\ UNCHANGED <<store, chain, kvq, wire, answers, history>>

OpenDetail(t, index) ==
    Screen(tab[t]) = Home /\ index \in tab[t].meta.ids /\ Look(t, Detail(index))

OpenBackup(t) == Look(t, BackupView)

Back(t) == Look(t, Home)

-----------------------------------------------------------------------------
(* A task goes on once it sees its sign.                                   *)

\* Mutation: SEED_LOADED flips when the request is sent.
ConfirmSeedAtOnce(t) ==
    LET k == task[t]["onboard"]
        w == [tab[t] EXCEPT !.seed = k.pk[1], !.fetched = FALSE]
    IN  /\ k.pc = "seed"
        /\ StoreMeta(t, "onboard", w, k.pk, DefaultMeta)
        /\ UNCHANGED <<store, chain, answers, accepted>>

\* The seed's Stored ack.  After a restore the probes go out; all of them
\* failing to be sent is an error, and no meta is stored.
ConfirmSeed(t) ==
    LET k == task[t]["onboard"]
        w == [tab[t] EXCEPT !.seed = k.pk[1], !.fetched = FALSE]
        probes == {<<Backup, i>> : i \in 0..ProbeLimit - 1}
    IN  /\ k.hit
        /\ \/ /\ k.pc = "seed"
              /\ StoreMeta(t, "onboard", w, k.pk, DefaultMeta)
           \/ /\ k.pc = "restoreSeed"
              /\ \/ Become(t, [w EXCEPT !.tracked = @ \cup probes],
                           [task[t] EXCEPT !["onboard"].pc = "probe"])
                 \/ "cut" \in Faults
                    /\ Become(t, [w EXCEPT !.tracked = @ \cup probes],
                              [task[t] EXCEPT !["onboard"] = IdleTask])
              /\ UNCHANGED <<sent, kvq, wire>>
        /\ UNCHANGED <<store, chain, answers, accepted>>

\* Mutation: the watermark is pushed one too far.
EndProbeTooFar(t) ==
    LET k == task[t]["onboard"]
        State(i) == tab[t].states[<<k.pk[1], i>>]
        found == {i \in 0..ProbeLimit - 1 : State(i) # Unknown}
        meta == [ids  |-> {i \in found : State(i) = "live"},
                 next |-> Max({0} \cup {i + 2 : i \in found})]
    IN  /\ k.pc = "probe"
        /\ StoreMeta(t, "onboard", tab[t], k.pk, meta)
        /\ UNCHANGED <<store, chain, answers, accepted>>

\* Eight seconds later: what arrived is what is found.
EndProbe(t) ==
    LET k == task[t]["onboard"]
        State(i) == tab[t].states[<<k.pk[1], i>>]
        found == {i \in 0..ProbeLimit - 1 : State(i) # Unknown}
        meta == [ids  |-> {i \in found : State(i) = "live"},
                 next |-> Max({0} \cup {i + 1 : i \in found})]
    IN  /\ k.pc = "probe"
        /\ StoreMeta(t, "onboard", tab[t], k.pk, meta)
        /\ UNCHANGED <<store, chain, answers, accepted>>

\* Mutation: the persona is listed without waiting for the PutResponse.
ConfirmPutAtOnce(t) ==
    LET k == task[t]["home"]
        index == k.pk[2]
    IN  /\ k.pc = "put"
        /\ StoreMeta(t, "home", [tab[t] EXCEPT !.states[k.pk] = "live"], k.pk,
                     [ids |-> k.meta.ids \cup {index}, next |-> index + 1])
        /\ UNCHANGED <<store, chain, answers, accepted>>

\* Mutation: META is written before the delegate has the new list.
ConfirmPutShownFirst(t) ==
    LET k == task[t]["home"]
        index == k.pk[2]
        meta == [ids |-> k.meta.ids \cup {index}, next |-> index + 1]
        w == [tab[t] EXCEPT !.states[k.pk] = "live", !.meta = meta]
    IN  /\ k.pc = "put" /\ k.hit
        /\ StoreMeta(t, "home", w, k.pk, meta)
        /\ UNCHANGED <<store, chain, answers, accepted>>

\* The PutResponse: the new persona is taken to be empty and is listed.
ConfirmPut(t) ==
    LET k == task[t]["home"]
        index == k.pk[2]
    IN  /\ k.pc = "put" /\ k.hit
        /\ StoreMeta(t, "home", [tab[t] EXCEPT !.states[k.pk] = "live"], k.pk,
                     [ids |-> k.meta.ids \cup {index}, next |-> index + 1])
        /\ UNCHANGED <<store, chain, answers, accepted>>

\* Mutation: the slot is put into a local state without merging.
ConfirmSlotUnmerged(t, flag) ==
    LET k == task[t][flag]
    IN  /\ k.pc = "slot" /\ k.hit
        /\ Become(t, [tab[t] EXCEPT !.states[k.pk] = "live"],
                  [task[t] EXCEPT ![flag] = IdleTask])
        /\ UNCHANGED <<store, chain, kvq, wire, answers, history>>

\* The slot is merged locally; a destroyed state does not take it.
ConfirmSlot(t, flag) ==
    LET k == task[t][flag]
        dead == tab[t].states[k.pk] = "dead"
    IN  /\ k.pc = "slot" /\ k.hit
        /\ Become(t, [tab[t] EXCEPT !.states[k.pk] = IF dead THEN @ ELSE "live"],
                  [task[t] EXCEPT ![flag] = IdleTask])
        /\ UNCHANGED <<store, chain, kvq, wire, answers, history>>

\* An ack, or a marker in the local state.  META is read only now.
ConfirmMarker(t) ==
    LET k == task[t]["destroy"]
    IN  /\ k.pc = "marker" /\ (k.hit \/ tab[t].states[k.pk] = "dead")
        /\ StoreMeta(t, "destroy", tab[t], k.pk,
                     [tab[t].meta EXCEPT !.ids = @ \ {k.pk[2]}])
        /\ UNCHANGED <<store, chain, answers, accepted>>

\* store_meta returns: META is written, and the action that called it ends.
ConfirmMeta(t, flag) ==
    LET k == task[t][flag]
        w == [tab[t] EXCEPT !.meta = k.meta]
    IN  /\ k.pc = "meta" /\ k.hit
        /\ Become(t,
             CASE flag = "onboard" -> w
               [] flag = "home"    -> [w EXCEPT !.view = Detail(k.pk[2])]
               [] flag = "destroy" -> [w EXCEPT !.states[k.pk] = Unknown,
                                                !.view = Home],
             [task[t] EXCEPT ![flag] = IdleTask])
        /\ UNCHANGED <<store, chain, kvq, wire, answers, history>>

\* The request was read and answered, or will never be.
Settled(t, req) ==
    /\ \A r \in Range(kvq[t]) : r.op = "store" => r.id # req
    /\ \A r \in wire : r.id # req
    /\ \A a \in answers : a.kind \in {"ack", "stored"} => a.id # req

\* Mutation: only a wait for a contract runs out of time.
GiveUpContract(t, flag) ==
    LET k == task[t][flag]
    IN  /\ k.pc \in {"put", "slot", "marker"}
        /\ "slow" \in Faults \/ (~ k.hit /\ Settled(t, k.req))
        /\ Become(t, tab[t], [task[t] EXCEPT ![flag] = IdleTask])
        /\ UNCHANGED <<store, chain, kvq, wire, answers, history>>

\* wait_until runs out of time: at the earliest when there is nothing left
\* to wait for, unless answers may be slow.  It does not look once more.
GiveUp(t, flag) ==
    LET k == task[t][flag]
    IN  /\ k.pc \notin {"idle", "probe"}
        /\ "slow" \in Faults \/ (~ k.hit /\ Settled(t, k.req))
        /\ Become(t, tab[t], [task[t] EXCEPT ![flag] = IdleTask])
        /\ UNCHANGED <<store, chain, kvq, wire, answers, history>>

-----------------------------------------------------------------------------
(* The session itself.                                                     *)

\* fetch_all_identities: once seed and meta are in, re-PUT every persona
\* listed and ask for its state.
FetchAll(t) ==
    LET w == tab[t]
        pks == {KeyOf(w, i) : i \in w.meta.ids}
    IN  /\ BootComplete(w) /\ ~ w.fetched
        /\ Become(t, [w EXCEPT !.fetched = TRUE, !.tracked = @ \cup pks], task[t])
        /\ wire' = wire \cup [tab : {t}, op : {"put"}, pk : pks, id : {0}]
        /\ UNCHANGED <<store, chain, kvq, answers, history>>

\* Mutation: the watchdog looks for the seed only.
WatchdogSeedOnly(t) ==
    /\ tab[t].seed = Unknown
    /\ Become(t, [tab[t] EXCEPT !.unreachable = TRUE], task[t])
    /\ UNCHANGED <<store, chain, kvq, wire, answers, history>>

\* The boot watchdog, set off once: the seed OR the meta answer is not here.
\* When both are it changes nothing, and they stay.
Watchdog(t) ==
    /\ tab[t].seed = Unknown \/ ~ tab[t].metaLoaded
    /\ Become(t, [tab[t] EXCEPT !.unreachable = TRUE], task[t])
    /\ UNCHANGED <<store, chain, kvq, wire, answers, history>>

\* The page is loaded again, by the user or after the connection was lost.
\* The delegate has read some of the requests it was sent; the node keeps
\* the contract requests, and answers to the old session go nowhere.
Reload(t) ==
    /\ "reload" \in Faults
    /\ \E n \in 0..Len(kvq[t]) :
          LET read == {r \in Range(SubSeq(kvq[t], 1, n)) : r.op = "store"}
              Newest(key) == CHOOSE r \in read :
                 r.key = key /\ \A q \in read : q.key = key => q.id <= r.id
              Kept(key) == IF \E r \in read : r.key = key
                           THEN Newest(key).value ELSE store[key]
          IN  /\ store' = [seed |-> Kept("seed"), meta |-> Kept("meta")]
              /\ accepted' = accepted \cup {r.id : r \in read}
    /\ tab' = [tab EXCEPT ![t] = NewTab]
    /\ task' = [task EXCEPT ![t] = [f \in BusyFlags |-> IdleTask]]
    /\ kvq' = [kvq EXCEPT ![t] = BootRequests]
    /\ wire' = {IF r.tab = t THEN [r EXCEPT !.tab = Absent] ELSE r : r \in wire}
    /\ answers' = {a \in answers : a.tab # t}
    /\ UNCHANGED <<chain, sent>>

-----------------------------------------------------------------------------
(* The node: the delegate reads a session's requests in order, contracts   *)
(* take theirs in any order, and answers overtake each other.              *)

AnswerTo(t, r) ==
    CASE r.op = "register" -> [tab |-> t, kind |-> "empty", to |-> r]
      [] r.op = "get"      -> [tab |-> t, kind |-> r.key, value |-> store[r.key]]
      [] r.op = "store"    -> [tab |-> t, kind |-> "stored", key |-> r.key, id |-> r.id]

\* handle_request.  A request that fails is not carried out; the node answers
\* with nothing in it, or the delegate with an error that is only logged.
ServeKv(t) ==
    LET r == Head(kvq[t])
    IN  /\ kvq[t] # <<>>
        /\ kvq' = [kvq EXCEPT ![t] = Tail(@)]
        /\ \/ /\ answers' = answers \cup {AnswerTo(t, r)}
              /\ IF r.op = "store"
                 THEN /\ store' = [store EXCEPT ![r.key] = r.value]
                      /\ accepted' = accepted \cup {r.id}
                 ELSE UNCHANGED <<store, accepted>>
           \/ /\ "fail" \in Faults
              /\ \/ answers' = answers \cup {[tab |-> t, kind |-> "empty", to |-> r]}
                 \/ r.op = "store" /\ UNCHANGED answers
              /\ UNCHANGED <<store, accepted>>
           \/ /\ "corrupt" \in Faults /\ r.op = "get" /\ store[r.key] # Absent
              /\ answers' = answers \cup
                              {[tab |-> t, kind |-> r.key, value |-> Corrupt]}
              /\ UNCHANGED <<store, accepted>>
        /\ UNCHANGED <<chain, tab, task, wire, sent>>

\* What the contract of r.pk makes of request r (see IdentityContract): an
\* empty PUT is a no-op where there is a state, a destroyed state takes no
\* slot, and an update needs a state to update.
Takes(r) ==
    CASE r.op = "put"    -> TRUE
      [] r.op = "slot"   -> chain[r.pk] = "live"
      [] r.op = "marker" -> chain[r.pk] # "absent"

After(r) ==
    CASE r.op = "marker"                           -> "dead"
      [] r.op = "put" /\ chain[r.pk] = "absent"    -> "live"
      [] OTHER                                     -> chain[r.pk]

ServeContract(r) ==
    /\ wire' = wire \ {r}
    /\ \/ /\ Takes(r)
          /\ chain' = [chain EXCEPT ![r.pk] = After(r)]
          /\ accepted' = accepted \cup {r.id}
          /\ answers' = IF r.tab = Absent THEN answers ELSE answers \cup
                {[tab |-> r.tab, kind |-> "ack", pk |-> r.pk, id |-> r.id]}
       \/ /\ ~ Takes(r) \/ "refuse" \in Faults
          /\ UNCHANGED <<chain, accepted, answers>>
    /\ UNCHANGED <<store, tab, task, kvq, sent>>

-----------------------------------------------------------------------------
(* Answers reach the session.                                              *)

\* bump_contract_ack and KV_ACKS: every task waiting on that counter sees it.
Acked(t, flags) ==
    [f \in BusyFlags |-> IF f \in flags
                         THEN [task[t][f] EXCEPT !.hit = TRUE] ELSE task[t][f]]

ContractAck(a) ==
    /\ a.kind = "ack"
    /\ LET waiting == {f \in BusyFlags :
                         /\ task[a.tab][f].pc \in {"put", "slot", "marker"}
                         /\ task[a.tab][f].pk = a.pk}
       IN  Become(a.tab, tab[a.tab], Acked(a.tab, waiting))

StoredAck(a) ==
    /\ a.kind = "stored"
    /\ LET waits == IF a.key = "seed" THEN {"seed", "restoreSeed"} ELSE {"meta"}
           waiting == {f \in BusyFlags : task[a.tab][f].pc \in waits}
       IN  Become(a.tab, tab[a.tab], Acked(a.tab, waiting))

\* Mutation: a seed that cannot be decoded is taken for an absent one.
SeedValueOrAbsent(a) ==
    /\ a.kind = "seed"
    /\ LET seed == IF a.value = Corrupt THEN Absent ELSE a.value
       IN  Become(a.tab, [tab[a.tab] EXCEPT !.seed = seed, !.fetched = FALSE],
                  task[a.tab])

\* dispatch_kv: what is present but cannot be decoded is not absent.
SeedValue(a) ==
    /\ a.kind = "seed"
    /\ LET w == tab[a.tab]
       IN  Become(a.tab, IF a.value = Corrupt
                         THEN [w EXCEPT !.unreachable = TRUE]
                         ELSE [w EXCEPT !.seed = a.value, !.fetched = FALSE],
                  task[a.tab])

MetaValue(a) ==
    /\ a.kind = "meta"
    /\ LET w == tab[a.tab]
       IN  Become(a.tab,
             CASE a.value = Corrupt -> [w EXCEPT !.unreachable = TRUE]
               [] a.value = Absent    -> [w EXCEPT !.meta = DefaultMeta,
                                            !.metaLoaded = TRUE, !.fetched = FALSE]
               [] OTHER               -> [w EXCEPT !.meta = a.value,
                                            !.metaLoaded = TRUE, !.fetched = FALSE],
             task[a.tab])

\* note_empty_delegate_response: one is the RegisterDelegate ack, a second
\* one shows that errors are being swallowed.  Once the seed is in, no number
\* of them does anything.
EmptyValue(a) ==
    /\ a.kind = "empty"
    /\ LET w == tab[a.tab]
           seen == Min({w.empties + 1, 2})
       IN  Become(a.tab, IF w.seed # Unknown THEN w
                         ELSE [w EXCEPT !.empties = seen,
                                        !.unreachable = @ \/ seen = 2],
                  task[a.tab])

Dispatch(a) ==
    /\ \/ ContractAck(a) \/ StoredAck(a)
       \/ SeedValue(a) \/ MetaValue(a) \/ EmptyValue(a)
    /\ answers' = answers \ {a}
    /\ UNCHANGED <<store, chain, kvq, wire, history>>

\* apply_contract_bytes: a GET answer or a notification, maybe an old one, is
\* merged.  It is also the sign for a publish whose slot it shows.
Arrive(t, pk, state) ==
    /\ pk \in tab[t].tracked /\ chain[pk] # "absent"
    /\ state \in {"live", chain[pk]}
    /\ LET w == [tab[t] EXCEPT !.states[pk] = IF @ = "dead" THEN @ ELSE state]
           showing == {f \in BusyFlags : LET k == task[t][f] IN
                         k.pc = "slot" /\ k.pk = pk /\ state = "live"
                            /\ k.req \in accepted}
           shown == Acked(t, showing)
       IN  /\ w # tab[t] \/ shown # task[t]
           /\ Become(t, w, shown)
           /\ UNCHANGED <<store, chain, kvq, wire, answers, history>>

-----------------------------------------------------------------------------

\* The effect behind FetchAll has run before the user can act on a screen.
User(t) ==
    /\ BootComplete(tab[t]) => tab[t].fetched
    /\ \/ GetStarted(t)
       \/ Restore(t)
       \/ Create(t)
       \/ \E i \in Indices : \/ Publish(t, "save", i)
                             \/ Publish(t, "pic", i)
                             \/ Destroy(t, i)
                             \/ OpenDetail(t, i)
       \/ OpenBackup(t)
       \/ Back(t)

Proceed(t) ==
    \/ ConfirmSeed(t)
    \/ EndProbe(t)
    \/ ConfirmPut(t)
    \/ \E f \in {"save", "pic"} : ConfirmSlot(t, f)
    \/ ConfirmMarker(t)
    \/ \E f \in {"onboard", "home", "destroy"} : ConfirmMeta(t, f)

Session(t) ==
    \/ \E f \in BusyFlags : GiveUp(t, f)
    \/ FetchAll(t)
    \/ Watchdog(t)
    \/ Reload(t)
    \/ \E pk \in Pks, state \in {"live", "dead"} : Arrive(t, pk, state)

Next ==
    \/ \E t \in Tabs : User(t) \/ Proceed(t) \/ Session(t) \/ ServeKv(t)
    \/ \E r \in wire : ServeContract(r)
    \/ \E a \in answers : Dispatch(a)

Spec == Init /\ [][Next]_vars

\* Timers fire: a waiting task goes on or gives up, the watchdog looks.  No
\* fairness of the node, the delegate or the connection is assumed.
Fairness ==
    \A t \in Tabs :
       /\ WF_vars(Watchdog(t))
       /\ WF_vars(EndProbe(t))
       /\ \A f \in BusyFlags : WF_vars(GiveUp(t, f))

FairSpec == Spec /\ Fairness

-----------------------------------------------------------------------------
(* Properties.                                                             *)

Listed(meta) == IF meta = Absent THEN {} ELSE meta.ids

MarkerUnderWay(pk) == \E r \in wire : r.op = "marker" /\ r.pk = pk

\* create_identity records a persona only after its contract is known to
\* exist: every persona listed, by a session or by the store, has a contract,
\* whichever requests are refused, fail, or are confirmed by other answers.
EntriesExist ==
    /\ \A i \in Listed(store.meta) : chain[<<store.seed, i>>] # "absent"
    /\ \A t \in Tabs : tab[t].seed \in Seeds =>
          \A i \in tab[t].meta.ids : chain[KeyOf(tab[t], i)] # "absent"

\* alloc_index and next_index: no persona is created under the index of one
\* that was destroyed, over any series of creations and destructions, some
\* of them failed or cut short.  A page loaded again in the middle of one can
\* break it: what the delegate had not read is lost.
FreshIndex ==
    [][\A r \in wire' \ wire :
          r.op = "put" /\ r.id # 0 => chain[r.pk] # "dead"]_vars

IsMetaStore(r) == r.op = "store" /\ r.key = "meta"

\* m is what the delegate will hold once it has read what session t sent it.
IsLastMeta(t, m) ==
    \/ \E j \in 1..Len(kvq[t]) :
          /\ IsMetaStore(kvq[t][j]) /\ kvq[t][j].value = m
          /\ \A i \in j + 1..Len(kvq[t]) : ~ IsMetaStore(kvq[t][i])
    \/ (\A j \in 1..Len(kvq[t]) : ~ IsMetaStore(kvq[t][j])) /\ store.meta = m

\* store_meta: the app never shows personas the store does not hold.  An
\* action takes META, waits, and writes back what it made of it; whatever is
\* cut short or confirmed by an answer to something else, what the delegate is
\* sent last holds every persona the session shows, but those destroyed or
\* about to be, and a watermark as high.  A persona of it the session does not
\* show is above the session's watermark.
ShownIsKept ==
    \A t \in Tabs, m \in IdentityMeta :
       tab[t].metaLoaded /\ IsLastMeta(t, m) =>
          /\ \A i \in tab[t].meta.ids \ m.ids :
                chain[KeyOf(tab[t], i)] = "dead" \/ MarkerUnderWay(KeyOf(tab[t], i))
          /\ \A i \in m.ids \ tab[t].meta.ids : i >= tab[t].meta.next
          /\ m.next >= tab[t].meta.next

\* merge_state on IDENTITY_STATES: a persona a session has seen destroyed is
\* not shown alive again by a publish confirmed late or an old notification.
DeadIsSeenDead ==
    [][\A t \in Tabs, pk \in Pks :
          tab[t].states[pk] = "dead" => tab'[t].states[pk] # "live"]_vars

\* next_index is bumped on create and never decremented.  The code does not keep
\* this: a create cut short in store_meta leaves META behind the store.
WatermarkClimbs ==
    [][store.meta # Absent =>
          store'.meta # Absent /\ store'.meta.next >= store.meta.next]_vars

\* dispatch_kv and the screens: once the delegate holds a seed it is never
\* replaced by another, which would orphan every persona derived from it.
SeedKept == [][store.seed \in Seeds => store'.seed = store.seed]_vars

\* create_seed and restore_seed flip SEED_LOADED only after the Stored ack:
\* the seed a session works with is the one the delegate holds.
LoadedSeedIsStored ==
    \A t \in Tabs : tab[t].seed \in Seeds => tab[t].seed = store.seed

\* The watchdog: once the connection is up, whichever boot answers are
\* swallowed, corrupt or late, no session shows the boot spinner for ever.
NoEternalSpinner ==
    \A t \in Tabs :
       Screen(tab[t]) = <<"loading">> ~> Screen(tab[t]) # <<"loading">>

\* wait_until: whatever the node does or fails to do, every busy flag clears.
BusyEnds ==
    \A t \in Tabs, f \in BusyFlags :
       task[t][f].pc # "idle" ~> task[t][f].pc = "idle"

\* destroy_identity drops a persona from META only when it is dead.
DestroyedIsDead ==
    [][\A t \in Tabs : tab[t].seed = tab'[t].seed /\ tab'[t].metaLoaded =>
          \A i \in tab[t].meta.ids \ tab'[t].meta.ids :
             chain[KeyOf(tab[t], i)] = "dead"]_vars
=============================================================================
