---------------------- MODULE PersonaWalletListProofs ----------------------
(***************************************************************************)
(* The list of personas of one session over a delegate that holds a seed:  *)
(* no index is used again, a persona seen destroyed is not shown alive,    *)
(* and nothing shown is lost.                                              *)
(***************************************************************************)
EXTENDS PersonaWalletProofs

-----------------------------------------------------------------------------
(* What the list of a session rests on, when there is one session over a   *)
(* delegate that holds a seed.                                             *)

ListScope == Installed \in Seeds /\ SingleSession

MetaValues == {a \in answers : a.kind = "meta"}

\* The delegate is asked for the meta once, and says what it holds; until
\* then the session lists nothing and sends nothing.
BootInv(t) ==
    /\ Once(kvq[t], {GetMeta})
    /\ GetMeta \in Range(kvq[t]) => ~ tab[t].metaLoaded /\ MetaValues = {}
    /\ \A a, b \in MetaValues : a = b
    /\ \A a \in MetaValues : ~ tab[t].metaLoaded /\ a.value \in {store.meta, Corrupt}
    /\ ~ tab[t].metaLoaded =>
          /\ \A r \in Range(kvq[t]) : ~ IsMetaStore(r)
          /\ \A f \in {"home", "destroy"} : task[t][f].pc = "idle"
          /\ \A i \in Indices : tab[t].view # Detail(i)

\* A persona that is dead, or will be once its marker is served.
Doomed(i) ==
    LET pk == <<Installed, i>> IN chain[pk] = "dead" \/ MarkerUnderWay(pk)

\* The watermark of m is above all that is listed or was destroyed.
Covers(m) ==
    /\ \A i \in m.ids : i < m.next
    /\ \A i \in Indices : Doomed(i) => i < m.next

\* A persona being created is above the watermark that a session shows, which
\* a destruction, begun before the last creation ended, may still lower.
IndexInv(t) ==
    LET w       == tab[t]
        home    == task[t]["home"]
        destroy == task[t]["destroy"]
    IN  /\ ~ w.metaLoaded => store.meta \in IdentityMeta /\ Covers(store.meta)
        /\ w.metaLoaded => Covers(w.meta)
        /\ \A i \in Indices : w.view = Detail(i) => i < w.meta.next
        /\ home.pc \in {"put", "meta"} =>
              home.pk[1] = Installed /\ home.pk[2] >= w.meta.next
        /\ home.pc = "put" => \A i \in home.meta.ids : i < home.pk[2]
        /\ home.pc = "meta" =>
              /\ home.meta.next = home.pk[2] + 1
              /\ \A i \in home.meta.ids : i < home.meta.next
        /\ destroy.pc = "meta" =>
              destroy.meta.next <= w.meta.next /\ Covers(destroy.meta)
        /\ \A pk \in Pks : w.states[pk] = "dead" => chain[pk] = "dead"

\* A task that waits has its component on the screen.
Fits(t) ==
    \A f \in {"home", "destroy"} :
       task[t][f].pc = "idle" \/ Mounted(tab[t], f, task[t][f])

\* A marker goes to a contract that will take it.
MarkersLand == \A r \in wire : r.op = "marker" => chain[r.pk] # "absent"

\* With m session t loses nothing it shows.
Holds(t, m) ==
    LET w == tab[t]
    IN  /\ \A i \in w.meta.ids \ m.ids : w.seed = Installed /\ Doomed(i)
        /\ \A i \in m.ids \ w.meta.ids : i >= w.meta.next
        /\ m.next >= w.meta.next

\* A task that writes META is the only one, and what it will write is what the
\* delegate is sent last.
KeptInv(t) ==
    LET w       == tab[t]
        home    == task[t]["home"]
        destroy == task[t]["destroy"]
    IN  /\ \A f \in {"home", "destroy"}, m \in IdentityMeta :
              task[t][f].pc = "meta" /\ task[t][f].meta = m => IsLastMeta(t, m)
        /\ home.pc = "put" => home.meta = w.meta /\ home.pk[2] >= w.meta.next
        /\ destroy.pc \in {"marker", "meta"} =>
              /\ destroy.pk[1] = Installed
              /\ \A i \in Indices : destroy.pk[2] = i => Doomed(i)
        /\ w.metaLoaded =>
              \A m \in IdentityMeta : IsLastMeta(t, m) => Holds(t, m)

-----------------------------------------------------------------------------
(* The steps, as far as the list goes.                                     *)

\* A task comes to wait as k does, or is cut.
SameTask(k, n) ==
    n.pc = "idle" \/ (n.pc = k.pc /\ n.pk = k.pk /\ n.meta = k.meta)

\* What a step leaves of what session t shows.
SameList(t) ==
    /\ tab'[t].meta = tab[t].meta /\ tab'[t].metaLoaded = tab[t].metaLoaded
    /\ tab'[t].seed = tab[t].seed \/ tab'[t].seed = Installed

SameViews(t) ==
    /\ \A i \in Indices : tab'[t].view = Detail(i) =>
          tab[t].view = Detail(i) \/ (Screen(tab[t]) = Home /\ i \in tab[t].meta.ids)
    /\ \A pk \in Pks :
          /\ tab'[t].states[pk] = "dead" => tab[t].states[pk] = "dead" \/ chain[pk] = "dead"
          /\ tab[t].states[pk] = "dead" => tab'[t].states[pk] = "dead"

\* A step that neither lists nor creates nor destroys anything.
Plain(t) ==
    /\ store' = store /\ chain' = chain /\ kvq' = kvq /\ MetaValues' = MetaValues
    /\ SameList(t) /\ SameViews(t)
    /\ \A f \in {"home", "destroy"} : SameTask(task[t][f], task'[t][f])
    /\ wire \subseteq wire'
    /\ \A r \in wire' \ wire : r.op # "marker" /\ (r.op = "put" => r.id = 0)

LEMMA SameTaskSelf ==
    ASSUME NEW k
    PROVE  SameTask(k, k)
BY DEF SameTask

LEMMA SameMetaAnswers ==
    ASSUME answers' = answers
    PROVE  MetaValues' = MetaValues
BY DEF MetaValues

LEMMA SameWire ==
    ASSUME wire' = wire
    PROVE  /\ wire \subseteq wire'
           /\ \A r \in wire' \ wire : r.op # "marker" /\ (r.op = "put" => r.id = 0)
OBVIOUS

\* What a step of a session leaves of its tasks.
LEMMA TasksAfter ==
    ASSUME TypeInv, NEW t \in Tabs, NEW w, NEW ks, Become(t, w, ks),
           NEW f \in BusyFlags, SameTask(task[t][f], ks[f])
    PROVE  SameTask(task[t][f], task'[t][f])
<1>1. task'[t][f] \in {ks[f], IdleTask}
  BY BecomeEffect DEF TypeInv
<1> QED
  BY <1>1, IdleTaskType DEF SameTask

\* What a session comes to, if it goes on showing the same list.
Shows(t, w) ==
    /\ w.meta = tab[t].meta /\ w.metaLoaded = tab[t].metaLoaded
    /\ w.seed = tab[t].seed \/ w.seed = Installed
    /\ \A i \in Indices : w.view = Detail(i) =>
          tab[t].view = Detail(i) \/ (Screen(tab[t]) = Home /\ i \in tab[t].meta.ids)
    /\ \A pk \in Pks :
          /\ w.states[pk] = "dead" => tab[t].states[pk] = "dead" \/ chain[pk] = "dead"
          /\ tab[t].states[pk] = "dead" => w.states[pk] = "dead"

LEMMA PlainBecome ==
    ASSUME TypeInv, NEW t \in Tabs, NEW w, NEW ks, Become(t, w, ks), Shows(t, w),
           SameTask(task[t]["home"], ks["home"]),
           SameTask(task[t]["destroy"], ks["destroy"]),
           store' = store, chain' = chain, kvq' = kvq, MetaValues' = MetaValues,
           wire \subseteq wire',
           \A r \in wire' \ wire : r.op # "marker" /\ (r.op = "put" => r.id = 0)
    PROVE  Plain(t)
<1>1. "home" \in BusyFlags /\ "destroy" \in BusyFlags
  BY DEF BusyFlags
<1>2. \A f \in {"home", "destroy"} : SameTask(task[t][f], task'[t][f])
  BY <1>1, TasksAfter
<1>3. tab'[t] = w
  BY BecomeEffect DEF TypeInv
<1>4. SameList(t) /\ SameViews(t)
  BY <1>3 DEF SameList, SameViews, Shows
<1> QED
  BY <1>2, <1>4 DEF Plain

\* A step that changes only what is shown besides the list.
LEMMA PlainShow ==
    ASSUME TypeInv, NEW t \in Tabs, NEW w, Become(t, w, task[t]), Shows(t, w),
           store' = store, chain' = chain, kvq' = kvq, MetaValues' = MetaValues,
           wire \subseteq wire',
           \A r \in wire' \ wire : r.op # "marker" /\ (r.op = "put" => r.id = 0)
    PROVE  Plain(t)
BY SameTaskSelf, PlainBecome

\* A task that ends, or one of another kind that begins.
LEMMA PlainTask ==
    ASSUME TypeInv, NEW t \in Tabs, NEW w, NEW flag \in BusyFlags, NEW k,
           Become(t, w, [task[t] EXCEPT ![flag] = k]), Shows(t, w),
           k = IdleTask \/ flag \notin {"home", "destroy"},
           store' = store, chain' = chain, kvq' = kvq, MetaValues' = MetaValues,
           wire \subseteq wire',
           \A r \in wire' \ wire : r.op # "marker" /\ (r.op = "put" => r.id = 0)
    PROVE  Plain(t)
<1> DEFINE ks == [task[t] EXCEPT ![flag] = k]
<1>1. task[t] \in [BusyFlags -> Task] /\ {"home", "destroy"} \subseteq BusyFlags
  BY DEF TypeInv, TypeOK, BusyFlags
<1>2. \A f \in BusyFlags : ks[f] = IF f = flag THEN k ELSE task[t][f]
  BY <1>1
<1>3. Become(t, w, ks)
  OBVIOUS
<1> HIDE DEF ks
<1>4. \A f \in {"home", "destroy"} : SameTask(task[t][f], ks[f])
  BY <1>1, <1>2, IdleTaskType DEF SameTask
<1> QED
  BY <1>3, <1>4, PlainBecome

LEMMA PlainAcked ==
    ASSUME TypeInv, NEW t \in Tabs, NEW w, NEW flags, Become(t, w, Acked(t, flags)),
           Shows(t, w), store' = store, chain' = chain, kvq' = kvq,
           MetaValues' = MetaValues, wire' = wire
    PROVE  Plain(t)
<1>1. {"home", "destroy"} \subseteq BusyFlags
  BY DEF BusyFlags
<1>2. \A f \in {"home", "destroy"} : SameTask(task[t][f], Acked(t, flags)[f])
  BY <1>1, AckedShape DEF SameTask
<1> QED
  BY <1>2, SameWire, PlainBecome

LEMMA ShowsSame ==
    ASSUME NEW t \in Tabs, NEW w, w.meta = tab[t].meta,
           w.metaLoaded = tab[t].metaLoaded,
           w.seed = tab[t].seed \/ w.seed = Installed,
           w.view = tab[t].view, w.states = tab[t].states
    PROVE  Shows(t, w)
BY DEF Shows

-----------------------------------------------------------------------------
(* The plain steps.                                                        *)

LEMMA PlainLook ==
    ASSUME TypeInv, NEW t \in Tabs, NEW view, Look(t, view),
           \A i \in Indices : view = Detail(i) =>
              Screen(tab[t]) = Home /\ i \in tab[t].meta.ids
    PROVE  Plain(t)
<1> DEFINE w == [tab[t] EXCEPT !.view = view]
<1>1. /\ Become(t, w, task[t])
      /\ UNCHANGED <<store, chain, kvq, wire, answers>>
  BY DEF Look
<1>2. tab[t] \in Tab
  BY DEF TypeInv, TypeOK
<1>3. /\ w.meta = tab[t].meta /\ w.metaLoaded = tab[t].metaLoaded
      /\ w.seed = tab[t].seed /\ w.states = tab[t].states /\ w.view = view
  BY <1>2 DEF Tab
<1> HIDE DEF w
<1>4. Shows(t, w)
  BY <1>3 DEF Shows
<1> QED
  BY <1>1, <1>4, SameMetaAnswers, SameWire, PlainShow

LEMMA PlainLooks ==
    ASSUME TypeInv, NEW t \in Tabs,
           OpenBackup(t) \/ Back(t) \/ \E i \in Indices : OpenDetail(t, i)
    PROVE  Plain(t)
<1>1. \A i \in Indices : Detail(i) # Home /\ Detail(i) # BackupView
  BY DEF Detail, Home, BackupView
<1>2. CASE OpenBackup(t)
  BY <1>1, <1>2, PlainLook DEF OpenBackup
<1>3. CASE Back(t)
  BY <1>1, <1>3, PlainLook DEF Back
<1>4. ASSUME NEW j \in Indices, OpenDetail(t, j)
      PROVE  Plain(t)
  <2>1. \A i \in Indices : Detail(i) = Detail(j) => i = j
    BY DEF Detail
  <2> QED
    BY <1>4, <2>1, PlainLook DEF OpenDetail
<1> QED
  BY <1>2, <1>3, <1>4

LEMMA PlainPublish ==
    ASSUME TypeInv, NEW t \in Tabs, NEW flag, NEW index \in Indices,
           Publish(t, flag, index)
    PROVE  Plain(t)
<1> DEFINE pk == KeyOf(tab[t], index)
           w == [tab[t] EXCEPT !.tracked = @ \cup {pk}]
           k == Waiting("slot", pk, DefaultMeta)
           r == [tab |-> t, op |-> "slot", pk |-> pk, id |-> sent + 1]
<1>1. /\ Become(t, w, [task[t] EXCEPT ![flag] = k])
      /\ SendContract(t, "slot", pk) /\ flag \in {"save", "pic"}
      /\ UNCHANGED <<store, chain, answers>>
  BY DEF Publish, Push
<1>2. kvq' = kvq /\ wire' = wire \cup {r}
  BY <1>1 DEF SendContract
<1>3. \A q \in wire' \ wire : q.op = "slot"
  BY <1>2
<1>4. tab[t] \in Tab
  BY DEF TypeInv, TypeOK
<1>5. /\ w.meta = tab[t].meta /\ w.metaLoaded = tab[t].metaLoaded
      /\ w.seed = tab[t].seed /\ w.states = tab[t].states /\ w.view = tab[t].view
  BY <1>4 DEF Tab
<1>6. /\ wire \subseteq wire'
      /\ \A q \in wire' \ wire : q.op # "marker" /\ (q.op = "put" => q.id = 0)
  BY <1>2, <1>3
<1>7. flag \in BusyFlags /\ flag \notin {"home", "destroy"}
  BY <1>1 DEF BusyFlags
<1> HIDE DEF w, k, pk, r
<1>8. Shows(t, w) /\ MetaValues' = MetaValues
  BY <1>1, <1>5, ShowsSame, SameMetaAnswers
<1> QED
  BY <1>1, <1>2, <1>6, <1>7, <1>8, PlainTask

LEMMA PlainConfirmSlot ==
    ASSUME TypeInv, NEW t \in Tabs, NEW flag \in {"save", "pic"}, ConfirmSlot(t, flag)
    PROVE  Plain(t)
<1> DEFINE k == task[t][flag]
           dead == tab[t].states[k.pk] = "dead"
           w == [tab[t] EXCEPT !.states[k.pk] = IF dead THEN @ ELSE "live"]
<1>1. /\ Become(t, w, [task[t] EXCEPT ![flag] = IdleTask])
      /\ UNCHANGED <<store, chain, kvq, wire, answers>>
  BY DEF ConfirmSlot
<1>2. tab[t] \in Tab /\ flag \in BusyFlags
  BY DEF TypeInv, TypeOK, BusyFlags
<1>3. /\ w.meta = tab[t].meta /\ w.metaLoaded = tab[t].metaLoaded
      /\ w.seed = tab[t].seed /\ w.view = tab[t].view
      /\ \A pk \in Pks : w.states[pk] =
            IF pk = k.pk THEN IF dead THEN tab[t].states[k.pk] ELSE "live"
            ELSE tab[t].states[pk]
  BY <1>2 DEF Tab
<1> HIDE DEF w
<1>4. Shows(t, w)
  BY <1>3 DEF Shows
<1> QED
  BY <1>1, <1>2, <1>4, SameMetaAnswers, SameWire, PlainTask

LEMMA PlainGiveUp ==
    ASSUME TypeInv, NEW t \in Tabs, NEW flag \in BusyFlags, GiveUp(t, flag)
    PROVE  Plain(t)
<1>1. /\ Become(t, tab[t], [task[t] EXCEPT ![flag] = IdleTask])
      /\ UNCHANGED <<store, chain, kvq, wire, answers>>
  BY DEF GiveUp
<1>2. Shows(t, tab[t])
  BY ShowsSame
<1> QED
  BY <1>1, <1>2, SameMetaAnswers, SameWire, PlainTask

LEMMA PlainFetchAll ==
    ASSUME TypeInv, NEW t \in Tabs, FetchAll(t)
    PROVE  Plain(t)
<1> DEFINE pks == {KeyOf(tab[t], i) : i \in tab[t].meta.ids}
           w == [tab[t] EXCEPT !.fetched = TRUE, !.tracked = @ \cup pks]
<1>1. /\ Become(t, w, task[t])
      /\ UNCHANGED <<store, chain, kvq, answers>>
      /\ wire' = wire \cup [tab : {t}, op : {"put"}, pk : pks, id : {0}]
  BY DEF FetchAll
<1>2. tab[t] \in Tab
  BY DEF TypeInv, TypeOK
<1>3. /\ w.meta = tab[t].meta /\ w.metaLoaded = tab[t].metaLoaded
      /\ w.seed = tab[t].seed /\ w.states = tab[t].states /\ w.view = tab[t].view
  BY <1>2 DEF Tab
<1> HIDE DEF pks
<1>4. \A r \in wire' \ wire : r.op = "put" /\ r.id = 0
  BY <1>1
<1>5. /\ wire \subseteq wire'
      /\ \A r \in wire' \ wire : r.op # "marker" /\ (r.op = "put" => r.id = 0)
  BY <1>1, <1>4
<1> HIDE DEF w
<1>6. Shows(t, w)
  BY <1>3, ShowsSame
<1> QED
  BY <1>1, <1>5, <1>6, SameMetaAnswers, PlainShow

LEMMA PlainWatchdog ==
    ASSUME TypeInv, NEW t \in Tabs, Watchdog(t)
    PROVE  Plain(t)
<1> DEFINE w == [tab[t] EXCEPT !.unreachable = TRUE]
<1>1. /\ Become(t, w, task[t])
      /\ UNCHANGED <<store, chain, kvq, wire, answers>>
  BY DEF Watchdog
<1>2. tab[t] \in Tab
  BY DEF TypeInv, TypeOK
<1>3. /\ w.meta = tab[t].meta /\ w.metaLoaded = tab[t].metaLoaded
      /\ w.seed = tab[t].seed /\ w.states = tab[t].states /\ w.view = tab[t].view
  BY <1>2 DEF Tab
<1> HIDE DEF w
<1>4. Shows(t, w)
  BY <1>3, ShowsSame
<1> QED
  BY <1>1, <1>4, SameMetaAnswers, SameWire, PlainShow

LEMMA PlainArrive ==
    ASSUME TypeInv, NEW t \in Tabs, NEW p \in Pks, NEW state, Arrive(t, p, state)
    PROVE  Plain(t)
<1> DEFINE w == [tab[t] EXCEPT !.states[p] = IF @ = "dead" THEN @ ELSE state]
           showing == {f \in BusyFlags : LET k == task[t][f] IN
                         k.pc = "slot" /\ k.pk = p /\ state = "live"
                            /\ k.req \in accepted}
<1>1. /\ Become(t, w, Acked(t, showing)) /\ state \in {"live", chain[p]}
      /\ UNCHANGED <<store, chain, kvq, wire, answers>>
  BY DEF Arrive
<1>2. tab[t] \in Tab
  BY DEF TypeInv, TypeOK
<1>3. /\ w.meta = tab[t].meta /\ w.metaLoaded = tab[t].metaLoaded
      /\ w.seed = tab[t].seed /\ w.view = tab[t].view
      /\ \A pk \in Pks : w.states[pk] =
            IF pk = p THEN IF tab[t].states[p] = "dead" THEN tab[t].states[p] ELSE state
            ELSE tab[t].states[pk]
  BY <1>2 DEF Tab
<1> HIDE DEF w, showing
<1>4. Shows(t, w)
  BY <1>1, <1>3 DEF Shows
<1> QED
  BY <1>1, <1>4, SameMetaAnswers, PlainAcked

\* Answers, but those that carry the meta.
LEMMA PlainDispatch ==
    ASSUME TypeInv, InstalledInv, NEW a \in answers, Dispatch(a), ~ MetaValue(a)
    PROVE  Plain(a.tab)
<1> DEFINE t == a.tab
           w == tab[a.tab]
<1>1. a \in Answer /\ t \in Tabs /\ w \in Tab
  BY AnswerShape DEF TypeInv, TypeOK
<1>2. /\ store' = store /\ chain' = chain /\ kvq' = kvq /\ wire' = wire
      /\ answers' = answers \ {a}
  BY DEF Dispatch
<1>3. a.kind # "meta" => MetaValues' = MetaValues
  BY <1>2 DEF MetaValues
<1>4. CASE ContractAck(a)
  <2>1. PICK flags : Become(t, w, Acked(t, flags))
    BY <1>4, Zenon DEF ContractAck
  <2>2. Shows(t, w) /\ a.kind = "ack"
    BY <1>1, <1>4, ShowsSame DEF ContractAck
  <2> HIDE DEF t
  <2> QED
    BY <1>1, <1>2, <1>3, <2>1, <2>2, PlainAcked DEF t
<1>5. CASE StoredAck(a)
  <2>1. PICK flags : Become(t, w, Acked(t, flags))
    BY <1>5, Zenon DEF StoredAck
  <2>2. Shows(t, w) /\ a.kind = "stored"
    BY <1>1, <1>5, ShowsSame DEF StoredAck
  <2> HIDE DEF t
  <2> QED
    BY <1>1, <1>2, <1>3, <2>1, <2>2, PlainAcked DEF t
<1>6. CASE SeedValue(a)
  <2> DEFINE v == IF a.value = Corrupt
                  THEN [w EXCEPT !.unreachable = TRUE]
                  ELSE [w EXCEPT !.seed = a.value, !.fetched = FALSE]
  <2>1. Become(t, v, task[t]) /\ a.kind = "seed"
    BY <1>6 DEF SeedValue
  <2>2. a.value # Corrupt => a.value = Installed
    BY <2>1 DEF InstalledInv
  <2>3. /\ v.meta = w.meta /\ v.metaLoaded = w.metaLoaded
        /\ v.states = w.states /\ v.view = w.view
        /\ v.seed = w.seed \/ v.seed = a.value
        /\ a.value = Corrupt => v.seed = w.seed
    BY <1>1 DEF Tab
  <2> HIDE DEF v, t
  <2>4. Shows(t, v)
    BY <1>1, <2>2, <2>3, ShowsSame DEF t
  <2> QED
    BY <1>1, <1>2, <1>3, <2>1, <2>4, SameWire, PlainShow DEF t
<1>7. CASE EmptyValue(a)
  <2> DEFINE seen == Min({w.empties + 1, 2})
             v == IF w.seed # Unknown THEN w
                  ELSE [w EXCEPT !.empties = seen,
                                 !.unreachable = @ \/ seen = 2]
  <2>1. Become(t, v, task[t]) /\ a.kind = "empty"
    BY <1>7 DEF EmptyValue
  <2> HIDE DEF seen
  <2>2. /\ v.meta = w.meta /\ v.metaLoaded = w.metaLoaded
        /\ v.states = w.states /\ v.view = w.view /\ v.seed = w.seed
    BY <1>1 DEF Tab
  <2> HIDE DEF v, t
  <2>3. Shows(t, v)
    BY <1>1, <2>2, ShowsSame DEF t
  <2> QED
    BY <1>1, <1>2, <1>3, <2>1, <2>3, SameWire, PlainShow DEF t
<1> QED
  BY <1>4, <1>5, <1>6, <1>7 DEF Dispatch

LEMMA PlainStutter ==
    ASSUME TypeInv, NEW t \in Tabs, UNCHANGED vars
    PROVE  Plain(t)
BY SameTaskSelf, SameMetaAnswers, SameWire
   DEF vars, Plain, SameList, SameViews

-----------------------------------------------------------------------------
(* The steps that create, destroy or list.                                 *)

\* Session t shows the same.
SameShown(t) ==
    /\ tab'[t].meta = tab[t].meta /\ tab'[t].metaLoaded = tab[t].metaLoaded
    /\ tab'[t].seed = tab[t].seed /\ tab'[t].view = tab[t].view

\* The task behind the flag of session t waits, or was cut.
Waits(t, flag, pc, pk, meta) ==
    LET n == task'[t][flag]
    IN  n.pc = "idle" \/ (n.pc = pc /\ n.pk = pk /\ n.meta = meta)

\* create_identity has sent its PUT.
Created(t) ==
    \E i \in Indices :
       LET pk == <<Installed, i>> IN
       /\ i = AllocIndex(tab[t].meta) /\ tab[t].metaLoaded /\ tab[t].seed = Installed
       /\ store' = store /\ chain' = chain /\ kvq' = kvq /\ answers' = answers
       /\ wire' = wire \cup
             {[tab |-> t, op |-> "put", pk |-> pk, id |-> sent + 1]}
       /\ SameShown(t) /\ tab'[t].states = tab[t].states
       /\ Waits(t, "home", "put", pk, tab[t].meta)
       /\ SameTask(task[t]["destroy"], task'[t]["destroy"])

\* destroy_identity has sent its marker.
Marked(t) ==
    \E i \in Indices :
       LET pk == <<Installed, i>> IN
       /\ tab[t].view = Detail(i) /\ tab[t].metaLoaded /\ tab[t].seed = Installed
       /\ tab[t].states[pk] # Unknown /\ task[t]["destroy"].pc = "idle"
       /\ store' = store /\ chain' = chain /\ kvq' = kvq /\ answers' = answers
       /\ wire' = wire \cup
             {[tab |-> t, op |-> "marker", pk |-> pk, id |-> sent + 1]}
       /\ SameShown(t) /\ tab'[t].states = tab[t].states
       /\ Waits(t, "destroy", "marker", pk, DefaultMeta)
       /\ SameTask(task[t]["home"], task'[t]["home"])

\* A task has sent the delegate a meta, or could not.
Sent(t, flag, pk, meta) ==
    /\ store' = store /\ chain' = chain /\ wire' = wire /\ answers' = answers
    /\ SameShown(t)
    /\ Waits(t, flag, "meta", pk, meta)
    /\ \/ kvq' = kvq /\ task'[t][flag].pc = "idle"
       \/ \E id \in Ids : kvq'[t] = Append(kvq[t], Store("meta", meta, id))

\* create_identity lists its persona.
Listing(t) ==
    LET k    == task[t]["home"]
        meta == [ids |-> k.meta.ids \cup {k.pk[2]}, next |-> k.pk[2] + 1]
    IN  /\ k.pc = "put" /\ meta \in IdentityMeta /\ Sent(t, "home", k.pk, meta)
        /\ SameTask(task[t]["destroy"], task'[t]["destroy"])
        /\ \A pk \in Pks : tab'[t].states[pk] =
              IF pk = k.pk THEN "live" ELSE tab[t].states[pk]

\* destroy_identity takes its persona off the list.
Dropping(t) ==
    LET k    == task[t]["destroy"]
        meta == [tab[t].meta EXCEPT !.ids = @ \ {k.pk[2]}]
    IN  /\ k.pc = "marker" /\ meta \in IdentityMeta /\ Sent(t, "destroy", k.pk, meta)
        /\ SameTask(task[t]["home"], task'[t]["home"])
        /\ tab'[t].states = tab[t].states

\* store_meta returns to one of them.
Showing(t, flag) ==
    LET k == task[t][flag]
    IN  /\ k.pc = "meta" /\ task'[t][flag].pc = "idle"
        /\ store' = store /\ chain' = chain /\ wire' = wire
        /\ answers' = answers /\ kvq' = kvq
        /\ tab'[t].meta = k.meta /\ tab'[t].metaLoaded = tab[t].metaLoaded
        /\ tab'[t].seed = tab[t].seed
        /\ tab'[t].view = IF flag = "home" THEN Detail(k.pk[2]) ELSE Home
        /\ \A f \in {"home", "destroy"} : SameTask(task[t][f], task'[t][f])
        /\ \A pk \in Pks : tab'[t].states[pk] \in {tab[t].states[pk], Unknown}

\* The meta is answered.
Loading(t) ==
    \E a \in MetaValues :
       LET w == tab'[t] IN
       /\ store' = store /\ chain' = chain /\ wire' = wire /\ kvq' = kvq
       /\ answers' = answers \ {a}
       /\ w.seed = tab[t].seed /\ w.view = tab[t].view /\ w.states = tab[t].states
       /\ \A f \in {"home", "destroy"} : SameTask(task[t][f], task'[t][f])
       /\ IF a.value = Corrupt
          THEN w.meta = tab[t].meta /\ w.metaLoaded = tab[t].metaLoaded
          ELSE /\ w.metaLoaded
               /\ w.meta = IF a.value = Absent THEN DefaultMeta ELSE a.value

\* On a screen with the user's controls the seed and the meta are in.
LEMMA OnScreen ==
    ASSUME TypeInv, InstalledInv, Installed \in Seeds, NEW t \in Tabs
    PROVE  /\ BootComplete(tab[t]) <=> tab[t].seed = Installed /\ tab[t].metaLoaded
           /\ Screen(tab[t]) = Home => BootComplete(tab[t]) /\ tab[t].view = Home
           /\ \A i \in Indices : Screen(tab[t]) = Detail(i) =>
                 BootComplete(tab[t]) /\ tab[t].view = Detail(i)
<1>1. tab[t] \in Tab
  BY DEF TypeInv, TypeOK
<1>2. tab[t].seed \in {Unknown, Installed} /\ Unknown \notin Seeds
  BY WalletAssumption DEF InstalledInv
<1> QED
  BY <1>1, <1>2, ScreenShape DEF BootComplete

\* What one task comes to, and what is left of the other.
LEMMA OneTask ==
    ASSUME TypeInv, NEW t \in Tabs, NEW w, NEW flag \in {"home", "destroy"}, NEW k,
           Become(t, w, [task[t] EXCEPT ![flag] = k])
    PROVE  /\ tab'[t] = w
           /\ task'[t][flag] \in {k, IdleTask}
           /\ \A f \in {"home", "destroy"} : f # flag =>
                 SameTask(task[t][f], task'[t][f])
<1> DEFINE ks == [task[t] EXCEPT ![flag] = k]
<1>1. flag \in BusyFlags /\ task[t] \in [BusyFlags -> Task]
      /\ {"home", "destroy"} \subseteq BusyFlags
  BY DEF TypeInv, TypeOK, BusyFlags
<1>2. ks[flag] = k /\ Become(t, w, ks)
  BY <1>1
<1>5. \A f \in {"home", "destroy"} : f # flag => ks[f] = task[t][f]
  BY <1>1
<1> HIDE DEF ks
<1>3. tab'[t] = w /\ task'[t][flag] \in {k, IdleTask}
  BY <1>1, <1>2, BecomeEffect DEF TypeInv
<1>4. \A f \in {"home", "destroy"} : f # flag => SameTask(task[t][f], task'[t][f])
  BY <1>1, <1>2, <1>5, SameTaskSelf, TasksAfter
<1> QED
  BY <1>3, <1>4

LEMMA CreateEffect ==
    ASSUME TypeInv, InstalledInv, Installed \in Seeds, NEW t \in Tabs, Create(t)
    PROVE  Created(t)
<1> DEFINE i == AllocIndex(tab[t].meta)
           pk == KeyOf(tab[t], i)
           w == [tab[t] EXCEPT !.tracked = @ \cup {pk}]
           k == Waiting("put", pk, tab[t].meta)
<1>1. /\ Become(t, w, [task[t] EXCEPT !["home"] = k])
      /\ SendContract(t, "put", pk) /\ Screen(tab[t]) = Home /\ i \in Indices
      /\ UNCHANGED <<store, chain, answers>>
  BY DEF Create
<1>2. /\ kvq' = kvq
      /\ wire' = wire \cup {[tab |-> t, op |-> "put", pk |-> pk, id |-> sent + 1]}
  BY <1>1 DEF SendContract
<1>3. tab[t].metaLoaded /\ tab[t].seed = Installed
  BY <1>1, OnScreen
<1>4. pk = <<Installed, i>>
  BY <1>3 DEF KeyOf
<1>5. tab[t] \in Tab
  BY DEF TypeInv, TypeOK
<1>6. /\ w.meta = tab[t].meta /\ w.metaLoaded = tab[t].metaLoaded
      /\ w.seed = tab[t].seed /\ w.states = tab[t].states /\ w.view = tab[t].view
  BY <1>5 DEF Tab
<1>7. k.pc = "put" /\ k.pk = pk /\ k.meta = tab[t].meta
  BY DEF Waiting
<1> HIDE DEF w, k, pk, i
<1>8. /\ tab'[t] = w /\ task'[t]["home"] \in {k, IdleTask}
      /\ SameTask(task[t]["destroy"], task'[t]["destroy"])
  BY <1>1, OneTask
<1>9. Waits(t, "home", "put", pk, tab[t].meta)
  BY <1>7, <1>8, IdleTaskType DEF Waits
<1>10. SameShown(t) /\ tab'[t].states = tab[t].states
  BY <1>6, <1>8 DEF SameShown
<1>11. i = AllocIndex(tab[t].meta)
  BY DEF i
<1> QED
  BY <1>1, <1>2, <1>3, <1>4, <1>8, <1>9, <1>10, <1>11 DEF Created

LEMMA DestroyEffect ==
    ASSUME TypeInv, InstalledInv, Installed \in Seeds, NEW t \in Tabs,
           NEW i \in Indices, Destroy(t, i)
    PROVE  Marked(t)
<1> DEFINE pk == KeyOf(tab[t], i)
           w == [tab[t] EXCEPT !.tracked = @ \cup {pk}]
           k == Waiting("marker", pk, DefaultMeta)
<1>1. /\ Become(t, w, [task[t] EXCEPT !["destroy"] = k])
      /\ SendContract(t, "marker", pk) /\ Screen(tab[t]) = Detail(i)
      /\ tab[t].states[pk] # Unknown /\ task[t]["destroy"].pc = "idle"
      /\ UNCHANGED <<store, chain, answers>>
  BY DEF Destroy, Push, ShowsDetail, Free
<1>2. /\ kvq' = kvq
      /\ wire' = wire \cup {[tab |-> t, op |-> "marker", pk |-> pk, id |-> sent + 1]}
  BY <1>1 DEF SendContract
<1>3. tab[t].metaLoaded /\ tab[t].seed = Installed /\ tab[t].view = Detail(i)
  BY <1>1, OnScreen
<1>4. pk = <<Installed, i>>
  BY <1>3 DEF KeyOf
<1>5. tab[t] \in Tab
  BY DEF TypeInv, TypeOK
<1>6. /\ w.meta = tab[t].meta /\ w.metaLoaded = tab[t].metaLoaded
      /\ w.seed = tab[t].seed /\ w.states = tab[t].states /\ w.view = tab[t].view
  BY <1>5 DEF Tab
<1>7. k.pc = "marker" /\ k.pk = pk /\ k.meta = DefaultMeta
  BY DEF Waiting
<1> HIDE DEF w, k, pk
<1>8. /\ tab'[t] = w /\ task'[t]["destroy"] \in {k, IdleTask}
      /\ SameTask(task[t]["home"], task'[t]["home"])
  BY <1>1, OneTask
<1>9. Waits(t, "destroy", "marker", pk, DefaultMeta)
  BY <1>7, <1>8, IdleTaskType DEF Waits
<1>10. SameShown(t) /\ tab'[t].states = tab[t].states
  BY <1>6, <1>8 DEF SameShown
<1> QED
  BY <1>1, <1>2, <1>3, <1>4, <1>8, <1>9, <1>10 DEF Marked

LEMMA SentEffect ==
    ASSUME TypeInv, TypeInv', NEW t \in Tabs, NEW w, NEW flag \in {"home", "destroy"},
           NEW pk, NEW meta \in IdentityMeta,
           StoreMeta(t, flag, w, pk, meta)
    PROVE  /\ SameShown(t) /\ UNCHANGED <<store, chain, answers>> =>
                 Sent(t, flag, pk, meta)
           /\ tab'[t] = w
           /\ \A f \in {"home", "destroy"} : f # flag =>
                 SameTask(task[t][f], task'[t][f])
<1>1. wire' = wire
  BY StoreMetaEffect
<1>2. CASE /\ Become(t, w, [task[t] EXCEPT ![flag] = Waiting("meta", pk, meta)])
           /\ sent + 1 \in Ids
           /\ kvq' = [kvq EXCEPT ![t] =
                        Append(kvq[t], Store("meta", meta, sent + 1))]
  <2> DEFINE k == Waiting("meta", pk, meta)
  <2>1. k.pc = "meta" /\ k.pk = pk /\ k.meta = meta
    BY DEF Waiting
  <2>2. Become(t, w, [task[t] EXCEPT ![flag] = k])
    BY <1>2
  <2> HIDE DEF k
  <2>3. /\ tab'[t] = w /\ task'[t][flag] \in {k, IdleTask}
        /\ \A f \in {"home", "destroy"} : f # flag =>
              SameTask(task[t][f], task'[t][f])
    BY <2>2, OneTask
  <2>4. kvq'[t] = Append(kvq[t], Store("meta", meta, sent + 1))
    BY <1>2 DEF TypeInv, TypeOK
  <2>5. Waits(t, flag, "meta", pk, meta)
    BY <2>1, <2>3, IdleTaskType DEF Waits
  <2> QED
    BY <1>1, <1>2, <2>3, <2>4, <2>5 DEF Sent
<1>3. CASE /\ Become(t, w, [task[t] EXCEPT ![flag] = IdleTask])
           /\ kvq' = kvq
  <2> DEFINE k == IdleTask
  <2>1. Become(t, w, [task[t] EXCEPT ![flag] = k])
    BY <1>3
  <2> HIDE DEF k
  <2>2. /\ tab'[t] = w /\ task'[t][flag] \in {k, IdleTask}
        /\ \A f \in {"home", "destroy"} : f # flag =>
              SameTask(task[t][f], task'[t][f])
    BY <2>1, OneTask
  <2>3. task'[t][flag] = IdleTask
    BY <2>2 DEF k
  <2>4. Waits(t, flag, "meta", pk, meta)
    BY <2>3, IdleTaskType DEF Waits
  <2> QED
    BY <1>1, <1>3, <2>2, <2>3, <2>4, IdleTaskType DEF Sent
<1> QED
  BY <1>2, <1>3, StoreMetaEffect

LEMMA ConfirmPutEffect ==
    ASSUME TypeInv, TypeInv', NEW t \in Tabs, ConfirmPut(t)
    PROVE  Listing(t)
<1> DEFINE k == task[t]["home"]
           w == [tab[t] EXCEPT !.states[k.pk] = "live"]
           meta == [ids |-> k.meta.ids \cup {k.pk[2]}, next |-> k.pk[2] + 1]
<1>1. /\ k.pc = "put" /\ StoreMeta(t, "home", w, k.pk, meta)
      /\ UNCHANGED <<store, chain, answers>>
  BY DEF ConfirmPut
<1>2. /\ "home" \in BusyFlags /\ tab[t] \in Tab
      /\ k.pk[2] \in Indices /\ k.meta \in IdentityMeta
  BY TaskShape DEF BusyFlags
<1>3. meta \in IdentityMeta
  BY <1>2, WalletAssumption DEF IdentityMeta, Indices
<1>4. /\ w.meta = tab[t].meta /\ w.metaLoaded = tab[t].metaLoaded
      /\ w.seed = tab[t].seed /\ w.view = tab[t].view
      /\ \A pk \in Pks : w.states[pk] = IF pk = k.pk THEN "live" ELSE tab[t].states[pk]
  BY <1>2 DEF Tab
<1> HIDE DEF k, w, meta
<1>5. /\ tab'[t] = w
      /\ \A f \in {"home", "destroy"} : f # "home" =>
            SameTask(task[t][f], task'[t][f])
  BY <1>1, <1>3, SentEffect
<1>6. SameShown(t)
  BY <1>4, <1>5 DEF SameShown
<1>7. Sent(t, "home", k.pk, meta)
  BY <1>1, <1>3, <1>6, SentEffect
<1> QED
  BY <1>1, <1>3, <1>4, <1>5, <1>7 DEF Listing, k, meta

LEMMA ConfirmMarkerEffect ==
    ASSUME TypeInv, TypeInv', NEW t \in Tabs, ConfirmMarker(t)
    PROVE  Dropping(t)
<1> DEFINE k == task[t]["destroy"]
           meta == [tab[t].meta EXCEPT !.ids = @ \ {k.pk[2]}]
<1>1. /\ k.pc = "marker" /\ StoreMeta(t, "destroy", tab[t], k.pk, meta)
      /\ UNCHANGED <<store, chain, answers>>
  BY DEF ConfirmMarker
<1>2. tab[t].meta \in IdentityMeta
  BY DEF TypeInv, TypeOK, Tab
<1>3. meta \in IdentityMeta
  BY <1>2 DEF IdentityMeta
<1> HIDE DEF k, meta
<1>4. /\ tab'[t] = tab[t]
      /\ \A f \in {"home", "destroy"} : f # "destroy" =>
            SameTask(task[t][f], task'[t][f])
  BY <1>1, <1>3, SentEffect
<1>5. SameShown(t)
  BY <1>4 DEF SameShown
<1>6. Sent(t, "destroy", k.pk, meta)
  BY <1>1, <1>3, <1>5, SentEffect
<1> QED
  BY <1>1, <1>3, <1>4, <1>6 DEF Dropping, k, meta

LEMMA ConfirmMetaEffect ==
    ASSUME TypeInv, NEW t \in Tabs, NEW flag \in {"home", "destroy"},
           ConfirmMeta(t, flag)
    PROVE  Showing(t, flag)
<1> DEFINE k == task[t][flag]
           w == [tab[t] EXCEPT !.meta = k.meta]
           v == CASE flag = "onboard" -> w
                  [] flag = "home"    -> [w EXCEPT !.view = Detail(k.pk[2])]
                  [] flag = "destroy" -> [w EXCEPT !.states[k.pk] = Unknown,
                                                   !.view = Home]
           n == IdleTask
<1>1. /\ Become(t, v, [task[t] EXCEPT ![flag] = n]) /\ k.pc = "meta"
      /\ UNCHANGED <<store, chain, kvq, wire, answers>>
  BY DEF ConfirmMeta
<1>2. tab[t] \in Tab
  BY DEF TypeInv, TypeOK
<1>3. /\ w.meta = k.meta /\ w.metaLoaded = tab[t].metaLoaded
      /\ w.seed = tab[t].seed /\ w.states = tab[t].states /\ w.view = tab[t].view
      /\ DOMAIN w = DOMAIN tab[t] /\ w.states \in [Pks -> {Unknown, "live", "dead"}]
  BY <1>2 DEF Tab
<1>4. {"states", "view", "meta", "metaLoaded", "seed"} \subseteq DOMAIN w
  BY <1>2, <1>3 DEF Tab
<1>5. LET x == [w EXCEPT !.view = Detail(k.pk[2])]
      IN  /\ x.meta = k.meta /\ x.metaLoaded = tab[t].metaLoaded
          /\ x.seed = tab[t].seed /\ x.view = Detail(k.pk[2])
          /\ x.states = tab[t].states
  <2> HIDE DEF w
  <2> QED
    BY <1>3, <1>4
<1>6. LET x == [w EXCEPT !.states[k.pk] = Unknown, !.view = Home]
      IN  /\ x.meta = k.meta /\ x.metaLoaded = tab[t].metaLoaded
          /\ x.seed = tab[t].seed /\ x.view = Home
          /\ \A pk \in Pks : x.states[pk] \in {tab[t].states[pk], Unknown}
  <2> HIDE DEF w
  <2> QED
    BY <1>3, <1>4
<1> HIDE DEF w
<1>7. /\ v.meta = k.meta /\ v.metaLoaded = tab[t].metaLoaded
      /\ v.seed = tab[t].seed
      /\ v.view = IF flag = "home" THEN Detail(k.pk[2]) ELSE Home
      /\ \A pk \in Pks : v.states[pk] \in {tab[t].states[pk], Unknown}
  <2>1. CASE flag = "home"
    BY <1>5, <2>1
  <2>2. CASE flag = "destroy"
    BY <1>6, <2>2
  <2> QED
    BY <2>1, <2>2
<1> HIDE DEF v, n
<1>8. /\ tab'[t] = v /\ task'[t][flag] \in {n, IdleTask}
      /\ \A f \in {"home", "destroy"} : f # flag =>
            SameTask(task[t][f], task'[t][f])
  BY <1>1, OneTask
<1>9. task'[t][flag].pc = "idle"
  BY <1>8, IdleTaskType DEF n
<1>10. \A f \in {"home", "destroy"} : SameTask(task[t][f], task'[t][f])
  BY <1>8, <1>9 DEF SameTask
<1> QED
  BY <1>1, <1>7, <1>8, <1>9, <1>10 DEF Showing

LEMMA MetaValueEffect ==
    ASSUME TypeInv, NEW a \in answers, Dispatch(a), MetaValue(a)
    PROVE  Loading(a.tab)
<1> DEFINE t == a.tab
           w == tab[a.tab]
           v == CASE a.value = Corrupt -> [w EXCEPT !.unreachable = TRUE]
                  [] a.value = Absent -> [w EXCEPT !.meta = DefaultMeta,
                                !.metaLoaded = TRUE, !.fetched = FALSE]
                  [] OTHER -> [w EXCEPT !.meta = a.value,
                                !.metaLoaded = TRUE, !.fetched = FALSE]
<1>1. /\ Become(t, v, task[t]) /\ a \in MetaValues
      /\ UNCHANGED <<store, chain, kvq, wire>> /\ answers' = answers \ {a}
  BY DEF MetaValue, Dispatch, MetaValues
<1>2. t \in Tabs /\ w \in Tab /\ Absent # Corrupt
  BY AnswerShape, WalletAssumption DEF TypeInv, TypeOK
<1>3. LET x == [w EXCEPT !.unreachable = TRUE]
      IN  /\ x.meta = w.meta /\ x.metaLoaded = w.metaLoaded
          /\ x.seed = w.seed /\ x.view = w.view /\ x.states = w.states
  BY <1>2 DEF Tab
<1>4. \A m : LET x == [w EXCEPT !.meta = m, !.metaLoaded = TRUE, !.fetched = FALSE]
             IN  /\ x.meta = m /\ x.metaLoaded
                 /\ x.seed = w.seed /\ x.view = w.view /\ x.states = w.states
  BY <1>2 DEF Tab
<1>5. /\ v.seed = w.seed /\ v.view = w.view /\ v.states = w.states
      /\ IF a.value = Corrupt
         THEN v.meta = w.meta /\ v.metaLoaded = w.metaLoaded
         ELSE v.metaLoaded /\ v.meta = IF a.value = Absent THEN DefaultMeta ELSE a.value
  <2> HIDE DEF w
  <2>1. CASE a.value = Corrupt
    BY <1>2, <1>3, <2>1
  <2>2. CASE a.value = Absent
    BY <1>2, <1>4, <2>2
  <2>3. CASE a.value # Corrupt /\ a.value # Absent
    BY <1>4, <2>3
  <2> QED
    BY <2>1, <2>2, <2>3
<1> HIDE DEF v, t
<1>6. {"home", "destroy"} \subseteq BusyFlags
  BY DEF BusyFlags
<1>7. tab'[t] = v /\ \A f \in {"home", "destroy"} : SameTask(task[t][f], task'[t][f])
  BY <1>1, <1>2, <1>6, BecomeEffect, SameTaskSelf, TasksAfter DEF TypeInv
<1> QED
  BY <1>1, <1>5, <1>7 DEF Loading, t

\* The steps, when one session works over a delegate that holds a seed.
LEMMA ListSteps ==
    ASSUME ListScope, TypeInv, TypeInv', InstalledInv, NEW t \in Tabs, [Next]_vars
    PROVE  \/ Plain(t) \/ Created(t) \/ Marked(t) \/ Listing(t) \/ Dropping(t)
           \/ Showing(t, "home") \/ Showing(t, "destroy") \/ Loading(t)
           \/ Reload(t) \/ ServeKv(t) \/ \E r \in wire : ServeContract(r)
<1>1. Installed \in Seeds /\ \A u \in Tabs : u = t
  BY DEF ListScope, SingleSession
<1>2. CASE UNCHANGED vars
  BY <1>2, PlainStutter
<1>3. CASE User(t)
  <2>1. ASSUME NEW pc, NEW s, StoreSeed(t, pc, s)
        PROVE  FALSE
    <3>1. tab[t] \in Tab /\ tab[t].seed # Absent
      BY <1>1, WalletAssumption DEF InstalledInv, TypeInv, TypeOK
    <3> QED
      BY <2>1, <3>1, ScreenShape DEF StoreSeed
  <2>2. CASE GetStarted(t) \/ Restore(t)
    BY <2>1, <2>2 DEF GetStarted, Restore
  <2>3. CASE Create(t)
    BY <1>1, <2>3, CreateEffect
  <2>4. ASSUME NEW i \in Indices, Publish(t, "save", i) \/ Publish(t, "pic", i)
        PROVE  Plain(t)
    BY <2>4, PlainPublish
  <2>5. ASSUME NEW i \in Indices, Destroy(t, i)
        PROVE  Marked(t)
    BY <1>1, <2>5, DestroyEffect
  <2>6. CASE OpenBackup(t) \/ Back(t) \/ \E i \in Indices : OpenDetail(t, i)
    BY <2>6, PlainLooks
  <2> QED
    BY <1>3, <2>2, <2>3, <2>4, <2>5, <2>6 DEF User
<1>4. CASE Proceed(t)
  <2>1. ~ ConfirmSeed(t) /\ ~ EndProbe(t) /\ ~ ConfirmMeta(t, "onboard")
    BY Zenon DEF InstalledInv, ConfirmSeed, EndProbe, ConfirmMeta
  <2>2. CASE ConfirmPut(t)
    BY <2>2, ConfirmPutEffect
  <2>3. ASSUME NEW f \in {"save", "pic"}, ConfirmSlot(t, f)
        PROVE  Plain(t)
    BY <2>3, PlainConfirmSlot
  <2>4. CASE ConfirmMarker(t)
    BY <2>4, ConfirmMarkerEffect
  <2>5. CASE ConfirmMeta(t, "home") \/ ConfirmMeta(t, "destroy")
    BY <2>5, ConfirmMetaEffect
  <2> QED
    BY <1>4, <2>1, <2>2, <2>3, <2>4, <2>5, Zenon DEF Proceed
<1>5. CASE Session(t)
  <2>1. ASSUME NEW f \in BusyFlags, GiveUp(t, f)
        PROVE  Plain(t)
    BY <2>1, PlainGiveUp
  <2>2. ASSUME NEW pk \in Pks, NEW state \in {"live", "dead"}, Arrive(t, pk, state)
        PROVE  Plain(t)
    BY <2>2, PlainArrive
  <2> QED
    BY <1>5, <2>1, <2>2, PlainFetchAll, PlainWatchdog DEF Session
<1>6. ASSUME NEW a \in answers, Dispatch(a)
      PROVE  Plain(t) \/ Loading(t)
  <2>1. a.tab = t
    BY <1>1, AnswerShape DEF TypeInv, TypeOK
  <2> QED
    BY <1>6, <2>1, PlainDispatch, MetaValueEffect
<1> QED
  BY <1>1, <1>2, <1>3, <1>4, <1>5, <1>6 DEF Next

-----------------------------------------------------------------------------
(* The delegate is asked for the meta once.                                *)

LEMMA BootAgain ==
    ASSUME NEW t \in Tabs, kvq'[t] = BootRequests, MetaValues' = {},
           tab'[t].metaLoaded = FALSE, tab'[t].view = Home,
           \A f \in {"home", "destroy"} : task'[t][f].pc = "idle"
    PROVE  BootInv(t)'
<1>1. Once(BootRequests, {GetMeta})
  BY BootShape DEF Once, Register, GetSeed, GetMeta
<1>2. \A r \in Range(BootRequests) : ~ IsMetaStore(r)
  BY BootIsNoStore DEF IsMetaStore
<1>3. \A i \in Indices : tab'[t].view # Detail(i)
  BY DEF Home, Detail
<1> QED
  BY <1>1, <1>2, <1>3 DEF BootInv

LEMMA BootInit ==
    ASSUME Init, NEW t \in Tabs
    PROVE  BootInv(t)
<1>1. /\ kvq[t] = BootRequests /\ answers = {} /\ tab[t] = NewTab
      /\ \A f \in {"home", "destroy"} : task[t][f].pc = "idle"
  BY IdleTaskType DEF Init, BusyFlags
<1>2. MetaValues = {} /\ tab[t].metaLoaded = FALSE /\ tab[t].view = Home
  BY <1>1 DEF MetaValues, NewTab
<1>3. Once(BootRequests, {GetMeta})
  BY BootShape DEF Once, Register, GetSeed, GetMeta
<1>4. \A r \in Range(BootRequests) : ~ IsMetaStore(r)
  BY BootIsNoStore DEF IsMetaStore
<1>5. \A i \in Indices : tab[t].view # Detail(i)
  BY <1>2 DEF Home, Detail
<1> QED
  BY <1>1, <1>2, <1>3, <1>4, <1>5 DEF BootInv

LEMMA BootLoaded ==
    ASSUME NEW t \in Tabs, tab'[t].metaLoaded, MetaValues' = {},
           GetMeta \notin Range(kvq'[t]), Once(kvq'[t], {GetMeta})
    PROVE  BootInv(t)'
BY DEF BootInv

\* Steps that leave the queue and the answers alone.
LEMMA BootSame ==
    ASSUME TypeInv, NEW t \in Tabs, BootInv(t), store' = store, kvq'[t] = kvq[t],
           MetaValues' = MetaValues, tab'[t].metaLoaded = tab[t].metaLoaded,
           ~ tab[t].metaLoaded =>
              /\ \A f \in {"home", "destroy"} : task'[t][f].pc = "idle"
              /\ \A i \in Indices : tab'[t].view # Detail(i)
    PROVE  BootInv(t)'
BY DEF BootInv

\* A meta is sent to the delegate only once its answer is in.
LEMMA BootSent ==
    ASSUME TypeInv, NEW t \in Tabs, BootInv(t), tab[t].metaLoaded,
           tab'[t].metaLoaded = tab[t].metaLoaded, MetaValues' = MetaValues,
           NEW m \in IdentityMeta, NEW id \in Ids,
           kvq'[t] = Append(kvq[t], Store("meta", m, id))
    PROVE  BootInv(t)'
<1> DEFINE r == Store("meta", m, id)
<1>1. r \in KvRequest /\ r.op = "store"
  BY StoreShape
<1>2. GetMeta.op = "get"
  BY DEF GetMeta
<1>3. kvq[t] \in Seq(KvRequest) /\ kvq'[t] = Append(kvq[t], r)
  BY DEF TypeInv, TypeOK
<1> HIDE DEF r
<1>4. r \notin {GetMeta}
  BY <1>1, <1>2
<1>5. Once(kvq[t], {GetMeta}) /\ GetMeta \notin Range(kvq[t]) /\ MetaValues = {}
  BY DEF BootInv
<1>6. Once(kvq'[t], {GetMeta})
  BY <1>1, <1>3, <1>4, <1>5, OnceProperties
<1>7. Range(kvq'[t]) = Range(kvq[t]) \cup {r}
  BY <1>1, <1>3, RangeProperties
<1> QED
  BY <1>4, <1>5, <1>6, <1>7, BootLoaded

LEMMA BootServeKv ==
    ASSUME TypeInv, NEW t \in Tabs, BootInv(t), ServeKv(t)
    PROVE  BootInv(t)'
<1> DEFINE r == Head(kvq[t])
           stored == [tab |-> t, kind |-> "stored", key |-> r.key, id |-> r.id]
           told(v) == [tab |-> t, kind |-> r.key, value |-> v]
           empty == [tab |-> t, kind |-> "empty", to |-> r]
<1>1. /\ kvq[t] # <<>> /\ kvq[t] \in Seq(KvRequest)
      /\ r \in KvRequest /\ r \in Range(kvq[t])
      /\ kvq' = [kvq EXCEPT ![t] = Tail(kvq[t])]
      /\ Range(Tail(kvq[t])) \subseteq Range(kvq[t])
      /\ tab' = tab /\ task' = task
  BY ServeKvEffect DEF TypeInv, TypeOK
<1>2. \/ /\ r.op = "store" /\ answers' = answers \cup {stored}
         /\ store' = [store EXCEPT ![r.key] = r.value]
      \/ /\ r.op = "get" /\ store' = store
         /\ \E v \in {store[r.key], Corrupt} : answers' = answers \cup {told(v)}
      \/ store' = store /\ answers' = answers \cup {empty}
      \/ store' = store /\ answers' = answers
  BY ServeKvEffect DEF TypeInv
<1>3. kvq'[t] = Tail(kvq[t])
  BY <1>1 DEF TypeInv, TypeOK
<1>4. /\ Once(kvq'[t], {GetMeta})
      /\ r = GetMeta => GetMeta \notin Range(kvq'[t])
      /\ Range(kvq'[t]) \subseteq Range(kvq[t])
  BY <1>1, <1>3, OnceProperties DEF BootInv
<1>5. store \in [seed : Seeds \cup {Absent}, meta : IdentityMeta \cup {Absent}]
  BY DEF TypeInv, TypeOK
<1> HIDE DEF r
<1>6. CASE store'.meta = store.meta /\ MetaValues' = MetaValues
  BY <1>1, <1>4, <1>6 DEF BootInv
<1>7. CASE tab[t].metaLoaded
  <2>1. GetMeta \notin Range(kvq[t]) /\ MetaValues = {}
    BY <1>7 DEF BootInv
  <2>2. r.op = "get" => r.key = "seed"
    <3>1. r # GetMeta
      BY <1>1, <2>1
    <3> QED
      BY <1>1, <3>1, KvShape DEF GetSeed
  <2>3. MetaValues' = {}
    <3>1. stored.kind = "stored" /\ empty.kind = "empty"
      OBVIOUS
    <3>2. \A v : r.op = "get" => told(v).kind = "seed"
      BY <2>2
    <3> HIDE DEF stored, empty, told
    <3> QED
      BY <1>2, <2>1, <3>1, <3>2 DEF MetaValues
  <2> QED
    BY <1>1, <1>4, <1>7, <2>1, <2>3, BootLoaded
<1>8. CASE ~ tab[t].metaLoaded /\ r.op = "get"
  <2>1. CASE r = GetSeed
    <3>1. \A v : told(v).kind = "seed"
      BY <2>1 DEF GetSeed
    <3>2. stored.kind = "stored" /\ empty.kind = "empty"
      OBVIOUS
    <3> HIDE DEF told, empty, stored
    <3>3. MetaValues' = MetaValues /\ store' = store
      BY <1>2, <1>8, <3>1, <3>2 DEF MetaValues
    <3> QED
      BY <1>6, <3>3
  <2>2. CASE r = GetMeta
    <3>1. MetaValues = {} /\ GetMeta \notin Range(kvq'[t])
      BY <1>1, <1>4, <2>2 DEF BootInv
    <3>2. store' = store
      BY <1>2, <1>8
    <3>3. \A v : told(v).kind = "meta" /\ told(v).value = v
      BY <2>2 DEF GetMeta
    <3>4. stored.kind = "stored" /\ empty.kind = "empty" /\ r.key = "meta"
      BY <2>2 DEF GetMeta
    <3> HIDE DEF told, empty, stored
    <3>5. \/ MetaValues' = {}
          \/ \E v \in {store.meta, Corrupt} : MetaValues' = {told(v)}
      BY <1>2, <1>8, <3>1, <3>3, <3>4 DEF MetaValues
    <3> QED
      BY <1>1, <1>4, <1>8, <3>1, <3>2, <3>3, <3>5 DEF BootInv
  <2> QED
    BY <1>1, <1>8, <2>1, <2>2, KvShape
<1>9. CASE ~ tab[t].metaLoaded /\ r.op = "store"
  <2>1. r.key = "seed"
    BY <1>1, <1>9, KvShape DEF BootInv, IsMetaStore
  <2>2. store'.meta = store.meta
    BY <1>2, <1>5, <1>9, <2>1
  <2>3. MetaValues' = MetaValues
    BY <1>2, <1>9 DEF MetaValues
  <2> QED
    BY <1>6, <2>2, <2>3
<1>10. CASE ~ tab[t].metaLoaded /\ r.op = "register"
  <2>1. MetaValues' = MetaValues /\ store' = store
    BY <1>2, <1>10 DEF MetaValues
  <2> QED
    BY <1>6, <2>1
<1> QED
  BY <1>1, <1>7, <1>8, <1>9, <1>10, KvShape

\* A step that shows, or stops showing, only what was listed.
LEMMA BootReady ==
    ASSUME NEW t \in Tabs, BootInv(t)
    PROVE  /\ \A f \in {"home", "destroy"} :
                 task[t][f].pc # "idle" => tab[t].metaLoaded
           /\ \A i \in Indices : tab[t].view = Detail(i) => tab[t].metaLoaded
           /\ tab[t].metaLoaded =>
                 GetMeta \notin Range(kvq[t]) /\ MetaValues = {}
           /\ Once(kvq[t], {GetMeta})
BY DEF BootInv

LEMMA BootNext ==
    ASSUME ListScope, TypeInv, TypeInv', InstalledInv, NEW t \in Tabs, BootInv(t),
           [Next]_vars
    PROVE  BootInv(t)'
<1>1. Installed \in Seeds /\ \A u \in Tabs : u = t
  BY DEF ListScope, SingleSession
<1>2. CASE Plain(t)
  <2>1. /\ store' = store /\ kvq' = kvq /\ MetaValues' = MetaValues
        /\ tab'[t].metaLoaded = tab[t].metaLoaded
    BY <1>2 DEF Plain, SameList
  <2>2. ASSUME ~ tab[t].metaLoaded
        PROVE  /\ \A f \in {"home", "destroy"} : task'[t][f].pc = "idle"
               /\ \A i \in Indices : tab'[t].view # Detail(i)
    <3>1. \A f \in {"home", "destroy"} : task'[t][f].pc = "idle"
      BY <1>2, <2>2, BootReady DEF Plain, SameTask
    <3>2. \A i \in Indices : tab'[t].view # Detail(i)
      BY <1>1, <1>2, <2>2, BootReady, OnScreen DEF Plain, SameViews
    <3> QED
      BY <3>1, <3>2
  <2> QED
    BY <2>1, <2>2, BootSame
<1>3. CASE Created(t) \/ Marked(t)
  <2>1. /\ store' = store /\ kvq' = kvq /\ answers' = answers /\ tab[t].metaLoaded
        /\ tab'[t].metaLoaded = tab[t].metaLoaded
    BY <1>3 DEF Created, Marked, SameShown
  <2> QED
    BY <2>1, SameMetaAnswers, BootSame
<1>4. ASSUME NEW flag \in {"home", "destroy"}, NEW pk, NEW meta \in IdentityMeta,
             task[t][flag].pc # "idle", Sent(t, flag, pk, meta)
      PROVE  BootInv(t)'
  <2>1. tab[t].metaLoaded
    BY <1>4, BootReady
  <2>2. /\ store' = store /\ answers' = answers
        /\ tab'[t].metaLoaded = tab[t].metaLoaded
        /\ \/ kvq' = kvq
           \/ \E id \in Ids : kvq'[t] = Append(kvq[t], Store("meta", meta, id))
    BY <1>4 DEF Sent, SameShown
  <2>3. MetaValues' = MetaValues
    BY <2>2, SameMetaAnswers
  <2>4. CASE kvq' = kvq
    BY <2>1, <2>2, <2>3, <2>4, BootSame
  <2>5. ASSUME NEW id \in Ids, kvq'[t] = Append(kvq[t], Store("meta", meta, id))
        PROVE  BootInv(t)'
    BY <2>1, <2>2, <2>3, <2>5, BootSent
  <2> QED
    BY <2>2, <2>4, <2>5
<1>5. CASE Listing(t)
  BY <1>4, <1>5 DEF Listing
<1>6. CASE Dropping(t)
  BY <1>4, <1>6 DEF Dropping
<1>7. ASSUME NEW flag \in {"home", "destroy"}, Showing(t, flag)
      PROVE  BootInv(t)'
  <2>1. tab[t].metaLoaded /\ tab'[t].metaLoaded = tab[t].metaLoaded
    BY <1>7, BootReady DEF Showing
  <2>2. store' = store /\ kvq' = kvq /\ MetaValues' = MetaValues
    BY <1>7, SameMetaAnswers DEF Showing
  <2> QED
    BY <2>1, <2>2, BootSame
<1>8. CASE Loading(t)
  <2>1. PICK a \in MetaValues :
           /\ store' = store /\ kvq' = kvq /\ answers' = answers \ {a}
           /\ tab'[t].view = tab[t].view
           /\ \A f \in {"home", "destroy"} : SameTask(task[t][f], task'[t][f])
           /\ IF a.value = Corrupt
              THEN tab'[t].metaLoaded = tab[t].metaLoaded
              ELSE tab'[t].metaLoaded
    BY <1>8 DEF Loading
  <2>2. ~ tab[t].metaLoaded /\ GetMeta \notin Range(kvq[t])
    BY <2>1 DEF BootInv
  <2>3. MetaValues' = {}
    BY <2>1 DEF MetaValues, BootInv
  <2>4. /\ \A f \in {"home", "destroy"} : task'[t][f].pc = "idle"
        /\ \A i \in Indices : tab'[t].view # Detail(i)
    BY <2>1, <2>2, BootReady DEF SameTask
  <2> QED
    BY <2>1, <2>2, <2>3, <2>4 DEF BootInv
<1>9. CASE Reload(t)
  <2>1. \A a \in answers : a.tab = t
    BY <1>1, AnswerShape DEF TypeInv, TypeOK
  <2>2. MetaValues' = {}
    BY <1>9, <2>1 DEF Reload, MetaValues
  <2>3. /\ kvq'[t] = BootRequests /\ tab'[t] = NewTab
        /\ \A f \in {"home", "destroy"} : task'[t][f].pc = "idle"
    BY <1>9, IdleTaskType DEF Reload, TypeInv, TypeOK, BusyFlags
  <2>4. tab'[t].metaLoaded = FALSE /\ tab'[t].view = Home
    BY <2>3 DEF NewTab
  <2> QED
    BY <2>2, <2>3, <2>4, BootAgain
<1>10. CASE ServeKv(t)
  BY <1>10, BootServeKv
<1>11. ASSUME NEW r \in wire, ServeContract(r)
       PROVE  BootInv(t)'
  <2>1. store' = store /\ tab' = tab /\ task' = task /\ kvq' = kvq
    BY <1>11 DEF ServeContract
  <2>2. \/ answers' = answers
        \/ answers' = answers \cup
              {[tab |-> r.tab, kind |-> "ack", pk |-> r.pk, id |-> r.id]}
    BY <1>11, Zenon DEF ServeContract
  <2>3. MetaValues' = MetaValues
    BY <2>2 DEF MetaValues
  <2> QED
    BY <2>1, <2>3 DEF BootInv
<1> QED
  BY <1>2, <1>3, <1>5, <1>6, <1>7, <1>8, <1>9, <1>10, <1>11, ListSteps

-----------------------------------------------------------------------------
(* No index is used again.                                                 *)

\* What numbers and lists there are.
LEMMA ListTypes ==
    ASSUME TypeInv, NEW t \in Tabs
    PROVE  /\ Indices \subseteq Nat
           /\ tab[t].meta \in IdentityMeta
           /\ \A f \in {"home", "destroy"} :
                 /\ task[t][f].pk \in Pks \cup {NoPk} /\ task[t][f].pk[2] \in Indices
                 /\ task[t][f].meta \in IdentityMeta
           /\ \A m \in IdentityMeta : m.ids \subseteq Indices /\ m.next \in Nat
           /\ chain \in [Pks -> {"absent", "live", "dead"}]
<1>1. {"home", "destroy"} \subseteq BusyFlags
  BY DEF BusyFlags
<1>2. Indices \subseteq Nat
  BY DEF Indices
<1>3. \A m \in IdentityMeta : m.ids \subseteq Indices /\ m.next \in Nat
  BY WalletAssumption DEF IdentityMeta
<1>4. tab[t].meta \in IdentityMeta /\ chain \in [Pks -> {"absent", "live", "dead"}]
  BY DEF TypeInv, TypeOK, Tab
<1> QED
  BY <1>1, <1>2, <1>3, <1>4, TaskShape

\* A step of a session that destroys nothing.
LEMMA DoomedBack ==
    ASSUME chain' = chain, \A r \in wire' \ wire : r.op # "marker"
    PROVE  \A i \in Indices : Doomed(i)' => Doomed(i)
BY DEF Doomed, MarkerUnderWay

LEMMA IndexInit ==
    ASSUME Installed \in Seeds, Init, NEW t \in Tabs
    PROVE  IndexInv(t)
<1>1. /\ store.meta \in RestMetas /\ wire = {} /\ tab[t] = NewTab
      /\ \A f \in {"home", "destroy"} : task[t][f].pc = "idle"
  BY WalletAssumption, IdleTaskType DEF Init, BusyFlags
<1>2. /\ store.meta \in IdentityMeta
      /\ \A i \in store.meta.ids : i < store.meta.next
  BY <1>1 DEF RestMetas
<1>3. ASSUME NEW i \in Indices, Doomed(i)
      PROVE  i < store.meta.next
  <2>1. <<Installed, i>> \in Pks
    BY DEF Pks
  <2>2. chain[<<Installed, i>>] = RestState(store.meta, i)
    BY <2>1 DEF Init
  <2>3. chain[<<Installed, i>>] = "dead"
    BY <1>1, <1>3 DEF Doomed, MarkerUnderWay
  <2> QED
    BY <2>2, <2>3 DEF RestState
<1>4. /\ tab[t].metaLoaded = FALSE /\ \A i \in Indices : tab[t].view # Detail(i)
      /\ \A pk \in Pks : tab[t].states[pk] = Unknown
  BY <1>1 DEF NewTab, Home, Detail
<1>5. Covers(store.meta)
  BY <1>2, <1>3 DEF Covers
<1> QED
  BY <1>1, <1>2, <1>4, <1>5, WalletAssumption DEF IndexInv

LEMMA IndexPlain ==
    ASSUME TypeInv, InstalledInv, Installed \in Seeds, NEW t \in Tabs,
           IndexInv(t), Plain(t)
    PROVE  IndexInv(t)'
<1>1. \A i \in Indices : Doomed(i)' => Doomed(i)
  BY DoomedBack DEF Plain
<1>2. /\ store' = store /\ tab'[t].meta = tab[t].meta /\ chain' = chain
      /\ tab'[t].metaLoaded = tab[t].metaLoaded
      /\ SameTask(task[t]["home"], task'[t]["home"])
      /\ SameTask(task[t]["destroy"], task'[t]["destroy"])
  BY DEF Plain, SameList
<1>3. ASSUME NEW i \in Indices, tab'[t].view = Detail(i)
      PROVE  i < tab[t].meta.next
  <2>1. tab[t].view = Detail(i) \/ (tab[t].metaLoaded /\ i \in tab[t].meta.ids)
    BY <1>3, OnScreen DEF Plain, SameViews
  <2> QED
    BY <2>1 DEF IndexInv, Covers
<1>4. \A pk \in Pks : tab'[t].states[pk] = "dead" => chain'[pk] = "dead"
  BY <1>2 DEF Plain, SameViews, IndexInv
<1>5. \A m : Covers(m) =>
         /\ \A i \in m.ids : i < m.next
         /\ \A i \in Indices : Doomed(i)' => i < m.next
  BY <1>1 DEF Covers
<1>6. /\ task'[t]["home"].pc \in {"put", "meta"} =>
            /\ task'[t]["home"].pk[1] = Installed
            /\ task'[t]["home"].pk[2] >= tab[t].meta.next
      /\ task'[t]["home"].pc = "put" =>
            \A i \in task'[t]["home"].meta.ids : i < task'[t]["home"].pk[2]
      /\ task'[t]["home"].pc = "meta" =>
            /\ task'[t]["home"].meta.next = task'[t]["home"].pk[2] + 1
            /\ \A i \in task'[t]["home"].meta.ids : i < task'[t]["home"].meta.next
  BY <1>2 DEF SameTask, IndexInv
<1>7. task'[t]["destroy"].pc = "meta" =>
         /\ task'[t]["destroy"].meta.next <= tab[t].meta.next
         /\ Covers(task'[t]["destroy"].meta)
  BY <1>2 DEF SameTask, IndexInv
<1> QED
  BY <1>2, <1>3, <1>4, <1>5, <1>6, <1>7 DEF IndexInv, Covers

LEMMA IndexCreated ==
    ASSUME TypeInv, NEW t \in Tabs, IndexInv(t), Created(t)
    PROVE  IndexInv(t)'
<1> DEFINE m == tab[t].meta
           home == task'[t]["home"]
           destroy == task'[t]["destroy"]
<1>1. PICK i \in Indices :
        /\ i = AllocIndex(m) /\ tab[t].metaLoaded
        /\ store' = store /\ chain' = chain
        /\ wire' = wire \cup
              {[tab |-> t, op |-> "put", pk |-> <<Installed, i>>, id |-> sent + 1]}
        /\ SameShown(t) /\ tab'[t].states = tab[t].states
        /\ Waits(t, "home", "put", <<Installed, i>>, m)
        /\ SameTask(task[t]["destroy"], destroy)
  BY DEF Created
<1>2. m.next <= i /\ \A j \in m.ids : j < i
  BY <1>1, ListTypes, AllocAbove
<1>3. \A j \in Indices : Doomed(j)' => Doomed(j)
  <2>1. \A r \in wire' \ wire : r.op # "marker"
    BY <1>1
  <2> QED
    BY <1>1, <2>1, DoomedBack
<1>4. /\ tab'[t].meta = m /\ tab'[t].view = tab[t].view
      /\ tab'[t].metaLoaded
  BY <1>1 DEF SameShown
<1>5. home.pc = "idle" \/
        (home.pc = "put" /\ home.pk[1] = Installed /\ home.pk[2] = i /\ home.meta = m)
  BY <1>1 DEF Waits
<1>6. home.pc = "put" => home.pk[2] >= m.next /\ \A j \in home.meta.ids : j < home.pk[2]
  BY <1>2, <1>5, ListTypes
<1>7. /\ \A j \in m.ids : j < m.next
      /\ \A j \in Indices : Doomed(j)' => j < m.next
  BY <1>1, <1>3 DEF IndexInv, Covers
<1>8. destroy.pc = "meta" =>
         /\ destroy.meta.next <= m.next
         /\ \A j \in destroy.meta.ids : j < destroy.meta.next
         /\ \A j \in Indices : Doomed(j)' => j < destroy.meta.next
  BY <1>1, <1>3 DEF SameTask, IndexInv, Covers
<1>9. \A pk \in Pks : tab'[t].states[pk] = "dead" => chain'[pk] = "dead"
  BY <1>1 DEF IndexInv
<1>10. \A j \in Indices : tab'[t].view = Detail(j) => j < m.next
  BY <1>4 DEF IndexInv
<1> QED
  BY <1>4, <1>5, <1>6, <1>7, <1>8, <1>9, <1>10 DEF IndexInv, Covers

LEMMA IndexMarked ==
    ASSUME TypeInv, NEW t \in Tabs, IndexInv(t), Marked(t)
    PROVE  IndexInv(t)'
<1> DEFINE m == tab[t].meta
           home == task'[t]["home"]
           destroy == task'[t]["destroy"]
<1>1. PICK i \in Indices :
        /\ tab[t].view = Detail(i) /\ tab[t].metaLoaded
        /\ store' = store /\ chain' = chain
        /\ wire' = wire \cup
              {[tab |-> t, op |-> "marker", pk |-> <<Installed, i>>, id |-> sent + 1]}
        /\ SameShown(t) /\ tab'[t].states = tab[t].states
        /\ Waits(t, "destroy", "marker", <<Installed, i>>, DefaultMeta)
        /\ SameTask(task[t]["home"], home)
  BY DEF Marked
<1>2. \A j \in Indices : Doomed(j)' => Doomed(j) \/ j = i
  <2>1. \A r \in wire' \ wire : r.pk = <<Installed, i>>
    BY <1>1
  <2> QED
    BY <1>1, <2>1 DEF Doomed, MarkerUnderWay
<1>3. /\ tab'[t].meta = m /\ tab'[t].view = tab[t].view /\ tab'[t].metaLoaded
  BY <1>1 DEF SameShown
<1>4. destroy.pc # "meta"
  BY <1>1 DEF Waits
<1>5. /\ \A j \in m.ids : j < m.next
      /\ \A j \in Indices : Doomed(j)' => j < m.next
  BY <1>1, <1>2 DEF IndexInv, Covers
<1>6. /\ home.pc \in {"put", "meta"} =>
            home.pk[1] = Installed /\ home.pk[2] >= m.next
      /\ home.pc = "put" => \A j \in home.meta.ids : j < home.pk[2]
      /\ home.pc = "meta" =>
            /\ home.meta.next = home.pk[2] + 1
            /\ \A j \in home.meta.ids : j < home.meta.next
  BY <1>1 DEF SameTask, IndexInv
<1>7. \A pk \in Pks : tab'[t].states[pk] = "dead" => chain'[pk] = "dead"
  BY <1>1 DEF IndexInv
<1>8. \A j \in Indices : tab'[t].view = Detail(j) => j < m.next
  BY <1>3 DEF IndexInv
<1> QED
  BY <1>3, <1>4, <1>5, <1>6, <1>7, <1>8 DEF IndexInv, Covers

LEMMA IndexListing ==
    ASSUME TypeInv, NEW t \in Tabs, BootInv(t), IndexInv(t), Listing(t)
    PROVE  IndexInv(t)'
<1> DEFINE m == tab[t].meta
           k == task[t]["home"]
           new == [ids |-> k.meta.ids \cup {k.pk[2]}, next |-> k.pk[2] + 1]
           home == task'[t]["home"]
           destroy == task'[t]["destroy"]
<1>1. /\ k.pc = "put" /\ new \in IdentityMeta /\ Sent(t, "home", k.pk, new)
      /\ SameTask(task[t]["destroy"], destroy)
      /\ \A pk \in Pks : tab'[t].states[pk] =
            IF pk = k.pk THEN "live" ELSE tab[t].states[pk]
  BY DEF Listing
<1>2. /\ store' = store /\ chain' = chain /\ wire' = wire /\ SameShown(t)
      /\ Waits(t, "home", "meta", k.pk, new)
  BY <1>1 DEF Sent
<1>3. \A j \in Indices : Doomed(j)' => Doomed(j)
  BY <1>2, DoomedBack
<1>4. tab[t].metaLoaded
  BY <1>1, BootReady
<1>5. /\ tab'[t].meta = m /\ tab'[t].view = tab[t].view /\ tab'[t].metaLoaded
  BY <1>2, <1>4 DEF SameShown
<1>6. /\ k.pk[1] = Installed /\ k.pk[2] >= m.next
      /\ \A j \in k.meta.ids : j < k.pk[2]
  BY <1>1 DEF IndexInv
<1>7. new.next = k.pk[2] + 1 /\ \A j \in new.ids : j < new.next
  <2>1. k.pk[2] \in Nat /\ k.meta.ids \subseteq Nat
    BY ListTypes
  <2> QED
    BY <1>6, <2>1
<1> HIDE DEF new
<1>8. home.pc = "idle" \/ (home.pc = "meta" /\ home.pk = k.pk /\ home.meta = new)
  BY <1>2 DEF Waits
<1>9. /\ \A j \in m.ids : j < m.next
      /\ \A j \in Indices : Doomed(j)' => j < m.next
  BY <1>3, <1>4 DEF IndexInv, Covers
<1>10. destroy.pc = "meta" =>
         /\ destroy.meta.next <= m.next
         /\ \A j \in destroy.meta.ids : j < destroy.meta.next
         /\ \A j \in Indices : Doomed(j)' => j < destroy.meta.next
  BY <1>1, <1>3 DEF SameTask, IndexInv, Covers
<1>11. \A pk \in Pks : tab'[t].states[pk] = "dead" => chain'[pk] = "dead"
  BY <1>1, <1>2 DEF IndexInv
<1>12. \A j \in Indices : tab'[t].view = Detail(j) => j < m.next
  BY <1>5 DEF IndexInv
<1> QED
  BY <1>5, <1>6, <1>7, <1>8, <1>9, <1>10, <1>11, <1>12 DEF IndexInv, Covers

LEMMA IndexDropping ==
    ASSUME TypeInv, NEW t \in Tabs, BootInv(t), IndexInv(t), Dropping(t)
    PROVE  IndexInv(t)'
<1> DEFINE m == tab[t].meta
           k == task[t]["destroy"]
           new == [m EXCEPT !.ids = @ \ {k.pk[2]}]
           home == task'[t]["home"]
           destroy == task'[t]["destroy"]
<1>1. /\ k.pc = "marker" /\ new \in IdentityMeta /\ Sent(t, "destroy", k.pk, new)
      /\ SameTask(task[t]["home"], home)
      /\ tab'[t].states = tab[t].states
  BY DEF Dropping
<1>2. /\ store' = store /\ chain' = chain /\ wire' = wire /\ SameShown(t)
      /\ Waits(t, "destroy", "meta", k.pk, new)
  BY <1>1 DEF Sent
<1>3. \A j \in Indices : Doomed(j)' => Doomed(j)
  BY <1>2, DoomedBack
<1>4. tab[t].metaLoaded
  BY <1>1, BootReady
<1>5. /\ tab'[t].meta = m /\ tab'[t].view = tab[t].view /\ tab'[t].metaLoaded
  BY <1>2, <1>4 DEF SameShown
<1>6. new.next = m.next /\ new.ids \subseteq m.ids
  BY ListTypes DEF IdentityMeta
<1> HIDE DEF new
<1>7. destroy.pc = "idle" \/ (destroy.pc = "meta" /\ destroy.meta = new)
  BY <1>2 DEF Waits
<1>8. /\ \A j \in m.ids : j < m.next
      /\ \A j \in Indices : Doomed(j)' => j < m.next
  BY <1>3, <1>4 DEF IndexInv, Covers
<1>9. destroy.pc = "meta" =>
         /\ destroy.meta.next <= m.next
         /\ \A j \in destroy.meta.ids : j < destroy.meta.next
         /\ \A j \in Indices : Doomed(j)' => j < destroy.meta.next
  BY <1>6, <1>7, <1>8, ListTypes
<1>10. /\ home.pc \in {"put", "meta"} =>
             home.pk[1] = Installed /\ home.pk[2] >= m.next
       /\ home.pc = "put" => \A j \in home.meta.ids : j < home.pk[2]
       /\ home.pc = "meta" =>
             /\ home.meta.next = home.pk[2] + 1
             /\ \A j \in home.meta.ids : j < home.meta.next
  BY <1>1 DEF SameTask, IndexInv
<1>11. \A pk \in Pks : tab'[t].states[pk] = "dead" => chain'[pk] = "dead"
  BY <1>1, <1>2 DEF IndexInv
<1>12. \A j \in Indices : tab'[t].view = Detail(j) => j < m.next
  BY <1>5 DEF IndexInv
<1> QED
  BY <1>5, <1>8, <1>9, <1>10, <1>11, <1>12 DEF IndexInv, Covers

LEMMA IndexShowing ==
    ASSUME TypeInv, NEW t \in Tabs, BootInv(t), IndexInv(t),
           NEW flag \in {"home", "destroy"}, Showing(t, flag)
    PROVE  IndexInv(t)'
<1> DEFINE m == tab[t].meta
           k == task[t][flag]
           home == task'[t]["home"]
           destroy == task'[t]["destroy"]
<1>1. /\ k.pc = "meta" /\ task'[t][flag].pc = "idle"
      /\ store' = store /\ chain' = chain /\ wire' = wire
      /\ tab'[t].meta = k.meta /\ tab'[t].metaLoaded = tab[t].metaLoaded
      /\ tab'[t].view = IF flag = "home" THEN Detail(k.pk[2]) ELSE Home
      /\ SameTask(task[t]["home"], home)
      /\ SameTask(task[t]["destroy"], destroy)
      /\ \A pk \in Pks : tab'[t].states[pk] \in {tab[t].states[pk], Unknown}
  BY DEF Showing
<1>2. \A j \in Indices : Doomed(j)' => Doomed(j)
  BY <1>1, DoomedBack
<1>3. tab'[t].metaLoaded /\ tab[t].metaLoaded
  BY <1>1, BootReady
<1>4. \A pk \in Pks : tab'[t].states[pk] = "dead" => chain'[pk] = "dead"
  BY <1>1, WalletAssumption DEF IndexInv
<1>5. /\ m.next \in Nat /\ k.meta.next \in Nat /\ k.pk[2] \in Nat
      /\ home.pc # "idle" => home.pk = task[t]["home"].pk
      /\ task[t]["home"].pk[2] \in Nat /\ task[t]["destroy"].meta.next \in Nat
      /\ Indices \subseteq Nat
  <2>1. home.pc # "idle" => home.pk = task[t]["home"].pk
    BY <1>1 DEF SameTask
  <2>2. /\ m \in IdentityMeta /\ Indices \subseteq Nat
        /\ \A f \in {"home", "destroy"} :
              task[t][f].meta \in IdentityMeta /\ task[t][f].pk[2] \in Indices
    BY ListTypes
  <2>3. \A x \in IdentityMeta : x.next \in Nat
    BY ListTypes
  <2> HIDE DEF m, k
  <2>4. k.meta \in IdentityMeta /\ k.pk[2] \in Indices
    BY <2>2 DEF k
  <2>5. task[t]["home"].pk[2] \in Indices /\ task[t]["destroy"].meta \in IdentityMeta
    BY <2>2
  <2> QED
    BY <2>1, <2>2, <2>3, <2>4, <2>5
<1>6. CASE flag = "home"
  <2>1. /\ k.pk[2] >= m.next /\ k.meta.next = k.pk[2] + 1
        /\ \A j \in k.meta.ids : j < k.meta.next
    BY <1>1, <1>6 DEF IndexInv
  <2>2. \A j \in Indices : Doomed(j)' => j < k.meta.next
    <3>1. \A j \in Indices : Doomed(j) => j < m.next
      BY <1>3 DEF IndexInv, Covers
    <3> QED
      BY <1>2, <1>5, <2>1, <3>1
  <2>3. \A j \in Indices : tab'[t].view = Detail(j) => j < k.meta.next
    <3>1. \A i, j : Detail(i) = Detail(j) => i = j
      BY DEF Detail
    <3> QED
      BY <1>1, <1>5, <1>6, <2>1, <3>1
  <2>4. destroy.pc = "meta" =>
           /\ destroy.meta.next <= k.meta.next
           /\ \A j \in destroy.meta.ids : j < destroy.meta.next
           /\ \A j \in Indices : Doomed(j)' => j < destroy.meta.next
    <3> SUFFICES ASSUME destroy.pc = "meta"
                 PROVE  /\ destroy.meta.next <= k.meta.next
                        /\ \A j \in destroy.meta.ids : j < destroy.meta.next
                        /\ \A j \in Indices : Doomed(j)' => j < destroy.meta.next
      OBVIOUS
    <3>1. task[t]["destroy"].pc = "meta" /\ destroy.meta = task[t]["destroy"].meta
      BY <1>1 DEF SameTask
    <3>2. destroy.meta.next <= m.next /\ Covers(destroy.meta)
      BY <3>1 DEF IndexInv
    <3>3. destroy.meta.next <= k.meta.next
      BY <1>5, <2>1, <3>1, <3>2
    <3> QED
      BY <1>2, <3>2, <3>3 DEF Covers
  <2>5. home.pc = "idle"
    BY <1>1, <1>6
  <2> QED
    BY <1>1, <1>3, <1>4, <2>1, <2>2, <2>3, <2>4, <2>5 DEF IndexInv, Covers
<1>7. CASE flag = "destroy"
  <2>1. k.meta.next <= m.next /\ Covers(k.meta)
    BY <1>1, <1>7 DEF IndexInv
  <2>2. \A j \in Indices : Doomed(j)' => j < k.meta.next
    BY <1>2, <2>1 DEF Covers
  <2>3. \A j \in Indices : tab'[t].view # Detail(j)
    BY <1>1, <1>7 DEF Home, Detail
  <2>4. /\ home.pc \in {"put", "meta"} =>
              home.pk[1] = Installed /\ home.pk[2] >= m.next
        /\ home.pc = "put" => \A j \in home.meta.ids : j < home.pk[2]
        /\ home.pc = "meta" =>
              /\ home.meta.next = home.pk[2] + 1
              /\ \A j \in home.meta.ids : j < home.meta.next
    BY <1>1 DEF SameTask, IndexInv
  <2>5. home.pc \in {"put", "meta"} => home.pk[2] >= k.meta.next
    BY <1>5, <2>1, <2>4
  <2>6. destroy.pc = "idle"
    BY <1>1, <1>7
  <2> QED
    BY <1>1, <1>3, <1>4, <2>1, <2>2, <2>3, <2>4, <2>5, <2>6 DEF IndexInv, Covers
<1> QED
  BY <1>6, <1>7

LEMMA IndexLoading ==
    ASSUME TypeInv, NEW t \in Tabs, BootInv(t), IndexInv(t), Loading(t)
    PROVE  IndexInv(t)'
<1>1. PICK a \in MetaValues :
         LET w == tab'[t] IN
         /\ store' = store /\ chain' = chain /\ wire' = wire
         /\ w.view = tab[t].view /\ w.states = tab[t].states
         /\ \A f \in {"home", "destroy"} : SameTask(task[t][f], task'[t][f])
         /\ IF a.value = Corrupt
            THEN w.meta = tab[t].meta /\ w.metaLoaded = tab[t].metaLoaded
            ELSE /\ w.metaLoaded
                 /\ w.meta = IF a.value = Absent THEN DefaultMeta ELSE a.value
  BY DEF Loading
<1>2. /\ ~ tab[t].metaLoaded /\ a.value \in {store.meta, Corrupt}
      /\ \A f \in {"home", "destroy"} : task[t][f].pc = "idle"
      /\ \A i \in Indices : tab[t].view # Detail(i)
  BY DEF BootInv
<1>3. store.meta \in IdentityMeta /\ Covers(store.meta)
  BY <1>2 DEF IndexInv
<1>4. /\ task'[t]["home"].pc = "idle" /\ task'[t]["destroy"].pc = "idle"
      /\ \A i \in Indices : tab'[t].view # Detail(i)
  BY <1>1, <1>2 DEF SameTask
<1>5. \A j \in Indices : Doomed(j)' => Doomed(j)
  BY <1>1, DoomedBack
<1>6. /\ \A j \in store.meta.ids : j < store.meta.next
      /\ \A j \in Indices : Doomed(j)' => j < store.meta.next
  BY <1>3, <1>5 DEF Covers
<1>7. \A pk \in Pks : tab'[t].states[pk] = "dead" => chain'[pk] = "dead"
  BY <1>1 DEF IndexInv
<1>8. CASE a.value = Corrupt
  BY <1>1, <1>2, <1>3, <1>4, <1>6, <1>7, <1>8 DEF IndexInv, Covers
<1>9. CASE a.value # Corrupt
  <2>1. a.value = store.meta /\ a.value # Absent
    BY <1>2, <1>3, <1>9, WalletAssumption
  <2>2. tab'[t].meta = store.meta /\ tab'[t].metaLoaded
    BY <1>1, <1>9, <2>1
  <2> QED
    BY <1>4, <1>6, <1>7, <2>2 DEF IndexInv, Covers
<1> QED
  BY <1>8, <1>9

LEMMA IndexServeKv ==
    ASSUME TypeInv, NEW t \in Tabs, BootInv(t), IndexInv(t), ServeKv(t)
    PROVE  IndexInv(t)'
<1> DEFINE r == Head(kvq[t])
<1>1. /\ r \in KvRequest /\ r \in Range(kvq[t])
      /\ UNCHANGED <<chain, tab, task, wire>>
      /\ \/ r.op = "store" /\ store' = [store EXCEPT ![r.key] = r.value]
         \/ store' = store
  BY ServeKvEffect DEF TypeInv
<1>2. \A j \in Indices : Doomed(j)' => Doomed(j)
  BY <1>1, DoomedBack
<1> HIDE DEF r
<1>3. ASSUME ~ tab[t].metaLoaded
      PROVE  store'.meta = store.meta
  <2>1. r.op = "store" => r.key = "seed"
    BY <1>1, <1>3, KvShape DEF BootInv, IsMetaStore
  <2>2. store \in [seed : Seeds \cup {Absent}, meta : IdentityMeta \cup {Absent}]
    BY DEF TypeInv, TypeOK
  <2> QED
    BY <1>1, <2>1, <2>2
<1>4. \A m : Covers(m) =>
         /\ \A i \in m.ids : i < m.next
         /\ \A i \in Indices : Doomed(i)' => i < m.next
  BY <1>2 DEF Covers
<1> QED
  BY <1>1, <1>3, <1>4 DEF IndexInv, Covers

LEMMA IndexServeContract ==
    ASSUME Installed \in Seeds, TypeInv, NEW t \in Tabs, IndexInv(t), NEW r \in wire, ServeContract(r)
    PROVE  IndexInv(t)'
<1>1. /\ UNCHANGED <<store, tab, task>> /\ wire' = wire \ {r}
      /\ chain' = [chain EXCEPT ![r.pk] = After(r)] \/ chain' = chain
  BY Zenon DEF ServeContract
<1>2. r.pk \in Pks /\ chain \in [Pks -> {"absent", "live", "dead"}]
  BY DEF TypeInv, TypeOK, ContractRequest
<1>3. \A pk \in Pks : chain[pk] = "dead" => chain'[pk] = "dead"
  BY <1>1, <1>2 DEF After
<1>4. \A pk \in Pks : chain'[pk] = "dead" =>
         chain[pk] = "dead" \/ (r.op = "marker" /\ r.pk = pk)
  BY <1>1, <1>2 DEF After
<1>5. \A j \in Indices : Doomed(j)' => Doomed(j)
  <2> SUFFICES ASSUME NEW j \in Indices, Doomed(j)'
               PROVE  Doomed(j)
    OBVIOUS
  <2>1. \/ chain'[<<Installed, j>>] = "dead"
        \/ \E q \in wire : q.op = "marker" /\ q.pk = <<Installed, j>>
    BY <1>1 DEF Doomed, MarkerUnderWay
  <2>2. <<Installed, j>> \in Pks
    BY DEF Pks
  <2> QED
    BY <1>4, <2>1, <2>2 DEF Doomed, MarkerUnderWay
<1>6. \A m : Covers(m) =>
         /\ \A i \in m.ids : i < m.next
         /\ \A i \in Indices : Doomed(i)' => i < m.next
  BY <1>5 DEF Covers
<1> QED
  BY <1>1, <1>3, <1>6 DEF IndexInv, Covers

-----------------------------------------------------------------------------
(* The list as long as the page is not loaded again.                       *)

ListInv ==
    /\ SeedInv
    /\ \A t \in Tabs : BootInv(t) /\ ("reload" \notin Faults => IndexInv(t))

LEMMA ListInvInit ==
    ASSUME ListScope
    PROVE  Init => ListInv
BY SeedInvInit, BootInit, IndexInit DEF ListScope, ListInv

LEMMA IndexNext ==
    ASSUME ListScope, "reload" \notin Faults, TypeInv, TypeInv', InstalledInv,
           NEW t \in Tabs, BootInv(t), IndexInv(t), [Next]_vars
    PROVE  IndexInv(t)'
<1>1. Installed \in Seeds /\ ~ Reload(t)
  BY DEF ListScope, Reload
<1>2. CASE Plain(t)
  BY <1>1, <1>2, IndexPlain
<1>3. CASE Created(t) \/ Marked(t)
  BY <1>3, IndexCreated, IndexMarked
<1>4. CASE Listing(t) \/ Dropping(t)
  BY <1>4, IndexListing, IndexDropping
<1>5. CASE Showing(t, "home") \/ Showing(t, "destroy")
  BY <1>5, IndexShowing
<1>6. CASE Loading(t) \/ ServeKv(t)
  BY <1>6, IndexLoading, IndexServeKv
<1>7. CASE \E r \in wire : ServeContract(r)
  BY <1>1, <1>7, IndexServeContract
<1> QED
  BY <1>1, <1>2, <1>3, <1>4, <1>5, <1>6, <1>7, ListSteps

LEMMA ListInvNext ==
    ASSUME ListScope
    PROVE  ListInv /\ [Next]_vars => ListInv'
<1> SUFFICES ASSUME ListInv, [Next]_vars
             PROVE  ListInv'
  OBVIOUS
<1>1. SeedInv /\ SeedInv'
  BY SeedInvNext DEF ListInv
<1>2. TypeInv /\ TypeInv' /\ InstalledInv
  BY <1>1 DEF SeedInv, ListScope
<1>3. ASSUME NEW t \in Tabs
      PROVE  BootInv(t)' /\ ("reload" \notin Faults => IndexInv(t)')
  BY <1>2, BootNext, IndexNext DEF ListInv
<1> QED
  BY <1>1, <1>3 DEF ListInv

LEMMA FreshIndexStep ==
    ASSUME ListScope, "reload" \notin Faults, ListInv, [Next]_vars,
           NEW r \in wire' \ wire, r.op = "put", r.id # 0
    PROVE  chain[r.pk] # "dead"
<1>1. TypeInv /\ TypeInv' /\ InstalledInv /\ Installed \in Seeds
  BY TypeInvNext DEF ListInv, SeedInv, ListScope
<1>2. PICK t \in Tabs : TRUE
  <2>1. CASE Tabs = {}
    BY <2>1 DEF Next, vars, ServeContract, Dispatch
  <2> QED
    BY <2>1
<1>3. BootInv(t) /\ IndexInv(t)
  BY DEF ListInv
<1>4. Created(t)
  <2>1. ~ Plain(t)
    BY DEF Plain
  <2>2. ASSUME Marked(t)
        PROVE  FALSE
    <3>1. PICK q : q.op = "marker" /\ wire' = wire \cup {q}
      BY <2>2 DEF Marked
    <3>2. r = q
      BY <3>1
    <3> QED
      BY <3>1, <3>2
  <2>3. ~ Listing(t) /\ ~ Dropping(t)
    BY DEF Listing, Dropping, Sent
  <2>4. ~ Showing(t, "home") /\ ~ Showing(t, "destroy") /\ ~ Loading(t)
    BY DEF Showing, Loading
  <2>5. ~ Reload(t) /\ ~ ServeKv(t) /\ ~ \E q \in wire : ServeContract(q)
    BY DEF Reload, ServeKv, ServeContract
  <2> QED
    BY <1>1, <2>1, <2>2, <2>3, <2>4, <2>5, ListSteps
<1>5. PICK i \in Indices :
        /\ i = AllocIndex(tab[t].meta) /\ tab[t].metaLoaded
        /\ r.pk = <<Installed, i>>
  BY <1>4 DEF Created
<1>6. tab[t].meta.next <= i
  BY <1>1, <1>5, ListTypes, AllocAbove
<1>7. ~ Doomed(i)
  <2>1. Doomed(i) => i < tab[t].meta.next
    BY <1>3, <1>5 DEF IndexInv, Covers
  <2>2. i \in Nat /\ tab[t].meta.next \in Nat
    BY <1>1, ListTypes
  <2> QED
    BY <1>6, <2>1, <2>2
<1> QED
  BY <1>5, <1>7 DEF Doomed

\* alloc_index and next_index: one session over a delegate that holds a seed
\* creates no persona under the index of one that was destroyed, whatever is
\* refused, fails, cannot be decoded or is cut short, as long as the page is
\* not loaded again; also when a task outlives its screen.
THEOREM NoIndexIsUsedAgain ==
    ASSUME ListScope, "reload" \notin Faults
    PROVE  Spec => FreshIndex
<1> DEFINE Fresh == \A r \in wire' \ wire :
                       r.op = "put" /\ r.id # 0 => chain[r.pk] # "dead"
<1>1. ListInv /\ [Next]_vars => [Fresh]_vars
  BY FreshIndexStep
<1> HIDE DEF Fresh
<1>2. Spec => [][Fresh]_vars
  BY <1>1, ListInvInit, ListInvNext, PTL DEF Spec
<1> QED
  BY <1>2 DEF FreshIndex, Fresh

LEMMA SeenDeadStep ==
    ASSUME ListScope, "reload" \notin Faults, ListInv, [Next]_vars,
           NEW t \in Tabs, NEW pk \in Pks, tab[t].states[pk] = "dead"
    PROVE  tab'[t].states[pk] # "live"
<1>1. TypeInv /\ TypeInv' /\ InstalledInv /\ Installed \in Seeds
  BY TypeInvNext DEF ListInv, SeedInv, ListScope
<1>2. BootInv(t) /\ IndexInv(t) /\ Unknown \notin {"live", "dead"}
  BY WalletAssumption DEF ListInv
<1>3. CASE Plain(t)
  BY <1>3 DEF Plain, SameViews
<1>4. CASE Created(t) \/ Marked(t) \/ Dropping(t)
  BY <1>4 DEF Created, Marked, Dropping
<1>5. CASE Listing(t)
  <2> DEFINE k == task[t]["home"]
  <2>1. /\ k.pc = "put"
        /\ tab'[t].states[pk] = IF pk = k.pk THEN "live" ELSE tab[t].states[pk]
    BY <1>5 DEF Listing
  <2>2. tab[t].metaLoaded /\ k.pk[1] = Installed /\ k.pk[2] >= tab[t].meta.next
    BY <1>2, <2>1, BootReady DEF IndexInv
  <2>3. ASSUME pk = k.pk
        PROVE  FALSE
    <3>1. pk = <<Installed, pk[2]>> /\ pk[2] \in Indices
      BY <2>2, <2>3 DEF Pks
    <3>2. Doomed(pk[2])
      BY <1>2, <3>1 DEF IndexInv, Doomed
    <3>3. pk[2] < tab[t].meta.next
      BY <1>2, <2>2, <3>1, <3>2 DEF IndexInv, Covers
    <3>4. pk[2] \in Nat /\ tab[t].meta.next \in Nat
      BY <1>1, <3>1, ListTypes
    <3> QED
      BY <2>2, <2>3, <3>3, <3>4
  <2> QED
    BY <2>1, <2>3
<1>6. CASE Showing(t, "home") \/ Showing(t, "destroy")
  BY <1>2, <1>6 DEF Showing
<1>7. CASE Loading(t)
  BY <1>7 DEF Loading
<1>8. CASE ServeKv(t) \/ \E r \in wire : ServeContract(r)
  BY <1>8 DEF ServeKv, ServeContract
<1>9. ~ Reload(t)
  BY DEF Reload
<1> QED
  BY <1>1, <1>3, <1>4, <1>5, <1>6, <1>7, <1>8, <1>9, ListSteps

\* merge_state on IDENTITY_STATES, in the same scope: a persona that was seen
\* destroyed is not shown alive again, neither by a publish or a notification
\* that comes late nor as a new one.
THEOREM SeenDeadStaysDead ==
    ASSUME ListScope, "reload" \notin Faults
    PROVE  Spec => DeadIsSeenDead
<1> DEFINE Stays == \A t \in Tabs, pk \in Pks :
                       tab[t].states[pk] = "dead" => tab'[t].states[pk] # "live"
<1>1. ListInv /\ [Next]_vars => [Stays]_vars
  BY SeenDeadStep
<1> HIDE DEF Stays
<1>2. Spec => [][Stays]_vars
  BY <1>1, ListInvInit, ListInvNext, PTL DEF Spec
<1> QED
  BY <1>2 DEF DeadIsSeenDead, Stays

-----------------------------------------------------------------------------
(* Nothing a session shows is lost: what the delegate is sent last.        *)

\* A marker is not refused, a store does not fail, and a task ends with the
\* screen that started it.  TLC refutes the property without any one of them.
KeptScope ==
    ListScope /\ KeepsTasks = FALSE /\ "refuse" \notin Faults /\ "fail" \notin Faults

LEMMA LastSame ==
    ASSUME NEW t \in Tabs, kvq'[t] = kvq[t], store'.meta = store.meta
    PROVE  \A m : IsLastMeta(t, m)' <=> IsLastMeta(t, m)
BY DEF IsLastMeta

LEMMA LastUnique ==
    ASSUME TypeInv, NEW t \in Tabs, NEW m, NEW n, IsLastMeta(t, m), IsLastMeta(t, n)
    PROVE  m = n
<1>1. Len(kvq[t]) \in Nat
  BY LenProperties DEF TypeInv, TypeOK
<1>2. CASE \A j \in 1..Len(kvq[t]) : ~ IsMetaStore(kvq[t][j])
  BY <1>2 DEF IsLastMeta
<1>3. CASE \E j \in 1..Len(kvq[t]) : IsMetaStore(kvq[t][j])
  <2>1. PICK i \in 1..Len(kvq[t]) :
          /\ IsMetaStore(kvq[t][i]) /\ kvq[t][i].value = m
          /\ \A l \in i + 1..Len(kvq[t]) : ~ IsMetaStore(kvq[t][l])
    BY <1>3 DEF IsLastMeta
  <2>2. PICK j \in 1..Len(kvq[t]) :
          /\ IsMetaStore(kvq[t][j]) /\ kvq[t][j].value = n
          /\ \A l \in j + 1..Len(kvq[t]) : ~ IsMetaStore(kvq[t][l])
    BY <1>3 DEF IsLastMeta
  <2>3. i = j
    BY <1>1, <2>1, <2>2
  <2> QED
    BY <2>1, <2>2, <2>3
<1> QED
  BY <1>2, <1>3

LEMMA LastSent ==
    ASSUME TypeInv, NEW t \in Tabs, NEW m \in IdentityMeta, NEW id \in Ids,
           kvq'[t] = Append(kvq[t], Store("meta", m, id)), NEW n
    PROVE  IsLastMeta(t, n)' <=> n = m
<1> DEFINE r == Store("meta", m, id)
           l == Len(kvq[t])
<1>1. r \in KvRequest /\ IsMetaStore(r) /\ r.value = m
  BY StoreShape DEF IsMetaStore, Store
<1>2. kvq[t] \in Seq(KvRequest) /\ kvq'[t] = Append(kvq[t], r)
  BY DEF TypeInv, TypeOK
<1> HIDE DEF r
<1>3. /\ l \in Nat /\ Len(kvq'[t]) = l + 1 /\ kvq'[t][l + 1] = r
      /\ \A i \in 1..l : kvq'[t][i] = kvq[t][i]
  BY <1>1, <1>2, AppendProperties, LenProperties
<1> HIDE DEF l
<1>4. IsLastMeta(t, m)'
  BY <1>1, <1>3 DEF IsLastMeta, IsMetaStore
<1>5. ASSUME IsLastMeta(t, n)'
      PROVE  n = m
  <2>1. ~ \A j \in 1..Len(kvq'[t]) : ~ IsMetaStore(kvq'[t][j])
    BY <1>1, <1>3
  <2>2. PICK j \in 1..Len(kvq'[t]) :
          /\ kvq'[t][j].value = n
          /\ \A i \in j + 1..Len(kvq'[t]) : ~ IsMetaStore(kvq'[t][i])
    BY <1>5, <2>1 DEF IsLastMeta, IsMetaStore
  <2>3. j = l + 1
    BY <1>1, <1>3, <2>2
  <2> QED
    BY <1>1, <1>3, <2>2, <2>3
<1> QED
  BY <1>4, <1>5

\* The delegate reads a request: what it will hold in the end is the same.
LEMMA LastServed ==
    ASSUME TypeInv, NEW t \in Tabs, "fail" \notin Faults, ServeKv(t), NEW m
    PROVE  IsLastMeta(t, m)' <=> IsLastMeta(t, m)
<1> DEFINE r == Head(kvq[t])
           q == Tail(kvq[t])
           l == Len(q)
<1>1. /\ r \in KvRequest /\ kvq[t] # <<>>
      /\ IF r.op = "store" THEN store' = [store EXCEPT ![r.key] = r.value]
                           ELSE store' = store
  BY ServeKvEffect DEF TypeInv, ServeKv
<1>2. /\ kvq[t] \in Seq(KvRequest) /\ kvq'[t] = q
      /\ store \in [seed : Seeds \cup {Absent}, meta : IdentityMeta \cup {Absent}]
  BY DEF ServeKv, TypeInv, TypeOK
<1>3. /\ l \in Nat /\ Len(kvq[t]) = l + 1 /\ kvq[t][1] = r
      /\ \A i \in 1..l : q[i] = kvq[t][i + 1]
  BY <1>1, <1>2, HeadTailProperties, LenProperties
<1>4. /\ IsMetaStore(r) => store'.meta = r.value
      /\ ~ IsMetaStore(r) => store'.meta = store.meta
  BY <1>1, <1>2, KvShape DEF IsMetaStore
<1> HIDE DEF r, q, l
<1>5. ASSUME NEW j \in 1..l + 1, j # 1
      PROVE  j - 1 \in 1..l /\ kvq[t][j] = q[j - 1]
  <2>1. j - 1 \in 1..l /\ (j - 1) + 1 = j
    BY <1>3, <1>5
  <2> QED
    BY <1>3, <2>1
<1>6. CASE \E j \in 1..l : IsMetaStore(q[j])
  <2>1. ASSUME IsLastMeta(t, m)'
        PROVE  IsLastMeta(t, m)
    <3>1. PICK j \in 1..l :
            /\ IsMetaStore(q[j]) /\ q[j].value = m
            /\ \A i \in j + 1..l : ~ IsMetaStore(q[i])
      BY <1>2, <1>6, <2>1 DEF IsLastMeta, IsMetaStore, l
    <3>2. ASSUME NEW i \in j + 2..l + 1
          PROVE  ~ IsMetaStore(kvq[t][i])
      <4>1. i - 1 \in j + 1..l /\ i - 1 \in 1..l /\ (i - 1) + 1 = i
        BY <1>3
      <4> QED
        BY <1>3, <3>1, <4>1
    <3> QED
      BY <1>3, <3>1, <3>2 DEF IsLastMeta
  <2>2. ASSUME IsLastMeta(t, m)
        PROVE  IsLastMeta(t, m)'
    <3>1. PICK k \in 1..l : IsMetaStore(q[k])
      BY <1>6
    <3>2. PICK j \in 1..l + 1 :
            /\ IsMetaStore(kvq[t][j]) /\ kvq[t][j].value = m
            /\ \A i \in j + 1..l + 1 : ~ IsMetaStore(kvq[t][i])
      <4>1. IsMetaStore(kvq[t][k + 1]) /\ k + 1 \in 1..Len(kvq[t])
        BY <1>3, <3>1
      <4> QED
        BY <1>3, <2>2, <4>1 DEF IsLastMeta
    <3>3. j - 1 \in 1..l /\ (j - 1) + 1 = j
      BY <1>3, <3>1, <3>2
    <3>4. \A i \in (j - 1) + 1..l : ~ IsMetaStore(q[i])
      BY <1>3, <3>2, <3>3
    <3> QED
      BY <1>2, <1>3, <3>2, <3>3, <3>4 DEF IsLastMeta, IsMetaStore, l
  <2> QED
    BY <2>1, <2>2
<1>7. CASE \A j \in 1..l : ~ IsMetaStore(q[j])
  <2>1. IsLastMeta(t, m)' <=> store'.meta = m
    BY <1>2, <1>7 DEF IsLastMeta, IsMetaStore, l
  <2>2. CASE IsMetaStore(r)
    <3>1. ASSUME NEW i \in 1 + 1..l + 1
          PROVE  ~ IsMetaStore(kvq[t][i])
      <4>1. i \in 1..l + 1 /\ i # 1
        BY <1>3
      <4> QED
        BY <1>5, <1>7, <4>1
    <3>2. 1 \in 1..Len(kvq[t]) /\ IsMetaStore(kvq[t][1])
      BY <1>3, <2>2
    <3>3. IsLastMeta(t, m) <=> kvq[t][1].value = m
      <4>1. ASSUME NEW j \in 1..Len(kvq[t]), IsMetaStore(kvq[t][j])
            PROVE  j = 1
        BY <1>3, <1>5, <1>7, <4>1
      <4> QED
        BY <1>3, <3>1, <3>2, <4>1 DEF IsLastMeta
    <3> QED
      BY <1>3, <1>4, <2>1, <2>2, <3>3
  <2>3. CASE ~ IsMetaStore(r)
    <3>1. ASSUME NEW i \in 1..l + 1
          PROVE  ~ IsMetaStore(kvq[t][i])
      <4>1. CASE i = 1
        BY <1>3, <2>3, <4>1
      <4>2. CASE i # 1
        BY <1>5, <1>7, <4>2
      <4> QED
        BY <4>1, <4>2
    <3> QED
      BY <1>3, <1>4, <2>1, <2>3, <3>1 DEF IsLastMeta
  <2> QED
    BY <2>2, <2>3
<1> QED
  BY <1>6, <1>7

-----------------------------------------------------------------------------
(* A task that waits has its component on the screen, so one waits at most. *)

LEMMA FitsBecome ==
    ASSUME TypeInv, KeepsTasks = FALSE, NEW t \in Tabs, NEW w, NEW ks,
           Become(t, w, ks)
    PROVE  Fits(t)'
<1>1. {"home", "destroy"} \subseteq BusyFlags
  BY DEF BusyFlags
<1>2. tab'[t] = w
  BY BecomeEffect DEF TypeInv
<1>3. ASSUME NEW f \in {"home", "destroy"}
      PROVE  task'[t][f].pc = "idle" \/ Mounted(tab'[t], f, task'[t][f])
  <2>1. CASE Mounted(w, f, ks[f])
    <3>1. task'[t][f] = ks[f]
      BY <1>1, <2>1, BecomeEffect DEF TypeInv
    <3> QED
      BY <1>2, <2>1, <3>1
  <2>2. CASE ~ Mounted(w, f, ks[f])
    <3>1. task'[t][f] = IdleTask
      BY <1>1, <2>2, BecomeEffect DEF TypeInv
    <3> QED
      BY <3>1, IdleTaskType
  <2> QED
    BY <2>1, <2>2
<1> QED
  BY <1>3 DEF Fits, Mounted, Screen, BootComplete

LEMMA FitsSame ==
    ASSUME NEW t \in Tabs, Fits(t), UNCHANGED <<tab, task>>
    PROVE  Fits(t)'
BY DEF Fits, Mounted, Screen, BootComplete

LEMMA FitsInit ==
    ASSUME Init, NEW t \in Tabs
    PROVE  Fits(t)
BY IdleTaskType DEF Init, Fits, BusyFlags

LEMMA FitsNext ==
    ASSUME SingleSession, TypeInv, KeepsTasks = FALSE, NEW t \in Tabs, Fits(t),
           [Next]_vars
    PROVE  Fits(t)'
<1>1. \A u \in Tabs : u = t
  BY DEF SingleSession
<1>2. CASE UNCHANGED vars
  BY <1>2, FitsSame DEF vars
<1>3. CASE User(t)
  <2>1. CASE GetStarted(t) \/ Restore(t)
    BY <2>1, FitsBecome DEF GetStarted, Restore, StoreSeed
  <2>2. CASE Create(t)
    BY <2>2, FitsBecome DEF Create
  <2>3. ASSUME NEW flag, NEW pc, NEW i \in Indices, Push(t, flag, pc, i)
        PROVE  Fits(t)'
    BY <2>3, FitsBecome DEF Push
  <2>4. ASSUME NEW view, Look(t, view)
        PROVE  Fits(t)'
    BY <2>4, FitsBecome DEF Look
  <2> QED
    BY <1>3, <2>1, <2>2, <2>3, <2>4
       DEF User, Publish, Destroy, OpenDetail, OpenBackup, Back
<1>4. CASE Proceed(t)
  <2>1. ASSUME NEW flag, NEW w, NEW pk, NEW meta, StoreMeta(t, flag, w, pk, meta)
        PROVE  Fits(t)'
    BY <2>1, FitsBecome DEF StoreMeta
  <2>2. CASE ConfirmSeed(t)
    BY <2>1, <2>2, FitsBecome, Zenon DEF ConfirmSeed
  <2>3. CASE EndProbe(t) \/ ConfirmPut(t) \/ ConfirmMarker(t)
    BY <2>1, <2>3, Zenon DEF EndProbe, ConfirmPut, ConfirmMarker
  <2>4. ASSUME NEW f, ConfirmSlot(t, f) \/ ConfirmMeta(t, f)
        PROVE  Fits(t)'
    BY <2>4, FitsBecome DEF ConfirmSlot, ConfirmMeta
  <2> QED
    BY <1>4, <2>2, <2>3, <2>4 DEF Proceed
<1>5. CASE Session(t)
  <2>1. ASSUME NEW f, GiveUp(t, f)
        PROVE  Fits(t)'
    BY <2>1, FitsBecome DEF GiveUp
  <2>2. CASE FetchAll(t) \/ Watchdog(t)
    BY <2>2, FitsBecome DEF FetchAll, Watchdog
  <2>3. CASE Reload(t)
    <3>1. \A f \in {"home", "destroy"} : task'[t][f] = IdleTask
      BY <2>3 DEF Reload, TypeInv, TypeOK, BusyFlags
    <3> QED
      BY <3>1, IdleTaskType DEF Fits
  <2>4. ASSUME NEW pk, NEW state, Arrive(t, pk, state)
        PROVE  Fits(t)'
    BY <2>4, FitsBecome DEF Arrive
  <2> QED
    BY <1>5, <2>1, <2>2, <2>3, <2>4 DEF Session
<1>6. ASSUME NEW a \in answers, Dispatch(a)
      PROVE  Fits(t)'
  <2>1. a.tab = t
    BY <1>1, AnswerShape DEF TypeInv, TypeOK
  <2>2. CASE ContractAck(a) \/ StoredAck(a)
    BY <2>1, <2>2, FitsBecome DEF ContractAck, StoredAck
  <2>3. CASE SeedValue(a) \/ MetaValue(a) \/ EmptyValue(a)
    BY <2>1, <2>3, FitsBecome DEF SeedValue, MetaValue, EmptyValue
  <2> QED
    BY <1>6, <2>2, <2>3 DEF Dispatch
<1>7. CASE ServeKv(t) \/ \E r \in wire : ServeContract(r)
  BY <1>7, FitsSame DEF ServeKv, ServeContract
<1> QED
  BY <1>1, <1>2, <1>3, <1>4, <1>5, <1>6, <1>7 DEF Next

\* On no screen do both tasks wait; a task that waits has the seed.
LEMMA FitsOne ==
    ASSUME TypeInv, InstalledInv, Installed \in Seeds, NEW t \in Tabs, Fits(t)
    PROVE  /\ task[t]["home"].pc = "idle" \/ task[t]["destroy"].pc = "idle"
           /\ task[t]["destroy"].pc # "idle" => tab[t].seed = Installed
<1> DEFINE k == task[t]["destroy"]
<1>1. task[t]["home"].pc = "idle" \/ Screen(tab[t]) = Home
  BY DEF Fits, Mounted
<1>2. k.pc = "idle" \/ Screen(tab[t]) = Detail(k.pk[2])
  BY DEF Fits, Mounted
<1>3. k.pk[2] \in Indices
  BY ListTypes
<1>4. Detail(k.pk[2]) # Home
  BY DEF Detail, Home
<1> QED
  BY <1>1, <1>2, <1>3, <1>4, OnScreen

-----------------------------------------------------------------------------
(* What is destroyed, or about to be, stays so.                            *)

LEMMA MarkersNext ==
    ASSUME ListScope, TypeInv, TypeInv', InstalledInv, EntryInv, MarkersLand,
           NEW t \in Tabs, [Next]_vars
    PROVE  MarkersLand'
<1>1. \A r \in wire : r.pk \in Pks
  BY DEF TypeInv, TypeOK, ContractRequest
<1>2. SUFFICES ASSUME NEW r \in wire', r.op = "marker"
               PROVE  chain[r.pk] # "absent" /\ r.pk \in Pks
  BY ChainKept DEF MarkersLand
<1>3. CASE r \in wire
  BY <1>1, <1>2, <1>3 DEF MarkersLand
<1>4. CASE r \notin wire
  <2>1. CASE Marked(t)
    <3>1. PICK i \in Indices :
            /\ tab[t].states[<<Installed, i>>] # Unknown
            /\ wire' = wire \cup {[tab |-> t, op |-> "marker",
                                   pk |-> <<Installed, i>>, id |-> sent + 1]}
      BY <2>1 DEF Marked
    <3>2. r.pk = <<Installed, i>> /\ r.pk \in Pks
      BY <1>2, <1>4, <3>1 DEF ListScope, Pks
    <3> QED
      BY <3>1, <3>2 DEF EntryInv, TabExists
  <2>2. CASE Created(t)
    <3>1. PICK q : q.op = "put" /\ wire' = wire \cup {q}
      BY <2>2 DEF Created
    <3>2. r = q
      BY <1>2, <1>4, <3>1
    <3> QED
      BY <1>2, <3>1, <3>2
  <2>3. CASE Plain(t)
    BY <1>2, <1>4, <2>3 DEF Plain
  <2>4. CASE Listing(t) \/ Dropping(t)
    BY <1>2, <1>4, <2>4 DEF Listing, Dropping, Sent
  <2>5. CASE Showing(t, "home") \/ Showing(t, "destroy") \/ Loading(t)
    BY <1>2, <1>4, <2>5 DEF Showing, Loading
  <2>6. CASE Reload(t)
    <3>1. PICK q \in wire : r = IF q.tab = t THEN [q EXCEPT !.tab = Absent] ELSE q
      BY <1>2, <2>6 DEF Reload
    <3>2. q \in ContractRequest
      BY DEF TypeInv, TypeOK
    <3>3. r.op = q.op /\ r.pk = q.pk
      BY <3>1, <3>2 DEF ContractRequest
    <3> QED
      BY <1>1, <1>2, <3>3 DEF MarkersLand
  <2>7. CASE ServeKv(t) \/ \E q \in wire : ServeContract(q)
    BY <1>2, <1>4, <2>7 DEF ServeKv, ServeContract
  <2> QED
    BY <2>1, <2>2, <2>3, <2>4, <2>5, <2>6, <2>7, ListSteps
<1> QED
  BY <1>3, <1>4

LEMMA DoomedMore ==
    ASSUME chain' = chain, wire \subseteq wire'
    PROVE  \A i \in Indices : Doomed(i) => Doomed(i)'
BY DEF Doomed, MarkerUnderWay

LEMMA DoomedServed ==
    ASSUME Installed \in Seeds, TypeInv, "refuse" \notin Faults, MarkersLand,
           NEW r \in wire, ServeContract(r)
    PROVE  \A i \in Indices : Doomed(i) => Doomed(i)'
<1>1. wire' = wire \ {r} /\ r.pk \in Pks /\ chain \in [Pks -> {"absent", "live", "dead"}]
  BY DEF ServeContract, TypeInv, TypeOK, ContractRequest
<1>2. chain' = [chain EXCEPT ![r.pk] = After(r)] \/ (~ Takes(r) /\ chain' = chain)
  BY Zenon DEF ServeContract
<1>3. r.op = "marker" => chain'[r.pk] = "dead"
  BY <1>1, <1>2 DEF Takes, After, MarkersLand
<1>4. \A pk \in Pks : chain[pk] = "dead" => chain'[pk] = "dead"
  BY <1>1, <1>2 DEF After
<1> SUFFICES ASSUME NEW i \in Indices, Doomed(i)
             PROVE  Doomed(i)'
  OBVIOUS
<1>5. <<Installed, i>> \in Pks
  BY DEF Pks
<1>6. CASE chain[<<Installed, i>>] = "dead"
  BY <1>4, <1>5, <1>6 DEF Doomed
<1>7. CASE MarkerUnderWay(<<Installed, i>>)
  <2>1. PICK q \in wire : q.op = "marker" /\ q.pk = <<Installed, i>>
    BY <1>7 DEF MarkerUnderWay
  <2>2. CASE q = r
    BY <1>3, <2>1, <2>2 DEF Doomed
  <2>3. CASE q # r
    BY <1>1, <2>1, <2>3 DEF Doomed, MarkerUnderWay
  <2> QED
    BY <2>2, <2>3
<1> QED
  BY <1>6, <1>7 DEF Doomed

-----------------------------------------------------------------------------
(* What is sent last, step by step.                                        *)

\* A step leaves the task f, and what is sent last.
LEMMA KeptLast ==
    ASSUME NEW t \in Tabs, KeptInv(t), \A m : IsLastMeta(t, m)' <=> IsLastMeta(t, m),
           NEW f \in {"home", "destroy"}, SameTask(task[t][f], task'[t][f])
    PROVE  \A m \in IdentityMeta :
              task'[t][f].pc = "meta" /\ task'[t][f].meta = m => IsLastMeta(t, m)'
<1> SUFFICES ASSUME NEW m \in IdentityMeta, task'[t][f].pc = "meta",
                    task'[t][f].meta = m
             PROVE  IsLastMeta(t, m)'
  OBVIOUS
<1>1. task[t][f].pc = "meta" /\ task[t][f].meta = m
  BY DEF SameTask
<1> QED
  BY <1>1 DEF KeptInv

LEMMA KeptHome ==
    ASSUME NEW t \in Tabs, KeptInv(t), tab'[t].meta = tab[t].meta,
           SameTask(task[t]["home"], task'[t]["home"])
    PROVE  task'[t]["home"].pc = "put" =>
              /\ task'[t]["home"].meta = tab'[t].meta
              /\ task'[t]["home"].pk[2] >= tab'[t].meta.next
BY DEF SameTask, KeptInv

LEMMA KeptDestroy ==
    ASSUME NEW t \in Tabs, KeptInv(t), \A i \in Indices : Doomed(i) => Doomed(i)',
           SameTask(task[t]["destroy"], task'[t]["destroy"])
    PROVE  task'[t]["destroy"].pc \in {"marker", "meta"} =>
              /\ task'[t]["destroy"].pk[1] = Installed
              /\ \A i \in Indices : task'[t]["destroy"].pk[2] = i => Doomed(i)'
<1> SUFFICES ASSUME task'[t]["destroy"].pc \in {"marker", "meta"}
             PROVE  /\ task'[t]["destroy"].pk[1] = Installed
                    /\ \A i \in Indices : task'[t]["destroy"].pk[2] = i => Doomed(i)'
  OBVIOUS
<1>1. /\ task'[t]["destroy"].pk = task[t]["destroy"].pk
      /\ task[t]["destroy"].pc \in {"marker", "meta"}
  BY DEF SameTask
<1> QED
  BY <1>1 DEF KeptInv

\* A step that shows the same list, and leaves what is sent last.
LEMMA KeptHolds ==
    ASSUME TypeInv, NEW t \in Tabs, KeptInv(t),
           \A m : IsLastMeta(t, m)' <=> IsLastMeta(t, m),
           \A i \in Indices : Doomed(i) => Doomed(i)',
           tab'[t].meta = tab[t].meta, tab'[t].metaLoaded = tab[t].metaLoaded,
           tab'[t].seed = tab[t].seed \/ tab'[t].seed = Installed
    PROVE  tab'[t].metaLoaded =>
              \A m \in IdentityMeta : IsLastMeta(t, m)' => Holds(t, m)'
<1> SUFFICES ASSUME tab'[t].metaLoaded, NEW m \in IdentityMeta, IsLastMeta(t, m)'
             PROVE  Holds(t, m)'
  OBVIOUS
<1>1. tab[t].meta.ids \subseteq Indices
  BY ListTypes
<1>2. Holds(t, m)
  BY DEF KeptInv
<1> QED
  BY <1>1, <1>2 DEF Holds

LEMMA KeptSame ==
    ASSUME TypeInv, NEW t \in Tabs, KeptInv(t),
           \A m : IsLastMeta(t, m)' <=> IsLastMeta(t, m),
           \A i \in Indices : Doomed(i) => Doomed(i)',
           tab'[t].meta = tab[t].meta, tab'[t].metaLoaded = tab[t].metaLoaded,
           tab'[t].seed = tab[t].seed \/ tab'[t].seed = Installed,
           \A f \in {"home", "destroy"} : SameTask(task[t][f], task'[t][f])
    PROVE  KeptInv(t)'
<1>1. \A f \in {"home", "destroy"}, m \in IdentityMeta :
         task'[t][f].pc = "meta" /\ task'[t][f].meta = m => IsLastMeta(t, m)'
  BY KeptLast
<1> QED
  BY <1>1, KeptHome, KeptDestroy, KeptHolds DEF KeptInv

LEMMA KeptCreated ==
    ASSUME TypeInv, NEW t \in Tabs, KeptInv(t), Created(t)
    PROVE  KeptInv(t)'
<1> DEFINE n == task'[t]["home"]
<1>1. PICK i \in Indices :
        /\ i = AllocIndex(tab[t].meta)
        /\ Waits(t, "home", "put", <<Installed, i>>, tab[t].meta)
  BY DEF Created
<1>2. /\ store' = store /\ chain' = chain /\ kvq' = kvq /\ wire \subseteq wire'
      /\ tab'[t].meta = tab[t].meta /\ tab'[t].metaLoaded = tab[t].metaLoaded
      /\ tab'[t].seed = tab[t].seed
      /\ SameTask(task[t]["destroy"], task'[t]["destroy"])
  BY DEF Created, SameShown
<1>3. /\ \A m : IsLastMeta(t, m)' <=> IsLastMeta(t, m)
      /\ \A j \in Indices : Doomed(j) => Doomed(j)'
  BY <1>2, LastSame, DoomedMore
<1>4. n.pc = "put" => n.meta = tab'[t].meta /\ n.pk[2] >= tab'[t].meta.next
  <2>1. tab[t].meta.next <= i /\ tab[t].meta.next \in Nat /\ i \in Nat
    BY <1>1, ListTypes, AllocAbove
  <2>2. n.pc = "put" => n.meta = tab[t].meta /\ n.pk[2] = i
    BY <1>1 DEF Waits
  <2> QED
    BY <1>2, <2>1, <2>2
<1>5. \A f \in {"home", "destroy"}, m \in IdentityMeta :
         task'[t][f].pc = "meta" /\ task'[t][f].meta = m => IsLastMeta(t, m)'
  <2>1. n.pc # "meta"
    BY <1>1 DEF Waits
  <2> QED
    BY <1>2, <1>3, <2>1, KeptLast
<1> QED
  BY <1>2, <1>3, <1>4, <1>5, KeptDestroy, KeptHolds DEF KeptInv

LEMMA KeptMarked ==
    ASSUME TypeInv, NEW t \in Tabs, KeptInv(t), Marked(t)
    PROVE  KeptInv(t)'
<1> DEFINE n == task'[t]["destroy"]
<1>1. PICK i \in Indices :
        /\ wire' = wire \cup {[tab |-> t, op |-> "marker", pk |-> <<Installed, i>>,
                               id |-> sent + 1]}
        /\ Waits(t, "destroy", "marker", <<Installed, i>>, DefaultMeta)
  BY DEF Marked
<1>2. /\ store' = store /\ chain' = chain /\ kvq' = kvq /\ wire \subseteq wire'
      /\ tab'[t].meta = tab[t].meta /\ tab'[t].metaLoaded = tab[t].metaLoaded
      /\ tab'[t].seed = tab[t].seed
      /\ SameTask(task[t]["home"], task'[t]["home"])
  BY DEF Marked, SameShown
<1>3. /\ \A m : IsLastMeta(t, m)' <=> IsLastMeta(t, m)
      /\ \A j \in Indices : Doomed(j) => Doomed(j)'
  BY <1>2, LastSame, DoomedMore
<1>4. n.pc \in {"marker", "meta"} =>
         n.pk[1] = Installed /\ \A j \in Indices : n.pk[2] = j => Doomed(j)'
  <2>1. Doomed(i)'
    <3> DEFINE r == [tab |-> t, op |-> "marker", pk |-> <<Installed, i>>,
                     id |-> sent + 1]
    <3>1. r \in wire' /\ r.op = "marker" /\ r.pk = <<Installed, i>>
      BY <1>1
    <3> HIDE DEF r
    <3> QED
      BY <3>1 DEF Doomed, MarkerUnderWay
  <2>2. n.pc \in {"marker", "meta"} => n.pk[1] = Installed /\ n.pk[2] = i
    BY <1>1 DEF Waits
  <2> QED
    BY <2>1, <2>2
<1>5. \A f \in {"home", "destroy"}, m \in IdentityMeta :
         task'[t][f].pc = "meta" /\ task'[t][f].meta = m => IsLastMeta(t, m)'
  <2>1. n.pc # "meta"
    BY <1>1 DEF Waits
  <2> QED
    BY <1>2, <1>3, <2>1, KeptLast
<1> QED
  BY <1>2, <1>3, <1>4, <1>5, KeptHome, KeptHolds DEF KeptInv

\* The delegate is sent a meta that holds all that is shown.
LEMMA KeptSent ==
    ASSUME TypeInv, NEW t \in Tabs, KeptInv(t), NEW flag \in {"home", "destroy"},
           NEW pk, NEW meta \in IdentityMeta, Sent(t, flag, pk, meta),
           Holds(t, meta),
           \A f \in {"home", "destroy"} : f # flag => task'[t][f].pc = "idle",
           flag = "destroy" =>
              pk[1] = Installed /\ \A i \in Indices : pk[2] = i => Doomed(i)
    PROVE  KeptInv(t)'
<1> DEFINE n == task'[t][flag]
<1>1. /\ store' = store /\ chain' = chain /\ wire' = wire
      /\ tab'[t].meta = tab[t].meta /\ tab'[t].metaLoaded = tab[t].metaLoaded
      /\ tab'[t].seed = tab[t].seed
      /\ n.pc = "idle" \/ (n.pc = "meta" /\ n.pk = pk /\ n.meta = meta)
      /\ \/ kvq' = kvq /\ n.pc = "idle"
         \/ \E id \in Ids : kvq'[t] = Append(kvq[t], Store("meta", meta, id))
  BY DEF Sent, SameShown, Waits
<1>2. \A i \in Indices : Doomed(i) => Doomed(i)'
  BY <1>1, DoomedMore
<1>3. CASE kvq' = kvq /\ n.pc = "idle"
  <2>1. \A m : IsLastMeta(t, m)' <=> IsLastMeta(t, m)
    BY <1>1, <1>3, LastSame
  <2>2. \A f \in {"home", "destroy"} : SameTask(task[t][f], task'[t][f])
    BY <1>3 DEF SameTask
  <2> QED
    BY <1>1, <1>2, <2>1, <2>2, KeptSame
<1>4. CASE \E id \in Ids : kvq'[t] = Append(kvq[t], Store("meta", meta, id))
  <2>1. \A m : IsLastMeta(t, m)' <=> m = meta
    BY <1>4, LastSent
  <2>2. \A f \in {"home", "destroy"}, m \in IdentityMeta :
           task'[t][f].pc = "meta" /\ task'[t][f].meta = m => IsLastMeta(t, m)'
    BY <1>1, <2>1
  <2>3. task'[t]["home"].pc # "put"
    BY <1>1
  <2>4. task'[t]["destroy"].pc \in {"marker", "meta"} =>
           /\ task'[t]["destroy"].pk[1] = Installed
           /\ \A i \in Indices : task'[t]["destroy"].pk[2] = i => Doomed(i)'
    <3>1. CASE flag = "home"
      BY <3>1
    <3>2. CASE flag = "destroy"
      BY <1>1, <1>2, <3>2
    <3> QED
      BY <3>1, <3>2
  <2>5. Holds(t, meta)'
    <3>1. tab[t].meta.ids \subseteq Indices
      BY ListTypes
    <3> QED
      BY <1>1, <1>2, <3>1 DEF Holds
  <2> QED
    BY <2>1, <2>2, <2>3, <2>4, <2>5 DEF KeptInv
<1> QED
  BY <1>1, <1>3, <1>4

LEMMA KeptListing ==
    ASSUME TypeInv, InstalledInv, Installed \in Seeds, NEW t \in Tabs, Fits(t),
           KeptInv(t), Listing(t)
    PROVE  KeptInv(t)'
<1> DEFINE k == task[t]["home"]
           meta == [ids |-> k.meta.ids \cup {k.pk[2]}, next |-> k.pk[2] + 1]
<1>1. /\ k.pc = "put" /\ meta \in IdentityMeta /\ Sent(t, "home", k.pk, meta)
      /\ SameTask(task[t]["destroy"], task'[t]["destroy"])
  BY DEF Listing
<1>2. task[t]["destroy"].pc = "idle"
  BY <1>1, FitsOne
<1>3. task'[t]["destroy"].pc = "idle"
  BY <1>1, <1>2 DEF SameTask
<1>4. /\ k.meta = tab[t].meta /\ k.pk[2] >= tab[t].meta.next
      /\ k.pk[2] \in Nat /\ tab[t].meta.next \in Nat
  BY <1>1, ListTypes DEF KeptInv
<1>5. meta.ids = tab[t].meta.ids \cup {k.pk[2]} /\ meta.next = k.pk[2] + 1
  BY <1>4
<1> HIDE DEF meta
<1>6. Holds(t, meta)
  BY <1>4, <1>5 DEF Holds
<1> HIDE DEF k
<1> QED
  BY <1>1, <1>3, <1>6, KeptSent

LEMMA KeptDropping ==
    ASSUME TypeInv, InstalledInv, Installed \in Seeds, NEW t \in Tabs, Fits(t),
           KeptInv(t), Dropping(t)
    PROVE  KeptInv(t)'
<1> DEFINE k == task[t]["destroy"]
           meta == [tab[t].meta EXCEPT !.ids = @ \ {k.pk[2]}]
<1>1. /\ k.pc = "marker" /\ meta \in IdentityMeta /\ Sent(t, "destroy", k.pk, meta)
      /\ SameTask(task[t]["home"], task'[t]["home"])
  BY DEF Dropping
<1>2. task[t]["home"].pc = "idle" /\ tab[t].seed = Installed
  BY <1>1, FitsOne
<1>3. task'[t]["home"].pc = "idle"
  BY <1>1, <1>2 DEF SameTask
<1>4. k.pk[1] = Installed /\ \A i \in Indices : k.pk[2] = i => Doomed(i)
  BY <1>1 DEF KeptInv
<1>5. /\ tab[t].meta \in IdentityMeta /\ k.pk[2] \in Indices
      /\ tab[t].meta.ids \subseteq Indices /\ tab[t].meta.next \in Nat
  BY ListTypes
<1>6. meta.ids = tab[t].meta.ids \ {k.pk[2]} /\ meta.next = tab[t].meta.next
  BY <1>5 DEF IdentityMeta
<1> HIDE DEF meta
<1>7. Holds(t, meta)
  BY <1>2, <1>4, <1>5, <1>6 DEF Holds
<1> HIDE DEF k
<1> QED
  BY <1>1, <1>3, <1>4, <1>7, KeptSent

\* META comes to be what the delegate was sent last.
LEMMA KeptShowing ==
    ASSUME TypeInv, InstalledInv, Installed \in Seeds, NEW t \in Tabs, Fits(t),
           KeptInv(t), NEW flag \in {"home", "destroy"}, Showing(t, flag)
    PROVE  KeptInv(t)'
<1> DEFINE k == task[t][flag]
<1>1. /\ k.pc = "meta" /\ task'[t][flag].pc = "idle"
      /\ store' = store /\ chain' = chain /\ kvq' = kvq /\ wire' = wire
      /\ tab'[t].meta = k.meta
      /\ \A f \in {"home", "destroy"} : SameTask(task[t][f], task'[t][f])
  BY DEF Showing
<1>2. k.meta \in IdentityMeta /\ k.meta.next \in Nat
  BY ListTypes
<1>3. /\ \A m : IsLastMeta(t, m)' <=> IsLastMeta(t, m)
      /\ \A i \in Indices : Doomed(i) => Doomed(i)'
  BY <1>1, LastSame, DoomedMore
<1>4. \A m : IsLastMeta(t, m) => m = k.meta
  BY <1>1, <1>2, LastUnique DEF KeptInv
<1>5. ASSUME NEW m \in IdentityMeta, IsLastMeta(t, m)'
      PROVE  Holds(t, m)'
  <2>1. m = tab'[t].meta /\ m.next \in Nat
    BY <1>1, <1>2, <1>3, <1>4, <1>5
  <2> QED
    BY <2>1 DEF Holds
<1>6. task'[t]["home"].pc # "put"
  <2>1. task[t]["home"].pc = "idle" \/ task[t]["destroy"].pc = "idle"
    BY FitsOne
  <2> QED
    BY <1>1, <2>1 DEF SameTask
<1>7. \A f \in {"home", "destroy"}, m \in IdentityMeta :
         task'[t][f].pc = "meta" /\ task'[t][f].meta = m => IsLastMeta(t, m)'
  BY <1>1, <1>3, KeptLast
<1> QED
  BY <1>1, <1>3, <1>5, <1>6, <1>7, KeptDestroy DEF KeptInv

LEMMA KeptLoading ==
    ASSUME TypeInv, NEW t \in Tabs, BootInv(t), KeptInv(t), Loading(t)
    PROVE  KeptInv(t)'
<1>1. PICK a \in MetaValues :
        /\ store' = store /\ chain' = chain /\ wire' = wire /\ kvq' = kvq
        /\ \A f \in {"home", "destroy"} : SameTask(task[t][f], task'[t][f])
        /\ IF a.value = Corrupt
           THEN tab'[t].metaLoaded = tab[t].metaLoaded
           ELSE tab'[t].meta = IF a.value = Absent THEN DefaultMeta ELSE a.value
  BY DEF Loading
<1>2. /\ ~ tab[t].metaLoaded /\ a.value \in {store.meta, Corrupt}
      /\ \A r \in Range(kvq[t]) : ~ IsMetaStore(r)
      /\ \A f \in {"home", "destroy"} : task[t][f].pc = "idle"
  BY DEF BootInv
<1>3. \A f \in {"home", "destroy"} : task'[t][f].pc = "idle"
  BY <1>1, <1>2 DEF SameTask
<1>4. ASSUME tab'[t].metaLoaded, NEW m \in IdentityMeta, IsLastMeta(t, m)'
      PROVE  Holds(t, m)'
  <2>1. \A j \in 1..Len(kvq[t]) : kvq[t][j] \in Range(kvq[t])
    BY DEF Range, TypeInv, TypeOK
  <2>2. m = store.meta
    BY <1>1, <1>2, <1>4, <2>1 DEF IsLastMeta, IsMetaStore
  <2>3. m # Absent /\ m.next \in Nat
    BY WalletAssumption, ListTypes
  <2>4. tab'[t].meta = m
    BY <1>1, <1>2, <1>4, <2>2, <2>3
  <2> QED
    BY <2>3, <2>4 DEF Holds
<1> QED
  BY <1>3, <1>4 DEF KeptInv

LEMMA KeptReload ==
    ASSUME TypeInv, NEW t \in Tabs, Reload(t)
    PROVE  KeptInv(t)'
<1>1. /\ \A f \in {"home", "destroy"} : task'[t][f] = IdleTask
      /\ tab'[t] = NewTab
  BY DEF Reload, TypeInv, TypeOK, BusyFlags
<1>2. tab'[t].metaLoaded = FALSE
  BY <1>1 DEF NewTab
<1> QED
  BY <1>1, <1>2, IdleTaskType DEF KeptInv

LEMMA KeptNext ==
    ASSUME KeptScope, TypeInv, TypeInv', InstalledInv, MarkersLand, NEW t \in Tabs,
           BootInv(t), Fits(t), KeptInv(t), [Next]_vars
    PROVE  KeptInv(t)'
<1>1. /\ ListScope /\ Installed \in Seeds
      /\ "refuse" \notin Faults /\ "fail" \notin Faults
  BY DEF KeptScope, ListScope
<1>2. CASE Plain(t)
  <2>1. /\ store' = store /\ chain' = chain /\ kvq' = kvq /\ wire \subseteq wire'
        /\ tab'[t].meta = tab[t].meta /\ tab'[t].metaLoaded = tab[t].metaLoaded
        /\ tab'[t].seed = tab[t].seed \/ tab'[t].seed = Installed
        /\ \A f \in {"home", "destroy"} : SameTask(task[t][f], task'[t][f])
    BY <1>2 DEF Plain, SameList
  <2>2. /\ \A m : IsLastMeta(t, m)' <=> IsLastMeta(t, m)
        /\ \A i \in Indices : Doomed(i) => Doomed(i)'
    BY <2>1, LastSame, DoomedMore
  <2> QED
    BY <2>1, <2>2, KeptSame
<1>3. CASE Created(t) \/ Marked(t)
  BY <1>3, KeptCreated, KeptMarked
<1>4. CASE Listing(t) \/ Dropping(t)
  BY <1>1, <1>4, KeptListing, KeptDropping
<1>5. CASE Showing(t, "home") \/ Showing(t, "destroy")
  BY <1>1, <1>5, KeptShowing
<1>6. CASE Loading(t) \/ Reload(t)
  BY <1>6, KeptLoading, KeptReload
<1>7. CASE ServeKv(t)
  <2>1. /\ chain' = chain /\ wire' = wire /\ tab' = tab /\ task' = task
        /\ \A m : IsLastMeta(t, m)' <=> IsLastMeta(t, m)
    BY <1>1, <1>7, LastServed DEF ServeKv
  <2>2. \A f \in {"home", "destroy"} : SameTask(task[t][f], task'[t][f])
    BY <2>1, SameTaskSelf
  <2>3. \A i \in Indices : Doomed(i) => Doomed(i)'
    BY <2>1, DoomedMore
  <2> QED
    BY <2>1, <2>2, <2>3, KeptSame
<1>8. ASSUME NEW r \in wire, ServeContract(r)
      PROVE  KeptInv(t)'
  <2>1. store' = store /\ kvq' = kvq /\ tab' = tab /\ task' = task
    BY <1>8 DEF ServeContract
  <2>2. \A f \in {"home", "destroy"} : SameTask(task[t][f], task'[t][f])
    BY <2>1, SameTaskSelf
  <2>3. /\ \A m : IsLastMeta(t, m)' <=> IsLastMeta(t, m)
        /\ \A i \in Indices : Doomed(i) => Doomed(i)'
    BY <1>1, <1>8, <2>1, LastSame, DoomedServed
  <2> QED
    BY <2>1, <2>2, <2>3, KeptSame
<1> QED
  BY <1>1, <1>2, <1>3, <1>4, <1>5, <1>6, <1>7, <1>8, ListSteps

KeepingInv ==
    /\ ListInv /\ EntryInv /\ MarkersLand
    /\ \A t \in Tabs : Fits(t) /\ KeptInv(t)

LEMMA KeepingInit ==
    ASSUME KeptScope
    PROVE  Init => KeepingInv
<1> SUFFICES ASSUME Init
             PROVE  KeepingInv
  OBVIOUS
<1>1. ListInv /\ EntryInv
  BY ListInvInit, EntryInit DEF KeptScope
<1>2. MarkersLand
  BY DEF Init, MarkersLand
<1>3. ASSUME NEW t \in Tabs
      PROVE  Fits(t) /\ KeptInv(t)
  <2>1. /\ \A f \in {"home", "destroy"} : task[t][f] = IdleTask
        /\ tab[t] = NewTab
    BY DEF Init, BusyFlags
  <2>2. tab[t].metaLoaded = FALSE
    BY <2>1 DEF NewTab
  <2> QED
    BY <2>1, <2>2, FitsInit, IdleTaskType DEF KeptInv
<1> QED
  BY <1>1, <1>2, <1>3 DEF KeepingInv

LEMMA KeepingNext ==
    ASSUME KeptScope
    PROVE  KeepingInv /\ [Next]_vars => KeepingInv'
<1> SUFFICES ASSUME KeepingInv, [Next]_vars
             PROVE  KeepingInv'
  OBVIOUS
<1>1. /\ ListScope /\ SingleSession /\ SeedScope /\ Installed \in Seeds
      /\ KeepsTasks = FALSE
  BY DEF KeptScope, ListScope, SeedScope
<1>2. ListInv /\ ListInv' /\ EntryInv /\ SeedInv /\ SeedInv'
  BY <1>1, ListInvNext DEF KeepingInv, ListInv
<1>3. TypeInv /\ TypeInv' /\ InstalledInv
  BY <1>1, <1>2 DEF SeedInv
<1>4. EntryInv'
  BY <1>1, <1>2, EntryNext
<1>5. MarkersLand'
  <2>1. CASE Tabs = {}
    <3>1. wire' \subseteq wire
      BY <2>1 DEF Next, vars, ServeContract, Dispatch
    <3>2. \A r \in wire : r.pk \in Pks
      BY <1>3 DEF TypeInv, TypeOK, ContractRequest
    <3> QED
      BY <1>3, <3>1, <3>2, ChainKept DEF KeepingInv, MarkersLand
  <2>2. ASSUME NEW t \in Tabs
        PROVE  MarkersLand'
    BY <1>1, <1>2, <1>3, MarkersNext DEF KeepingInv
  <2> QED
    BY <2>1, <2>2
<1>6. ASSUME NEW t \in Tabs
      PROVE  Fits(t)' /\ KeptInv(t)'
  <2>1. BootInv(t) /\ Fits(t) /\ KeptInv(t) /\ MarkersLand
    BY <1>2 DEF KeepingInv, ListInv
  <2> QED
    BY <1>1, <1>3, <2>1, FitsNext, KeptNext
<1> QED
  BY <1>2, <1>4, <1>5, <1>6 DEF KeepingInv

\* store_meta, for one session over a delegate that holds a seed: whatever is
\* given up, cut short, comes late or cannot be decoded, and whenever the page
\* is loaded again, what the delegate is sent last holds every persona shown,
\* but those destroyed or about to be, and a watermark as high.  It rests on a
\* task ending with its screen, on stores that do not fail and on markers that
\* are not refused.
THEOREM NothingShownIsLost ==
    ASSUME KeptScope
    PROVE  Spec => []ShownIsKept
<1>1. KeepingInv => ShownIsKept
  <2> SUFFICES ASSUME KeepingInv, NEW t \in Tabs, NEW m \in IdentityMeta,
                      tab[t].metaLoaded, IsLastMeta(t, m)
               PROVE  /\ \A i \in tab[t].meta.ids \ m.ids :
                            \/ chain[KeyOf(tab[t], i)] = "dead"
                            \/ MarkerUnderWay(KeyOf(tab[t], i))
                      /\ \A i \in m.ids \ tab[t].meta.ids : i >= tab[t].meta.next
                      /\ m.next >= tab[t].meta.next
    BY DEF ShownIsKept
  <2>1. Holds(t, m)
    BY DEF KeepingInv, KeptInv
  <2> QED
    BY <2>1 DEF Holds, Doomed, KeyOf
<1> QED
  BY <1>1, KeepingInit, KeepingNext, PTL DEF Spec
=============================================================================
