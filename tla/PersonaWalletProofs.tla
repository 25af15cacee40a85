------------------------ MODULE PersonaWalletProofs -------------------------
(***************************************************************************)
(* Proofs about PersonaWallet for every set of sessions, seeds, deeds and  *)
(* faults and every bound: the types, that a stored seed stays and is the  *)
(* one a session works with, and that every persona listed exists.         *)
(***************************************************************************)
EXTENDS PersonaWallet, FiniteSetTheorems, NaturalsInduction, SequenceTheorems,
        TLAPS

-----------------------------------------------------------------------------
(* Numbers and sequences.                                                  *)

\* A set of naturals that is not empty has a least element.
LEMMA LeastNatural ==
    ASSUME NEW S \in SUBSET Nat, S # {}
    PROVE  \E m \in S : \A x \in S : m <= x
<1> DEFINE Less == {ss \in Nat \X Nat : ss[1] < ss[2]}
<1>1. IsWellFoundedOn(Less, Nat)
  BY NatLessThanWellFounded DEF OpToRel
<1>2. \A x, y \in Nat : x < y => <<x, y>> \in Less
  OBVIOUS
<1>3. PICK m \in S : \A x \in S : ~ (<<x, m>> \in Less)
  <2> HIDE DEF Less
  <2> QED
    BY <1>1, WFMin, Zenon
<1>4. ASSUME NEW x \in S
      PROVE  m <= x
  <2>1. ~ (x < m)
    BY <1>2, <1>3
  <2> QED
    BY <2>1
<1> QED
  BY <1>4

\* One that is bounded has a greatest element.
LEMMA GreatestNatural ==
    ASSUME NEW S \in SUBSET Nat, S # {}, NEW n \in Nat, \A x \in S : x <= n
    PROVE  \E m \in S : \A x \in S : x <= m
<1> DEFINE D == {n - x : x \in S}
<1>1. D \in SUBSET Nat
  OBVIOUS
<1>2. D # {}
  BY Zenon
<1>3. PICK d \in D : \A e \in D : d <= e
  BY <1>1, <1>2, LeastNatural
<1>4. PICK m \in S : d = n - m
  OBVIOUS
<1>5. \A x \in S : d <= n - x
  BY <1>3
<1> QED
  BY <1>4, <1>5

LEMMA MaxIsGreatest ==
    ASSUME NEW S \in SUBSET Nat, S # {}, NEW n \in Nat, \A x \in S : x <= n
    PROVE  Max(S) \in S /\ \A x \in S : x <= Max(S)
<1>1. PICK m \in S : \A x \in S : x <= m
  BY GreatestNatural
<1> QED
  BY <1>1 DEF Max

\* What is in a sequence after one element is appended or the first is taken.
LEMMA RangeProperties ==
    ASSUME NEW S, NEW s \in Seq(S)
    PROVE  /\ Range(s) \subseteq S
           /\ \A x \in S : Range(Append(s, x)) = Range(s) \cup {x}
           /\ s # <<>> => /\ Head(s) \in Range(s)
                          /\ Range(Tail(s)) \subseteq Range(s)
           /\ \A n \in 0..Len(s) : Range(SubSeq(s, 1, n)) \subseteq Range(s)
<1>1. Range(s) \subseteq S
  BY LenProperties DEF Range
<1>2. ASSUME NEW x \in S
      PROVE  Range(Append(s, x)) = Range(s) \cup {x}
  <2> DEFINE q == Append(s, x)
  <2>1. /\ q \in Seq(S) /\ Len(q) = Len(s) + 1 /\ q[Len(s) + 1] = x
        /\ \A i \in 1..Len(s) : q[i] = s[i]
    BY AppendProperties
  <2>2. DOMAIN s = 1..Len(s) /\ DOMAIN q = 1..Len(s) + 1 /\ Len(s) \in Nat
    BY <2>1, LenProperties
  <2> HIDE DEF q
  <2>3. Range(q) = Range(s) \cup {x}
    BY <2>1, <2>2 DEF Range
  <2> QED
    BY <2>3 DEF q
<1>3. ASSUME s # <<>>
      PROVE  Head(s) \in Range(s) /\ Range(Tail(s)) \subseteq Range(s)
  <2>1. /\ Tail(s) \in Seq(S) /\ Len(Tail(s)) = Len(s) - 1
        /\ \A i \in 1..Len(Tail(s)) : Tail(s)[i] = s[i + 1]
    BY <1>3, HeadTailProperties
  <2>2. /\ DOMAIN s = 1..Len(s) /\ DOMAIN Tail(s) = 1..Len(s) - 1
        /\ Len(s) \in Nat \ {0}
    BY <1>3, <2>1, LenProperties, EmptySeq
  <2>3. Head(s) = s[1]
    BY <1>3
  <2>4. Head(s) \in Range(s)
    BY <2>2, <2>3 DEF Range
  <2>5. \A i \in 1..Len(s) - 1 : Tail(s)[i] \in Range(s)
    BY <2>1, <2>2 DEF Range
  <2> QED
    BY <2>2, <2>4, <2>5 DEF Range
<1>4. ASSUME NEW n \in 0..Len(s)
      PROVE  Range(SubSeq(s, 1, n)) \subseteq Range(s)
  <2> DEFINE q == SubSeq(s, 1, n)
  <2>1. DOMAIN s = 1..Len(s) /\ Len(s) \in Nat /\ \A i \in 1..n : s[i] \in S
    BY LenProperties
  <2>2. /\ q \in Seq(S) /\ Len(q) = IF 1 <= n THEN n ELSE 0
        /\ \A i \in 1..n : q[i] = s[i]
    BY <2>1, SubSeqProperties
  <2>3. DOMAIN q = 1..n
    BY <2>2, LenProperties
  <2> HIDE DEF q
  <2>4. Range(q) \subseteq Range(s)
    BY <2>1, <2>2, <2>3 DEF Range
  <2> QED
    BY <2>4 DEF q
<1> QED
  BY <1>1, <1>2, <1>3, <1>4

-----------------------------------------------------------------------------
(* The shapes of requests, answers, tasks and screens.                     *)

GetSeed == [op |-> "get", key |-> "seed"]
GetMeta == [op |-> "get", key |-> "meta"]
Register == [op |-> "register"]

\* The boot requests are one to register and two to get.
LEMMA BootShape ==
    /\ Range(BootRequests) = {Register, GetSeed, GetMeta}
    /\ Len(BootRequests) = 3
    /\ BootRequests[1] = Register /\ BootRequests[2] = GetSeed
    /\ BootRequests[3] = GetMeta
    /\ BootRequests \in Seq(KvRequest)
<1>1. /\ Len(BootRequests) = 3 /\ DOMAIN BootRequests = 1..3
      /\ BootRequests[1] = Register /\ BootRequests[2] = GetSeed
      /\ BootRequests[3] = GetMeta
  BY DEF BootRequests, Register, GetSeed, GetMeta
<1>2. Range(BootRequests) = {Register, GetSeed, GetMeta}
  <2>1. 1..3 = {1, 2, 3}
    OBVIOUS
  <2> QED
    BY <1>1, <2>1, Zenon DEF Range
<1>3. BootRequests \in Seq({Register, GetSeed, GetMeta})
  BY DEF BootRequests, Register, GetSeed, GetMeta
<1>4. {Register, GetSeed, GetMeta} \subseteq KvRequest
  BY <1>2 DEF KvRequest
<1>5. BootRequests \in Seq(KvRequest)
  BY <1>3, <1>4, SeqMonotonic
<1> QED
  BY <1>1, <1>2, <1>5

\* A request to the delegate registers, gets, or stores a value of its key.
LEMMA KvShape ==
    ASSUME NEW r \in KvRequest
    PROVE  /\ r.op \in {"register", "get", "store"}
           /\ r.op = "register" => r = Register
           /\ r.op = "get" => r \in {GetSeed, GetMeta} /\ r.key \in {"seed", "meta"}
           /\ r.op = "store" =>
                 /\ r.key \in {"seed", "meta"} /\ r.id \in Ids
                 /\ r.key = "seed" => r.value \in Seeds
                 /\ r.key = "meta" => r.value \in IdentityMeta
                 /\ r = Store(r.key, r.value, r.id)
<1>1. CASE r \in {Register, GetSeed, GetMeta}
  BY <1>1 DEF Register, GetSeed, GetMeta
<1>2. CASE \E s \in Seeds, id \in Ids : r = Store("seed", s, id)
  BY <1>2 DEF Store
<1>3. CASE \E m \in IdentityMeta, id \in Ids : r = Store("meta", m, id)
  BY <1>3 DEF Store
<1> QED
  BY <1>1, <1>2, <1>3, BootShape DEF KvRequest

LEMMA StoreShape ==
    ASSUME NEW id \in Ids
    PROVE  /\ \A s \in Seeds : Store("seed", s, id) \in KvRequest
           /\ \A m \in IdentityMeta : Store("meta", m, id) \in KvRequest
           /\ \A key, value : /\ Store(key, value, id).op = "store"
                              /\ Store(key, value, id).key = key
                              /\ Store(key, value, id).value = value
                              /\ Store(key, value, id).id = id
BY DEF KvRequest, Store

\* What an answer carries, by its kind.
LEMMA AnswerShape ==
    ASSUME NEW a \in Answer
    PROVE  /\ a.tab \in Tabs
           /\ a.kind \in {"ack", "stored", "seed", "meta", "empty"}
           /\ a.kind = "ack" => a.pk \in Pks /\ a.id \in {0} \cup Ids
           /\ a.kind = "stored" => a.key \in {"seed", "meta"} /\ a.id \in Ids
           /\ a.kind = "seed" => a.value \in Seeds \cup {Absent, Corrupt}
           /\ a.kind = "meta" => a.value \in IdentityMeta \cup {Absent, Corrupt}
BY DEF Answer

LEMMA IdleTaskType == IdleTask \in Task /\ IdleTask.pc = "idle" /\ ~ IdleTask.hit
<1>1. DefaultMeta \in IdentityMeta
  BY WalletAssumption DEF DefaultMeta, IdentityMeta, Indices
<1> QED
  BY <1>1 DEF IdleTask, Task

LEMMA NewTabType == NewTab \in Tab
<1>1. DefaultMeta \in IdentityMeta
  BY WalletAssumption DEF DefaultMeta, IdentityMeta, Indices
<1> QED
  BY <1>1 DEF NewTab, Tab

\* A screen with the user's controls is there only once boot is complete.
LEMMA ScreenShape ==
    ASSUME NEW w \in Tab
    PROVE  /\ Screen(w) = Home => BootComplete(w) /\ w.view = Home
           /\ \A i \in Indices :
                 Screen(w) = Detail(i) => BootComplete(w) /\ w.view = Detail(i)
           /\ Screen(w) = <<"onboarding">> => w.seed = Absent /\ ~ w.unreachable
           /\ BootComplete(w) => Screen(w) = w.view
           /\ \A i, j \in Indices : Detail(i) = Detail(j) => i = j
           /\ \A i \in Indices : Detail(i) # Home /\ Detail(i) # BackupView
           /\ Home # BackupView
<1>1. /\ w.view # <<"onboarding">> /\ w.view # <<"unreachable">>
      /\ w.view # <<"loading">>
  BY DEF Tab, Home, BackupView, Detail
<1>2. BootComplete(w) => w.seed # Absent
  BY WalletAssumption DEF BootComplete
<1>3. \A i, j \in Indices : Detail(i) = Detail(j) => i = j
  BY DEF Detail
<1>4. \A i \in Indices : /\ Detail(i) # Home /\ Detail(i) # BackupView
                         /\ Detail(i) # <<"unreachable">> /\ Detail(i) # <<"loading">>
                         /\ Detail(i) # <<"onboarding">>
  BY DEF Detail, Home, BackupView
<1>5. /\ Home # BackupView /\ Home # <<"unreachable">> /\ Home # <<"loading">>
      /\ Home # <<"onboarding">> /\ <<"onboarding">> # <<"unreachable">>
      /\ <<"onboarding">> # <<"loading">>
  BY DEF Home, BackupView
<1> QED
  BY <1>1, <1>2, <1>3, <1>4, <1>5 DEF Screen

-----------------------------------------------------------------------------
(* Sessions and their tasks.                                               *)

\* A change of one session: its tasks are as given, or cut.
LEMMA BecomeEffect ==
    ASSUME TypeOK, NEW t \in Tabs, NEW w, NEW ks, Become(t, w, ks)
    PROVE  /\ tab'[t] = w
           /\ \A u \in Tabs : u # t => tab'[u] = tab[u] /\ task'[u] = task[u]
           /\ \A f \in BusyFlags : task'[t][f] \in {ks[f], IdleTask}
           /\ \A f \in BusyFlags :
                 KeepsTasks \/ Mounted(w, f, ks[f]) => task'[t][f] = ks[f]
           /\ \A f \in BusyFlags :
                 ~ KeepsTasks /\ ~ Mounted(w, f, ks[f]) => task'[t][f] = IdleTask
BY Zenon DEF Become, TypeOK

LEMMA BecomeType ==
    ASSUME TypeOK, NEW t \in Tabs, NEW w \in Tab, NEW ks \in [BusyFlags -> Task],
           Become(t, w, ks)
    PROVE  tab' \in [Tabs -> Tab] /\ task' \in [Tabs -> [BusyFlags -> Task]]
<1> DEFINE n == [f \in BusyFlags |-> IF KeepsTasks \/ Mounted(w, f, ks[f])
                                     THEN ks[f] ELSE IdleTask]
<1>1. n \in [BusyFlags -> Task]
  BY IdleTaskType
<1>2. tab' = [tab EXCEPT ![t] = w] /\ task' = [task EXCEPT ![t] = n]
  BY DEF Become
<1> HIDE DEF n
<1> QED
  BY <1>1, <1>2 DEF TypeOK

\* The tasks that still have a request to send, or have sent one of two.
OwingPcs == {"seed", "restoreSeed", "probe", "put", "marker"}

Owing == {x \in Tabs \X BusyFlags : task[x[1]][x[2]].pc \in OwingPcs}

\* A task sends two requests at most, so the ids stay within Ids.
SentBound ==
    /\ Cardinality(Owing) <= sent
    /\ sent + Cardinality(Owing) <= 2 * MaxSent

TypeInv == TypeOK /\ SentBound

LEMMA OwingFinite ==
    /\ IsFiniteSet(Owing) /\ Cardinality(Owing) \in Nat
    /\ IsFiniteSet(Owing') /\ Cardinality(Owing') \in Nat
<1>1. IsFiniteSet(BusyFlags)
  <2>1. BusyFlags = (((({} \cup {"onboard"}) \cup {"home"}) \cup {"save"})
                       \cup {"pic"}) \cup {"destroy"}
    BY DEF BusyFlags
  <2> QED
    BY <2>1, FS_EmptySet, FS_AddElement, Zenon
<1>2. IsFiniteSet(Tabs \X BusyFlags)
  BY <1>1, WalletAssumption, FS_Product
<1>3. Owing \subseteq Tabs \X BusyFlags /\ Owing' \subseteq Tabs \X BusyFlags
  BY DEF Owing
<1> QED
  BY <1>2, <1>3, FS_Subset, FS_CardinalityType

LEMMA OwingShrinks ==
    ASSUME SentBound, sent \in Nat, Owing' \subseteq Owing, sent' = sent
    PROVE  SentBound'
<1>1. Cardinality(Owing') <= Cardinality(Owing)
  BY OwingFinite, FS_Subset
<1> QED
  BY <1>1, OwingFinite, WalletAssumption DEF SentBound

LEMMA OwingPays ==
    ASSUME SentBound, sent \in Nat, NEW x \in Owing, Owing' \subseteq Owing \ {x},
           sent' = sent + 1
    PROVE  SentBound' /\ sent' \in Ids
<1>1. /\ IsFiniteSet(Owing \ {x})
      /\ Cardinality(Owing \ {x}) = Cardinality(Owing) - 1
      /\ Cardinality(Owing \ {x}) \in Nat
  BY OwingFinite, FS_RemoveElement, FS_CardinalityType
<1>2. Cardinality(Owing') <= Cardinality(Owing \ {x})
  BY <1>1, FS_Subset
<1> QED
  BY <1>1, <1>2, OwingFinite, WalletAssumption DEF SentBound, Ids

LEMMA OwingGrows ==
    ASSUME SentBound, sent \in Nat, NEW x, Owing' \subseteq Owing \cup {x},
           sent < MaxSent, sent' = sent + 1
    PROVE  SentBound' /\ sent' \in Ids
<1>1. /\ IsFiniteSet(Owing \cup {x})
      /\ Cardinality(Owing \cup {x}) =
            IF x \in Owing THEN Cardinality(Owing) ELSE Cardinality(Owing) + 1
  BY OwingFinite, FS_AddElement
<1>2. Cardinality(Owing') <= Cardinality(Owing \cup {x})
  BY <1>1, FS_Subset
<1>3. Cardinality(Owing') <= Cardinality(Owing) + 1
  BY <1>1, <1>2, OwingFinite
<1> QED
  BY <1>3, OwingFinite, WalletAssumption DEF SentBound, Ids

-----------------------------------------------------------------------------
(* The types of what an action leaves behind.                              *)

\* Everything but the sessions, their tasks and the number of requests.
RestTyped ==
    /\ store \in [seed : Seeds \cup {Absent}, meta : IdentityMeta \cup {Absent}]
    /\ chain \in [Pks -> {"absent", "live", "dead"}]
    /\ kvq \in [Tabs -> Seq(KvRequest)]
    /\ wire \subseteq ContractRequest
    /\ answers \subseteq Answer
    /\ accepted \subseteq {0} \cup Ids

LEMMA OwingAfter ==
    ASSUME TypeOK, NEW t \in Tabs, NEW w, NEW ks, Become(t, w, ks),
           NEW x \in Owing'
    PROVE  IF x[1] = t THEN ks[x[2]].pc \in OwingPcs ELSE x \in Owing
<1>1. /\ x \in Tabs \X BusyFlags /\ x[1] \in Tabs /\ x[2] \in BusyFlags
      /\ task'[x[1]][x[2]].pc \in OwingPcs
  BY DEF Owing
<1>2. CASE x[1] = t
  BY <1>1, <1>2, BecomeEffect, IdleTaskType DEF OwingPcs
<1>3. CASE x[1] # t
  BY <1>1, <1>3, BecomeEffect DEF Owing
<1> QED
  BY <1>2, <1>3

\* An action that sends nothing.
LEMMA QuietStep ==
    ASSUME TypeInv, NEW t \in Tabs, NEW w \in Tab, NEW ks \in [BusyFlags -> Task],
           Become(t, w, ks), RestTyped', sent' = sent,
           \A f \in BusyFlags :
              ks[f].pc \in OwingPcs => task[t][f].pc \in OwingPcs
    PROVE  TypeInv'
<1>1. tab' \in [Tabs -> Tab] /\ task' \in [Tabs -> [BusyFlags -> Task]]
  BY BecomeType DEF TypeInv
<1>2. Owing' \subseteq Owing
  <2> SUFFICES ASSUME NEW x \in Owing'
               PROVE  x \in Owing
    OBVIOUS
  <2>1. IF x[1] = t THEN ks[x[2]].pc \in OwingPcs ELSE x \in Owing
    BY OwingAfter DEF TypeInv
  <2> QED
    BY <2>1 DEF Owing
<1>3. SentBound' /\ sent' \in {0} \cup Ids
  BY <1>2, OwingShrinks, WalletAssumption DEF TypeInv, TypeOK, Ids
<1> QED
  BY <1>1, <1>3 DEF TypeInv, TypeOK, RestTyped

LEMMA QuietRest ==
    ASSUME TypeInv, UNCHANGED <<store, chain, kvq, wire, answers, history>>
    PROVE  RestTyped' /\ sent' = sent
BY DEF TypeInv, TypeOK, RestTyped, history

LEMMA WaitingType ==
    ASSUME NEW pc \in {"seed", "restoreSeed", "put", "slot", "marker", "meta"},
           NEW pk \in Pks \cup {NoPk}, NEW meta \in IdentityMeta, sent + 1 \in Ids
    PROVE  Waiting(pc, pk, meta) \in Task /\ Waiting(pc, pk, meta).pc = pc
BY DEF Waiting, Task

LEMMA SendKvType ==
    ASSUME TypeOK, NEW t \in Tabs, NEW key \in {"seed", "meta"}, NEW value,
           IF key = "seed" THEN value \in Seeds ELSE value \in IdentityMeta,
           sent + 1 \in Ids, SendKv(t, key, value)
    PROVE  kvq' \in [Tabs -> Seq(KvRequest)] /\ wire' = wire /\ sent' = sent + 1
<1>1. Store(key, value, sent + 1) \in KvRequest
  BY StoreShape
<1>2. Append(kvq[t], Store(key, value, sent + 1)) \in Seq(KvRequest)
  BY <1>1, AppendProperties DEF TypeOK
<1> QED
  BY <1>2 DEF SendKv, TypeOK

LEMMA SendContractType ==
    ASSUME TypeOK, NEW t \in Tabs, NEW op \in {"put", "slot", "marker"},
           NEW pk \in Pks, sent + 1 \in Ids, SendContract(t, op, pk)
    PROVE  wire' \subseteq ContractRequest /\ kvq' = kvq /\ sent' = sent + 1
BY DEF SendContract, TypeOK, ContractRequest

\* An action that starts a task and sends its first request.
LEMMA StartStep ==
    ASSUME TypeInv, NEW t \in Tabs, NEW w \in Tab, NEW flag \in BusyFlags,
           NEW k \in Task, Become(t, w, [task[t] EXCEPT ![flag] = k]),
           RestTyped', sent < MaxSent, sent' = sent + 1
    PROVE  TypeInv'
<1> DEFINE ks == [task[t] EXCEPT ![flag] = k]
<1>1. task[t] \in [BusyFlags -> Task]
  BY DEF TypeInv, TypeOK
<1>2. ks \in [BusyFlags -> Task] /\ \A f \in BusyFlags : f # flag => ks[f] = task[t][f]
  BY <1>1
<1> HIDE DEF ks
<1>3. tab' \in [Tabs -> Tab] /\ task' \in [Tabs -> [BusyFlags -> Task]]
  BY <1>2, BecomeType DEF TypeInv, ks
<1>4. Owing' \subseteq Owing \cup {<<t, flag>>}
  <2> SUFFICES ASSUME NEW x \in Owing', x # <<t, flag>>
               PROVE  x \in Owing
    OBVIOUS
  <2>1. IF x[1] = t THEN ks[x[2]].pc \in OwingPcs ELSE x \in Owing
    BY OwingAfter DEF TypeInv, ks
  <2> QED
    BY <1>2, <2>1 DEF Owing
<1>5. SentBound /\ sent \in Nat
  BY DEF TypeInv, TypeOK, Ids
<1>6. SentBound' /\ sent' \in Ids
  BY <1>4, <1>5, OwingGrows
<1> QED
  BY <1>3, <1>6 DEF TypeInv, TypeOK, RestTyped

\* store_meta sends the second request of a task, or ends it.
LEMMA StoreMetaStep ==
    ASSUME TypeInv, NEW t \in Tabs, NEW flag \in BusyFlags, NEW w \in Tab,
           NEW pk \in Pks \cup {NoPk}, NEW meta \in IdentityMeta,
           task[t][flag].pc \in OwingPcs, StoreMeta(t, flag, w, pk, meta),
           UNCHANGED <<store, chain, answers, accepted>>
    PROVE  TypeInv'
<1> DEFINE k == Waiting("meta", pk, meta)
           ks == [task[t] EXCEPT ![flag] = k]
           ksi == [task[t] EXCEPT ![flag] = IdleTask]
<1>1. task[t] \in [BusyFlags -> Task] /\ sent \in Nat
  BY DEF TypeInv, TypeOK, Ids
<1>2. <<t, flag>> \in Owing
  BY DEF Owing
<1>3. CASE SendKv(t, "meta", meta) /\ Become(t, w, ks)
  <2>1. Owing' \subseteq Owing \ {<<t, flag>>} /\ sent + 1 \in Ids
    <3>1. SentBound /\ sent' = sent + 1
      BY <1>3 DEF TypeInv, SendKv
    <3>2. k.pc \notin OwingPcs
      BY DEF Waiting, OwingPcs
    <3> HIDE DEF k
    <3>3. \A f \in BusyFlags : ks[f] = IF f = flag THEN k ELSE task[t][f]
      BY <1>1
    <3> HIDE DEF ks
    <3>4. ASSUME NEW x \in Owing'
          PROVE  x \in Owing \ {<<t, flag>>}
      <4>1. IF x[1] = t THEN ks[x[2]].pc \in OwingPcs ELSE x \in Owing
        BY <1>3, OwingAfter DEF TypeInv
      <4> QED
        BY <3>2, <3>3, <4>1 DEF Owing
    <3>5. Owing' \subseteq Owing \ {<<t, flag>>}
      BY <3>4
    <3>6. sent' \in Ids
      BY <1>1, <1>2, <3>1, <3>5, OwingPays
    <3> QED
      BY <3>1, <3>5, <3>6
  <2>2. k \in Task
    BY <2>1, WaitingType
  <2> HIDE DEF k
  <2>3. ks \in [BusyFlags -> Task]
    BY <1>1, <2>2
  <2> HIDE DEF ks
  <2>4. tab' \in [Tabs -> Tab] /\ task' \in [Tabs -> [BusyFlags -> Task]]
    BY <1>3, <2>3, BecomeType DEF TypeInv
  <2>5. kvq' \in [Tabs -> Seq(KvRequest)] /\ wire' = wire /\ sent' = sent + 1
    BY <1>3, <2>1, SendKvType DEF TypeInv
  <2>6. SentBound' /\ sent' \in Ids
    BY <1>1, <1>2, <2>1, <2>5, OwingPays DEF TypeInv
  <2> QED
    BY <2>4, <2>5, <2>6 DEF TypeInv, TypeOK
<1>4. CASE Become(t, w, ksi) /\ UNCHANGED <<sent, kvq, wire>>
  <2>1. ksi \in [BusyFlags -> Task]
    BY <1>1, IdleTaskType
  <2>2. \A f \in BusyFlags : ksi[f].pc \in OwingPcs => task[t][f].pc \in OwingPcs
    BY <1>1, IdleTaskType DEF OwingPcs
  <2> HIDE DEF ksi
  <2>3. RestTyped' /\ sent' = sent
    BY <1>4 DEF TypeInv, TypeOK, RestTyped
  <2> QED
    BY <1>4, <2>1, <2>2, <2>3, QuietStep
<1> QED
  BY <1>3, <1>4 DEF StoreMeta

LEMMA FreeId ==
    ASSUME TypeInv, sent < MaxSent
    PROVE  sent + 1 \in Ids /\ sent \in Nat
BY WalletAssumption DEF TypeInv, TypeOK, Ids

-----------------------------------------------------------------------------
(* Every action keeps the types.                                           *)

LEMMA StoreSeedType ==
    ASSUME TypeInv, NEW t \in Tabs, NEW pc \in {"seed", "restoreSeed"},
           NEW seed \in Seeds, StoreSeed(t, pc, seed)
    PROVE  TypeInv'
<1>1. /\ sent < MaxSent /\ SendKv(t, "seed", seed)
      /\ Become(t, tab[t], [task[t] EXCEPT !["onboard"] =
                              Waiting(pc, <<seed, 0>>, DefaultMeta)])
      /\ UNCHANGED <<store, chain, answers, accepted>>
  BY DEF StoreSeed, Free
<1>2. <<seed, 0>> \in Pks /\ DefaultMeta \in IdentityMeta
  BY WalletAssumption DEF Pks, Indices, DefaultMeta, IdentityMeta
<1>3. Waiting(pc, <<seed, 0>>, DefaultMeta) \in Task
  BY <1>1, <1>2, FreeId, WaitingType
<1>4. kvq' \in [Tabs -> Seq(KvRequest)] /\ wire' = wire /\ sent' = sent + 1
  BY <1>1, FreeId, SendKvType DEF TypeInv
<1>5. RestTyped'
  BY <1>1, <1>4 DEF TypeInv, TypeOK, RestTyped
<1>6. tab[t] \in Tab /\ "onboard" \in BusyFlags
  BY DEF TypeInv, TypeOK, BusyFlags
<1> QED
  BY <1>1, <1>3, <1>4, <1>5, <1>6, StartStep

LEMMA AllocAbove ==
    ASSUME NEW meta \in IdentityMeta
    PROVE  /\ AllocIndex(meta) \in Nat /\ meta.next <= AllocIndex(meta)
           /\ \A i \in meta.ids : i < AllocIndex(meta)
<1> DEFINE S == {meta.next} \cup {i + 1 : i \in meta.ids}
<1>1. /\ MaxIndex \in Nat /\ MaxIndex + 1 \in Nat
      /\ meta.next \in 0..MaxIndex + 1
      /\ \A i \in meta.ids : i \in 0..MaxIndex
  BY WalletAssumption DEF IdentityMeta, Indices
<1>2. S \in SUBSET Nat /\ \A x \in S : x <= MaxIndex + 1
  BY <1>1
<1>3. meta.next \in S /\ \A i \in meta.ids : i + 1 \in S
  OBVIOUS
<1> HIDE DEF S
<1>4. Max(S) \in S /\ \A x \in S : x <= Max(S)
  BY <1>1, <1>2, <1>3, MaxIsGreatest
<1>5. AllocIndex(meta) = Max(S)
  BY DEF AllocIndex, S
<1>6. \A i \in meta.ids : i < Max(S)
  <2> SUFFICES ASSUME NEW i \in meta.ids
               PROVE  i < Max(S)
    OBVIOUS
  <2>1. i \in Nat
    BY <1>1
  <2>2. Max(S) \in Nat
    BY <1>2, <1>4
  <2>3. i + 1 <= Max(S)
    BY <1>3, <1>4
  <2> QED
    BY <2>1, <2>2, <2>3
<1> QED
  BY <1>2, <1>3, <1>4, <1>5, <1>6

LEMMA CreateType ==
    ASSUME TypeInv, NEW t \in Tabs, Create(t)
    PROVE  TypeInv'
<1> DEFINE index == AllocIndex(tab[t].meta)
           pk == KeyOf(tab[t], index)
           w == [tab[t] EXCEPT !.tracked = @ \cup {pk}]
           k == Waiting("put", pk, tab[t].meta)
<1>1. /\ sent < MaxSent /\ SendContract(t, "put", pk) /\ index \in Indices
      /\ Become(t, w, [task[t] EXCEPT !["home"] = k])
      /\ UNCHANGED <<store, chain, answers, accepted>>
      /\ Screen(tab[t]) = Home
  BY DEF Create, Free
<1>2. tab[t] \in Tab /\ "home" \in BusyFlags
  BY DEF TypeInv, TypeOK, BusyFlags
<1>3. pk \in Pks
  BY <1>1, <1>2, ScreenShape DEF BootComplete, KeyOf, Pks
<1> HIDE DEF index, pk
<1>4. w \in Tab
  BY <1>2, <1>3 DEF Tab
<1>5. k \in Task
  BY <1>1, <1>2, <1>3, FreeId, WaitingType DEF Tab
<1>6. wire' \subseteq ContractRequest /\ kvq' = kvq /\ sent' = sent + 1
  BY <1>1, <1>3, FreeId, SendContractType DEF TypeInv
<1>7. RestTyped'
  BY <1>1, <1>6 DEF TypeInv, TypeOK, RestTyped
<1> QED
  BY <1>1, <1>2, <1>4, <1>5, <1>6, <1>7, StartStep

LEMMA PushType ==
    ASSUME TypeInv, NEW t \in Tabs, NEW flag \in BusyFlags,
           NEW pc \in {"slot", "marker"}, NEW index \in Indices,
           Push(t, flag, pc, index)
    PROVE  TypeInv'
<1> DEFINE pk == KeyOf(tab[t], index)
           w == [tab[t] EXCEPT !.tracked = @ \cup {pk}]
           k == Waiting(pc, pk, DefaultMeta)
<1>1. /\ sent < MaxSent /\ SendContract(t, pc, pk)
      /\ Become(t, w, [task[t] EXCEPT ![flag] = k])
      /\ UNCHANGED <<store, chain, answers, accepted>>
      /\ Screen(tab[t]) = Detail(index)
  BY DEF Push, Free, ShowsDetail
<1>2. tab[t] \in Tab /\ DefaultMeta \in IdentityMeta
  BY WalletAssumption DEF TypeInv, TypeOK, DefaultMeta, IdentityMeta, Indices
<1>3. pk \in Pks
  BY <1>1, <1>2, ScreenShape DEF BootComplete, KeyOf, Pks
<1> HIDE DEF pk
<1>4. w \in Tab
  BY <1>2, <1>3 DEF Tab
<1>5. k \in Task
  BY <1>1, <1>2, <1>3, FreeId, WaitingType
<1>6. wire' \subseteq ContractRequest /\ kvq' = kvq /\ sent' = sent + 1
  BY <1>1, <1>3, FreeId, SendContractType DEF TypeInv
<1>7. RestTyped'
  BY <1>1, <1>6 DEF TypeInv, TypeOK, RestTyped
<1> QED
  BY <1>1, <1>4, <1>5, <1>6, <1>7, StartStep

\* What only changes what a session shows.
LEMMA ShowStep ==
    ASSUME TypeInv, NEW t \in Tabs, NEW w \in Tab, Become(t, w, task[t]),
           RestTyped', sent' = sent
    PROVE  TypeInv'
<1>1. task[t] \in [BusyFlags -> Task]
  BY DEF TypeInv, TypeOK
<1> QED
  BY <1>1, QuietStep

LEMMA LookType ==
    ASSUME TypeInv, NEW t \in Tabs,
           NEW view \in {Home, BackupView} \cup {Detail(i) : i \in Indices},
           Look(t, view)
    PROVE  TypeInv'
<1>1. tab[t] \in Tab
  BY DEF TypeInv, TypeOK
<1>2. [tab[t] EXCEPT !.view = view] \in Tab
  BY <1>1 DEF Tab
<1>3. RestTyped' /\ sent' = sent
  BY QuietRest DEF Look
<1> QED
  BY <1>2, <1>3, ShowStep DEF Look

LEMMA UserType ==
    ASSUME TypeInv, NEW t \in Tabs, User(t)
    PROVE  TypeInv'
<1>1. ASSUME GetStarted(t)
      PROVE  TypeInv'
  BY <1>1, StoreSeedType DEF GetStarted
<1>2. ASSUME Restore(t)
      PROVE  TypeInv'
  BY <1>2, StoreSeedType, WalletAssumption DEF Restore
<1>3. ASSUME NEW i \in Indices, NEW f \in {"save", "pic"}, Publish(t, f, i)
      PROVE  TypeInv'
  BY <1>3, PushType DEF Publish, BusyFlags
<1>4. ASSUME NEW i \in Indices, Destroy(t, i)
      PROVE  TypeInv'
  BY <1>4, PushType DEF Destroy, BusyFlags
<1>5. ASSUME NEW i \in Indices, OpenDetail(t, i)
      PROVE  TypeInv'
  BY <1>5, LookType DEF OpenDetail
<1>6. ASSUME OpenBackup(t) \/ Back(t)
      PROVE  TypeInv'
  BY <1>6, LookType DEF OpenBackup, Back
<1> QED
  BY <1>1, <1>2, <1>3, <1>4, <1>5, <1>6, CreateType DEF User

\* What a task holds.
LEMMA TaskShape ==
    ASSUME TypeInv, NEW t \in Tabs, NEW f \in BusyFlags
    PROVE  /\ task[t] \in [BusyFlags -> Task] /\ task[t][f] \in Task
           /\ tab[t] \in Tab
           /\ task[t][f].pk \in Pks \cup {NoPk}
           /\ task[t][f].pk[1] \in Seeds \cup {Absent}
           /\ task[t][f].pk[2] \in Indices
           /\ task[t][f].meta \in IdentityMeta
<1>1. /\ task[t] \in [BusyFlags -> Task] /\ task[t][f] \in Task
      /\ tab[t] \in Tab
  BY DEF TypeInv, TypeOK
<1>2. task[t][f].pk \in Pks \cup {NoPk} /\ task[t][f].meta \in IdentityMeta
  BY <1>1 DEF Task
<1>3. 0 \in Indices
  BY WalletAssumption DEF Indices
<1> QED
  BY <1>1, <1>2, <1>3 DEF Pks, NoPk

\* An action that ends a task, or changes only whether tasks saw an answer.
LEMMA EndStep ==
    ASSUME TypeInv, NEW t \in Tabs, NEW flag \in BusyFlags, NEW w \in Tab,
           Become(t, w, [task[t] EXCEPT ![flag] = IdleTask]),
           RestTyped', sent' = sent
    PROVE  TypeInv'
<1>1. task[t] \in [BusyFlags -> Task]
  BY DEF TypeInv, TypeOK
<1> DEFINE ks == [task[t] EXCEPT ![flag] = IdleTask]
<1>2. ks \in [BusyFlags -> Task]
  BY <1>1, IdleTaskType
<1>3. \A f \in BusyFlags : ks[f].pc \in OwingPcs => task[t][f].pc \in OwingPcs
  BY <1>1, IdleTaskType DEF OwingPcs
<1> HIDE DEF ks
<1>4. Become(t, w, ks)
  BY DEF ks
<1> QED
  BY <1>2, <1>3, <1>4, QuietStep

\* A tab that learns its seed keeps its index and what it saw.
LEMMA SeededTab ==
    ASSUME NEW x \in Tab, NEW seed \in Seeds \cup {Absent}
    PROVE  LET w == [x EXCEPT !.seed = seed, !.fetched = FALSE] IN
           w \in Tab /\ w.seed = seed /\ w.meta = x.meta /\ w.states = x.states
<1> DEFINE v == [x EXCEPT !.seed = seed]
           w == [v EXCEPT !.fetched = FALSE]
<1>1. v \in Tab /\ v.seed = seed /\ v.meta = x.meta /\ v.states = x.states
  BY SMTT(20) DEF Tab
<1> HIDE DEF v
<1>2. w \in Tab /\ w.seed = v.seed /\ w.meta = v.meta /\ w.states = v.states
  BY <1>1, Zenon DEF Tab
<1>3. w = [x EXCEPT !.seed = seed, !.fetched = FALSE]
  BY DEF v
<1> QED
  BY <1>1, <1>2, <1>3

\* So does one that follows more personas.
LEMMA TrackingTab ==
    ASSUME NEW x \in Tab, NEW more \in SUBSET Pks
    PROVE  LET w == [x EXCEPT !.tracked = @ \cup more] IN
           w \in Tab /\ w.seed = x.seed /\ w.meta = x.meta /\ w.states = x.states
BY SMTT(20) DEF Tab

LEMMA ConfirmSeedType ==
    ASSUME TypeInv, NEW t \in Tabs, ConfirmSeed(t)
    PROVE  TypeInv'
<1> DEFINE k == task[t]["onboard"]
           w == [tab[t] EXCEPT !.seed = k.pk[1], !.fetched = FALSE]
           probes == {<<Backup, i>> : i \in 0..ProbeLimit - 1}
           v == [w EXCEPT !.tracked = @ \cup probes]
           ks == [task[t] EXCEPT !["onboard"].pc = "probe"]
<1>1. /\ "onboard" \in BusyFlags /\ k \in Task /\ tab[t] \in Tab
      /\ k.pk[1] \in Seeds \cup {Absent} /\ task[t] \in [BusyFlags -> Task]
      /\ k.pk \in Pks \cup {NoPk}
  <2>1. "onboard" \in BusyFlags
    BY DEF BusyFlags
  <2> QED
    BY <2>1, TaskShape, Zenon
<1>2. w \in Tab
  BY <1>1, SeededTab
<1>3. probes \subseteq Pks
  BY WalletAssumption DEF Pks, Indices
<1>4. v \in Tab
  <2> HIDE DEF w, probes
  <2> QED
    BY <1>2, <1>3, TrackingTab
<1>5. DefaultMeta \in IdentityMeta
  BY WalletAssumption DEF Indices, DefaultMeta, IdentityMeta
<1>6. CASE k.pc = "seed" /\ StoreMeta(t, "onboard", w, k.pk, DefaultMeta)
  <2>1. k.pc \in OwingPcs
    BY <1>6 DEF OwingPcs
  <2>2. UNCHANGED <<store, chain, answers, accepted>>
    BY DEF ConfirmSeed
  <2> HIDE DEF w
  <2> QED
    BY <1>1, <1>2, <1>5, <1>6, <2>1, <2>2, StoreMetaStep
<1>7. CASE k.pc = "restoreSeed" /\ UNCHANGED <<sent, kvq, wire>>
  <2>1. RestTyped' /\ sent' = sent
    BY <1>7 DEF ConfirmSeed, TypeInv, TypeOK, RestTyped
  <2>2. CASE Become(t, v, ks)
    <3>1. ks = [task[t] EXCEPT !["onboard"] = [k EXCEPT !.pc = "probe"]]
      BY <1>1
    <3>2. [k EXCEPT !.pc = "probe"] \in Task
      BY <1>1 DEF Task
    <3>3. ks \in [BusyFlags -> Task]
      BY <1>1, <3>1, <3>2
    <3>4. \A f \in BusyFlags : ks[f].pc \in OwingPcs => task[t][f].pc \in OwingPcs
      BY <1>1, <1>7 DEF OwingPcs
    <3> HIDE DEF ks, v
    <3> QED
      BY <1>4, <2>1, <2>2, <3>3, <3>4, QuietStep
  <2>3. CASE Become(t, v, [task[t] EXCEPT !["onboard"] = IdleTask])
    <3> HIDE DEF v
    <3> QED
      BY <1>1, <1>4, <2>1, <2>3, EndStep
  <2> QED
    BY <1>7, <2>2, <2>3 DEF ConfirmSeed
<1> QED
  BY <1>6, <1>7 DEF ConfirmSeed

\* What a restore stores: personas found alive, and an index above them.
LEMMA EndProbeShape ==
    ASSUME TypeInv, NEW t \in Tabs, EndProbe(t)
    PROVE  LET k == task[t]["onboard"] IN
           /\ k.pc = "probe" /\ UNCHANGED <<store, chain, answers, accepted>>
           /\ \E meta \in IdentityMeta :
                 /\ StoreMeta(t, "onboard", tab[t], k.pk, meta)
                 /\ \A i \in meta.ids : tab[t].states[<<k.pk[1], i>>] = "live"
<1> DEFINE k == task[t]["onboard"]
           State(i) == tab[t].states[<<k.pk[1], i>>]
           found == {i \in 0..ProbeLimit - 1 : State(i) # Unknown}
           next == Max({0} \cup {i + 1 : i \in found})
           ids == {i \in found : State(i) = "live"}
           meta == [ids |-> ids, next |-> next]
<1>1. /\ k.pc = "probe" /\ StoreMeta(t, "onboard", tab[t], k.pk, meta)
      /\ UNCHANGED <<store, chain, answers, accepted>>
  BY Zenon DEF EndProbe
<1>3. /\ found \subseteq 0..ProbeLimit - 1 /\ ids \subseteq found
      /\ MaxIndex \in Nat /\ MaxIndex + 1 \in Nat
      /\ ProbeLimit \in 0..MaxIndex + 1
  BY WalletAssumption
<1>0. \A i \in ids : State(i) = "live"
  OBVIOUS
<1> HIDE DEF found, ids
<1>4. ids \subseteq Indices
  BY <1>3 DEF Indices
<1>5. next \in 0..MaxIndex + 1
  <2> DEFINE S == {0} \cup {i + 1 : i \in found}
  <2>1. S \in SUBSET Nat /\ S # {} /\ \A x \in S : x <= MaxIndex + 1
    BY <1>3
  <2> HIDE DEF S
  <2>2. Max(S) \in S
    BY <1>3, <2>1, MaxIsGreatest
  <2>3. Max(S) \in Nat /\ Max(S) <= MaxIndex + 1
    BY <2>1, <2>2, Zenon
  <2>4. Max(S) \in 0..MaxIndex + 1
    BY <1>3, <2>3
  <2> QED
    BY <2>4 DEF S
<1>6. meta \in IdentityMeta
  BY <1>4, <1>5 DEF IdentityMeta
<1>7. \A i \in meta.ids : tab[t].states[<<k.pk[1], i>>] = "live"
  BY <1>0
<1> HIDE DEF meta
<1>8. \E m \in IdentityMeta :
         /\ StoreMeta(t, "onboard", tab[t], k.pk, m)
         /\ \A i \in m.ids : tab[t].states[<<k.pk[1], i>>] = "live"
  <2> HIDE DEF k
  <2> WITNESS meta \in IdentityMeta
  <2> QED
    BY <1>1, <1>7, Zenon
<1> QED
  BY <1>1, <1>8, Zenon

LEMMA EndProbeType ==
    ASSUME TypeInv, NEW t \in Tabs, EndProbe(t)
    PROVE  TypeInv'
<1>1. /\ "onboard" \in BusyFlags /\ tab[t] \in Tab
      /\ task[t]["onboard"].pk \in Pks \cup {NoPk}
  BY TaskShape DEF BusyFlags
<1>2. "probe" \in OwingPcs
  BY DEF OwingPcs
<1> QED
  BY <1>1, <1>2, EndProbeShape, StoreMetaStep

LEMMA ConfirmPutType ==
    ASSUME TypeInv, NEW t \in Tabs, ConfirmPut(t)
    PROVE  TypeInv'
<1> DEFINE k == task[t]["home"]
           w == [tab[t] EXCEPT !.states[k.pk] = "live"]
           meta == [ids |-> k.meta.ids \cup {k.pk[2]}, next |-> k.pk[2] + 1]
<1>1. /\ k.pc = "put" /\ StoreMeta(t, "home", w, k.pk, meta)
      /\ UNCHANGED <<store, chain, answers, accepted>>
  BY DEF ConfirmPut
<1>2. /\ "home" \in BusyFlags /\ tab[t] \in Tab /\ k.pk \in Pks \cup {NoPk}
      /\ k.pk[2] \in Indices /\ k.meta \in IdentityMeta
  BY TaskShape DEF BusyFlags
<1>3. w \in Tab
  BY <1>2 DEF Tab
<1>4. meta \in IdentityMeta
  BY <1>2, WalletAssumption DEF IdentityMeta, Indices
<1>5. k.pc \in OwingPcs
  BY <1>1 DEF OwingPcs
<1> HIDE DEF w, meta
<1> QED
  BY <1>1, <1>2, <1>3, <1>4, <1>5, StoreMetaStep

LEMMA ConfirmSlotType ==
    ASSUME TypeInv, NEW t \in Tabs, NEW flag \in BusyFlags, ConfirmSlot(t, flag)
    PROVE  TypeInv'
<1> DEFINE k == task[t][flag]
           dead == tab[t].states[k.pk] = "dead"
           w == [tab[t] EXCEPT !.states[k.pk] = IF dead THEN @ ELSE "live"]
<1>1. tab[t] \in Tab
  BY TaskShape
<1>2. w = [tab[t] EXCEPT !.states =
             [tab[t].states EXCEPT ![k.pk] = IF dead THEN @ ELSE "live"]]
  BY <1>1 DEF Tab
<1>3. [tab[t].states EXCEPT ![k.pk] = IF dead THEN @ ELSE "live"]
         \in [Pks -> {Unknown, "live", "dead"}]
  BY <1>1 DEF Tab
<1>4. w \in Tab
  BY <1>1, <1>2, <1>3 DEF Tab
<1> HIDE DEF w
<1>5. Become(t, w, [task[t] EXCEPT ![flag] = IdleTask])
  BY DEF ConfirmSlot, w
<1>6. RestTyped' /\ sent' = sent
  BY QuietRest DEF ConfirmSlot
<1> QED
  BY <1>4, <1>5, <1>6, EndStep

LEMMA ConfirmMarkerType ==
    ASSUME TypeInv, NEW t \in Tabs, ConfirmMarker(t)
    PROVE  TypeInv'
<1> DEFINE k == task[t]["destroy"]
           meta == [tab[t].meta EXCEPT !.ids = @ \ {k.pk[2]}]
<1>1. /\ k.pc = "marker" /\ StoreMeta(t, "destroy", tab[t], k.pk, meta)
      /\ UNCHANGED <<store, chain, answers, accepted>>
  BY DEF ConfirmMarker
<1>2. "destroy" \in BusyFlags /\ tab[t] \in Tab /\ k.pk \in Pks \cup {NoPk}
  BY TaskShape DEF BusyFlags
<1>3. meta \in IdentityMeta
  BY <1>2 DEF Tab, IdentityMeta
<1>4. k.pc \in OwingPcs
  BY <1>1 DEF OwingPcs
<1> HIDE DEF meta
<1> QED
  BY <1>1, <1>2, <1>3, <1>4, StoreMetaStep

LEMMA ConfirmMetaType ==
    ASSUME TypeInv, NEW t \in Tabs, NEW flag \in {"onboard", "home", "destroy"},
           ConfirmMeta(t, flag)
    PROVE  TypeInv'
<1> DEFINE k == task[t][flag]
           w == [tab[t] EXCEPT !.meta = k.meta]
           v == CASE flag = "onboard" -> w
                  [] flag = "home"    -> [w EXCEPT !.view = Detail(k.pk[2])]
                  [] flag = "destroy" -> [w EXCEPT !.states[k.pk] = Unknown,
                                                   !.view = Home]
<1>1. /\ Become(t, v, [task[t] EXCEPT ![flag] = IdleTask])
      /\ UNCHANGED <<store, chain, kvq, wire, answers, history>>
  BY DEF ConfirmMeta
<1>2. /\ flag \in BusyFlags /\ tab[t] \in Tab /\ k.meta \in IdentityMeta
      /\ k.pk[2] \in Indices
  BY TaskShape DEF BusyFlags
<1>3. w \in Tab
  BY <1>2 DEF Tab
<1>4. [w EXCEPT !.view = Detail(k.pk[2])] \in Tab
  BY <1>2, <1>3 DEF Tab
<1>5. [w EXCEPT !.states[k.pk] = Unknown, !.view = Home] \in Tab
  BY <1>3 DEF Tab
<1>6. v \in Tab
  BY <1>3, <1>4, <1>5
<1>7. RestTyped' /\ sent' = sent
  BY <1>1, QuietRest
<1> HIDE DEF v
<1> QED
  BY <1>1, <1>2, <1>6, <1>7, EndStep

LEMMA ProceedType ==
    ASSUME TypeInv, NEW t \in Tabs, Proceed(t)
    PROVE  TypeInv'
<1>1. {"save", "pic"} \subseteq BusyFlags
  BY DEF BusyFlags
<1> QED
  BY <1>1, ConfirmSeedType, EndProbeType, ConfirmPutType, ConfirmSlotType,
     ConfirmMarkerType, ConfirmMetaType DEF Proceed

\* After a reload each secret is what it was or what a request, not read
\* before, put there.
LEMMA ReloadEffect ==
    ASSUME TypeOK, NEW t \in Tabs, Reload(t)
    PROVE  /\ store' = [seed |-> store'.seed, meta |-> store'.meta]
           /\ \A key \in {"seed", "meta"} :
                 \/ store'[key] = store[key]
                 \/ \E r \in Range(kvq[t]) :
                       r.op = "store" /\ r.key = key /\ store'[key] = r.value
           /\ accepted' \subseteq {0} \cup Ids
<1>1. PICK n \in 0..Len(kvq[t]) :
        LET read == {r \in Range(SubSeq(kvq[t], 1, n)) : r.op = "store"}
            Newest(key) == CHOOSE r \in read :
               r.key = key /\ \A q \in read : q.key = key => q.id <= r.id
            Kept(key) == IF \E r \in read : r.key = key
                         THEN Newest(key).value ELSE store[key]
        IN  /\ store' = [seed |-> Kept("seed"), meta |-> Kept("meta")]
            /\ accepted' = accepted \cup {r.id : r \in read}
  BY DEF Reload
<1> DEFINE read == {r \in Range(SubSeq(kvq[t], 1, n)) : r.op = "store"}
           Newest(key) == CHOOSE r \in read :
              r.key = key /\ \A q \in read : q.key = key => q.id <= r.id
           Kept(key) == IF \E r \in read : r.key = key
                        THEN Newest(key).value ELSE store[key]
<1>2. /\ store' = [seed |-> Kept("seed"), meta |-> Kept("meta")]
      /\ accepted' = accepted \cup {r.id : r \in read}
  BY <1>1
<1>3. kvq[t] \in Seq(KvRequest)
  BY DEF TypeOK
<1>4. read \subseteq Range(kvq[t]) /\ Range(kvq[t]) \subseteq KvRequest
  BY <1>3, RangeProperties
<1>5. \A r \in read : r.op = "store" /\ r.id \in Ids
  BY <1>4, KvShape
<1> HIDE DEF read
<1>6. ASSUME NEW key, \E r \in read : r.key = key
      PROVE  Newest(key) \in read /\ Newest(key).key = key
  <2> DEFINE S == {r.id : r \in {q \in read : q.key = key}}
  <2>1. S \in SUBSET Nat /\ \A x \in S : x <= 2 * MaxSent
    BY <1>5, WalletAssumption DEF Ids
  <2>2. S # {}
    BY <1>6, Zenon
  <2>3. 2 * MaxSent \in Nat
    BY WalletAssumption
  <2>4. PICK m \in S : \A x \in S : x <= m
    <3> HIDE DEF S
    <3> QED
      BY <2>1, <2>2, <2>3, GreatestNatural
  <2>5. PICK r \in read : r.key = key /\ r.id = m
    OBVIOUS
  <2>6. \A q \in read : q.key = key => q.id <= r.id
    BY <2>4, <2>5
  <2> QED
    BY <2>5, <2>6
<1>7. \A key \in {"seed", "meta"} :
         \/ Kept(key) = store[key]
         \/ \E r \in read : r.key = key /\ Kept(key) = r.value
  BY <1>6
<1> HIDE DEF Kept
<1>8. store'["seed"] = Kept("seed") /\ store'["meta"] = Kept("meta")
  BY <1>2
<1>9. \A key \in {"seed", "meta"} : store'[key] = Kept(key)
  BY <1>8
<1>10. accepted' \subseteq {0} \cup Ids
  <2>1. accepted \subseteq {0} \cup Ids
    BY DEF TypeOK
  <2>2. accepted' = accepted \cup {r.id : r \in read}
    BY <1>2
  <2>3. {r.id : r \in read} \subseteq Ids
    BY <1>5, Zenon
  <2> QED
    BY <2>1, <2>2, <2>3, Zenon
<1>11. store' = [seed |-> store'.seed, meta |-> store'.meta]
  BY <1>2
<1>12. ASSUME NEW key \in {"seed", "meta"}
       PROVE  \/ store'[key] = store[key]
              \/ \E r \in Range(kvq[t]) :
                    r.op = "store" /\ r.key = key /\ store'[key] = r.value
  <2>1. CASE Kept(key) = store[key]
    BY <1>9, <2>1
  <2>2. CASE \E r \in read : r.key = key /\ Kept(key) = r.value
    BY <1>4, <1>5, <1>9, <2>2
  <2> QED
    BY <1>7, <2>1, <2>2
<1> QED
  BY <1>10, <1>11, <1>12

LEMMA ReloadType ==
    ASSUME TypeInv, NEW t \in Tabs, Reload(t)
    PROVE  TypeInv'
<1> DEFINE idle == [f \in BusyFlags |-> IdleTask]
<1>1. /\ tab' = [tab EXCEPT ![t] = NewTab] /\ task' = [task EXCEPT ![t] = idle]
      /\ kvq' = [kvq EXCEPT ![t] = BootRequests]
      /\ wire' = {IF r.tab = t THEN [r EXCEPT !.tab = Absent] ELSE r : r \in wire}
      /\ answers' = {a \in answers : a.tab # t} /\ UNCHANGED <<chain, sent>>
  BY DEF Reload
<1>2. TypeOK /\ SentBound /\ sent \in Nat
  BY DEF TypeInv, TypeOK, Ids
<1>3. idle \in [BusyFlags -> Task]
  BY IdleTaskType
<1>4. task' \in [Tabs -> [BusyFlags -> Task]] /\ tab' \in [Tabs -> Tab]
  <2> HIDE DEF idle
  <2> QED
    BY <1>1, <1>2, <1>3, NewTabType DEF TypeOK
<1>5. kvq' \in [Tabs -> Seq(KvRequest)]
  BY <1>1, <1>2, BootShape DEF TypeOK
<1>6. wire' \subseteq ContractRequest
  <2>1. \A r \in wire : r \in ContractRequest /\ [r EXCEPT !.tab = Absent] \in ContractRequest
    BY <1>2 DEF TypeOK, ContractRequest
  <2> QED
    BY <1>1, <2>1
<1>7. /\ store' = [seed |-> store'.seed, meta |-> store'.meta]
      /\ store'.seed \in Seeds \cup {Absent} /\ store'.meta \in IdentityMeta \cup {Absent}
  <2>1. Range(kvq[t]) \subseteq KvRequest /\ store.seed \in Seeds \cup {Absent}
        /\ store.meta \in IdentityMeta \cup {Absent}
    BY <1>2, RangeProperties DEF TypeOK
  <2>2. \/ store'.seed = store.seed
        \/ \E r \in Range(kvq[t]) :
              r.op = "store" /\ r.key = "seed" /\ store'.seed = r.value
    BY <1>2, ReloadEffect
  <2>3. \/ store'.meta = store.meta
        \/ \E r \in Range(kvq[t]) :
              r.op = "store" /\ r.key = "meta" /\ store'.meta = r.value
    BY <1>2, ReloadEffect
  <2>4. store' = [seed |-> store'.seed, meta |-> store'.meta]
    BY <1>2, ReloadEffect
  <2>5. store'.seed \in Seeds \cup {Absent}
    BY <2>1, <2>2, KvShape
  <2>6. store'.meta \in IdentityMeta \cup {Absent}
    BY <2>1, <2>3, KvShape
  <2> QED
    BY <2>4, <2>5, <2>6
<1>8. accepted' \subseteq {0} \cup Ids
  BY <1>2, ReloadEffect
<1>9. Owing' \subseteq Owing
  <2> SUFFICES ASSUME NEW x \in Owing'
               PROVE  x \in Owing
    OBVIOUS
  <2>1. x \in Tabs \X BusyFlags /\ task'[x[1]][x[2]].pc \in OwingPcs
    BY DEF Owing
  <2>2. x[1] # t
    BY <1>1, <1>2, <2>1, IdleTaskType DEF OwingPcs, TypeOK
  <2> QED
    BY <1>1, <1>2, <2>1, <2>2 DEF Owing, TypeOK
<1>10. SentBound'
  BY <1>1, <1>2, <1>9, OwingShrinks
<1>11. store' \in [seed : Seeds \cup {Absent}, meta : IdentityMeta \cup {Absent}]
  BY <1>7
<1> QED
  BY <1>1, <1>2, <1>4, <1>5, <1>6, <1>8, <1>10, <1>11 DEF TypeInv, TypeOK

LEMMA GiveUpType ==
    ASSUME TypeInv, NEW t \in Tabs, NEW flag \in BusyFlags, GiveUp(t, flag)
    PROVE  TypeInv'
<1>1. tab[t] \in Tab
  BY TaskShape
<1>2. /\ Become(t, tab[t], [task[t] EXCEPT ![flag] = IdleTask])
      /\ UNCHANGED <<store, chain, kvq, wire, answers, history>>
  BY DEF GiveUp
<1> QED
  BY <1>1, <1>2, QuietRest, EndStep

LEMMA FetchAllType ==
    ASSUME TypeInv, NEW t \in Tabs, FetchAll(t)
    PROVE  TypeInv'
<1> DEFINE pks == {KeyOf(tab[t], i) : i \in tab[t].meta.ids}
           w == [tab[t] EXCEPT !.fetched = TRUE, !.tracked = @ \cup pks]
<1>1. /\ BootComplete(tab[t]) /\ Become(t, w, task[t])
      /\ wire' = wire \cup [tab : {t}, op : {"put"}, pk : pks, id : {0}]
      /\ UNCHANGED <<store, chain, kvq, answers, history>>
  BY DEF FetchAll
<1>2. tab[t] \in Tab
  BY DEF TypeInv, TypeOK
<1>3. pks \subseteq Pks
  BY <1>1, <1>2 DEF BootComplete, KeyOf, Pks, Tab, IdentityMeta
<1> HIDE DEF pks
<1>4. w \in Tab
  BY <1>2, <1>3 DEF Tab
<1>5. [tab : {t}, op : {"put"}, pk : pks, id : {0}] \subseteq ContractRequest
  BY <1>3 DEF ContractRequest
<1> HIDE DEF w
<1>6. RestTyped' /\ sent' = sent
  BY <1>1, <1>5 DEF TypeInv, TypeOK, RestTyped, history
<1> QED
  BY <1>1, <1>4, <1>6, ShowStep

LEMMA WatchdogType ==
    ASSUME TypeInv, NEW t \in Tabs, Watchdog(t)
    PROVE  TypeInv'
<1>1. tab[t] \in Tab
  BY DEF TypeInv, TypeOK
<1>2. [tab[t] EXCEPT !.unreachable = TRUE] \in Tab
  BY <1>1 DEF Tab
<1>3. RestTyped' /\ sent' = sent
  BY QuietRest DEF Watchdog
<1> QED
  BY <1>2, <1>3, ShowStep DEF Watchdog

\* An answer moves no task, it only marks those that wait for it.
LEMMA AckedShape ==
    ASSUME TypeInv, NEW t \in Tabs, NEW flags
    PROVE  /\ Acked(t, flags) \in [BusyFlags -> Task]
           /\ \A f \in BusyFlags :
                 /\ Acked(t, flags)[f].pc = task[t][f].pc
                 /\ Acked(t, flags)[f].pk = task[t][f].pk
                 /\ Acked(t, flags)[f].req = task[t][f].req
                 /\ Acked(t, flags)[f].meta = task[t][f].meta
                 /\ Acked(t, flags)[f].hit = (task[t][f].hit \/ f \in flags)
<1> SUFFICES ASSUME NEW f \in BusyFlags
             PROVE  LET k == IF f \in flags THEN [task[t][f] EXCEPT !.hit = TRUE]
                                            ELSE task[t][f]
                    IN  /\ k \in Task /\ k.pc = task[t][f].pc
                        /\ k.pk = task[t][f].pk /\ k.req = task[t][f].req
                        /\ k.meta = task[t][f].meta
                        /\ k.hit = (task[t][f].hit \/ f \in flags)
  BY DEF Acked
<1>1. task[t][f] \in Task
  BY DEF TypeInv, TypeOK
<1> QED
  BY <1>1 DEF Task

LEMMA AckedStep ==
    ASSUME TypeInv, NEW t \in Tabs, NEW w \in Tab, NEW flags,
           Become(t, w, Acked(t, flags)), RestTyped', sent' = sent
    PROVE  TypeInv'
BY AckedShape, QuietStep

LEMMA ArriveType ==
    ASSUME TypeInv, NEW t \in Tabs, NEW pk \in Pks, NEW state \in {"live", "dead"},
           Arrive(t, pk, state)
    PROVE  TypeInv'
<1> DEFINE w == [tab[t] EXCEPT !.states[pk] = IF @ = "dead" THEN @ ELSE state]
           showing == {f \in BusyFlags : LET k == task[t][f] IN
                         k.pc = "slot" /\ k.pk = pk /\ state = "live"
                            /\ k.req \in accepted}
<1>1. Become(t, w, Acked(t, showing))
  BY DEF Arrive
<1>2. tab[t] \in Tab
  BY DEF TypeInv, TypeOK
<1>3. w \in Tab
  BY <1>2 DEF Tab
<1>4. RestTyped' /\ sent' = sent
  BY QuietRest DEF Arrive
<1> HIDE DEF w, showing
<1> QED
  BY <1>1, <1>3, <1>4, AckedStep

LEMMA SessionType ==
    ASSUME TypeInv, NEW t \in Tabs, Session(t)
    PROVE  TypeInv'
BY GiveUpType, FetchAllType, WatchdogType, ReloadType, ArriveType DEF Session

\* A step of the node.
LEMMA NodeStep ==
    ASSUME TypeInv, RestTyped', UNCHANGED <<tab, task, sent>>
    PROVE  TypeInv'
<1>1. Owing' = Owing
  BY DEF Owing
<1> QED
  BY <1>1 DEF TypeInv, TypeOK, RestTyped, SentBound

\* The delegate reads the first request of a session: it answers and stores,
\* fails, or answers with what cannot be decoded.
LEMMA ServeKvEffect ==
    ASSUME TypeOK, NEW t \in Tabs, ServeKv(t)
    PROVE  LET r == Head(kvq[t]) IN
           /\ kvq[t] # <<>> /\ r \in KvRequest /\ r \in Range(kvq[t])
           /\ kvq' = [kvq EXCEPT ![t] = Tail(kvq[t])]
           /\ Tail(kvq[t]) \in Seq(KvRequest)
           /\ Range(Tail(kvq[t])) \subseteq Range(kvq[t])
           /\ UNCHANGED <<chain, tab, task, wire, sent>>
           /\ \/ /\ r.op = "store" /\ accepted' = accepted \cup {r.id}
                 /\ answers' = answers \cup
                      {[tab |-> t, kind |-> "stored", key |-> r.key, id |-> r.id]}
                 /\ store' = [store EXCEPT ![r.key] = r.value]
              \/ /\ r.op = "get" /\ UNCHANGED <<store, accepted>>
                 /\ \E v \in {store[r.key], Corrupt} :
                       answers' = answers \cup
                                    {[tab |-> t, kind |-> r.key, value |-> v]}
              \/ /\ UNCHANGED <<store, accepted>>
                 /\ answers' = answers \cup
                                 {[tab |-> t, kind |-> "empty", to |-> r]}
              \/ r.op = "store" /\ UNCHANGED <<store, accepted, answers>>
<1> DEFINE r == Head(kvq[t])
<1>1. kvq[t] # <<>> /\ kvq[t] \in Seq(KvRequest)
  BY DEF ServeKv, TypeOK
<1>2. /\ r \in Range(kvq[t]) /\ Range(Tail(kvq[t])) \subseteq Range(kvq[t])
      /\ r \in KvRequest /\ Tail(kvq[t]) \in Seq(KvRequest)
  BY <1>1, RangeProperties, HeadTailProperties
<1>3. r.op \in {"register", "get", "store"}
  BY <1>2, KvShape
<1>4. r.op = "register" => r = Register
  BY <1>2, KvShape
<1>5. /\ r.op = "register" => AnswerTo(t, r) = [tab |-> t, kind |-> "empty", to |-> r]
      /\ r.op = "get" => AnswerTo(t, r) = [tab |-> t, kind |-> r.key, value |-> store[r.key]]
      /\ r.op = "store" =>
            AnswerTo(t, r) = [tab |-> t, kind |-> "stored", key |-> r.key, id |-> r.id]
  BY DEF AnswerTo
<1>6. /\ kvq' = [kvq EXCEPT ![t] = Tail(kvq[t])]
      /\ UNCHANGED <<chain, tab, task, wire, sent>>
  BY DEF ServeKv, TypeOK
<1>7. \/ /\ answers' = answers \cup {AnswerTo(t, r)}
         /\ IF r.op = "store"
            THEN /\ store' = [store EXCEPT ![r.key] = r.value]
                 /\ accepted' = accepted \cup {r.id}
            ELSE UNCHANGED <<store, accepted>>
      \/ /\ \/ answers' = answers \cup {[tab |-> t, kind |-> "empty", to |-> r]}
            \/ r.op = "store" /\ UNCHANGED answers
         /\ UNCHANGED <<store, accepted>>
      \/ /\ r.op = "get"
         /\ answers' = answers \cup {[tab |-> t, kind |-> r.key, value |-> Corrupt]}
         /\ UNCHANGED <<store, accepted>>
  BY DEF ServeKv
<1> HIDE DEF r
<1>8. \/ /\ r.op = "store" /\ accepted' = accepted \cup {r.id}
         /\ answers' = answers \cup
              {[tab |-> t, kind |-> "stored", key |-> r.key, id |-> r.id]}
         /\ store' = [store EXCEPT ![r.key] = r.value]
      \/ /\ r.op = "get" /\ UNCHANGED <<store, accepted>>
         /\ \E v \in {store[r.key], Corrupt} :
               answers' = answers \cup {[tab |-> t, kind |-> r.key, value |-> v]}
      \/ /\ UNCHANGED <<store, accepted>>
         /\ answers' = answers \cup {[tab |-> t, kind |-> "empty", to |-> r]}
      \/ r.op = "store" /\ UNCHANGED <<store, accepted, answers>>
  <2>1. CASE r.op = "store"
    BY <1>5, <1>7, <2>1
  <2>2. CASE r.op = "get"
    BY <1>5, <1>7, <2>2
  <2>3. CASE r.op = "register"
    BY <1>5, <1>7, <2>3
  <2> QED
    BY <1>3, <2>1, <2>2, <2>3
<1> QED
  BY <1>1, <1>2, <1>6, <1>8 DEF r

LEMMA ServeKvType ==
    ASSUME TypeInv, NEW t \in Tabs, ServeKv(t)
    PROVE  TypeInv'
<1> DEFINE r == Head(kvq[t])
<1>1. TypeOK
  BY DEF TypeInv
<1>2. /\ r \in KvRequest /\ kvq' = [kvq EXCEPT ![t] = Tail(kvq[t])]
      /\ Tail(kvq[t]) \in Seq(KvRequest)
      /\ UNCHANGED <<chain, tab, task, wire, sent>>
  BY <1>1, ServeKvEffect
<1>3. kvq' \in [Tabs -> Seq(KvRequest)]
  BY <1>1, <1>2 DEF TypeOK
<1>4. \/ /\ r.op = "store" /\ accepted' = accepted \cup {r.id}
         /\ answers' = answers \cup
              {[tab |-> t, kind |-> "stored", key |-> r.key, id |-> r.id]}
         /\ store' = [store EXCEPT ![r.key] = r.value]
      \/ /\ r.op = "get" /\ UNCHANGED <<store, accepted>>
         /\ \E v \in {store[r.key], Corrupt} :
               answers' = answers \cup {[tab |-> t, kind |-> r.key, value |-> v]}
      \/ /\ UNCHANGED <<store, accepted>>
         /\ answers' = answers \cup {[tab |-> t, kind |-> "empty", to |-> r]}
      \/ r.op = "store" /\ UNCHANGED <<store, accepted, answers>>
  BY <1>1, ServeKvEffect
<1> HIDE DEF r
<1>5. /\ r.op = "get" => r.key \in {"seed", "meta"}
      /\ r.op = "store" => /\ r.key \in {"seed", "meta"} /\ r.id \in Ids
                           /\ r.key = "seed" => r.value \in Seeds
                           /\ r.key = "meta" => r.value \in IdentityMeta
  BY <1>2, KvShape
<1>6. /\ store = [seed |-> store.seed, meta |-> store.meta]
      /\ store["seed"] \in Seeds \cup {Absent}
      /\ store["meta"] \in IdentityMeta \cup {Absent}
  BY <1>1 DEF TypeOK
<1>7. store' \in [seed : Seeds \cup {Absent}, meta : IdentityMeta \cup {Absent}]
      /\ accepted' \subseteq {0} \cup Ids
  <2>1. CASE r.op = "store" /\ accepted' = accepted \cup {r.id}
             /\ store' = [store EXCEPT ![r.key] = r.value]
    BY <1>1, <1>5, <2>1 DEF TypeOK
  <2>2. CASE UNCHANGED <<store, accepted>>
    BY <1>1, <2>2 DEF TypeOK
  <2> QED
    BY <1>4, <2>1, <2>2
<1>8. answers' \subseteq Answer
  <2>1. r.op = "store" =>
           [tab |-> t, kind |-> "stored", key |-> r.key, id |-> r.id] \in Answer
    BY <1>5 DEF Answer
  <2>2. ASSUME r.op = "get", NEW v \in {store[r.key], Corrupt}
        PROVE  [tab |-> t, kind |-> r.key, value |-> v] \in Answer
    BY <1>5, <1>6, <2>2 DEF Answer
  <2>3. [tab |-> t, kind |-> "empty", to |-> r] \in Answer
    BY <1>2 DEF Answer
  <2>4. answers \subseteq Answer
    BY <1>1 DEF TypeOK
  <2> QED
    BY <1>4, <2>1, <2>2, <2>3, <2>4
<1>9. RestTyped'
  BY <1>1, <1>2, <1>3, <1>7, <1>8 DEF TypeOK, RestTyped
<1> QED
  BY <1>2, <1>9, NodeStep

LEMMA ServeContractType ==
    ASSUME TypeInv, NEW r \in wire, ServeContract(r)
    PROVE  TypeInv'
<1>1. r \in ContractRequest /\ r.pk \in Pks /\ r.id \in {0} \cup Ids
      /\ r.tab \in Tabs \cup {Absent}
  BY DEF TypeInv, TypeOK, ContractRequest
<1>2. After(r) \in {"absent", "live", "dead"}
  BY <1>1 DEF After, TypeInv, TypeOK
<1>3. chain' \in [Pks -> {"absent", "live", "dead"}]
  BY <1>1, <1>2 DEF ServeContract, TypeInv, TypeOK
<1>4. answers' \subseteq Answer
  <2>1. r.tab # Absent =>
           [tab |-> r.tab, kind |-> "ack", pk |-> r.pk, id |-> r.id] \in Answer
    BY <1>1 DEF Answer
  <2>2. answers \subseteq Answer
    BY DEF TypeInv, TypeOK
  <2> QED
    BY <2>1, <2>2 DEF ServeContract
<1>5. accepted' \subseteq {0} \cup Ids
  <2>1. accepted' = accepted \cup {r.id} \/ accepted' = accepted
    BY Zenon DEF ServeContract
  <2>2. accepted \subseteq {0} \cup Ids
    BY DEF TypeInv, TypeOK
  <2> QED
    BY <1>1, <2>1, <2>2
<1>6. RestTyped'
  BY <1>3, <1>4, <1>5 DEF ServeContract, TypeInv, TypeOK, RestTyped
<1> QED
  BY <1>6, NodeStep DEF ServeContract

LEMMA MinOfTwo ==
    ASSUME NEW x \in 0..2
    PROVE  Min({x + 1, 2}) \in 0..2
<1>1. \A n \in {1, 2, 3} : Min({n, 2}) \in {1, 2}
  <2>1. Min({1, 2}) = 1
    BY DEF Min
  <2>2. Min({2, 2}) = 2
    BY DEF Min
  <2>3. Min({3, 2}) = 2
    BY DEF Min
  <2> QED
    BY <2>1, <2>2, <2>3
<1>2. x + 1 \in {1, 2, 3}
  OBVIOUS
<1> QED
  BY <1>1, <1>2

LEMMA DispatchType ==
    ASSUME TypeInv, NEW a \in answers, Dispatch(a)
    PROVE  TypeInv'
<1> DEFINE t == a.tab
           w == tab[a.tab]
<1>1. a \in Answer /\ t \in Tabs /\ w \in Tab
  BY AnswerShape DEF TypeInv, TypeOK
<1>2. RestTyped' /\ sent' = sent
  BY DEF Dispatch, TypeInv, TypeOK, RestTyped, history
<1>3. ASSUME ContractAck(a) \/ StoredAck(a)
      PROVE  TypeInv'
  <2>1. \E flags : Become(t, w, Acked(t, flags))
    BY <1>3, Zenon DEF ContractAck, StoredAck
  <2> HIDE DEF t, w
  <2> QED
    BY <1>1, <1>2, <2>1, AckedStep
<1>4. ASSUME SeedValue(a) \/ MetaValue(a) \/ EmptyValue(a)
      PROVE  \E v \in Tab : Become(t, v, task[t])
  <2>1. CASE SeedValue(a)
    <3>1. a.value \in Seeds \cup {Absent, Corrupt}
      BY <1>1, <2>1, AnswerShape DEF SeedValue
    <3>2. [w EXCEPT !.unreachable = TRUE] \in Tab
      BY <1>1 DEF Tab
    <3>3. a.value # Corrupt => [w EXCEPT !.seed = a.value, !.fetched = FALSE] \in Tab
      BY <1>1, <3>1 DEF Tab
    <3> HIDE DEF t, w
    <3> QED
      BY <2>1, <3>2, <3>3 DEF SeedValue, t, w
  <2>2. CASE MetaValue(a)
    <3> DEFINE v == CASE a.value = Corrupt -> [w EXCEPT !.unreachable = TRUE]
                      [] a.value = Absent -> [w EXCEPT !.meta = DefaultMeta,
                                    !.metaLoaded = TRUE, !.fetched = FALSE]
                      [] OTHER -> [w EXCEPT !.meta = a.value,
                                    !.metaLoaded = TRUE, !.fetched = FALSE]
    <3>1. a.value \in IdentityMeta \cup {Absent, Corrupt}
      BY <1>1, <2>2, AnswerShape DEF MetaValue
    <3>2. DefaultMeta \in IdentityMeta
      BY WalletAssumption DEF Indices, DefaultMeta, IdentityMeta
    <3>3. [w EXCEPT !.unreachable = TRUE] \in Tab
      BY <1>1 DEF Tab
    <3>4. \A m \in IdentityMeta : [w EXCEPT !.meta = m, !.metaLoaded = TRUE,
                                            !.fetched = FALSE] \in Tab
      BY <1>1 DEF Tab
    <3>5. v \in Tab
      BY <3>1, <3>2, <3>3, <3>4
    <3>6. Become(t, v, task[t])
      BY <2>2 DEF MetaValue
    <3> HIDE DEF v
    <3> QED
      BY <3>5, <3>6
  <2>3. CASE EmptyValue(a)
    <3> DEFINE seen == Min({w.empties + 1, 2})
               v == IF w.seed # Unknown THEN w
                    ELSE [w EXCEPT !.empties = seen,
                                   !.unreachable = @ \/ seen = 2]
    <3>1. seen \in 0..2
      BY <1>1, MinOfTwo DEF Tab
    <3> HIDE DEF seen
    <3>2. v \in Tab
      BY <1>1, <3>1 DEF Tab
    <3>3. Become(t, v, task[t])
      BY <2>3 DEF EmptyValue, seen
    <3> HIDE DEF v
    <3> QED
      BY <3>2, <3>3
  <2> QED
    BY <1>4, <2>1, <2>2, <2>3
<1> HIDE DEF t
<1>5. ASSUME SeedValue(a) \/ MetaValue(a) \/ EmptyValue(a)
      PROVE  TypeInv'
  BY <1>1, <1>2, <1>4, <1>5, ShowStep
<1> QED
  BY <1>3, <1>5 DEF Dispatch

LEMMA TypeInvInit == Init => TypeInv
<1> SUFFICES ASSUME Init PROVE TypeInv
  OBVIOUS
<1>1. store \in [seed : Seeds \cup {Absent}, meta : IdentityMeta \cup {Absent}]
  BY WalletAssumption DEF Init, RestMetas
<1>2. /\ tab \in [Tabs -> Tab] /\ task \in [Tabs -> [BusyFlags -> Task]]
      /\ kvq \in [Tabs -> Seq(KvRequest)]
  BY NewTabType, IdleTaskType, BootShape DEF Init
<1>3. TypeOK
  BY <1>1, <1>2 DEF Init, TypeOK
<1>4. Owing = {}
  BY IdleTaskType DEF Init, Owing, OwingPcs
<1>5. Cardinality(Owing) = 0
  BY <1>4, FS_EmptySet
<1> QED
  BY <1>3, <1>5, WalletAssumption DEF TypeInv, SentBound, Init

LEMMA TypeInvNext == TypeInv /\ [Next]_vars => TypeInv'
<1> SUFFICES ASSUME TypeInv, [Next]_vars
             PROVE  TypeInv'
  OBVIOUS
<1>1. CASE UNCHANGED vars
  <2>1. RestTyped' /\ UNCHANGED <<tab, task, sent>>
    BY <1>1 DEF vars, history, TypeInv, TypeOK, RestTyped
  <2> QED
    BY <2>1, NodeStep
<1>2. CASE Next
  BY <1>2, UserType, ProceedType, SessionType, ServeKvType, ServeContractType,
     DispatchType DEF Next
<1> QED
  BY <1>1, <1>2

\* Every variable keeps its type: in particular no task sends more than two
\* requests, and restore and the allocation stay within the indices.
THEOREM WalletTypeCorrect == Spec => []TypeOK
<1>1. TypeInv => TypeOK
  BY DEF TypeInv
<1> QED
  BY <1>1, TypeInvInit, TypeInvNext, PTL DEF Spec

-----------------------------------------------------------------------------
(* The seed, when the delegate holds one from the start: nothing is ever   *)
(* onboarded, whatever goes wrong in however many sessions.                *)

InstalledInv ==
    /\ store.seed = Installed
    /\ \A t \in Tabs :
          /\ tab[t].seed \in {Unknown, Installed}
          /\ task[t]["onboard"].pc = "idle"
          /\ \A r \in Range(kvq[t]) : r.op = "store" => r.key = "meta"
    /\ \A a \in answers : a.kind = "seed" => a.value \in {Installed, Corrupt}

-----------------------------------------------------------------------------
(* The seed, when one session may be onboarded: no wait ends while its     *)
(* answer is under way, so at most one seed is on its way to the delegate. *)

SingleSession == \A t, u \in Tabs : t = u

SeedStores == {r \in KvRequest : r.op = "store" /\ r.key = "seed"}

SeedWaits == {"seed", "restoreSeed"}

SeedAcks == {a \in answers : a.kind = "stored" /\ a.key = "seed"}

SeedValues == {a \in answers : a.kind = "seed"}

\* At most one place of sequence s holds a member of T.
Once(s, T) == \A i, j \in 1..Len(s) : s[i] \in T /\ s[j] \in T => i = j

\* The delegate is asked for the seed once, and says what it holds.
AsksOnce(t) ==
    /\ Once(kvq[t], {GetSeed})
    /\ GetSeed \in Range(kvq[t]) => tab[t].seed = Unknown /\ SeedValues = {}
    /\ \A a, b \in SeedValues : a = b
    /\ \A a \in SeedValues : tab[t].seed = Unknown /\ a.value \in {store.seed, Corrupt}

\* A seed is sent only to a delegate that has none, one at a time, by the task
\* that waits for it or by one whose screen was lost for good.
StoresOnce(t) ==
    LET k == task[t]["onboard"] IN
    /\ Once(kvq[t], SeedStores)
    /\ \A r \in SeedStores : r \in Range(kvq[t]) =>
          /\ store.seed = Absent /\ tab[t].seed = Absent /\ SeedAcks = {}
          /\ IF k.pc \in SeedWaits
             THEN ~ k.hit /\ r.id = k.req /\ r.value = k.pk[1]
             ELSE tab[t].unreachable
    /\ \A a \in SeedAcks :
          /\ store.seed \in Seeds /\ tab[t].seed # Unknown
          /\ k.pc \in SeedWaits => a.id = k.req /\ store.seed = k.pk[1]

\* A session that was told there is no seed is right until its own is stored,
\* and then it is about to see the ack.
KnowsSeed(t) ==
    LET k == task[t]["onboard"] IN
    /\ k.pc \in SeedWaits => /\ tab[t].seed = Absent /\ k.pk[1] \in Seeds
                             /\ k.hit => store.seed = k.pk[1]
    /\ k.pc = "probe" => store.seed \in Seeds /\ k.pk[1] = store.seed
    /\ tab[t].seed = Absent /\ ~ tab[t].unreachable /\ store.seed # Absent =>
          /\ k.pc \in SeedWaits
          /\ k.hit \/ \E a \in SeedAcks : a.id = k.req
    /\ tab[t].seed \in Seeds => tab[t].seed = store.seed

OnboardInv == \A t \in Tabs : AsksOnce(t) /\ StoresOnce(t) /\ KnowsSeed(t)

-----------------------------------------------------------------------------
(* Every persona listed exists.                                            *)

\* A list is only ever one of personas of the stored seed with a contract.
AllExist(seed, contracts, meta) ==
    \A i \in meta.ids : seed \in Seeds /\ contracts[<<seed, i>>] # "absent"

TabExists(seed, contracts, w) ==
    /\ AllExist(seed, contracts, w.meta)
    /\ \A pk \in Pks : w.states[pk] # Unknown => contracts[pk] # "absent"

\* What a task will list exists, and what it saw confirmed.
TaskExists(seed, contracts, k) ==
    /\ k.pc \in {"put", "meta"} => AllExist(seed, contracts, k.meta)
    /\ k.pc \in {"put", "slot", "marker"} /\ k.hit =>
          k.pk \in Pks /\ contracts[k.pk] # "absent"
    /\ k.pc = "put" => seed \in Seeds /\ k.pk[1] = seed

AnswerExists(seed, contracts, a) ==
    /\ a.kind = "ack" => contracts[a.pk] # "absent"
    /\ a.kind = "meta" /\ a.value \in IdentityMeta =>
          AllExist(seed, contracts, a.value)

EntryInv ==
    /\ store.meta # Absent => AllExist(store.seed, chain, store.meta)
    /\ \A t \in Tabs :
          /\ TabExists(store.seed, chain, tab[t])
          /\ \A f \in BusyFlags : TaskExists(store.seed, chain, task[t][f])
          /\ \A r \in Range(kvq[t]) :
                IsMetaStore(r) => AllExist(store.seed, chain, r.value)
    /\ \A a \in answers : AnswerExists(store.seed, chain, a)

-----------------------------------------------------------------------------
(* Most steps leave the seed, its requests and its answers alone.          *)

\* What the task behind onboarding may become, unless it is cut.
Follows(k, n) ==
    /\ k.pc = "idle" => n.pc = "idle"
    /\ k.pc \in SeedWaits \/ n.pc \in SeedWaits =>
          n.pc = k.pc /\ n.pk = k.pk /\ n.req = k.req /\ n.hit = k.hit
    /\ n.pc = "probe" => k.pc = "probe" /\ n.pk = k.pk

SameOrMore(t) ==
    \/ kvq'[t] = kvq[t]
    \/ \E m \in IdentityMeta, id \in Ids :
          kvq'[t] = Append(kvq[t], Store("meta", m, id))

Quiet(t) ==
    /\ store' = store /\ SeedAcks' = SeedAcks /\ SeedValues' = SeedValues
    /\ \A u \in Tabs : u # t => tab'[u] = tab[u] /\ task'[u] = task[u]
    /\ \A u \in Tabs : SameOrMore(u)
    /\ tab'[t].seed = tab[t].seed
    /\ tab[t].unreachable => tab'[t].unreachable
    /\ \/ Follows(task[t]["onboard"], task'[t]["onboard"])
       \/ /\ task'[t]["onboard"] = IdleTask
          /\ Screen(tab'[t]) # <<"onboarding">>

\* The second request of a task, if it can be sent.
LEMMA StoreMetaEffect ==
    ASSUME TypeInv, TypeInv', NEW t \in Tabs, NEW flag, NEW w, NEW pk,
           NEW meta \in IdentityMeta, StoreMeta(t, flag, w, pk, meta)
    PROVE  /\ wire' = wire
           /\ \/ /\ Become(t, w, [task[t] EXCEPT ![flag] = Waiting("meta", pk, meta)])
                 /\ sent + 1 \in Ids
                 /\ kvq' = [kvq EXCEPT ![t] =
                              Append(kvq[t], Store("meta", meta, sent + 1))]
              \/ /\ Become(t, w, [task[t] EXCEPT ![flag] = IdleTask])
                 /\ kvq' = kvq
<1>1. CASE /\ SendKv(t, "meta", meta)
           /\ Become(t, w, [task[t] EXCEPT ![flag] = Waiting("meta", pk, meta)])
  <2>1. sent' = sent + 1 /\ wire' = wire
    BY <1>1 DEF SendKv
  <2>2. sent \in Nat /\ sent' \in {0} \cup Ids
    BY DEF TypeInv, TypeOK, Ids
  <2>3. sent + 1 \in Ids
    BY <2>1, <2>2
  <2> QED
    BY <1>1, <2>1, <2>3 DEF SendKv, TypeInv, TypeOK
<1>2. CASE /\ Become(t, w, [task[t] EXCEPT ![flag] = IdleTask])
           /\ UNCHANGED <<sent, kvq, wire>>
  BY <1>2
<1> QED
  BY <1>1, <1>2 DEF StoreMeta

\* A step of one session that keeps the seed it has.
LEMMA QuietBecome ==
    ASSUME TypeInv, NEW t \in Tabs, NEW w, NEW ks, Become(t, w, ks),
           w.seed = tab[t].seed, tab[t].unreachable => w.unreachable,
           Follows(task[t]["onboard"], ks["onboard"]),
           store' = store, SeedAcks' = SeedAcks, SeedValues' = SeedValues,
           \A u \in Tabs : SameOrMore(u)
    PROVE  Quiet(t)
<1>1. /\ tab'[t] = w
      /\ \A u \in Tabs : u # t => tab'[u] = tab[u] /\ task'[u] = task[u]
      /\ \A f \in BusyFlags : task'[t][f] \in {ks[f], IdleTask}
      /\ \A f \in BusyFlags :
            KeepsTasks \/ Mounted(w, f, ks[f]) => task'[t][f] = ks[f]
      /\ "onboard" \in BusyFlags
  BY BecomeEffect DEF TypeInv, BusyFlags
<1>2. Mounted(w, "onboard", ks["onboard"]) = (Screen(w) = <<"onboarding">>)
  BY DEF Mounted
<1>3. \/ task'[t]["onboard"] = ks["onboard"]
      \/ task'[t]["onboard"] = IdleTask /\ Screen(w) # <<"onboarding">>
  BY <1>1, <1>2
<1> QED
  BY <1>1, <1>3 DEF Quiet

LEMMA FollowsSame ==
    ASSUME NEW k
    PROVE  Follows(k, k)
BY DEF Follows

\* Answers of other kinds do not matter to the seed.
LEMMA SameAnswers ==
    ASSUME answers' = answers
    PROVE  SeedAcks' = SeedAcks /\ SeedValues' = SeedValues
BY DEF SeedAcks, SeedValues

LEMMA SameQueues ==
    ASSUME kvq' = kvq
    PROVE  \A u \in Tabs : SameOrMore(u)
BY DEF SameOrMore

LEMMA QuietStoreMeta ==
    ASSUME TypeInv, TypeInv', NEW t \in Tabs, NEW flag \in BusyFlags, NEW w, NEW pk,
           NEW meta \in IdentityMeta, StoreMeta(t, flag, w, pk, meta),
           w.seed = tab[t].seed, tab[t].unreachable => w.unreachable,
           task[t][flag].pc \notin SeedWaits \cup {"idle"},
           store' = store, answers' = answers
    PROVE  Quiet(t)
<1>1. task[t] \in [BusyFlags -> Task] /\ kvq \in [Tabs -> Seq(KvRequest)]
  BY DEF TypeInv, TypeOK
<1>2. SeedAcks' = SeedAcks /\ SeedValues' = SeedValues
  BY SameAnswers
<1>3. ASSUME NEW k, k.pc \in {"meta", "idle"}
      PROVE  Follows(task[t]["onboard"], [task[t] EXCEPT ![flag] = k]["onboard"])
  <2>1. CASE flag = "onboard"
    <3>1. [task[t] EXCEPT ![flag] = k]["onboard"] = k
      BY <1>1, <2>1
    <3> QED
      BY <1>3, <2>1, <3>1 DEF Follows, SeedWaits
  <2>2. CASE flag # "onboard"
    <3>1. [task[t] EXCEPT ![flag] = k]["onboard"] = task[t]["onboard"]
      BY <1>1, <2>2
    <3> QED
      BY <3>1, FollowsSame
  <2> QED
    BY <2>1, <2>2
<1>4. CASE /\ Become(t, w, [task[t] EXCEPT ![flag] = Waiting("meta", pk, meta)])
           /\ sent + 1 \in Ids
           /\ kvq' = [kvq EXCEPT ![t] =
                        Append(kvq[t], Store("meta", meta, sent + 1))]
  <2>1. \A u \in Tabs : SameOrMore(u)
    BY <1>1, <1>4 DEF SameOrMore
  <2>2. Waiting("meta", pk, meta).pc = "meta"
    BY DEF Waiting
  <2> DEFINE ks == [task[t] EXCEPT ![flag] = Waiting("meta", pk, meta)]
  <2>3. Follows(task[t]["onboard"], ks["onboard"]) /\ Become(t, w, ks)
    BY <1>3, <1>4, <2>2
  <2> HIDE DEF ks
  <2> QED
    BY <1>2, <2>1, <2>3, QuietBecome
<1>5. CASE /\ Become(t, w, [task[t] EXCEPT ![flag] = IdleTask])
           /\ kvq' = kvq
  <2>1. \A u \in Tabs : SameOrMore(u)
    BY <1>5, SameQueues
  <2> DEFINE ks == [task[t] EXCEPT ![flag] = IdleTask]
  <2>2. Follows(task[t]["onboard"], ks["onboard"]) /\ Become(t, w, ks)
    BY <1>3, <1>5, IdleTaskType
  <2> HIDE DEF ks
  <2> QED
    BY <1>2, <2>1, <2>2, QuietBecome
<1> QED
  BY <1>4, <1>5, StoreMetaEffect

\* A step of a task other than onboarding that sends nothing to the delegate.
LEMMA QuietOther ==
    ASSUME TypeInv, NEW t \in Tabs, NEW flag \in BusyFlags, flag # "onboard",
           NEW w, NEW k, Become(t, w, [task[t] EXCEPT ![flag] = k]),
           w.seed = tab[t].seed, tab[t].unreachable => w.unreachable,
           store' = store, answers' = answers, kvq' = kvq
    PROVE  Quiet(t)
<1> DEFINE ks == [task[t] EXCEPT ![flag] = k]
<1>1. task[t] \in [BusyFlags -> Task] /\ "onboard" \in BusyFlags
  BY DEF TypeInv, TypeOK, BusyFlags
<1>2. ks["onboard"] = task[t]["onboard"]
  BY <1>1
<1> HIDE DEF ks
<1>3. Follows(task[t]["onboard"], ks["onboard"])
  BY <1>2, FollowsSame
<1>4. Become(t, w, ks)
  BY DEF ks
<1> QED
  BY <1>3, <1>4, SameAnswers, SameQueues, QuietBecome

\* A step that changes only what a session shows.
LEMMA QuietShow ==
    ASSUME TypeInv, NEW t \in Tabs, NEW w, Become(t, w, task[t]),
           w.seed = tab[t].seed, tab[t].unreachable => w.unreachable,
           store' = store, SeedAcks' = SeedAcks, SeedValues' = SeedValues,
           kvq' = kvq
    PROVE  Quiet(t)
<1>1. Follows(task[t]["onboard"], task[t]["onboard"])
  BY FollowsSame
<1> QED
  BY <1>1, SameQueues, QuietBecome

\* A step that marks tasks, none of them waiting for a seed.
LEMMA QuietAcked ==
    ASSUME TypeInv, NEW t \in Tabs, NEW w, NEW flags,
           Become(t, w, Acked(t, flags)),
           task[t]["onboard"].pc \in SeedWaits => "onboard" \notin flags,
           w.seed = tab[t].seed, tab[t].unreachable => w.unreachable,
           store' = store, SeedAcks' = SeedAcks, SeedValues' = SeedValues,
           kvq' = kvq
    PROVE  Quiet(t)
<1>1. "onboard" \in BusyFlags
  BY DEF BusyFlags
<1> DEFINE ks == Acked(t, flags)
           k == task[t]["onboard"]
<1>2. /\ ks["onboard"].pc = k.pc /\ ks["onboard"].pk = k.pk
      /\ ks["onboard"].req = k.req
      /\ ks["onboard"].hit = (k.hit \/ "onboard" \in flags)
  BY <1>1, AckedShape
<1>3. k.hit \in BOOLEAN
  BY <1>1, TaskShape DEF Task
<1> HIDE DEF ks
<1>4. Follows(k, ks["onboard"])
  BY <1>2, <1>3 DEF Follows
<1>5. Become(t, w, ks)
  BY DEF ks
<1> QED
  BY <1>4, <1>5, SameQueues, QuietBecome

LEMMA QuietCreate ==
    ASSUME TypeInv, NEW t \in Tabs, Create(t)
    PROVE  Quiet(t)
<1> DEFINE pk == KeyOf(tab[t], AllocIndex(tab[t].meta))
           w == [tab[t] EXCEPT !.tracked = @ \cup {pk}]
           k == Waiting("put", pk, tab[t].meta)
<1>1. /\ SendContract(t, "put", pk) /\ Become(t, w, [task[t] EXCEPT !["home"] = k])
      /\ store' = store /\ answers' = answers
  BY DEF Create
<1>2. kvq' = kvq
  BY <1>1 DEF SendContract
<1>3. tab[t] \in Tab /\ "home" \in BusyFlags
  BY DEF TypeInv, TypeOK, BusyFlags
<1>4. w.seed = tab[t].seed /\ (tab[t].unreachable => w.unreachable)
  BY <1>3 DEF Tab
<1> HIDE DEF w, k
<1> QED
  BY <1>1, <1>2, <1>3, <1>4, QuietOther

LEMMA QuietPush ==
    ASSUME TypeInv, NEW t \in Tabs, NEW flag \in BusyFlags, flag # "onboard",
           NEW pc, NEW index \in Indices, Push(t, flag, pc, index)
    PROVE  Quiet(t)
<1> DEFINE pk == KeyOf(tab[t], index)
           w == [tab[t] EXCEPT !.tracked = @ \cup {pk}]
           k == Waiting(pc, pk, DefaultMeta)
<1>1. /\ SendContract(t, pc, pk) /\ Become(t, w, [task[t] EXCEPT ![flag] = k])
      /\ store' = store /\ answers' = answers
  BY DEF Push
<1>2. kvq' = kvq
  BY <1>1 DEF SendContract
<1>3. tab[t] \in Tab
  BY DEF TypeInv, TypeOK
<1>4. w.seed = tab[t].seed /\ (tab[t].unreachable => w.unreachable)
  BY <1>3 DEF Tab
<1> HIDE DEF w, k
<1> QED
  BY <1>1, <1>2, <1>4, QuietOther

LEMMA QuietLook ==
    ASSUME TypeInv, NEW t \in Tabs, NEW view, Look(t, view)
    PROVE  Quiet(t)
<1> DEFINE w == [tab[t] EXCEPT !.view = view]
<1>1. /\ Become(t, w, task[t]) /\ kvq' = kvq
      /\ store' = store /\ answers' = answers
  BY DEF Look
<1>2. tab[t] \in Tab
  BY DEF TypeInv, TypeOK
<1>3. w.seed = tab[t].seed /\ (tab[t].unreachable => w.unreachable)
  BY <1>2 DEF Tab
<1> HIDE DEF w
<1> QED
  BY <1>1, <1>3, SameAnswers, QuietShow

\* Of what the user does, only onboarding touches the seed.
LEMMA UserSteps ==
    ASSUME TypeInv, NEW t \in Tabs, User(t)
    PROVE  \/ Quiet(t)
           \/ \E pc \in SeedWaits, s \in Seeds : StoreSeed(t, pc, s)
<1>1. CASE GetStarted(t) \/ Restore(t)
  BY <1>1, WalletAssumption DEF GetStarted, Restore, SeedWaits
<1>2. CASE Create(t)
  BY <1>2, QuietCreate
<1>3. ASSUME NEW i \in Indices, NEW f \in {"save", "pic"}, Publish(t, f, i)
      PROVE  Quiet(t)
  BY <1>3, QuietPush DEF Publish, BusyFlags
<1>4. ASSUME NEW i \in Indices, Destroy(t, i)
      PROVE  Quiet(t)
  BY <1>4, QuietPush DEF Destroy, BusyFlags
<1>5. ASSUME NEW i \in Indices, OpenDetail(t, i)
      PROVE  Quiet(t)
  BY <1>5, QuietLook DEF OpenDetail
<1>6. CASE OpenBackup(t) \/ Back(t)
  BY <1>6, QuietLook DEF OpenBackup, Back
<1> QED
  BY <1>1, <1>2, <1>3, <1>4, <1>5, <1>6 DEF User

LEMMA QuietConfirm ==
    ASSUME TypeInv, TypeInv', NEW t \in Tabs,
           ConfirmPut(t) \/ ConfirmMarker(t) \/ EndProbe(t)
    PROVE  Quiet(t)
<1>1. CASE EndProbe(t)
  <2>1. task[t]["onboard"].pc \notin SeedWaits \cup {"idle"} /\ "onboard" \in BusyFlags
    BY <1>1, EndProbeShape DEF SeedWaits, BusyFlags
  <2> QED
    BY <1>1, <2>1, EndProbeShape, QuietStoreMeta
<1>2. CASE ConfirmPut(t)
  <2> DEFINE k == task[t]["home"]
             w == [tab[t] EXCEPT !.states[k.pk] = "live"]
             meta == [ids |-> k.meta.ids \cup {k.pk[2]}, next |-> k.pk[2] + 1]
  <2>1. /\ k.pc = "put" /\ StoreMeta(t, "home", w, k.pk, meta)
        /\ UNCHANGED <<store, chain, answers, accepted>>
    BY <1>2 DEF ConfirmPut
  <2>2. /\ "home" \in BusyFlags /\ tab[t] \in Tab
        /\ k.pk[2] \in Indices /\ k.meta \in IdentityMeta
    BY TaskShape DEF BusyFlags
  <2>3. w.seed = tab[t].seed /\ (tab[t].unreachable => w.unreachable)
    BY <2>2 DEF Tab
  <2>4. meta \in IdentityMeta
    BY <2>2, WalletAssumption DEF IdentityMeta, Indices
  <2>5. k.pc \notin SeedWaits \cup {"idle"}
    BY <2>1 DEF SeedWaits
  <2> HIDE DEF w, meta
  <2> QED
    BY <2>1, <2>2, <2>3, <2>4, <2>5, QuietStoreMeta
<1>3. CASE ConfirmMarker(t)
  <2> DEFINE k == task[t]["destroy"]
             meta == [tab[t].meta EXCEPT !.ids = @ \ {k.pk[2]}]
  <2>1. /\ k.pc = "marker" /\ StoreMeta(t, "destroy", tab[t], k.pk, meta)
        /\ UNCHANGED <<store, chain, answers, accepted>>
    BY <1>3 DEF ConfirmMarker
  <2>2. "destroy" \in BusyFlags /\ tab[t] \in Tab
    BY TaskShape DEF BusyFlags
  <2>3. meta \in IdentityMeta
    BY <2>2 DEF Tab, IdentityMeta
  <2>4. k.pc \notin SeedWaits \cup {"idle"}
    BY <2>1 DEF SeedWaits
  <2> HIDE DEF meta
  <2> QED
    BY <2>1, <2>2, <2>3, <2>4, QuietStoreMeta
<1> QED
  BY <1>1, <1>2, <1>3

LEMMA QuietConfirmSlot ==
    ASSUME TypeInv, NEW t \in Tabs, NEW flag \in {"save", "pic"}, ConfirmSlot(t, flag)
    PROVE  Quiet(t)
<1> DEFINE k == task[t][flag]
           dead == tab[t].states[k.pk] = "dead"
           w == [tab[t] EXCEPT !.states[k.pk] = IF dead THEN @ ELSE "live"]
<1>1. /\ Become(t, w, [task[t] EXCEPT ![flag] = IdleTask])
      /\ UNCHANGED <<store, chain, kvq, wire, answers, history>>
  BY DEF ConfirmSlot
<1>2. tab[t] \in Tab /\ flag \in BusyFlags /\ flag # "onboard"
  BY DEF TypeInv, TypeOK, BusyFlags
<1>3. w.seed = tab[t].seed /\ (tab[t].unreachable => w.unreachable)
  BY <1>2 DEF Tab
<1> HIDE DEF w
<1> QED
  BY <1>1, <1>2, <1>3, QuietOther

LEMMA QuietConfirmMeta ==
    ASSUME TypeInv, NEW t \in Tabs, NEW flag \in {"onboard", "home", "destroy"},
           ConfirmMeta(t, flag)
    PROVE  Quiet(t)
<1> DEFINE k == task[t][flag]
           w == [tab[t] EXCEPT !.meta = k.meta]
           v == CASE flag = "onboard" -> w
                  [] flag = "home"    -> [w EXCEPT !.view = Detail(k.pk[2])]
                  [] flag = "destroy" -> [w EXCEPT !.states[k.pk] = Unknown,
                                                   !.view = Home]
           ks == [task[t] EXCEPT ![flag] = IdleTask]
<1>1. /\ Become(t, v, ks) /\ k.pc = "meta"
      /\ UNCHANGED <<store, chain, kvq, wire, answers, history>>
  BY DEF ConfirmMeta
<1>2. flag \in BusyFlags /\ tab[t] \in Tab /\ "onboard" \in BusyFlags
      /\ task[t] \in [BusyFlags -> Task]
  BY TaskShape DEF BusyFlags
<1>3. v.seed = tab[t].seed /\ (tab[t].unreachable => v.unreachable)
  <2>1. w.seed = tab[t].seed /\ w.unreachable = tab[t].unreachable
    BY <1>2 DEF Tab
  <2>2. /\ [w EXCEPT !.view = Detail(k.pk[2])].seed = w.seed
        /\ [w EXCEPT !.view = Detail(k.pk[2])].unreachable = w.unreachable
        /\ [w EXCEPT !.states[k.pk] = Unknown, !.view = Home].seed = w.seed
        /\ [w EXCEPT !.states[k.pk] = Unknown, !.view = Home].unreachable
              = w.unreachable
    BY <1>2 DEF Tab
  <2> HIDE DEF w
  <2> QED
    BY <2>1, <2>2
<1>4. Follows(task[t]["onboard"], ks["onboard"])
  <2>1. flag = "onboard" => ks["onboard"] = IdleTask
    BY <1>2
  <2>2. flag # "onboard" => ks["onboard"] = task[t]["onboard"]
    BY <1>2
  <2> HIDE DEF ks
  <2> QED
    BY <1>1, <2>1, <2>2, FollowsSame, IdleTaskType DEF Follows, SeedWaits
<1> HIDE DEF v, ks
<1> QED
  BY <1>1, <1>3, <1>4, SameAnswers, SameQueues, QuietBecome

LEMMA ProceedSteps ==
    ASSUME TypeInv, TypeInv', NEW t \in Tabs, Proceed(t)
    PROVE  Quiet(t) \/ ConfirmSeed(t)
BY QuietConfirm, QuietConfirmSlot, QuietConfirmMeta DEF Proceed

LEMMA QuietGiveUp ==
    ASSUME TypeInv, NEW t \in Tabs, NEW flag \in BusyFlags, flag # "onboard",
           GiveUp(t, flag)
    PROVE  Quiet(t)
<1>1. /\ Become(t, tab[t], [task[t] EXCEPT ![flag] = IdleTask])
      /\ UNCHANGED <<store, chain, kvq, wire, answers, history>>
  BY DEF GiveUp
<1> QED
  BY <1>1, QuietOther

LEMMA QuietSession ==
    ASSUME TypeInv, NEW t \in Tabs, FetchAll(t) \/ Watchdog(t)
    PROVE  Quiet(t)
<1> DEFINE pks == {KeyOf(tab[t], i) : i \in tab[t].meta.ids}
           v == [tab[t] EXCEPT !.fetched = TRUE, !.tracked = @ \cup pks]
           w == [tab[t] EXCEPT !.unreachable = TRUE]
<1>1. store' = store /\ kvq' = kvq /\ answers' = answers
  BY DEF FetchAll, Watchdog
<1>2. Become(t, v, task[t]) \/ Become(t, w, task[t])
  BY DEF FetchAll, Watchdog
<1>3. tab[t] \in Tab
  BY DEF TypeInv, TypeOK
<1>4. /\ v.seed = tab[t].seed /\ w.seed = tab[t].seed
      /\ v.unreachable = tab[t].unreachable /\ w.unreachable
  BY <1>3 DEF Tab
<1> HIDE DEF v, w
<1> QED
  BY <1>1, <1>2, <1>4, SameAnswers, QuietShow

LEMMA QuietArrive ==
    ASSUME TypeInv, NEW t \in Tabs, NEW pk, NEW state, Arrive(t, pk, state)
    PROVE  Quiet(t)
<1> DEFINE w == [tab[t] EXCEPT !.states[pk] = IF @ = "dead" THEN @ ELSE state]
           showing == {f \in BusyFlags : LET k == task[t][f] IN
                         k.pc = "slot" /\ k.pk = pk /\ state = "live"
                            /\ k.req \in accepted}
<1>1. /\ Become(t, w, Acked(t, showing))
      /\ store' = store /\ kvq' = kvq /\ answers' = answers
  BY DEF Arrive
<1>2. tab[t] \in Tab
  BY DEF TypeInv, TypeOK
<1>3. w.seed = tab[t].seed /\ (tab[t].unreachable => w.unreachable)
  BY <1>2 DEF Tab
<1>4. task[t]["onboard"].pc \in SeedWaits => "onboard" \notin showing
  BY DEF SeedWaits
<1> HIDE DEF w, showing
<1> QED
  BY <1>1, <1>3, <1>4, SameAnswers, QuietAcked

LEMMA SessionSteps ==
    ASSUME TypeInv, NEW t \in Tabs, Session(t)
    PROVE  Quiet(t) \/ GiveUp(t, "onboard") \/ Reload(t)
BY QuietGiveUp, QuietSession, QuietArrive DEF Session

\* Of the answers, only those about the seed matter to it.
LEMMA DispatchSteps ==
    ASSUME TypeInv, NEW a \in answers, Dispatch(a)
    PROVE  \/ Quiet(a.tab)
           \/ StoredAck(a) /\ a.key = "seed"
           \/ SeedValue(a)
<1> DEFINE t == a.tab
           w == tab[a.tab]
<1>1. a \in Answer /\ t \in Tabs /\ w \in Tab
  BY AnswerShape DEF TypeInv, TypeOK
<1>2. /\ store' = store /\ kvq' = kvq /\ answers' = answers \ {a}
  BY DEF Dispatch
<1>3. ASSUME a.kind # "seed", a.kind = "stored" => a.key # "seed"
      PROVE  SeedAcks' = SeedAcks /\ SeedValues' = SeedValues
  BY <1>2, <1>3 DEF SeedAcks, SeedValues
<1>4. CASE ContractAck(a)
  <2> DEFINE waiting == {f \in BusyFlags :
                           /\ task[t][f].pc \in {"put", "slot", "marker"}
                           /\ task[t][f].pk = a.pk}
  <2>1. Become(t, w, Acked(t, waiting)) /\ a.kind = "ack"
    BY <1>4 DEF ContractAck
  <2>2. task[t]["onboard"].pc \in SeedWaits => "onboard" \notin waiting
    BY DEF SeedWaits
  <2> HIDE DEF waiting, t
  <2> QED
    BY <1>1, <1>2, <1>3, <2>1, <2>2, QuietAcked DEF t
<1>5. CASE StoredAck(a) /\ a.key # "seed"
  <2> DEFINE waiting == {f \in BusyFlags : task[t][f].pc \in {"meta"}}
  <2>1. Become(t, w, Acked(t, waiting)) /\ a.kind = "stored"
    BY <1>5 DEF StoredAck
  <2>2. task[t]["onboard"].pc \in SeedWaits => "onboard" \notin waiting
    BY DEF SeedWaits
  <2> HIDE DEF waiting, t
  <2> QED
    BY <1>1, <1>2, <1>3, <1>5, <2>1, <2>2, QuietAcked DEF t
<1>6. CASE MetaValue(a)
  <2> DEFINE v == CASE a.value = Corrupt -> [w EXCEPT !.unreachable = TRUE]
                    [] a.value = Absent -> [w EXCEPT !.meta = DefaultMeta,
                                  !.metaLoaded = TRUE, !.fetched = FALSE]
                    [] OTHER -> [w EXCEPT !.meta = a.value,
                                  !.metaLoaded = TRUE, !.fetched = FALSE]
  <2>1. Become(t, v, task[t]) /\ a.kind = "meta"
    BY <1>6 DEF MetaValue
  <2>2. v.seed = w.seed /\ (w.unreachable => v.unreachable)
    <3>1. /\ [w EXCEPT !.unreachable = TRUE].seed = w.seed
          /\ [w EXCEPT !.unreachable = TRUE].unreachable
      BY <1>1 DEF Tab
    <3>2. \A m : LET x == [w EXCEPT !.meta = m, !.metaLoaded = TRUE,
                                    !.fetched = FALSE]
                 IN  x.seed = w.seed /\ x.unreachable = w.unreachable
      BY <1>1 DEF Tab
    <3> HIDE DEF w
    <3> QED
      BY <3>1, <3>2
  <2> HIDE DEF v, t
  <2> QED
    BY <1>1, <1>2, <1>3, <2>1, <2>2, QuietShow DEF t
<1>7. CASE EmptyValue(a)
  <2> DEFINE seen == Min({w.empties + 1, 2})
             v == IF w.seed # Unknown THEN w
                  ELSE [w EXCEPT !.empties = seen,
                                 !.unreachable = @ \/ seen = 2]
  <2>1. Become(t, v, task[t]) /\ a.kind = "empty"
    BY <1>7 DEF EmptyValue
  <2> HIDE DEF seen
  <2>2. v.seed = w.seed /\ (w.unreachable => v.unreachable)
    BY <1>1 DEF Tab
  <2> HIDE DEF v, t
  <2> QED
    BY <1>1, <1>2, <1>3, <2>1, <2>2, QuietShow DEF t
<1> QED
  BY <1>4, <1>5, <1>6, <1>7 DEF Dispatch

\* A step that is none of the sessions'.
Calm ==
    /\ UNCHANGED <<store, tab, task, kvq>>
    /\ SeedAcks' = SeedAcks /\ SeedValues' = SeedValues

SeedAnswer(a) == (StoredAck(a) /\ a.key = "seed") \/ SeedValue(a)

\* The steps that have to do with the seed.
LEMMA SeedSteps ==
    ASSUME TypeInv, TypeInv', [Next]_vars
    PROVE  \/ Calm
           \/ \E t \in Tabs :
                 \/ Quiet(t) \/ ConfirmSeed(t) \/ GiveUp(t, "onboard")
                 \/ \E pc \in SeedWaits, s \in Seeds : StoreSeed(t, pc, s)
                 \/ Reload(t) \/ ServeKv(t)
           \/ \E a \in answers : Dispatch(a) /\ SeedAnswer(a)
<1>1. CASE UNCHANGED vars
  BY <1>1, SameAnswers DEF vars, Calm
<1>2. ASSUME NEW t \in Tabs, User(t) \/ Proceed(t) \/ Session(t)
      PROVE  \/ Quiet(t) \/ ConfirmSeed(t) \/ GiveUp(t, "onboard") \/ Reload(t)
             \/ \E pc \in SeedWaits, s \in Seeds : StoreSeed(t, pc, s)
  BY <1>2, UserSteps, ProceedSteps, SessionSteps
<1>3. ASSUME NEW r \in wire, ServeContract(r)
      PROVE  Calm
  <2>1. UNCHANGED <<store, tab, task, kvq>>
    BY <1>3 DEF ServeContract
  <2>2. \/ answers' = answers
        \/ answers' = answers \cup
              {[tab |-> r.tab, kind |-> "ack", pk |-> r.pk, id |-> r.id]}
    BY <1>3, Zenon DEF ServeContract
  <2>3. SeedAcks' = SeedAcks /\ SeedValues' = SeedValues
    BY <2>2 DEF SeedAcks, SeedValues
  <2> QED
    BY <2>1, <2>3 DEF Calm
<1>4. ASSUME NEW a \in answers, Dispatch(a)
      PROVE  SeedAnswer(a) \/ \E t \in Tabs : Quiet(t)
  <2>1. a.tab \in Tabs
    BY AnswerShape DEF TypeInv, TypeOK
  <2> QED
    BY <1>4, <2>1, DispatchSteps DEF SeedAnswer
<1> QED
  BY <1>1, <1>2, <1>3, <1>4 DEF Next

\* What is in a queue after a step that sends no seed.
LEMMA QueueAfter ==
    ASSUME TypeInv, NEW t \in Tabs, SameOrMore(t), NEW r \in Range(kvq'[t])
    PROVE  \/ r \in Range(kvq[t])
           \/ \E m \in IdentityMeta, id \in Ids : r = Store("meta", m, id)
<1>1. kvq[t] \in Seq(KvRequest)
  BY DEF TypeInv, TypeOK
<1>2. ASSUME NEW m \in IdentityMeta, NEW id \in Ids
      PROVE  Range(Append(kvq[t], Store("meta", m, id)))
                = Range(kvq[t]) \cup {Store("meta", m, id)}
  BY <1>1, StoreShape, RangeProperties
<1> QED
  BY <1>2 DEF SameOrMore

LEMMA BootIsNoStore ==
    ASSUME NEW r \in Range(BootRequests)
    PROVE  r.op # "store"
BY BootShape DEF Register, GetSeed, GetMeta

LEMMA InstalledInit ==
    ASSUME Installed \in Seeds, Init
    PROVE  InstalledInv
<1>1. store.seed = Installed
  BY WalletAssumption DEF Init
<1>2. ASSUME NEW t \in Tabs
      PROVE  /\ tab[t].seed \in {Unknown, Installed}
             /\ task[t]["onboard"].pc = "idle"
             /\ \A r \in Range(kvq[t]) : r.op = "store" => r.key = "meta"
  BY BootIsNoStore, IdleTaskType DEF Init, NewTab, BusyFlags
<1>3. \A a \in answers : FALSE
  BY DEF Init
<1> QED
  BY <1>1, <1>2, <1>3 DEF InstalledInv

LEMMA InstalledNext ==
    ASSUME Installed \in Seeds, TypeInv, TypeInv', InstalledInv, [Next]_vars
    PROVE  InstalledInv'
<1>1. Installed \notin {Unknown, Absent, Corrupt} /\ Absent # Unknown
  BY WalletAssumption
<1>2. "onboard" \in BusyFlags
  BY DEF BusyFlags
<1>3. CASE Calm
  <2>1. \A a \in answers' : a.kind = "seed" => a \in answers
    BY <1>3 DEF Calm, SeedValues
  <2> QED
    BY <1>3, <2>1 DEF InstalledInv, Calm
<1>4. ASSUME NEW t \in Tabs, Quiet(t)
      PROVE  InstalledInv'
  <2>1. \A a \in answers' : a.kind = "seed" => a \in answers
    BY <1>4 DEF Quiet, SeedValues
  <2>2. store'.seed = Installed
    BY <1>4 DEF Quiet, InstalledInv
  <2>3. ASSUME NEW u \in Tabs
        PROVE  /\ tab'[u].seed \in {Unknown, Installed}
               /\ task'[u]["onboard"].pc = "idle"
    <3>1. CASE u = t
      BY <1>4, <3>1, IdleTaskType DEF Quiet, InstalledInv, Follows
    <3>2. CASE u # t
      BY <1>4, <3>2 DEF Quiet, InstalledInv
    <3> QED
      BY <3>1, <3>2
  <2>4. ASSUME NEW u \in Tabs, NEW r \in Range(kvq'[u]), r.op = "store"
        PROVE  r.key = "meta"
    <3>1. SameOrMore(u)
      BY <1>4 DEF Quiet
    <3>2. \/ r \in Range(kvq[u])
          \/ \E m \in IdentityMeta, id \in Ids : r = Store("meta", m, id)
      BY <3>1, QueueAfter
    <3> QED
      BY <2>4, <3>2, StoreShape DEF InstalledInv
  <2> QED
    BY <2>1, <2>2, <2>3, <2>4 DEF InstalledInv
<1>5. ASSUME NEW t \in Tabs, ConfirmSeed(t) \/ GiveUp(t, "onboard")
      PROVE  FALSE
  BY <1>5 DEF ConfirmSeed, GiveUp, InstalledInv
<1>6. ASSUME NEW t \in Tabs, NEW pc, NEW s, StoreSeed(t, pc, s)
      PROVE  FALSE
  <2>1. tab[t] \in Tab
    BY DEF TypeInv, TypeOK
  <2> QED
    BY <1>1, <1>6, <2>1, ScreenShape DEF StoreSeed, InstalledInv
<1>7. ASSUME NEW t \in Tabs, Reload(t)
      PROVE  InstalledInv'
  <2>1. store'.seed = Installed
    <3>1. \/ store'["seed"] = store["seed"]
          \/ \E r \in Range(kvq[t]) :
                r.op = "store" /\ r.key = "seed" /\ store'["seed"] = r.value
      BY <1>7, ReloadEffect DEF TypeInv
    <3> QED
      BY <3>1 DEF InstalledInv
  <2>2. /\ tab' = [tab EXCEPT ![t] = NewTab]
        /\ task' = [task EXCEPT ![t] = [f \in BusyFlags |-> IdleTask]]
        /\ kvq' = [kvq EXCEPT ![t] = BootRequests]
        /\ answers' = {a \in answers : a.tab # t}
    BY <1>7 DEF Reload
  <2>3. ASSUME NEW u \in Tabs
        PROVE  /\ tab'[u].seed \in {Unknown, Installed}
               /\ task'[u]["onboard"].pc = "idle"
               /\ \A r \in Range(kvq'[u]) : r.op = "store" => r.key = "meta"
    <3>1. CASE u = t
      BY <1>2, <2>2, <3>1, BootIsNoStore, IdleTaskType
         DEF TypeInv, TypeOK, NewTab
    <3>2. CASE u # t
      BY <2>2, <3>2 DEF InstalledInv, TypeInv, TypeOK
    <3> QED
      BY <3>1, <3>2
  <2> QED
    BY <2>1, <2>2, <2>3 DEF InstalledInv
<1>8. ASSUME NEW t \in Tabs, ServeKv(t)
      PROVE  InstalledInv'
  <2> DEFINE r == Head(kvq[t])
  <2>1. /\ r \in KvRequest /\ r \in Range(kvq[t])
        /\ kvq' = [kvq EXCEPT ![t] = Tail(kvq[t])]
        /\ Range(Tail(kvq[t])) \subseteq Range(kvq[t])
        /\ UNCHANGED <<tab, task>>
    BY <1>8, ServeKvEffect DEF TypeInv
  <2>2. \/ /\ r.op = "store"
           /\ answers' = answers \cup
                {[tab |-> t, kind |-> "stored", key |-> r.key, id |-> r.id]}
           /\ store' = [store EXCEPT ![r.key] = r.value]
        \/ /\ r.op = "get" /\ store' = store
           /\ \E v \in {store[r.key], Corrupt} :
                 answers' = answers \cup
                              {[tab |-> t, kind |-> r.key, value |-> v]}
        \/ /\ store' = store
           /\ answers' = answers \cup
                           {[tab |-> t, kind |-> "empty", to |-> r]}
        \/ store' = store /\ answers' = answers
    BY <1>8, ServeKvEffect DEF TypeInv
  <2> HIDE DEF r
  <2>3. r.op = "store" => r.key = "meta"
    BY <2>1 DEF InstalledInv
  <2>4. store'.seed = Installed
    BY <2>2, <2>3 DEF InstalledInv, TypeInv, TypeOK
  <2>5. ASSUME NEW a \in answers', a.kind = "seed"
        PROVE  a.value \in {Installed, Corrupt}
    <3>1. CASE a \in answers
      BY <2>5, <3>1 DEF InstalledInv
    <3>2. CASE a \notin answers
      <4>1. r.op = "get" /\ \E v \in {store[r.key], Corrupt} :
                               a = [tab |-> t, kind |-> r.key, value |-> v]
        BY <2>2, <2>5, <3>2
      <4>2. r.key = "seed" /\ a.value \in {store["seed"], Corrupt}
        BY <2>5, <4>1
      <4> QED
        BY <4>2 DEF InstalledInv
    <3> QED
      BY <3>1, <3>2
  <2>6. ASSUME NEW u \in Tabs
        PROVE  \A q \in Range(kvq'[u]) : q \in Range(kvq[u])
    <3>1. kvq'[u] = IF u = t THEN Tail(kvq[t]) ELSE kvq[u]
      BY <2>1 DEF TypeInv, TypeOK
    <3> QED
      BY <2>1, <3>1
  <2> QED
    BY <2>1, <2>4, <2>5, <2>6 DEF InstalledInv
<1>9. ASSUME NEW a \in answers, Dispatch(a), SeedAnswer(a)
      PROVE  InstalledInv'
  <2>1. a.tab \in Tabs /\ tab[a.tab] \in Tab
    BY AnswerShape DEF TypeInv, TypeOK
  <2>2. /\ store' = store /\ kvq' = kvq /\ answers' \subseteq answers
    BY <1>9 DEF Dispatch
  <2>3. \E w, ks : /\ Become(a.tab, w, ks) /\ w.seed \in {Unknown, Installed}
                   /\ ks["onboard"].pc = "idle"
    <3>1. CASE StoredAck(a)
      <4>1. PICK flags : Become(a.tab, tab[a.tab], Acked(a.tab, flags))
        BY <3>1, Zenon DEF StoredAck
      <4>2. Acked(a.tab, flags)["onboard"].pc = "idle"
        BY <1>2, <2>1, AckedShape DEF InstalledInv
      <4> QED
        BY <2>1, <4>1, <4>2 DEF InstalledInv
    <3>2. CASE SeedValue(a)
      <4>1. \/ Become(a.tab, [tab[a.tab] EXCEPT !.unreachable = TRUE], task[a.tab])
            \/ /\ a.value # Corrupt
               /\ Become(a.tab, [tab[a.tab] EXCEPT !.seed = a.value, !.fetched = FALSE],
                         task[a.tab])
        BY <3>2 DEF SeedValue
      <4>2. /\ [tab[a.tab] EXCEPT !.unreachable = TRUE].seed = tab[a.tab].seed
            /\ [tab[a.tab] EXCEPT !.seed = a.value, !.fetched = FALSE].seed = a.value
        BY <2>1 DEF Tab
      <4>3. a.value # Corrupt => a.value = Installed
        BY <3>2 DEF SeedValue, InstalledInv
      <4>4. /\ tab[a.tab].seed \in {Unknown, Installed}
            /\ task[a.tab]["onboard"].pc = "idle"
        BY <2>1 DEF InstalledInv
      <4>5. CASE Become(a.tab, [tab[a.tab] EXCEPT !.unreachable = TRUE], task[a.tab])
        BY <4>2, <4>4, <4>5
      <4>6. CASE /\ a.value # Corrupt
                 /\ Become(a.tab, [tab[a.tab] EXCEPT !.seed = a.value,
                                                     !.fetched = FALSE],
                           task[a.tab])
        <5>1. [tab[a.tab] EXCEPT !.seed = a.value, !.fetched = FALSE].seed
                 \in {Unknown, Installed}
          BY <4>2, <4>3, <4>6
        <5> QED
          BY <4>4, <4>6, <5>1
      <4> QED
        BY <4>1, <4>5, <4>6
    <3> QED
      BY <1>9, <3>1, <3>2 DEF SeedAnswer
  <2>4. PICK w, ks : /\ Become(a.tab, w, ks) /\ w.seed \in {Unknown, Installed}
                     /\ ks["onboard"].pc = "idle"
    BY <2>3
  <2>5. ASSUME NEW u \in Tabs
        PROVE  /\ tab'[u].seed \in {Unknown, Installed}
               /\ task'[u]["onboard"].pc = "idle"
    <3>1. CASE u = a.tab
      <4>1. tab'[u] = w /\ task'[u]["onboard"] \in {ks["onboard"], IdleTask}
        BY <1>2, <2>1, <2>4, <3>1, BecomeEffect DEF TypeInv
      <4> QED
        BY <2>4, <4>1, IdleTaskType
    <3>2. CASE u # a.tab
      <4>1. tab'[u] = tab[u] /\ task'[u] = task[u]
        BY <2>1, <2>4, <3>2, BecomeEffect DEF TypeInv
      <4> QED
        BY <4>1 DEF InstalledInv
    <3> QED
      BY <3>1, <3>2
  <2> QED
    BY <2>2, <2>5 DEF InstalledInv
<1> QED
  BY <1>3, <1>4, <1>5, <1>6, <1>7, <1>8, <1>9, SeedSteps

\* What stands at most once in a queue after it grew or its head was read.
LEMMA OnceProperties ==
    ASSUME NEW S, NEW s \in Seq(S), NEW T
    PROVE  /\ \A x \in S : x \notin T /\ Once(s, T) => Once(Append(s, x), T)
           /\ \A x \in S : (\A y \in Range(s) : y \notin T) => Once(Append(s, x), T)
           /\ s # <<>> /\ Once(s, T) =>
                 /\ Once(Tail(s), T)
                 /\ Head(s) \in T => \A y \in Range(Tail(s)) : y \notin T
<1>1. Len(s) \in Nat /\ DOMAIN s = 1..Len(s)
  BY LenProperties
<1>2. ASSUME NEW x \in S
      PROVE  /\ x \notin T /\ Once(s, T) => Once(Append(s, x), T)
             /\ (\A y \in Range(s) : y \notin T) => Once(Append(s, x), T)
  <2> DEFINE q == Append(s, x)
  <2>1. /\ Len(q) = Len(s) + 1 /\ q[Len(s) + 1] = x
        /\ \A i \in 1..Len(s) : q[i] = s[i]
    BY AppendProperties
  <2> HIDE DEF q
  <2>2. \A i \in 1..Len(q) : i \in 1..Len(s) \/ i = Len(s) + 1
    BY <1>1, <2>1
  <2>3. x \notin T /\ Once(s, T) => Once(q, T)
    BY <2>1, <2>2 DEF Once
  <2>4. ASSUME \A y \in Range(s) : y \notin T
        PROVE  Once(q, T)
    <3>1. \A i \in 1..Len(s) : q[i] \notin T
      BY <1>1, <2>1, <2>4 DEF Range
    <3> QED
      BY <2>2, <3>1 DEF Once
  <2> QED
    BY <2>3, <2>4 DEF q
<1>3. ASSUME s # <<>>, Once(s, T)
      PROVE  /\ Once(Tail(s), T)
             /\ Head(s) \in T => \A y \in Range(Tail(s)) : y \notin T
  <2> DEFINE q == Tail(s)
  <2>1. /\ q \in Seq(S) /\ Len(q) = Len(s) - 1
        /\ \A i \in 1..Len(q) : q[i] = s[i + 1]
    BY <1>3, HeadTailProperties
  <2>2. DOMAIN q = 1..Len(q) /\ Len(s) \in Nat \ {0} /\ Head(s) = s[1]
    BY <1>3, <2>1, LenProperties, EmptySeq
  <2> HIDE DEF q
  <2>3. \A i \in 1..Len(q) : i + 1 \in 1..Len(s) /\ i + 1 # 1
    BY <2>1, <2>2
  <2>4. 1 \in 1..Len(s)
    BY <2>2
  <2>5. Once(q, T)
    <3> SUFFICES ASSUME NEW i \in 1..Len(q), NEW j \in 1..Len(q),
                        q[i] \in T, q[j] \in T
                 PROVE  i = j
      BY DEF Once
    <3>1. i + 1 = j + 1
      BY <1>3, <2>1, <2>3 DEF Once
    <3> QED
      BY <2>1, <2>2, <3>1
  <2>6. ASSUME Head(s) \in T, NEW y \in Range(q), y \in T
        PROVE  FALSE
    <3>1. PICK i \in 1..Len(q) : y = q[i]
      BY <2>2, <2>6 DEF Range
    <3>2. s[i + 1] \in T /\ s[1] \in T
      BY <2>1, <2>2, <2>6, <3>1
    <3> QED
      BY <1>3, <2>3, <2>4, <3>2 DEF Once
  <2> QED
    BY <2>5, <2>6 DEF q
<1> QED
  BY <1>2, <1>3

\* A session told there is no seed, and not onboarding, cannot go on.
LEMMA NotOnboarding ==
    ASSUME NEW w \in Tab, w.seed = Absent, Screen(w) # <<"onboarding">>
    PROVE  w.unreachable
BY WalletAssumption DEF Screen, BootComplete, Tab

\* The kinds of requests that matter to the seed.
LEMMA SeedShape ==
    /\ GetSeed \in KvRequest /\ GetSeed \notin SeedStores
    /\ \A r \in SeedStores : /\ r \in KvRequest /\ r.value \in Seeds /\ r.id \in Ids
                             /\ r.op = "store" /\ r.key = "seed"
    /\ \A m \in IdentityMeta, id \in Ids :
          LET r == Store("meta", m, id)
          IN  r \in KvRequest /\ r \notin SeedStores /\ r # GetSeed
<1>1. GetSeed \in KvRequest
  BY BootShape DEF KvRequest
<1>2. GetSeed.op = "get"
  BY DEF GetSeed
<1>3. \A r \in SeedStores : r.value \in Seeds /\ r.id \in Ids
  BY KvShape DEF SeedStores
<1> QED
  BY <1>1, <1>2, <1>3, StoreShape DEF SeedStores

\* A step that sends no seed leaves what is queued about it.
LEMMA QueueSame ==
    ASSUME TypeInv, NEW t \in Tabs, SameOrMore(t),
           Once(kvq[t], {GetSeed}), Once(kvq[t], SeedStores)
    PROVE  /\ Once(kvq'[t], {GetSeed}) /\ Once(kvq'[t], SeedStores)
           /\ \A r \in Range(kvq'[t]) :
                 r = GetSeed \/ r \in SeedStores => r \in Range(kvq[t])
<1>1. kvq[t] \in Seq(KvRequest)
  BY DEF TypeInv, TypeOK
<1>2. Once(kvq'[t], {GetSeed}) /\ Once(kvq'[t], SeedStores)
  <2>1. ASSUME NEW m \in IdentityMeta, NEW id \in Ids
        PROVE  /\ Once(Append(kvq[t], Store("meta", m, id)), {GetSeed})
               /\ Once(Append(kvq[t], Store("meta", m, id)), SeedStores)
    <3> DEFINE r == Store("meta", m, id)
    <3>1. r \in KvRequest /\ r \notin SeedStores /\ r \notin {GetSeed}
      BY SeedShape
    <3> HIDE DEF r
    <3>2. Once(Append(kvq[t], r), {GetSeed})
      BY <1>1, <3>1, OnceProperties
    <3>3. Once(Append(kvq[t], r), SeedStores)
      BY <1>1, <3>1, OnceProperties
    <3> QED
      BY <3>2, <3>3 DEF r
  <2> QED
    BY <2>1 DEF SameOrMore
<1>3. \A r \in Range(kvq'[t]) :
         r = GetSeed \/ r \in SeedStores => r \in Range(kvq[t])
  BY QueueAfter, SeedShape
<1> QED
  BY <1>2, <1>3

LEMMA OnboardInit ==
    ASSUME Init
    PROVE  OnboardInv
<1>1. "onboard" \in BusyFlags /\ Unknown # Absent /\ Unknown \notin Seeds
  BY WalletAssumption DEF BusyFlags
<1>2. SeedAcks = {} /\ SeedValues = {}
  BY DEF Init, SeedAcks, SeedValues
<1>3. ASSUME NEW t \in Tabs
      PROVE  AsksOnce(t) /\ StoresOnce(t) /\ KnowsSeed(t)
  <2>1. /\ kvq[t] = BootRequests /\ tab[t].seed = Unknown
        /\ task[t]["onboard"].pc = "idle"
    BY <1>1, <1>3, IdleTaskType DEF Init, NewTab
  <2>2. Once(BootRequests, {GetSeed})
    BY BootShape DEF Once, Register, GetSeed, GetMeta
  <2>3. \A r \in Range(BootRequests) : r \notin SeedStores
    BY BootIsNoStore, SeedShape
  <2>4. Once(BootRequests, SeedStores)
    BY BootShape, SeedShape DEF Once, SeedStores, Register, GetMeta, GetSeed
  <2> QED
    BY <1>1, <1>2, <2>1, <2>2, <2>3, <2>4
       DEF AsksOnce, StoresOnce, KnowsSeed, SeedWaits
<1> QED
  BY <1>3 DEF OnboardInv

LEMMA OnboardQuiet ==
    ASSUME TypeInv, TypeInv', NEW t \in Tabs, Quiet(t),
           AsksOnce(t), StoresOnce(t), KnowsSeed(t)
    PROVE  AsksOnce(t)' /\ StoresOnce(t)' /\ KnowsSeed(t)'
<1> DEFINE k == task[t]["onboard"]
           n == task'[t]["onboard"]
<1>1. /\ store' = store /\ SeedAcks' = SeedAcks /\ SeedValues' = SeedValues
      /\ tab'[t].seed = tab[t].seed
      /\ tab[t].unreachable => tab'[t].unreachable
      /\ SameOrMore(t)
  BY DEF Quiet
<1>2. /\ tab[t] \in Tab /\ tab'[t] \in Tab /\ kvq[t] \in Seq(KvRequest)
      /\ kvq'[t] \in Seq(KvRequest)
  BY DEF TypeInv, TypeOK
<1>3. \/ Follows(k, n)
      \/ n.pc = "idle" /\ (tab'[t].seed = Absent => tab'[t].unreachable)
  BY <1>2, IdleTaskType, NotOnboarding DEF Quiet
<1>4. Once(kvq'[t], {GetSeed}) /\ Once(kvq'[t], SeedStores)
  BY <1>1, QueueSame DEF AsksOnce, StoresOnce
<1>5. \A r \in Range(kvq'[t]) :
         r = GetSeed \/ r \in SeedStores => r \in Range(kvq[t])
  BY <1>1, QueueSame DEF AsksOnce, StoresOnce
<1> HIDE DEF k, n
<1>6. /\ k.pc \in SeedWaits =>
            \/ /\ n.pc = k.pc /\ n.pk = k.pk /\ n.req = k.req /\ n.hit = k.hit
            \/ n.pc = "idle" /\ (tab'[t].seed = Absent => tab'[t].unreachable)
      /\ k.pc \notin SeedWaits => n.pc \notin SeedWaits
      /\ n.pc = "probe" => k.pc = "probe" /\ n.pk = k.pk
      /\ n.pc \in SeedWaits =>
            n.pc = k.pc /\ n.pk = k.pk /\ n.req = k.req /\ n.hit = k.hit
  BY <1>3 DEF Follows, SeedWaits
<1>7. AsksOnce(t)'
  BY <1>1, <1>4, <1>5 DEF AsksOnce
<1>8. StoresOnce(t)'
  <2>1. ASSUME NEW r \in SeedStores, r \in Range(kvq'[t])
        PROVE  /\ store.seed = Absent /\ tab[t].seed = Absent /\ SeedAcks = {}
               /\ IF n.pc \in SeedWaits
                  THEN ~ n.hit /\ r.id = n.req /\ r.value = n.pk[1]
                  ELSE tab'[t].unreachable
    BY <1>1, <1>5, <1>6, <2>1 DEF StoresOnce, k, SeedWaits
  <2>2. ASSUME NEW a \in SeedAcks
        PROVE  /\ store.seed \in Seeds /\ tab[t].seed # Unknown
               /\ n.pc \in SeedWaits => a.id = n.req /\ store.seed = n.pk[1]
    BY <1>6 DEF StoresOnce, k
  <2> QED
    BY <1>1, <1>4, <2>1, <2>2 DEF StoresOnce, n
<1>9. KnowsSeed(t)'
  <2>1. n.pc \in SeedWaits => /\ tab[t].seed = Absent /\ n.pk[1] \in Seeds
                              /\ n.hit => store.seed = n.pk[1]
    BY <1>6 DEF KnowsSeed, k
  <2>2. n.pc = "probe" => store.seed \in Seeds /\ n.pk[1] = store.seed
    BY <1>6 DEF KnowsSeed, k
  <2>3. ASSUME tab'[t].seed = Absent, ~ tab'[t].unreachable, store.seed # Absent
        PROVE  n.pc \in SeedWaits /\ (n.hit \/ \E a \in SeedAcks : a.id = n.req)
    BY <1>1, <1>6, <2>3 DEF KnowsSeed, k
  <2>4. tab[t].seed \in Seeds => tab[t].seed = store.seed
    BY DEF KnowsSeed
  <2> QED
    BY <1>1, <2>1, <2>2, <2>3, <2>4 DEF KnowsSeed, n
<1> QED
  BY <1>7, <1>8, <1>9

LEMMA OnboardStoreSeed ==
    ASSUME TypeInv, NEW t \in Tabs, NEW pc \in SeedWaits, NEW s \in Seeds,
           StoreSeed(t, pc, s), AsksOnce(t), StoresOnce(t), KnowsSeed(t)
    PROVE  AsksOnce(t)' /\ StoresOnce(t)' /\ KnowsSeed(t)'
<1> DEFINE k == Waiting(pc, <<s, 0>>, DefaultMeta)
           r == Store("seed", s, sent + 1)
           ks == [task[t] EXCEPT !["onboard"] = k]
<1>1. /\ tab[t] \in Tab /\ kvq[t] \in Seq(KvRequest) /\ "onboard" \in BusyFlags
      /\ task[t] \in [BusyFlags -> Task]
  BY DEF TypeInv, TypeOK, BusyFlags
<1>2. /\ Screen(tab[t]) = <<"onboarding">> /\ task[t]["onboard"].pc = "idle"
      /\ sent < MaxSent /\ store' = store /\ answers' = answers
      /\ kvq' = [kvq EXCEPT ![t] = Append(kvq[t], r)] /\ Become(t, tab[t], ks)
  BY DEF StoreSeed, Free, SendKv, TypeInv, TypeOK
<1>3. tab[t].seed = Absent /\ ~ tab[t].unreachable /\ "idle" \notin SeedWaits
  BY <1>1, <1>2, ScreenShape DEF SeedWaits
<1>4. store.seed = Absent /\ Absent \notin Seeds /\ Absent # Unknown
  BY <1>2, <1>3, WalletAssumption DEF KnowsSeed
<1>5. SeedAcks = {} /\ SeedValues = {} /\ GetSeed \notin Range(kvq[t])
  BY <1>3, <1>4 DEF StoresOnce, AsksOnce
<1>6. \A q \in Range(kvq[t]) : q \notin SeedStores
  BY <1>2, <1>3 DEF StoresOnce
<1>7. r \in KvRequest /\ r \in SeedStores /\ r # GetSeed /\ sent + 1 \in Ids
      /\ r.id = sent + 1 /\ r.value = s
  BY <1>2, FreeId, StoreShape, SeedShape DEF SeedStores
<1> HIDE DEF r
<1>8. /\ tab'[t] = tab[t] /\ kvq'[t] = Append(kvq[t], r)
      /\ Range(kvq'[t]) = Range(kvq[t]) \cup {r}
      /\ Once(kvq'[t], {GetSeed}) /\ Once(kvq'[t], SeedStores)
  <2>1. tab'[t] = tab[t]
    BY <1>2, BecomeEffect DEF TypeInv
  <2>2. kvq'[t] = Append(kvq[t], r)
    BY <1>2 DEF TypeInv, TypeOK
  <2>3. r \notin {GetSeed} /\ Once(kvq[t], {GetSeed})
    BY <1>7 DEF AsksOnce
  <2>4. Once(Append(kvq[t], r), {GetSeed})
    BY <1>1, <1>7, <2>3, OnceProperties
  <2>5. Once(Append(kvq[t], r), SeedStores)
    BY <1>1, <1>6, <1>7, OnceProperties
  <2> QED
    BY <1>1, <1>7, <2>1, <2>2, <2>4, <2>5, RangeProperties
<1>9. task'[t]["onboard"] = k
  <2>1. ks["onboard"] = k
    BY <1>1
  <2> HIDE DEF ks, k
  <2>2. Mounted(tab[t], "onboard", ks["onboard"])
    BY <1>2 DEF Mounted
  <2> QED
    BY <1>1, <1>2, <2>1, <2>2, BecomeEffect DEF TypeInv
<1>10. /\ k.pc = pc /\ k.pk = <<s, 0>> /\ k.req = sent + 1 /\ ~ k.hit
       /\ k.pc # "probe"
  BY DEF Waiting, SeedWaits
<1> HIDE DEF k, ks
<1>11. SeedAcks' = {} /\ SeedValues' = {}
  BY <1>2, <1>5, SameAnswers
<1>12. AsksOnce(t)'
  BY <1>5, <1>7, <1>8, <1>11 DEF AsksOnce
<1>13. StoresOnce(t)'
  <2>1. \A q \in SeedStores : q \in Range(kvq'[t]) => q = r
    BY <1>6, <1>8
  <2> QED
    BY <1>2, <1>3, <1>4, <1>7, <1>8, <1>9, <1>10, <1>11, <2>1 DEF StoresOnce
<1>14. KnowsSeed(t)'
  BY <1>2, <1>3, <1>4, <1>8, <1>9, <1>10, <1>11 DEF KnowsSeed
<1> QED
  BY <1>12, <1>13, <1>14

\* What is queued after a seed was confirmed.
LEMMA ConfirmSeedEffect ==
    ASSUME TypeInv, TypeInv', NEW t \in Tabs, ConfirmSeed(t)
    PROVE  LET k == task[t]["onboard"] IN
           /\ k.hit /\ k.pc \in SeedWaits
           /\ UNCHANGED <<store, chain, answers, accepted, wire>>
           /\ \/ kvq' = kvq
              \/ \E id \in Ids : kvq' = [kvq EXCEPT ![t] =
                                 Append(kvq[t], Store("meta", DefaultMeta, id))]
           /\ \E w \in Tab : \E ks :
                 /\ Become(t, w, ks) /\ w.seed = k.pk[1]
                 /\ w.meta = tab[t].meta /\ w.states = tab[t].states
                 /\ \/ ks = [task[t] EXCEPT !["onboard"] =
                                Waiting("meta", k.pk, DefaultMeta)]
                    \/ ks = [task[t] EXCEPT !["onboard"].pc = "probe"]
                    \/ ks = [task[t] EXCEPT !["onboard"] = IdleTask]
<1> DEFINE k == task[t]["onboard"]
           w == [tab[t] EXCEPT !.seed = k.pk[1], !.fetched = FALSE]
           probes == {<<Backup, i>> : i \in 0..ProbeLimit - 1}
           v == [w EXCEPT !.tracked = @ \cup probes]
<1>1. /\ "onboard" \in BusyFlags /\ tab[t] \in Tab
      /\ k.pk[1] \in Seeds \cup {Absent}
  BY TaskShape DEF BusyFlags
<1>2. probes \subseteq Pks
  BY WalletAssumption DEF Pks, Indices
<1>3. /\ w \in Tab /\ w.seed = k.pk[1]
      /\ w.meta = tab[t].meta /\ w.states = tab[t].states
  BY <1>1, SeededTab
<1>4. /\ v \in Tab /\ v.seed = k.pk[1]
      /\ v.meta = tab[t].meta /\ v.states = tab[t].states
  <2> HIDE DEF w, probes
  <2> QED
    BY <1>2, <1>3, TrackingTab
<1>5. /\ k.hit /\ k.pc \in SeedWaits
      /\ UNCHANGED <<store, chain, answers, accepted>>
  BY DEF ConfirmSeed, SeedWaits
<1>6. DefaultMeta \in IdentityMeta
  BY WalletAssumption DEF Indices, DefaultMeta, IdentityMeta
<1>7. CASE StoreMeta(t, "onboard", w, k.pk, DefaultMeta)
  <2> HIDE DEF w
  <2>1. /\ wire' = wire
        /\ \/ /\ Become(t, w, [task[t] EXCEPT !["onboard"] =
                                  Waiting("meta", k.pk, DefaultMeta)])
              /\ sent + 1 \in Ids
              /\ kvq' = [kvq EXCEPT ![t] =
                           Append(kvq[t], Store("meta", DefaultMeta, sent + 1))]
           \/ /\ Become(t, w, [task[t] EXCEPT !["onboard"] = IdleTask])
              /\ kvq' = kvq
    BY <1>6, <1>7, StoreMetaEffect
  <2> QED
    BY <1>3, <1>5, <2>1
<1>8. CASE /\ \/ Become(t, v, [task[t] EXCEPT !["onboard"].pc = "probe"])
              \/ Become(t, v, [task[t] EXCEPT !["onboard"] = IdleTask])
           /\ UNCHANGED <<sent, kvq, wire>>
  <2> HIDE DEF v
  <2> QED
    BY <1>4, <1>5, <1>8
<1> QED
  BY <1>7, <1>8 DEF ConfirmSeed

LEMMA OnboardConfirmSeed ==
    ASSUME TypeInv, TypeInv', NEW t \in Tabs, ConfirmSeed(t),
           AsksOnce(t), StoresOnce(t), KnowsSeed(t)
    PROVE  AsksOnce(t)' /\ StoresOnce(t)' /\ KnowsSeed(t)'
<1> DEFINE k == task[t]["onboard"]
           n == task'[t]["onboard"]
<1>1. /\ k.hit /\ k.pc \in SeedWaits /\ store' = store /\ answers' = answers
      /\ SameOrMore(t)
  <2>1. DefaultMeta \in IdentityMeta
    BY WalletAssumption DEF Indices, DefaultMeta, IdentityMeta
  <2> QED
    BY <2>1, ConfirmSeedEffect DEF SameOrMore, TypeInv, TypeOK
<1>2. PICK w, ks :
         /\ w \in Tab /\ Become(t, w, ks) /\ w.seed = k.pk[1]
         /\ \/ ks = [task[t] EXCEPT !["onboard"] =
                        Waiting("meta", k.pk, DefaultMeta)]
            \/ ks = [task[t] EXCEPT !["onboard"].pc = "probe"]
            \/ ks = [task[t] EXCEPT !["onboard"] = IdleTask]
  BY ConfirmSeedEffect
<1>3. /\ task[t] \in [BusyFlags -> Task] /\ "onboard" \in BusyFlags /\ k \in Task
  BY TaskShape DEF BusyFlags
<1>4. ks["onboard"].pc \notin SeedWaits
      /\ (ks["onboard"].pc = "probe" => ks["onboard"].pk = k.pk)
  <2>1. CASE ks = [task[t] EXCEPT !["onboard"] = Waiting("meta", k.pk, DefaultMeta)]
    <3>1. ks["onboard"] = Waiting("meta", k.pk, DefaultMeta)
      BY <1>3, <2>1
    <3> QED
      BY <3>1 DEF Waiting, SeedWaits
  <2>2. CASE ks = [task[t] EXCEPT !["onboard"].pc = "probe"]
    <3>1. ks["onboard"] = [k EXCEPT !.pc = "probe"]
      BY <1>3, <2>2
    <3> QED
      BY <1>3, <3>1 DEF Task, SeedWaits
  <2>3. CASE ks = [task[t] EXCEPT !["onboard"] = IdleTask]
    <3>1. ks["onboard"] = IdleTask
      BY <1>3, <2>3
    <3> QED
      BY <3>1, IdleTaskType DEF SeedWaits
  <2> QED
    BY <1>2, <2>1, <2>2, <2>3
<1>5. tab'[t] = w /\ n \in {ks["onboard"], IdleTask}
  BY <1>2, <1>3, BecomeEffect DEF TypeInv
<1>6. n.pc \notin SeedWaits /\ (n.pc = "probe" => n.pk = k.pk)
  BY <1>4, <1>5, IdleTaskType DEF SeedWaits
<1>7. /\ store.seed = k.pk[1] /\ k.pk[1] \in Seeds /\ tab[t].seed = Absent
      /\ tab'[t].seed = k.pk[1] /\ k.pk[1] # Absent /\ k.pk[1] # Unknown
      /\ Absent # Unknown
  BY <1>1, <1>2, <1>5, WalletAssumption DEF KnowsSeed
<1>8. GetSeed \notin Range(kvq[t]) /\ SeedValues = {}
  BY <1>7 DEF AsksOnce
<1>9. \A r \in Range(kvq[t]) : r \notin SeedStores
  BY <1>1 DEF StoresOnce
<1>10. SeedAcks' = SeedAcks /\ SeedValues' = {}
  BY <1>1, <1>8, SameAnswers
<1>11. /\ Once(kvq'[t], {GetSeed}) /\ Once(kvq'[t], SeedStores)
       /\ GetSeed \notin Range(kvq'[t])
       /\ \A r \in Range(kvq'[t]) : r \notin SeedStores
  BY <1>1, <1>8, <1>9, QueueSame DEF AsksOnce, StoresOnce
<1> HIDE DEF n
<1>12. AsksOnce(t)'
  BY <1>10, <1>11 DEF AsksOnce
<1>13. StoresOnce(t)'
  BY <1>1, <1>6, <1>7, <1>10, <1>11 DEF StoresOnce, n
<1>14. KnowsSeed(t)'
  BY <1>1, <1>6, <1>7 DEF KnowsSeed, n
<1> QED
  BY <1>12, <1>13, <1>14

LEMMA OnboardGiveUp ==
    ASSUME TypeInv, TypeInv', "slow" \notin Faults, NEW t \in Tabs,
           GiveUp(t, "onboard"), AsksOnce(t), StoresOnce(t), KnowsSeed(t)
    PROVE  AsksOnce(t)' /\ StoresOnce(t)' /\ KnowsSeed(t)'
<1> DEFINE k == task[t]["onboard"]
           n == task'[t]["onboard"]
           ks == [task[t] EXCEPT !["onboard"] = IdleTask]
<1>1. /\ ~ k.hit /\ Settled(t, k.req) /\ k.pc # "idle"
      /\ Become(t, tab[t], ks)
      /\ UNCHANGED <<store, kvq, answers>>
  BY DEF GiveUp
<1>2. /\ task[t] \in [BusyFlags -> Task] /\ "onboard" \in BusyFlags
      /\ ks["onboard"] = IdleTask
  BY TaskShape DEF BusyFlags
<1> HIDE DEF ks
<1>3. CASE k.pc \in SeedWaits
  <2>1. tab'[t] = tab[t] /\ n.pc = "idle" /\ kvq'[t] = kvq[t]
    BY <1>1, <1>2, BecomeEffect, IdleTaskType DEF TypeInv
  <2>2. SeedAcks' = SeedAcks /\ SeedValues' = SeedValues
    BY <1>1, SameAnswers
  <2>3. \A r \in Range(kvq[t]) : r \notin SeedStores
    BY <1>1, <1>3 DEF StoresOnce, Settled, SeedStores
  <2>4. SeedAcks = {}
    <3> SUFFICES ASSUME NEW a \in SeedAcks PROVE FALSE
      OBVIOUS
    <3>1. a.id = k.req
      BY <1>3 DEF StoresOnce
    <3>2. a \in answers /\ a.kind = "stored"
      BY DEF SeedAcks
    <3> QED
      BY <1>1, <3>1, <3>2 DEF Settled
  <2>5. AsksOnce(t)'
    BY <1>1, <2>1, <2>2 DEF AsksOnce
  <2>6. StoresOnce(t)'
    BY <1>1, <2>1, <2>2, <2>3, <2>4 DEF StoresOnce
  <2> HIDE DEF n
  <2>7. KnowsSeed(t)'
    <3>1. n.pc \notin SeedWaits \cup {"probe"}
      BY <2>1 DEF SeedWaits
    <3>2. tab[t].seed = Absent /\ ~ tab[t].unreachable => store.seed = Absent
      BY <1>1, <2>4 DEF KnowsSeed
    <3> QED
      BY <1>1, <2>1, <3>1, <3>2 DEF KnowsSeed, n
  <2> QED
    BY <2>5, <2>6, <2>7
<1>4. CASE k.pc \notin SeedWaits
  <2>1. Follows(k, ks["onboard"])
    BY <1>2, <1>4, IdleTaskType DEF Follows, SeedWaits
  <2>2. Quiet(t)
    BY <1>1, <2>1, SameAnswers, SameQueues, QuietBecome
  <2> QED
    BY <2>2, OnboardQuiet
<1> QED
  BY <1>3, <1>4

LEMMA OnboardReload ==
    ASSUME TypeInv, SingleSession, NEW t \in Tabs, Reload(t)
    PROVE  AsksOnce(t)' /\ StoresOnce(t)' /\ KnowsSeed(t)'
<1>1. "onboard" \in BusyFlags /\ Unknown # Absent /\ Unknown \notin Seeds
  BY WalletAssumption DEF BusyFlags
<1>2. /\ kvq'[t] = BootRequests /\ tab'[t].seed = Unknown
      /\ task'[t]["onboard"].pc = "idle"
  BY <1>1, IdleTaskType DEF Reload, TypeInv, TypeOK, NewTab
<1>3. answers' = {}
  <2>1. \A a \in answers : a.tab \in Tabs
    BY AnswerShape DEF TypeInv, TypeOK
  <2> QED
    BY <2>1 DEF Reload, SingleSession
<1>4. SeedAcks' = {} /\ SeedValues' = {}
  BY <1>3 DEF SeedAcks, SeedValues
<1>5. Once(BootRequests, {GetSeed})
  BY BootShape DEF Once, Register, GetSeed, GetMeta
<1>6. \A r \in Range(BootRequests) : r \notin SeedStores
  BY BootIsNoStore, SeedShape
<1>7. Once(BootRequests, SeedStores)
  BY BootShape, SeedShape DEF Once, SeedStores, Register, GetMeta, GetSeed
<1> QED
  BY <1>1, <1>2, <1>4, <1>5, <1>6, <1>7
     DEF AsksOnce, StoresOnce, KnowsSeed, SeedWaits

LEMMA OnboardServeKv ==
    ASSUME TypeInv, NEW t \in Tabs, ServeKv(t),
           AsksOnce(t), StoresOnce(t), KnowsSeed(t)
    PROVE  AsksOnce(t)' /\ StoresOnce(t)' /\ KnowsSeed(t)'
<1> DEFINE r == Head(kvq[t])
           k == task[t]["onboard"]
           stored == [tab |-> t, kind |-> "stored", key |-> r.key, id |-> r.id]
           told(v) == [tab |-> t, kind |-> r.key, value |-> v]
           empty == [tab |-> t, kind |-> "empty", to |-> r]
<1>1. /\ kvq[t] # <<>> /\ kvq[t] \in Seq(KvRequest)
      /\ r \in KvRequest /\ r \in Range(kvq[t])
      /\ kvq' = [kvq EXCEPT ![t] = Tail(kvq[t])]
      /\ Range(Tail(kvq[t])) \subseteq Range(kvq[t])
      /\ tab' = tab /\ task' = task
  BY ServeKvEffect DEF TypeInv, TypeOK
<1>2. \/ /\ r.op = "store" /\ answers' = answers \cup {stored}
         /\ store' = [store EXCEPT ![r.key] = r.value]
      \/ /\ r.op = "get" /\ store' = store
         /\ \E v \in {store[r.key], Corrupt} : answers' = answers \cup {told(v)}
      \/ store' = store /\ answers' = answers \cup {empty}
      \/ store' = store /\ answers' = answers
  BY ServeKvEffect DEF TypeInv
<1>3. kvq'[t] = Tail(kvq[t])
  BY <1>1 DEF TypeInv, TypeOK
<1>4. /\ Once(kvq'[t], {GetSeed}) /\ Once(kvq'[t], SeedStores)
      /\ r = GetSeed => GetSeed \notin Range(kvq'[t])
      /\ r \in SeedStores => \A q \in Range(kvq'[t]) : q \notin SeedStores
      /\ Range(kvq'[t]) \subseteq Range(kvq[t])
  BY <1>1, <1>3, OnceProperties DEF AsksOnce, StoresOnce
<1>5. /\ store \in [seed : Seeds \cup {Absent}, meta : IdentityMeta \cup {Absent}]
      /\ Absent \notin Seeds /\ Absent # Unknown
  BY WalletAssumption DEF TypeInv, TypeOK
<1> HIDE DEF r
<1>6. CASE /\ store'.seed = store.seed
           /\ SeedAcks' = SeedAcks /\ SeedValues' = SeedValues
  <2>1. AsksOnce(t)'
    BY <1>1, <1>4, <1>6 DEF AsksOnce
  <2>2. StoresOnce(t)'
    BY <1>1, <1>4, <1>6 DEF StoresOnce
  <2>3. KnowsSeed(t)'
    BY <1>1, <1>6 DEF KnowsSeed
  <2> QED
    BY <2>1, <2>2, <2>3
<1>7. CASE r.op = "store" /\ r.key # "seed"
  <2>1. r.key = "meta"
    BY <1>1, <1>7, KvShape
  <2>2. store'.seed = store.seed
    BY <1>2, <1>5, <1>7, <2>1
  <2>3. \/ answers' = answers \cup {stored} \/ answers' = answers \cup {empty}
        \/ answers' = answers
    BY <1>2, <1>7
  <2>4. SeedAcks' = SeedAcks /\ SeedValues' = SeedValues
    BY <2>1, <2>3 DEF SeedAcks, SeedValues
  <2> QED
    BY <1>6, <2>2, <2>4
<1>8. CASE store' = store /\ (answers' = answers \cup {empty} \/ answers' = answers)
  <2>1. SeedAcks' = SeedAcks /\ SeedValues' = SeedValues
    BY <1>8 DEF SeedAcks, SeedValues
  <2> QED
    BY <1>6, <1>8, <2>1
<1>9. CASE /\ r.op = "store" /\ r.key = "seed" /\ answers' = answers \cup {stored}
           /\ store' = [store EXCEPT ![r.key] = r.value]
  <2>1. r \in SeedStores /\ r.value \in Seeds /\ store'.seed = r.value
    BY <1>1, <1>5, <1>9, SeedShape DEF SeedStores
  <2>2. /\ store.seed = Absent /\ tab[t].seed = Absent /\ SeedAcks = {}
        /\ IF k.pc \in SeedWaits
           THEN ~ k.hit /\ r.id = k.req /\ r.value = k.pk[1]
           ELSE tab[t].unreachable
    BY <1>1, <2>1 DEF StoresOnce
  <2>3. SeedAcks' = {stored} /\ stored.id = r.id
    BY <1>9, <2>2 DEF SeedAcks
  <2>4. SeedValues' = SeedValues /\ SeedValues = {} /\ GetSeed \notin Range(kvq'[t])
    <3>1. SeedValues' = SeedValues
      BY <1>9 DEF SeedValues
    <3> QED
      BY <1>4, <1>5, <2>2, <3>1 DEF AsksOnce
  <2>5. \A q \in Range(kvq'[t]) : q \notin SeedStores
    BY <1>4, <2>1
  <2>6. k.pc # "probe" /\ "probe" \notin SeedWaits
    BY <1>5, <2>2 DEF KnowsSeed, SeedWaits
  <2> HIDE DEF stored, k
  <2>7. AsksOnce(t)'
    BY <1>4, <2>4 DEF AsksOnce
  <2>8. StoresOnce(t)'
    BY <1>1, <1>4, <1>5, <2>1, <2>2, <2>3, <2>5 DEF StoresOnce, k
  <2>9. KnowsSeed(t)'
    <3>1. k.pc \in SeedWaits => k.pk[1] \in Seeds /\ ~ k.hit
      BY <2>1, <2>2
    <3>2. tab[t].seed = Absent /\ ~ tab[t].unreachable =>
             k.pc \in SeedWaits /\ \E a \in SeedAcks' : a.id = k.req
      BY <2>2, <2>3
    <3> QED
      BY <1>1, <1>5, <2>2, <2>6, <3>1, <3>2 DEF KnowsSeed, k
  <2> QED
    BY <2>7, <2>8, <2>9
<1>10. CASE /\ r.op = "get" /\ store' = store
            /\ \E v \in {store[r.key], Corrupt} : answers' = answers \cup {told(v)}
  <2>1. PICK v \in {store[r.key], Corrupt} : answers' = answers \cup {told(v)}
    BY <1>10
  <2>2. CASE r = GetMeta
    <3>1. told(v).kind = "meta"
      BY <2>2 DEF GetMeta
    <3> HIDE DEF told
    <3>2. SeedAcks' = SeedAcks /\ SeedValues' = SeedValues
      BY <2>1, <3>1 DEF SeedAcks, SeedValues
    <3> QED
      BY <1>6, <1>10, <3>2
  <2>3. CASE r = GetSeed
    <3>1. told(v).kind = "seed" /\ told(v).value = v /\ r.key = "seed"
      BY <2>3 DEF GetSeed
    <3> HIDE DEF told
    <3>2. tab[t].seed = Unknown /\ SeedValues = {}
      BY <1>1, <2>3 DEF AsksOnce
    <3>3. SeedAcks' = SeedAcks /\ SeedValues' = {told(v)}
      BY <2>1, <3>1, <3>2 DEF SeedAcks, SeedValues
    <3>4. AsksOnce(t)'
      BY <1>1, <1>4, <1>10, <2>3, <3>1, <3>2, <3>3 DEF AsksOnce
    <3>5. StoresOnce(t)'
      BY <1>1, <1>4, <1>10, <3>3 DEF StoresOnce
    <3>6. KnowsSeed(t)'
      BY <1>1, <1>10, <3>3 DEF KnowsSeed
    <3> QED
      BY <3>4, <3>5, <3>6
  <2> QED
    BY <1>1, <1>10, <2>2, <2>3, KvShape
<1> QED
  BY <1>2, <1>7, <1>8, <1>9, <1>10

LEMMA OnboardAck ==
    ASSUME TypeInv, TypeInv', NEW a \in answers, Dispatch(a), StoredAck(a),
           a.key = "seed",
           AsksOnce(a.tab), StoresOnce(a.tab), KnowsSeed(a.tab)
    PROVE  AsksOnce(a.tab)' /\ StoresOnce(a.tab)' /\ KnowsSeed(a.tab)'
<1> DEFINE t == a.tab
           k == task[t]["onboard"]
           n == task'[t]["onboard"]
           waiting == {f \in BusyFlags : task[t][f].pc \in SeedWaits}
           ks == Acked(t, waiting)
<1>1. /\ t \in Tabs /\ tab[t] \in Tab /\ "onboard" \in BusyFlags
      /\ k.hit \in BOOLEAN
  BY AnswerShape, TaskShape DEF TypeInv, TypeOK, BusyFlags, Task
<1>2. /\ store' = store /\ kvq' = kvq /\ answers' = answers \ {a}
      /\ a.kind = "stored" /\ Become(t, tab[t], ks)
  BY DEF Dispatch, StoredAck, SeedWaits
<1>3. /\ ks["onboard"].pc = k.pc /\ ks["onboard"].pk = k.pk
      /\ ks["onboard"].req = k.req
      /\ ks["onboard"].hit = (k.hit \/ "onboard" \in waiting)
  BY <1>1, AckedShape
<1>4. a \in SeedAcks
  BY <1>2 DEF SeedAcks
<1> HIDE DEF t, ks
<1>5. /\ tab'[t] = tab[t]
      /\ \/ n = ks["onboard"]
         \/ n.pc = "idle" /\ Screen(tab[t]) # <<"onboarding">>
  BY <1>1, <1>2, BecomeEffect, IdleTaskType DEF TypeInv, Mounted
<1>6. /\ \/ n.pc = k.pc /\ n.pk = k.pk /\ n.req = k.req
               /\ (k.pc \in SeedWaits => n.hit)
         \/ n.pc = "idle" /\ (tab[t].seed = Absent => tab[t].unreachable)
  <2>1. k.pc \in SeedWaits => "onboard" \in waiting
    BY <1>1
  <2> QED
    BY <1>1, <1>3, <1>5, <2>1, NotOnboarding
<1>7. /\ store.seed \in Seeds /\ tab[t].seed # Unknown
      /\ k.pc \in SeedWaits => store.seed = k.pk[1]
      /\ Absent \notin Seeds
  BY <1>4, WalletAssumption DEF StoresOnce, t
<1>8. \A r \in Range(kvq[t]) : r \notin SeedStores
  BY <1>4 DEF StoresOnce, t
<1>9. SeedAcks' \subseteq SeedAcks /\ SeedValues' = SeedValues
  BY <1>2 DEF SeedAcks, SeedValues
<1> HIDE DEF n, k
<1>10. "idle" \notin SeedWaits /\ "probe" \notin SeedWaits /\ "idle" # "probe"
  BY DEF SeedWaits
<1>11. AsksOnce(t)'
  BY <1>2, <1>5, <1>9 DEF AsksOnce, t
<1>12. StoresOnce(t)'
  <2>1. \A b \in SeedAcks' : n.pc \in SeedWaits => b.id = n.req /\ store.seed = n.pk[1]
    BY <1>6, <1>9, <1>10 DEF StoresOnce, t, k
  <2> QED
    BY <1>2, <1>5, <1>7, <1>8, <2>1 DEF StoresOnce, t, n
<1>13. KnowsSeed(t)'
  <2>1. n.pc \in SeedWaits => /\ tab[t].seed = Absent /\ n.pk[1] \in Seeds
                              /\ n.hit => store.seed = n.pk[1]
    BY <1>6, <1>7, <1>10 DEF KnowsSeed, t, k
  <2>2. n.pc = "probe" => store.seed \in Seeds /\ n.pk[1] = store.seed
    BY <1>6, <1>10 DEF KnowsSeed, t, k
  <2>3. tab[t].seed = Absent /\ ~ tab[t].unreachable /\ store.seed # Absent =>
           n.pc \in SeedWaits /\ n.hit
    BY <1>6 DEF KnowsSeed, t, k
  <2>4. tab[t].seed \in Seeds => tab[t].seed = store.seed
    BY DEF KnowsSeed, t
  <2> QED
    BY <1>2, <1>5, <2>1, <2>2, <2>3, <2>4 DEF KnowsSeed, n
<1> QED
  BY <1>11, <1>12, <1>13 DEF t

LEMMA OnboardValue ==
    ASSUME TypeInv, TypeInv', NEW a \in answers, Dispatch(a), SeedValue(a),
           AsksOnce(a.tab), StoresOnce(a.tab), KnowsSeed(a.tab)
    PROVE  AsksOnce(a.tab)' /\ StoresOnce(a.tab)' /\ KnowsSeed(a.tab)'
<1> DEFINE t == a.tab
           k == task[t]["onboard"]
           n == task'[t]["onboard"]
           w == IF a.value = Corrupt
                THEN [tab[t] EXCEPT !.unreachable = TRUE]
                ELSE [tab[t] EXCEPT !.seed = a.value, !.fetched = FALSE]
<1>1. /\ t \in Tabs /\ tab[t] \in Tab /\ "onboard" \in BusyFlags
  BY AnswerShape DEF TypeInv, TypeOK, BusyFlags
<1>2. /\ store' = store /\ kvq' = kvq /\ answers' = answers \ {a}
      /\ a.kind = "seed" /\ Become(t, w, task[t])
  BY DEF Dispatch, SeedValue
<1>3. a \in SeedValues
  BY <1>2 DEF SeedValues
<1>4. /\ tab[t].seed = Unknown /\ a.value \in {store.seed, Corrupt}
      /\ GetSeed \notin Range(kvq[t]) /\ \A b \in SeedValues : b = a
  BY <1>3 DEF AsksOnce
<1>5. Unknown # Absent /\ Unknown \notin Seeds
  BY WalletAssumption
<1>6. w.seed \in {Unknown, store.seed}
  BY <1>1, <1>4 DEF Tab
<1> HIDE DEF t, w
<1>7. tab'[t] = w /\ n \in {k, IdleTask}
  BY <1>1, <1>2, BecomeEffect DEF TypeInv
<1>8. /\ SeedAcks = {} /\ k.pc \notin SeedWaits
      /\ \A r \in Range(kvq[t]) : r \notin SeedStores
  BY <1>4, <1>5 DEF StoresOnce, KnowsSeed, t
<1>9. SeedAcks' = {} /\ SeedValues' = {}
  BY <1>2, <1>4, <1>8 DEF SeedAcks, SeedValues
<1>10. n.pc \notin SeedWaits /\ (n.pc = "probe" => k = n)
  BY <1>7, <1>8, IdleTaskType DEF SeedWaits
<1> HIDE DEF n
<1>11. AsksOnce(t)'
  BY <1>2, <1>4, <1>9 DEF AsksOnce, t
<1>12. StoresOnce(t)'
  BY <1>2, <1>8, <1>9 DEF StoresOnce, t
<1>13. KnowsSeed(t)'
  BY <1>2, <1>5, <1>6, <1>7, <1>10 DEF KnowsSeed, t, n
<1> QED
  BY <1>11, <1>12, <1>13 DEF t

LEMMA OnboardNext ==
    ASSUME SingleSession, "slow" \notin Faults, TypeInv, TypeInv', OnboardInv,
           [Next]_vars
    PROVE  OnboardInv'
<1> SUFFICES ASSUME NEW u \in Tabs
             PROVE  AsksOnce(u)' /\ StoresOnce(u)' /\ KnowsSeed(u)'
  BY DEF OnboardInv
<1>1. /\ AsksOnce(u) /\ StoresOnce(u) /\ KnowsSeed(u) /\ \A t \in Tabs : t = u
  BY DEF OnboardInv, SingleSession
<1>2. CASE Calm
  BY <1>1, <1>2 DEF Calm, AsksOnce, StoresOnce, KnowsSeed
<1>3. ASSUME NEW a \in answers, Dispatch(a), SeedAnswer(a)
      PROVE  AsksOnce(u)' /\ StoresOnce(u)' /\ KnowsSeed(u)'
  <2>1. a.tab = u
    BY <1>1, AnswerShape DEF TypeInv, TypeOK
  <2> QED
    BY <1>1, <1>3, <2>1, OnboardAck, OnboardValue DEF SeedAnswer
<1>4. ASSUME NEW t \in Tabs,
             \/ Quiet(t) \/ ConfirmSeed(t) \/ GiveUp(t, "onboard")
             \/ \E pc \in SeedWaits, s \in Seeds : StoreSeed(t, pc, s)
             \/ Reload(t) \/ ServeKv(t)
      PROVE  AsksOnce(u)' /\ StoresOnce(u)' /\ KnowsSeed(u)'
  <2>1. t = u
    BY <1>1
  <2> QED
    BY <1>1, <1>4, <2>1, OnboardQuiet, OnboardConfirmSeed, OnboardGiveUp,
       OnboardStoreSeed, OnboardReload, OnboardServeKv
<1> QED
  BY <1>2, <1>3, <1>4, SeedSteps

\* The seed is safe where one is installed, or where it is onboarded by one
\* session whose waits do not end while their answer is under way.
SeedScope == Installed \in Seeds \/ (SingleSession /\ "slow" \notin Faults)

SeedInv ==
    /\ TypeInv
    /\ Installed \in Seeds => InstalledInv
    /\ SingleSession /\ "slow" \notin Faults => OnboardInv

LEMMA SeedInvInit == Init => SeedInv
BY TypeInvInit, InstalledInit, OnboardInit DEF SeedInv

LEMMA SeedInvNext == SeedInv /\ [Next]_vars => SeedInv'
BY TypeInvNext, InstalledNext, OnboardNext DEF SeedInv

\* The seed a restore looks under is the one stored.
ProbesStored ==
    \A t \in Tabs : task[t]["onboard"].pc = "probe" =>
        store.seed \in Seeds /\ task[t]["onboard"].pk[1] = store.seed

LEMMA SeedFacts ==
    ASSUME SeedScope, SeedInv
    PROVE  LoadedSeedIsStored /\ ProbesStored
<1>1. CASE Installed \in Seeds
  BY <1>1, WalletAssumption
     DEF SeedInv, InstalledInv, LoadedSeedIsStored, ProbesStored
<1>2. CASE SingleSession /\ "slow" \notin Faults
  BY <1>2 DEF SeedInv, OnboardInv, KnowsSeed, LoadedSeedIsStored, ProbesStored
<1> QED
  BY <1>1, <1>2 DEF SeedScope

LEMMA SeedKeptStep ==
    ASSUME SeedScope, SeedInv, [Next]_vars, store.seed \in Seeds
    PROVE  store'.seed = store.seed
<1>1. TypeInv' /\ TypeInv /\ store.seed # Absent
  BY TypeInvNext, WalletAssumption DEF SeedInv
<1>2. CASE Installed \in Seeds
  BY <1>2, SeedInvNext DEF SeedInv, InstalledInv
<1>3. CASE SingleSession /\ "slow" \notin Faults
  <2>1. ASSUME NEW t \in Tabs, NEW r \in Range(kvq[t]), r.op = "store", r.key = "seed"
        PROVE  FALSE
    <3>1. r \in KvRequest
      BY <1>1, RangeProperties DEF TypeInv, TypeOK
    <3>2. r \in SeedStores
      BY <2>1, <3>1 DEF SeedStores
    <3> QED
      BY <1>1, <1>3, <3>2 DEF SeedInv, OnboardInv, StoresOnce
  <2>2. ASSUME NEW t \in Tabs, Reload(t)
        PROVE  store'.seed = store.seed
    <3>1. \/ store'["seed"] = store["seed"]
          \/ \E r \in Range(kvq[t]) : r.op = "store" /\ r.key = "seed"
      BY <1>1, <2>2, ReloadEffect DEF TypeInv
    <3> QED
      BY <2>1, <3>1
  <2>3. ASSUME NEW t \in Tabs, ServeKv(t)
        PROVE  store'.seed = store.seed
    <3> DEFINE r == Head(kvq[t])
    <3>1. /\ r \in Range(kvq[t])
          /\ \/ r.op = "store" /\ store' = [store EXCEPT ![r.key] = r.value]
             \/ store' = store
      BY <1>1, <2>3, ServeKvEffect DEF TypeInv
    <3> HIDE DEF r
    <3>2. r.op = "store" => r.key # "seed"
      BY <2>1, <3>1
    <3> QED
      BY <1>1, <3>1, <3>2 DEF TypeInv, TypeOK
  <2>4. ASSUME NEW a \in answers, Dispatch(a)
        PROVE  store' = store
    BY <2>4 DEF Dispatch
  <2>5. ASSUME NEW t \in Tabs,
               \/ Quiet(t) \/ ConfirmSeed(t) \/ GiveUp(t, "onboard")
               \/ \E pc \in SeedWaits, s \in Seeds : StoreSeed(t, pc, s)
        PROVE  store' = store
    BY <2>5 DEF Quiet, ConfirmSeed, GiveUp, StoreSeed
  <2> QED
    BY <1>1, <2>2, <2>3, <2>4, <2>5, SeedSteps DEF Calm
<1> QED
  BY <1>2, <1>3 DEF SeedScope

\* The seed a session works with is the one the delegate holds: where a seed
\* is installed, in any number of sessions and with every fault; else for one
\* session whose answers are not slow, through onboarding and restoring,
\* reloads, requests that fail and answers that cannot be decoded.
THEOREM SessionSeedIsStored ==
    ASSUME SeedScope
    PROVE  Spec => []LoadedSeedIsStored
<1>1. SeedInv => LoadedSeedIsStored
  BY SeedFacts
<1> QED
  BY <1>1, SeedInvInit, SeedInvNext, PTL DEF Spec

\* In the same scope a stored seed is never replaced by another.
THEOREM StoredSeedIsKept ==
    ASSUME SeedScope
    PROVE  Spec => SeedKept
<1>1. SeedInv /\ [Next]_vars => [store.seed \in Seeds => store'.seed = store.seed]_vars
  BY SeedKeptStep
<1>2. Spec => [][store.seed \in Seeds => store'.seed = store.seed]_vars
  BY <1>1, SeedInvInit, SeedInvNext, PTL DEF Spec
<1> QED
  BY <1>2 DEF SeedKept

-----------------------------------------------------------------------------
(* Every persona listed exists: each action.                               *)

\* What exists goes on existing.
Mono ==
    /\ store.seed \in Seeds => store'.seed = store.seed
    /\ \A pk \in Pks : chain[pk] # "absent" => chain'[pk] # "absent"

LEMMA EntryMono ==
    ASSUME Mono
    PROVE  /\ \A m \in IdentityMeta : AllExist(store.seed, chain, m) =>
                 AllExist(store'.seed, chain', m)
           /\ \A w \in Tab : TabExists(store.seed, chain, w) =>
                 TabExists(store'.seed, chain', w)
           /\ \A k \in Task : TaskExists(store.seed, chain, k) =>
                 TaskExists(store'.seed, chain', k)
           /\ \A a \in Answer : AnswerExists(store.seed, chain, a) =>
                 AnswerExists(store'.seed, chain', a)
<1>1. ASSUME NEW m \in IdentityMeta, AllExist(store.seed, chain, m)
      PROVE  AllExist(store'.seed, chain', m)
  <2>1. m.ids \subseteq Indices
    BY DEF IdentityMeta
  <2> QED
    BY <1>1, <2>1 DEF Mono, AllExist, Pks
<1>2. ASSUME NEW w \in Tab, TabExists(store.seed, chain, w)
      PROVE  TabExists(store'.seed, chain', w)
  <2>1. w.meta \in IdentityMeta
    BY DEF Tab
  <2> QED
    BY <1>1, <1>2, <2>1 DEF Mono, TabExists
<1>3. ASSUME NEW k \in Task, TaskExists(store.seed, chain, k)
      PROVE  TaskExists(store'.seed, chain', k)
  <2>1. k.meta \in IdentityMeta
    BY DEF Task
  <2> QED
    BY <1>1, <1>3, <2>1 DEF Mono, TaskExists
<1>4. ASSUME NEW a \in Answer, AnswerExists(store.seed, chain, a)
      PROVE  AnswerExists(store'.seed, chain', a)
  <2>1. a.kind = "ack" => a.pk \in Pks
    BY AnswerShape
  <2> QED
    BY <1>1, <1>4, <2>1 DEF Mono, AnswerExists
<1> QED
  BY <1>1, <1>2, <1>3, <1>4

\* Nothing is queued that lists a persona that does not exist.
QueuesExist ==
    \A u \in Tabs :
       \/ kvq'[u] = kvq[u]
       \/ \E r \in KvRequest :
             /\ kvq'[u] = Append(kvq[u], r)
             /\ IsMetaStore(r) => AllExist(store.seed, chain, r.value)

LEMMA SameQueuesExist ==
    ASSUME kvq' = kvq
    PROVE  QueuesExist
BY DEF QueuesExist

\* A step of one session.
LEMMA EntrySession ==
    ASSUME TypeInv, EntryInv, NEW t \in Tabs, NEW w, NEW ks, Become(t, w, ks),
           TabExists(store.seed, chain, w),
           \A f \in BusyFlags : TaskExists(store.seed, chain, ks[f]),
           store' = store, chain' = chain, QueuesExist, answers' \subseteq answers
    PROVE  EntryInv'
<1>1. TaskExists(store.seed, chain, IdleTask)
  BY IdleTaskType DEF TaskExists
<1>2. ASSUME NEW u \in Tabs
      PROVE  /\ TabExists(store.seed, chain, tab'[u])
             /\ \A f \in BusyFlags : TaskExists(store.seed, chain, task'[u][f])
  <2>1. CASE u = t
    <3>1. tab'[u] = w
      BY <2>1, BecomeEffect DEF TypeInv
    <3>2. ASSUME NEW f \in BusyFlags
          PROVE  TaskExists(store.seed, chain, task'[u][f])
      <4>1. task'[u][f] \in {ks[f], IdleTask}
        BY <2>1, BecomeEffect DEF TypeInv
      <4>2. TaskExists(store.seed, chain, ks[f])
        OBVIOUS
      <4> QED
        BY <1>1, <4>1, <4>2
    <3> QED
      BY <3>1, <3>2
  <2>2. CASE u # t
    <3>1. tab'[u] = tab[u] /\ task'[u] = task[u]
      BY <2>2, BecomeEffect DEF TypeInv
    <3> QED
      BY <3>1 DEF EntryInv
  <2> QED
    BY <2>1, <2>2
<1>3. ASSUME NEW u \in Tabs, NEW r \in Range(kvq'[u]), IsMetaStore(r)
      PROVE  AllExist(store.seed, chain, r.value)
  <2>1. kvq[u] \in Seq(KvRequest)
    BY DEF TypeInv, TypeOK
  <2>2. ASSUME NEW q \in KvRequest, kvq'[u] = Append(kvq[u], q),
               IsMetaStore(q) => AllExist(store.seed, chain, q.value)
        PROVE  AllExist(store.seed, chain, r.value)
    <3>1. r \in Range(kvq[u]) \/ r = q
      BY <2>1, <2>2, RangeProperties
    <3> QED
      BY <1>3, <2>2, <3>1 DEF EntryInv
  <2>3. CASE kvq'[u] = kvq[u]
    BY <1>3, <2>3 DEF EntryInv
  <2> QED
    BY <2>2, <2>3 DEF QueuesExist
<1> QED
  BY <1>2, <1>3 DEF EntryInv

\* A step of one session and one of its tasks.
LEMMA EntryTask ==
    ASSUME TypeInv, EntryInv, NEW t \in Tabs, NEW w, NEW flag \in BusyFlags, NEW k,
           Become(t, w, [task[t] EXCEPT ![flag] = k]),
           TabExists(store.seed, chain, w), TaskExists(store.seed, chain, k),
           store' = store, chain' = chain, QueuesExist, answers' \subseteq answers
    PROVE  EntryInv'
<1> DEFINE ks == [task[t] EXCEPT ![flag] = k]
<1>1. task[t] \in [BusyFlags -> Task]
  BY TaskShape
<1>2. \A f \in BusyFlags : ks[f] = IF f = flag THEN k ELSE task[t][f]
  BY <1>1
<1>3. Become(t, w, ks)
  OBVIOUS
<1> HIDE DEF ks
<1>4. \A f \in BusyFlags : TaskExists(store.seed, chain, ks[f])
  BY <1>2 DEF EntryInv
<1> QED
  BY <1>3, <1>4, EntrySession

\* A step that changes neither what a session lists nor what it has seen.
LEMMA EntryShow ==
    ASSUME TypeInv, EntryInv, NEW t \in Tabs, NEW w, Become(t, w, task[t]),
           w.meta = tab[t].meta, w.states = tab[t].states,
           store' = store, chain' = chain, QueuesExist, answers' \subseteq answers
    PROVE  EntryInv'
<1>1. TabExists(store.seed, chain, w)
  BY DEF EntryInv, TabExists
<1>2. \A f \in BusyFlags : TaskExists(store.seed, chain, task[t][f])
  BY DEF EntryInv
<1> QED
  BY <1>1, <1>2, EntrySession

\* A task stores a list of personas that exist.
LEMMA EntryStoreMeta ==
    ASSUME TypeInv, TypeInv', EntryInv, NEW t \in Tabs, NEW flag \in BusyFlags,
           NEW w, NEW pk, NEW meta \in IdentityMeta, StoreMeta(t, flag, w, pk, meta),
           TabExists(store.seed, chain, w), AllExist(store.seed, chain, meta),
           store' = store, chain' = chain, answers' = answers
    PROVE  EntryInv'
<1>1. CASE /\ Become(t, w, [task[t] EXCEPT ![flag] = Waiting("meta", pk, meta)])
           /\ sent + 1 \in Ids
           /\ kvq' = [kvq EXCEPT ![t] =
                        Append(kvq[t], Store("meta", meta, sent + 1))]
  <2>1. TaskExists(store.seed, chain, Waiting("meta", pk, meta))
    BY DEF TaskExists, Waiting
  <2>2. /\ Store("meta", meta, sent + 1) \in KvRequest
        /\ Store("meta", meta, sent + 1).value = meta
    BY <1>1, StoreShape
  <2>3. QueuesExist
    BY <1>1, <2>2 DEF QueuesExist, TypeInv, TypeOK
  <2> QED
    BY <1>1, <2>1, <2>3, EntryTask
<1>2. CASE Become(t, w, [task[t] EXCEPT ![flag] = IdleTask]) /\ kvq' = kvq
  <2>1. TaskExists(store.seed, chain, IdleTask)
    BY IdleTaskType DEF TaskExists
  <2> QED
    BY <1>2, <2>1, SameQueuesExist, EntryTask
<1> QED
  BY <1>1, <1>2, StoreMetaEffect

LEMMA EntryStoreSeed ==
    ASSUME TypeInv, EntryInv, NEW t \in Tabs, NEW pc \in SeedWaits, NEW s \in Seeds,
           StoreSeed(t, pc, s)
    PROVE  EntryInv'
<1> DEFINE k == Waiting(pc, <<s, 0>>, DefaultMeta)
           r == Store("seed", s, sent + 1)
<1>1. /\ Become(t, tab[t], [task[t] EXCEPT !["onboard"] = k]) /\ sent < MaxSent
      /\ store' = store /\ chain' = chain /\ answers' = answers
      /\ kvq' = [kvq EXCEPT ![t] = Append(kvq[t], r)] /\ "onboard" \in BusyFlags
  BY DEF StoreSeed, Free, SendKv, TypeInv, TypeOK, BusyFlags
<1>2. r \in KvRequest /\ ~ IsMetaStore(r)
  BY <1>1, FreeId, StoreShape DEF IsMetaStore
<1>3. TaskExists(store.seed, chain, k)
  BY DEF TaskExists, Waiting, SeedWaits
<1> HIDE DEF k, r
<1>4. QueuesExist
  BY <1>1, <1>2 DEF QueuesExist, TypeInv, TypeOK
<1>5. TabExists(store.seed, chain, tab[t])
  BY DEF EntryInv
<1> QED
  BY <1>1, <1>3, <1>4, <1>5, EntryTask

LEMMA EntryCreate ==
    ASSUME TypeInv, EntryInv, LoadedSeedIsStored, NEW t \in Tabs, Create(t)
    PROVE  EntryInv'
<1> DEFINE pk == KeyOf(tab[t], AllocIndex(tab[t].meta))
           w == [tab[t] EXCEPT !.tracked = @ \cup {pk}]
           k == Waiting("put", pk, tab[t].meta)
<1>1. /\ Screen(tab[t]) = Home /\ SendContract(t, "put", pk)
      /\ Become(t, w, [task[t] EXCEPT !["home"] = k])
      /\ store' = store /\ chain' = chain /\ answers' = answers
  BY DEF Create
<1>2. kvq' = kvq /\ tab[t] \in Tab /\ "home" \in BusyFlags
  BY <1>1 DEF SendContract, TypeInv, TypeOK, BusyFlags
<1>3. tab[t].seed \in Seeds /\ tab[t].seed = store.seed
  BY <1>1, <1>2, ScreenShape DEF BootComplete, LoadedSeedIsStored
<1>4. TabExists(store.seed, chain, tab[t]) /\ w.meta = tab[t].meta
      /\ w.states = tab[t].states
  BY <1>2 DEF EntryInv, Tab
<1>5. TaskExists(store.seed, chain, k)
  BY <1>3, <1>4 DEF TaskExists, TabExists, Waiting, KeyOf
<1> HIDE DEF w, k
<1>6. TabExists(store.seed, chain, w)
  BY <1>4 DEF TabExists
<1> QED
  BY <1>1, <1>2, <1>5, <1>6, SameQueuesExist, EntryTask

LEMMA EntryPush ==
    ASSUME TypeInv, EntryInv, NEW t \in Tabs, NEW flag \in BusyFlags,
           NEW pc \in {"slot", "marker"}, NEW index \in Indices,
           Push(t, flag, pc, index)
    PROVE  EntryInv'
<1> DEFINE pk == KeyOf(tab[t], index)
           w == [tab[t] EXCEPT !.tracked = @ \cup {pk}]
           k == Waiting(pc, pk, DefaultMeta)
<1>1. /\ SendContract(t, pc, pk) /\ Become(t, w, [task[t] EXCEPT ![flag] = k])
      /\ store' = store /\ chain' = chain /\ answers' = answers
  BY DEF Push
<1>2. kvq' = kvq /\ tab[t] \in Tab
  BY <1>1 DEF SendContract, TypeInv, TypeOK
<1>3. TabExists(store.seed, chain, tab[t]) /\ w.meta = tab[t].meta
      /\ w.states = tab[t].states
  BY <1>2 DEF EntryInv, Tab
<1>4. TaskExists(store.seed, chain, k)
  BY DEF TaskExists, Waiting
<1> HIDE DEF w, k
<1>5. TabExists(store.seed, chain, w)
  BY <1>3 DEF TabExists
<1> QED
  BY <1>1, <1>2, <1>4, <1>5, SameQueuesExist, EntryTask

LEMMA EntryLook ==
    ASSUME TypeInv, EntryInv, NEW t \in Tabs, NEW view, Look(t, view)
    PROVE  EntryInv'
<1> DEFINE w == [tab[t] EXCEPT !.view = view]
<1>1. /\ Become(t, w, task[t]) /\ kvq' = kvq /\ store' = store /\ chain' = chain
      /\ answers' = answers
  BY DEF Look
<1>2. tab[t] \in Tab
  BY DEF TypeInv, TypeOK
<1>3. w.meta = tab[t].meta /\ w.states = tab[t].states
  BY <1>2 DEF Tab
<1> HIDE DEF w
<1> QED
  BY <1>1, <1>3, SameQueuesExist, EntryShow

LEMMA EntryUser ==
    ASSUME TypeInv, EntryInv, LoadedSeedIsStored, NEW t \in Tabs, User(t)
    PROVE  EntryInv'
<1>1. ASSUME GetStarted(t) \/ Restore(t)
      PROVE  EntryInv'
  BY <1>1, WalletAssumption, EntryStoreSeed DEF GetStarted, Restore, SeedWaits
<1>2. ASSUME NEW i \in Indices, NEW f \in {"save", "pic"}, Publish(t, f, i)
      PROVE  EntryInv'
  BY <1>2, EntryPush DEF Publish, BusyFlags
<1>3. ASSUME NEW i \in Indices, Destroy(t, i)
      PROVE  EntryInv'
  BY <1>3, EntryPush DEF Destroy, BusyFlags
<1>4. ASSUME NEW i \in Indices, OpenDetail(t, i)
      PROVE  EntryInv'
  BY <1>4, EntryLook DEF OpenDetail
<1>5. ASSUME OpenBackup(t) \/ Back(t)
      PROVE  EntryInv'
  BY <1>5, EntryLook DEF OpenBackup, Back
<1> QED
  BY <1>1, <1>2, <1>3, <1>4, <1>5, EntryCreate DEF User

LEMMA EntryConfirmSeed ==
    ASSUME TypeInv, TypeInv', EntryInv, NEW t \in Tabs, ConfirmSeed(t)
    PROVE  EntryInv'
<1> DEFINE k == task[t]["onboard"]
<1>1. UNCHANGED <<store, chain, answers>>
  BY ConfirmSeedEffect
<1>2. PICK w, ks :
         /\ w \in Tab /\ Become(t, w, ks)
         /\ w.meta = tab[t].meta /\ w.states = tab[t].states
         /\ \/ ks = [task[t] EXCEPT !["onboard"] =
                        Waiting("meta", k.pk, DefaultMeta)]
            \/ ks = [task[t] EXCEPT !["onboard"].pc = "probe"]
            \/ ks = [task[t] EXCEPT !["onboard"] = IdleTask]
  BY ConfirmSeedEffect
<1>3. QueuesExist
  <2>1. CASE kvq' = kvq
    BY <2>1, SameQueuesExist
  <2>2. ASSUME NEW id \in Ids,
               kvq' = [kvq EXCEPT ![t] = Append(kvq[t], Store("meta", DefaultMeta, id))]
        PROVE  QueuesExist
    <3>1. /\ Store("meta", DefaultMeta, id) \in KvRequest
          /\ Store("meta", DefaultMeta, id).value = DefaultMeta
      BY StoreShape, WalletAssumption DEF Indices, DefaultMeta, IdentityMeta
    <3>2. AllExist(store.seed, chain, DefaultMeta)
      BY DEF AllExist, DefaultMeta
    <3> QED
      BY <2>2, <3>1, <3>2 DEF QueuesExist, TypeInv, TypeOK
  <2> QED
    BY <2>1, <2>2, ConfirmSeedEffect
<1>4. "onboard" \in BusyFlags /\ k \in Task /\ task[t] \in [BusyFlags -> Task]
  BY TaskShape DEF BusyFlags
<1>5. \E n : /\ ks = [task[t] EXCEPT !["onboard"] = n]
             /\ TaskExists(store.seed, chain, n)
  <2>1. TaskExists(store.seed, chain, Waiting("meta", k.pk, DefaultMeta))
    BY DEF TaskExists, Waiting, AllExist, DefaultMeta
  <2>2. TaskExists(store.seed, chain, [k EXCEPT !.pc = "probe"])
    BY <1>4 DEF TaskExists, Task
  <2>3. TaskExists(store.seed, chain, IdleTask)
    BY IdleTaskType DEF TaskExists
  <2>4. [task[t] EXCEPT !["onboard"].pc = "probe"]
           = [task[t] EXCEPT !["onboard"] = [k EXCEPT !.pc = "probe"]]
    BY <1>4
  <2> QED
    BY <1>2, <2>1, <2>2, <2>3, <2>4, Zenon
<1>6. TabExists(store.seed, chain, w)
  BY <1>2 DEF TabExists, EntryInv
<1> QED
  BY <1>1, <1>2, <1>3, <1>4, <1>5, <1>6, EntryTask

LEMMA EntryEndProbe ==
    ASSUME TypeInv, TypeInv', EntryInv, ProbesStored, NEW t \in Tabs, EndProbe(t)
    PROVE  EntryInv'
<1> DEFINE k == task[t]["onboard"]
<1>1. PICK meta \in IdentityMeta :
         /\ StoreMeta(t, "onboard", tab[t], k.pk, meta)
         /\ \A i \in meta.ids : tab[t].states[<<k.pk[1], i>>] = "live"
  BY EndProbeShape
<1>2. k.pc = "probe" /\ UNCHANGED <<store, chain, answers>>
  BY EndProbeShape
<1>3. store.seed \in Seeds /\ k.pk[1] = store.seed
  BY <1>2 DEF ProbesStored
<1>4. TabExists(store.seed, chain, tab[t]) /\ "onboard" \in BusyFlags
  BY DEF EntryInv, BusyFlags
<1>5. AllExist(store.seed, chain, meta)
  <2>1. meta.ids \subseteq Indices /\ Unknown # "live"
    BY WalletAssumption DEF IdentityMeta
  <2> QED
    BY <1>1, <1>3, <1>4, <2>1 DEF AllExist, TabExists, Pks
<1> QED
  BY <1>1, <1>2, <1>4, <1>5, EntryStoreMeta

\* What a session sees of a contract that exists.
LEMMA SeenExists ==
    ASSUME NEW w \in Tab, NEW v \in Tab, TabExists(store.seed, chain, w),
           v.meta = w.meta, NEW pk \in Pks, chain[pk] # "absent",
           \A p \in Pks : p # pk => v.states[p] = w.states[p]
    PROVE  TabExists(store.seed, chain, v)
BY DEF TabExists

LEMMA EntryConfirmPut ==
    ASSUME TypeInv, TypeInv', EntryInv, NEW t \in Tabs, ConfirmPut(t)
    PROVE  EntryInv'
<1> DEFINE k == task[t]["home"]
           w == [tab[t] EXCEPT !.states[k.pk] = "live"]
           meta == [ids |-> k.meta.ids \cup {k.pk[2]}, next |-> k.pk[2] + 1]
<1>1. /\ k.pc = "put" /\ k.hit /\ StoreMeta(t, "home", w, k.pk, meta)
      /\ UNCHANGED <<store, chain, answers, accepted>>
  BY DEF ConfirmPut
<1>2. /\ "home" \in BusyFlags /\ tab[t] \in Tab /\ k.pk \in Pks \cup {NoPk}
      /\ k.pk[2] \in Indices /\ k.meta \in IdentityMeta
  BY TaskShape DEF BusyFlags
<1>3. /\ k.pk \in Pks /\ chain[k.pk] # "absent" /\ store.seed \in Seeds
      /\ k.pk[1] = store.seed /\ AllExist(store.seed, chain, k.meta)
  <2>1. TaskExists(store.seed, chain, k)
    BY <1>2 DEF EntryInv
  <2> QED
    BY <1>1, <2>1 DEF TaskExists
<1>4. /\ w \in Tab /\ w.meta = tab[t].meta
      /\ \A p \in Pks : p # k.pk => w.states[p] = tab[t].states[p]
  BY <1>2 DEF Tab
<1>5. meta \in IdentityMeta
  BY <1>2, WalletAssumption DEF IdentityMeta, Indices
<1>6. AllExist(store.seed, chain, meta)
  <2>1. k.pk = <<store.seed, k.pk[2]>>
    BY <1>3 DEF Pks
  <2> QED
    BY <1>3, <2>1 DEF AllExist
<1> HIDE DEF w, meta
<1>7. TabExists(store.seed, chain, tab[t])
  BY DEF EntryInv
<1>8. TabExists(store.seed, chain, w)
  BY <1>2, <1>3, <1>4, <1>7, SeenExists
<1> QED
  BY <1>1, <1>2, <1>5, <1>6, <1>8, EntryStoreMeta

LEMMA EntryConfirmSlot ==
    ASSUME TypeInv, EntryInv, NEW t \in Tabs, NEW flag \in {"save", "pic"},
           ConfirmSlot(t, flag)
    PROVE  EntryInv'
<1> DEFINE k == task[t][flag]
           dead == tab[t].states[k.pk] = "dead"
           w == [tab[t] EXCEPT !.states[k.pk] = IF dead THEN @ ELSE "live"]
<1>1. /\ Become(t, w, [task[t] EXCEPT ![flag] = IdleTask])
      /\ k.pc = "slot" /\ k.hit
      /\ UNCHANGED <<store, chain, kvq, wire, answers, history>>
  BY DEF ConfirmSlot
<1>2. tab[t] \in Tab /\ flag \in BusyFlags
  BY DEF TypeInv, TypeOK, BusyFlags
<1>3. TaskExists(store.seed, chain, k) /\ TabExists(store.seed, chain, tab[t])
  BY <1>2 DEF EntryInv
<1>4. k.pk \in Pks /\ chain[k.pk] # "absent"
  BY <1>1, <1>3 DEF TaskExists
<1>5. /\ w.meta = tab[t].meta /\ w \in Tab
      /\ \A p \in Pks : p # k.pk => w.states[p] = tab[t].states[p]
  BY <1>2, SMTT(30) DEF Tab
<1>6. TaskExists(store.seed, chain, IdleTask)
  BY IdleTaskType DEF TaskExists
<1> HIDE DEF w
<1>7. TabExists(store.seed, chain, w)
  BY <1>2, <1>3, <1>4, <1>5, SeenExists
<1> QED
  BY <1>1, <1>2, <1>6, <1>7, SameQueuesExist, EntryTask

LEMMA EntryConfirmMarker ==
    ASSUME TypeInv, TypeInv', EntryInv, NEW t \in Tabs, ConfirmMarker(t)
    PROVE  EntryInv'
<1> DEFINE k == task[t]["destroy"]
           meta == [tab[t].meta EXCEPT !.ids = @ \ {k.pk[2]}]
<1>1. /\ StoreMeta(t, "destroy", tab[t], k.pk, meta)
      /\ UNCHANGED <<store, chain, answers, accepted>>
  BY DEF ConfirmMarker
<1>2. /\ "destroy" \in BusyFlags /\ tab[t] \in Tab
      /\ TabExists(store.seed, chain, tab[t])
  BY TaskShape DEF BusyFlags, EntryInv
<1>3. meta \in IdentityMeta /\ meta.ids \subseteq tab[t].meta.ids
  BY <1>2 DEF Tab, IdentityMeta
<1> HIDE DEF meta
<1>4. AllExist(store.seed, chain, meta)
  BY <1>2, <1>3 DEF TabExists, AllExist
<1> QED
  BY <1>1, <1>2, <1>3, <1>4, EntryStoreMeta

LEMMA EntryConfirmMeta ==
    ASSUME TypeInv, EntryInv, NEW t \in Tabs,
           NEW flag \in {"onboard", "home", "destroy"}, ConfirmMeta(t, flag)
    PROVE  EntryInv'
<1> DEFINE k == task[t][flag]
           w == [tab[t] EXCEPT !.meta = k.meta]
           x == [w EXCEPT !.view = Detail(k.pk[2])]
           y == [w EXCEPT !.states[k.pk] = Unknown, !.view = Home]
           v == CASE flag = "onboard" -> w
                  [] flag = "home"    -> x
                  [] flag = "destroy" -> y
<1>1. /\ Become(t, v, [task[t] EXCEPT ![flag] = IdleTask]) /\ k.pc = "meta"
      /\ UNCHANGED <<store, chain, kvq, wire, answers, history>>
  BY DEF ConfirmMeta
<1>2. flag \in BusyFlags /\ tab[t] \in Tab /\ k.meta \in IdentityMeta
  BY TaskShape DEF BusyFlags
<1>3. /\ AllExist(store.seed, chain, k.meta)
      /\ \A p \in Pks : tab[t].states[p] # Unknown => chain[p] # "absent"
  <2>1. TaskExists(store.seed, chain, k) /\ TabExists(store.seed, chain, tab[t])
    BY <1>2 DEF EntryInv
  <2> QED
    BY <1>1, <2>1 DEF TaskExists, TabExists
<1>4. v.meta = k.meta /\ \A p \in Pks : v.states[p] \in {tab[t].states[p], Unknown}
  <2>1. w \in Tab /\ w.meta = k.meta /\ w.states = tab[t].states
    BY <1>2 DEF Tab
  <2>2. x.meta = w.meta /\ x.states = w.states
    BY <2>1 DEF Tab
  <2>3. y.meta = w.meta /\ \A p \in Pks : y.states[p] \in {w.states[p], Unknown}
    BY <2>1 DEF Tab
  <2> HIDE DEF w, x, y
  <2> QED
    BY <2>1, <2>2, <2>3
<1> HIDE DEF v
<1>5. TabExists(store.seed, chain, v)
  BY <1>3, <1>4 DEF TabExists
<1>6. TaskExists(store.seed, chain, IdleTask)
  BY IdleTaskType DEF TaskExists
<1> QED
  BY <1>1, <1>2, <1>5, <1>6, SameQueuesExist, EntryTask

LEMMA EntryProceed ==
    ASSUME TypeInv, TypeInv', EntryInv, ProbesStored, NEW t \in Tabs, Proceed(t)
    PROVE  EntryInv'
BY EntryConfirmSeed, EntryEndProbe, EntryConfirmPut, EntryConfirmSlot,
   EntryConfirmMarker, EntryConfirmMeta DEF Proceed

LEMMA EntrySessionOnly ==
    ASSUME TypeInv, EntryInv, NEW t \in Tabs, FetchAll(t) \/ Watchdog(t)
    PROVE  EntryInv'
<1> DEFINE pks == {KeyOf(tab[t], i) : i \in tab[t].meta.ids}
           v == [tab[t] EXCEPT !.fetched = TRUE, !.tracked = @ \cup pks]
           w == [tab[t] EXCEPT !.unreachable = TRUE]
<1>1. /\ store' = store /\ chain' = chain /\ kvq' = kvq /\ answers' = answers
      /\ Become(t, v, task[t]) \/ Become(t, w, task[t])
  BY DEF FetchAll, Watchdog
<1>2. tab[t] \in Tab
  BY DEF TypeInv, TypeOK
<1>3. /\ v.meta = tab[t].meta /\ v.states = tab[t].states
      /\ w.meta = tab[t].meta /\ w.states = tab[t].states
  BY <1>2 DEF Tab
<1> HIDE DEF v, w
<1> QED
  BY <1>1, <1>3, SameQueuesExist, EntryShow

LEMMA EntryGiveUp ==
    ASSUME TypeInv, EntryInv, NEW t \in Tabs, NEW flag \in BusyFlags, GiveUp(t, flag)
    PROVE  EntryInv'
<1>1. /\ Become(t, tab[t], [task[t] EXCEPT ![flag] = IdleTask])
      /\ UNCHANGED <<store, chain, kvq, wire, answers, history>>
  BY DEF GiveUp
<1>2. TaskExists(store.seed, chain, IdleTask) /\ TabExists(store.seed, chain, tab[t])
  BY IdleTaskType DEF TaskExists, EntryInv
<1> QED
  BY <1>1, <1>2, SameQueuesExist, EntryTask

\* Tasks that wait for a contract see an answer only if it exists.
LEMMA EntryAcked ==
    ASSUME TypeInv, EntryInv, NEW t \in Tabs, NEW flags,
           \A f \in flags : f \in BusyFlags
                 /\ task[t][f].pc \in {"put", "slot", "marker"} =>
                 task[t][f].pk \in Pks /\ chain[task[t][f].pk] # "absent"
    PROVE  \A f \in BusyFlags : TaskExists(store.seed, chain, Acked(t, flags)[f])
<1> SUFFICES ASSUME NEW f \in BusyFlags
             PROVE  TaskExists(store.seed, chain, Acked(t, flags)[f])
  OBVIOUS
<1>1. /\ Acked(t, flags)[f].pc = task[t][f].pc
      /\ Acked(t, flags)[f].pk = task[t][f].pk
      /\ Acked(t, flags)[f].meta = task[t][f].meta
      /\ Acked(t, flags)[f].hit = (task[t][f].hit \/ f \in flags)
  BY AckedShape
<1>2. TaskExists(store.seed, chain, task[t][f])
  BY DEF EntryInv
<1> QED
  BY <1>1, <1>2 DEF TaskExists

LEMMA EntryArrive ==
    ASSUME TypeInv, EntryInv, NEW t \in Tabs, NEW pk \in Pks,
           NEW state \in {"live", "dead"}, Arrive(t, pk, state)
    PROVE  EntryInv'
<1> DEFINE w == [tab[t] EXCEPT !.states[pk] = IF @ = "dead" THEN @ ELSE state]
           showing == {f \in BusyFlags : LET k == task[t][f] IN
                         k.pc = "slot" /\ k.pk = pk /\ state = "live"
                            /\ k.req \in accepted}
<1>1. /\ Become(t, w, Acked(t, showing)) /\ chain[pk] # "absent"
      /\ store' = store /\ chain' = chain /\ kvq' = kvq /\ answers' = answers
  BY DEF Arrive
<1>2. tab[t] \in Tab /\ TabExists(store.seed, chain, tab[t])
  BY DEF TypeInv, TypeOK, EntryInv
<1>3. /\ w \in Tab /\ w.meta = tab[t].meta
      /\ \A p \in Pks : p # pk => w.states[p] = tab[t].states[p]
  BY <1>2 DEF Tab
<1>4. \A f \in showing : task[t][f].pk \in Pks /\ chain[task[t][f].pk] # "absent"
  BY <1>1
<1> HIDE DEF w, showing
<1>5. TabExists(store.seed, chain, w)
  BY <1>1, <1>2, <1>3, SeenExists
<1>6. \A f \in BusyFlags : TaskExists(store.seed, chain, Acked(t, showing)[f])
  BY <1>4, EntryAcked
<1> QED
  BY <1>1, <1>5, <1>6, SameQueuesExist, EntrySession

LEMMA EntryReload ==
    ASSUME TypeInv, TypeInv', EntryInv, NEW t \in Tabs, Reload(t),
           store.seed \in Seeds => store'.seed = store.seed
    PROVE  EntryInv'
<1>1. /\ tab' = [tab EXCEPT ![t] = NewTab]
      /\ task' = [task EXCEPT ![t] = [f \in BusyFlags |-> IdleTask]]
      /\ kvq' = [kvq EXCEPT ![t] = BootRequests]
      /\ answers' = {a \in answers : a.tab # t} /\ chain' = chain
  BY DEF Reload
<1>2. Mono
  BY <1>1 DEF Mono
<1>3. ASSUME store'.meta # Absent
      PROVE  AllExist(store'.seed, chain', store'.meta)
  <2>1. /\ store'.meta \in IdentityMeta
        /\ store.meta \in IdentityMeta \cup {Absent}
    BY <1>3 DEF TypeInv, TypeOK
  <2>2. \/ store'["meta"] = store["meta"]
        \/ \E r \in Range(kvq[t]) :
              r.op = "store" /\ r.key = "meta" /\ store'["meta"] = r.value
    BY ReloadEffect DEF TypeInv
  <2>3. AllExist(store.seed, chain, store'.meta)
    BY <1>3, <2>2 DEF EntryInv, IsMetaStore
  <2> QED
    BY <1>2, <2>1, <2>3, EntryMono
<1>4. TabExists(store'.seed, chain', NewTab)
  BY DEF TabExists, AllExist, NewTab, DefaultMeta
<1>5. TaskExists(store'.seed, chain', IdleTask)
  BY IdleTaskType DEF TaskExists
<1>6. ASSUME NEW u \in Tabs
      PROVE  /\ TabExists(store'.seed, chain', tab'[u])
             /\ \A f \in BusyFlags : TaskExists(store'.seed, chain', task'[u][f])
             /\ \A r \in Range(kvq'[u]) :
                   IsMetaStore(r) => AllExist(store'.seed, chain', r.value)
  <2>1. CASE u = t
    <3>1. /\ tab'[u] = NewTab /\ kvq'[u] = BootRequests
          /\ \A f \in BusyFlags : task'[u][f] = IdleTask
      BY <1>1, <2>1 DEF TypeInv, TypeOK
    <3> QED
      BY <1>4, <1>5, <3>1, BootIsNoStore DEF IsMetaStore
  <2>2. CASE u # t
    <3>1. tab'[u] = tab[u] /\ task'[u] = task[u] /\ kvq'[u] = kvq[u]
      BY <1>1, <2>2 DEF TypeInv, TypeOK
    <3>2. /\ tab[u] \in Tab /\ \A f \in BusyFlags : task[u][f] \in Task
          /\ kvq[u] \in Seq(KvRequest)
      BY DEF TypeInv, TypeOK
    <3>3. \A r \in Range(kvq[u]) : IsMetaStore(r) => r.value \in IdentityMeta
      BY <3>2, RangeProperties, KvShape DEF IsMetaStore
    <3>4. TabExists(store'.seed, chain', tab[u])
      BY <1>2, <3>2, EntryMono DEF EntryInv
    <3>5. \A f \in BusyFlags : TaskExists(store'.seed, chain', task[u][f])
      BY <1>2, <3>2, EntryMono DEF EntryInv
    <3>6. \A r \in Range(kvq[u]) :
             IsMetaStore(r) => AllExist(store'.seed, chain', r.value)
      BY <1>2, <3>3, EntryMono DEF EntryInv
    <3> QED
      BY <3>1, <3>4, <3>5, <3>6
  <2> QED
    BY <2>1, <2>2
<1>7. ASSUME NEW a \in answers'
      PROVE  AnswerExists(store'.seed, chain', a)
  <2>1. a \in answers /\ a \in Answer
    BY <1>1 DEF TypeInv, TypeOK
  <2> QED
    BY <1>2, <2>1, EntryMono DEF EntryInv
<1> QED
  BY <1>3, <1>6, <1>7 DEF EntryInv

\* A step that leaves the sessions alone and queues nothing.
LEMMA EntryNode ==
    ASSUME TypeInv, TypeInv', EntryInv, Mono, UNCHANGED <<tab, task>>,
           \A u \in Tabs : Range(kvq'[u]) \subseteq Range(kvq[u]),
           store'.meta # Absent => AllExist(store'.seed, chain', store'.meta),
           \A a \in answers' : a \in answers \/ AnswerExists(store'.seed, chain', a)
    PROVE  EntryInv'
<1>1. ASSUME NEW u \in Tabs
      PROVE  /\ TabExists(store'.seed, chain', tab'[u])
             /\ \A f \in BusyFlags : TaskExists(store'.seed, chain', task'[u][f])
             /\ \A r \in Range(kvq'[u]) :
                   IsMetaStore(r) => AllExist(store'.seed, chain', r.value)
  <2>1. /\ tab[u] \in Tab /\ \A f \in BusyFlags : task[u][f] \in Task
        /\ kvq[u] \in Seq(KvRequest)
    BY DEF TypeInv, TypeOK
  <2>2. \A r \in Range(kvq[u]) : IsMetaStore(r) => r.value \in IdentityMeta
    BY <2>1, RangeProperties, KvShape DEF IsMetaStore
  <2>3. TabExists(store'.seed, chain', tab[u])
    BY <2>1, EntryMono DEF EntryInv
  <2>4. \A f \in BusyFlags : TaskExists(store'.seed, chain', task[u][f])
    BY <2>1, EntryMono DEF EntryInv
  <2>5. \A r \in Range(kvq[u]) :
           IsMetaStore(r) => AllExist(store'.seed, chain', r.value)
    BY <2>2, EntryMono DEF EntryInv
  <2> QED
    BY <2>3, <2>4, <2>5
<1>2. ASSUME NEW a \in answers, a \in answers'
      PROVE  AnswerExists(store'.seed, chain', a)
  <2>1. a \in Answer
    BY DEF TypeInv, TypeOK
  <2> QED
    BY <2>1, EntryMono DEF EntryInv
<1> QED
  BY <1>1, <1>2 DEF EntryInv

LEMMA EntryServeKv ==
    ASSUME TypeInv, TypeInv', EntryInv, NEW t \in Tabs, ServeKv(t),
           store.seed \in Seeds => store'.seed = store.seed
    PROVE  EntryInv'
<1> DEFINE r == Head(kvq[t])
           stored == [tab |-> t, kind |-> "stored", key |-> r.key, id |-> r.id]
           told(v) == [tab |-> t, kind |-> r.key, value |-> v]
           empty == [tab |-> t, kind |-> "empty", to |-> r]
<1>1. /\ r \in KvRequest /\ r \in Range(kvq[t])
      /\ kvq' = [kvq EXCEPT ![t] = Tail(kvq[t])]
      /\ Range(Tail(kvq[t])) \subseteq Range(kvq[t])
      /\ UNCHANGED <<chain, tab, task>>
  BY ServeKvEffect DEF TypeInv
<1>2. \/ /\ r.op = "store" /\ answers' = answers \cup {stored}
         /\ store' = [store EXCEPT ![r.key] = r.value]
      \/ /\ r.op = "get" /\ store' = store
         /\ \E v \in {store[r.key], Corrupt} : answers' = answers \cup {told(v)}
      \/ store' = store /\ answers' = answers \cup {empty}
      \/ store' = store /\ answers' = answers
  BY ServeKvEffect DEF TypeInv
<1>3. Mono
  BY <1>1 DEF Mono
<1>4. \A u \in Tabs : Range(kvq'[u]) \subseteq Range(kvq[u])
  <2>1. \A u \in Tabs : kvq'[u] = IF u = t THEN Tail(kvq[t]) ELSE kvq[u]
    BY <1>1 DEF TypeInv, TypeOK
  <2> HIDE DEF r
  <2> QED
    BY <1>1, <2>1
<1> HIDE DEF r
<1>5. /\ store \in [seed : Seeds \cup {Absent}, meta : IdentityMeta \cup {Absent}]
      /\ r.op = "store" => r.key \in {"seed", "meta"}
      /\ r.op = "get" => r.key \in {"seed", "meta"}
      /\ Corrupt \notin IdentityMeta /\ Absent \notin IdentityMeta
  BY <1>1, KvShape, WalletAssumption DEF TypeInv, TypeOK
<1>6. ASSUME store'.meta # Absent
      PROVE  AllExist(store'.seed, chain', store'.meta)
  <2>1. store'.meta \in IdentityMeta
    BY <1>6 DEF TypeInv, TypeOK
  <2>2. AllExist(store.seed, chain, store'.meta)
    <3>1. CASE r.op = "store" /\ r.key = "meta" /\ store'.meta = r.value
      BY <1>1, <3>1 DEF EntryInv, IsMetaStore
    <3>2. CASE store'.meta = store.meta
      BY <1>6, <3>2 DEF EntryInv
    <3> QED
      BY <1>2, <1>5, <3>1, <3>2
  <2> QED
    BY <1>3, <2>1, <2>2, EntryMono
<1>7. ASSUME NEW a \in answers', a \notin answers
      PROVE  AnswerExists(store'.seed, chain', a)
  <2>1. CASE a = stored \/ a = empty
    BY <2>1 DEF AnswerExists
  <2>2. ASSUME NEW v \in {store[r.key], Corrupt}, r.op = "get", store' = store,
               a = told(v)
        PROVE  AnswerExists(store'.seed, chain', a)
    <3>1. a.kind = r.key /\ a.value = v
      BY <2>2
    <3>2. a.kind # "ack"
      BY <1>5, <2>2, <3>1
    <3>3. ASSUME a.kind = "meta", a.value \in IdentityMeta
          PROVE  AllExist(store.seed, chain, a.value)
      <4>1. a.value = store["meta"] /\ store.meta # Absent
        BY <1>5, <2>2, <3>1, <3>3
      <4> QED
        BY <4>1 DEF EntryInv
    <3> QED
      BY <1>1, <2>2, <3>2, <3>3 DEF AnswerExists
  <2> HIDE DEF stored, told, empty
  <2> QED
    BY <1>2, <1>7, <2>1, <2>2
<1> QED
  BY <1>1, <1>3, <1>4, <1>6, <1>7, EntryNode

\* A contract, once made, stays.
LEMMA ChainKept ==
    ASSUME TypeInv, [Next]_vars, NEW pk \in Pks, chain[pk] # "absent"
    PROVE  chain'[pk] # "absent"
<1>1. ASSUME NEW r \in wire, ServeContract(r)
      PROVE  chain'[pk] # "absent"
  <2>1. r.pk \in Pks /\ chain \in [Pks -> {"absent", "live", "dead"}]
    BY DEF TypeInv, TypeOK, ContractRequest
  <2>2. chain' = [chain EXCEPT ![r.pk] = After(r)] \/ chain' = chain
    BY <1>1, Zenon DEF ServeContract
  <2>3. r.pk = pk => After(r) # "absent"
    BY DEF After
  <2> QED
    BY <2>1, <2>2, <2>3
<1>2. ASSUME NEW t \in Tabs, User(t) \/ Proceed(t) \/ Session(t) \/ ServeKv(t)
      PROVE  chain' = chain
  BY <1>2, Zenon DEF User, GetStarted, Restore, StoreSeed, Create, Publish, Destroy, Push,
     OpenDetail, OpenBackup, Back, Look, Proceed, ConfirmSeed, EndProbe, ConfirmPut,
     ConfirmSlot, ConfirmMarker, ConfirmMeta, Session, GiveUp, FetchAll, Watchdog,
     Reload, Arrive, ServeKv
<1>3. ASSUME NEW a \in answers, Dispatch(a)
      PROVE  chain' = chain
  BY <1>3 DEF Dispatch
<1> QED
  BY <1>1, <1>2, <1>3 DEF Next, vars

LEMMA EntryServeContract ==
    ASSUME TypeInv, TypeInv', EntryInv, NEW r \in wire, ServeContract(r), Mono
    PROVE  EntryInv'
<1>1. UNCHANGED <<store, tab, task, kvq>>
  BY DEF ServeContract
<1>2. /\ r.pk \in Pks /\ chain \in [Pks -> {"absent", "live", "dead"}]
      /\ store \in [seed : Seeds \cup {Absent}, meta : IdentityMeta \cup {Absent}]
  BY DEF TypeInv, TypeOK, ContractRequest
<1>3. After(r) # "absent" \/ ~ Takes(r)
  BY <1>2 DEF After, Takes, TypeInv, TypeOK, ContractRequest
<1>4. ASSUME NEW a \in answers', a \notin answers
      PROVE  AnswerExists(store'.seed, chain', a)
  <2>1. /\ chain' = [chain EXCEPT ![r.pk] = After(r)] /\ Takes(r)
        /\ a = [tab |-> r.tab, kind |-> "ack", pk |-> r.pk, id |-> r.id]
    BY <1>4 DEF ServeContract
  <2>2. chain'[r.pk] # "absent" /\ a.kind = "ack" /\ a.pk = r.pk
    BY <1>2, <1>3, <2>1
  <2> QED
    BY <2>2 DEF AnswerExists
<1>5. store'.meta # Absent => AllExist(store'.seed, chain', store'.meta)
  BY <1>1, <1>2, EntryMono DEF EntryInv
<1> QED
  BY <1>1, <1>4, <1>5, EntryNode

LEMMA EntryDispatch ==
    ASSUME TypeInv, EntryInv, NEW a \in answers, Dispatch(a)
    PROVE  EntryInv'
<1> DEFINE t == a.tab
           w == tab[a.tab]
<1>1. /\ t \in Tabs /\ w \in Tab /\ a \in Answer
  BY AnswerShape DEF TypeInv, TypeOK
<1>2. /\ store' = store /\ chain' = chain /\ kvq' = kvq /\ answers' \subseteq answers
  BY DEF Dispatch
<1>3. QueuesExist /\ TabExists(store.seed, chain, w)
  BY <1>1, <1>2, SameQueuesExist DEF EntryInv
<1>4. AnswerExists(store.seed, chain, a)
  BY DEF EntryInv
<1>5. ASSUME NEW flags, Become(t, w, Acked(t, flags)),
             \A f \in flags : f \in BusyFlags
                   /\ task[t][f].pc \in {"put", "slot", "marker"} =>
                   task[t][f].pk \in Pks /\ chain[task[t][f].pk] # "absent"
      PROVE  EntryInv'
  <2>1. \A f \in BusyFlags : TaskExists(store.seed, chain, Acked(t, flags)[f])
    BY <1>1, <1>5, EntryAcked
  <2> HIDE DEF t, w
  <2> QED
    BY <1>1, <1>2, <1>3, <1>5, <2>1, EntrySession
<1>6. CASE ContractAck(a)
  <2> DEFINE waiting == {f \in BusyFlags :
                           /\ task[t][f].pc \in {"put", "slot", "marker"}
                           /\ task[t][f].pk = a.pk}
  <2>1. Become(t, w, Acked(t, waiting)) /\ a.kind = "ack"
    BY <1>6 DEF ContractAck
  <2>2. a.pk \in Pks /\ chain[a.pk] # "absent"
    BY <1>1, <1>4, <2>1, AnswerShape DEF AnswerExists
  <2>3. \A f \in waiting : task[t][f].pk \in Pks /\ chain[task[t][f].pk] # "absent"
    BY <2>2
  <2> HIDE DEF waiting, t, w
  <2> QED
    BY <1>5, <2>1, <2>3
<1>7. CASE StoredAck(a)
  <2> DEFINE waits == IF a.key = "seed" THEN {"seed", "restoreSeed"} ELSE {"meta"}
             waiting == {f \in BusyFlags : task[t][f].pc \in waits}
  <2>1. Become(t, w, Acked(t, waiting))
    BY <1>7 DEF StoredAck
  <2>2. \A f \in waiting : task[t][f].pc \notin {"put", "slot", "marker"}
    OBVIOUS
  <2> HIDE DEF waiting, t, w
  <2> QED
    BY <1>5, <2>1, <2>2
<1>8. ASSUME NEW v, Become(t, v, task[t]), TabExists(store.seed, chain, v)
      PROVE  EntryInv'
  <2>1. \A f \in BusyFlags : TaskExists(store.seed, chain, task[t][f])
    BY <1>1 DEF EntryInv
  <2> HIDE DEF t, w
  <2> QED
    BY <1>1, <1>2, <1>3, <1>8, <2>1, EntrySession
<1>9. CASE SeedValue(a)
  <2> DEFINE v == IF a.value = Corrupt
                  THEN [w EXCEPT !.unreachable = TRUE]
                  ELSE [w EXCEPT !.seed = a.value, !.fetched = FALSE]
  <2>1. Become(t, v, task[t])
    BY <1>9 DEF SeedValue
  <2>2. v.meta = w.meta /\ v.states = w.states
    BY <1>1 DEF Tab
  <2> HIDE DEF v, t, w
  <2>3. TabExists(store.seed, chain, v)
    BY <1>3, <2>2 DEF TabExists
  <2> QED
    BY <1>8, <2>1, <2>3
<1>10. CASE MetaValue(a)
  <2> DEFINE lost == [w EXCEPT !.unreachable = TRUE]
             told(m) == [w EXCEPT !.meta = m, !.metaLoaded = TRUE, !.fetched = FALSE]
             v == CASE a.value = Corrupt -> lost
                    [] a.value = Absent -> told(DefaultMeta)
                    [] OTHER -> told(a.value)
  <2>1. Become(t, v, task[t]) /\ a.kind = "meta"
    BY <1>10 DEF MetaValue
  <2>2. lost.meta = w.meta /\ lost.states = w.states
    BY <1>1 DEF Tab
  <2>3. \A m : told(m).meta = m /\ told(m).states = w.states
    BY <1>1 DEF Tab
  <2>4. a.value \in IdentityMeta \cup {Absent, Corrupt}
    BY <1>1, <2>1, AnswerShape
  <2>5. a.value \in IdentityMeta => AllExist(store.seed, chain, a.value)
    BY <1>4, <2>1 DEF AnswerExists
  <2>6. AllExist(store.seed, chain, DefaultMeta)
    BY DEF AllExist, DefaultMeta
  <2> HIDE DEF lost, told, t, w
  <2>7. TabExists(store.seed, chain, v)
    <3>1. CASE a.value = Corrupt
      <4>1. v = lost
        BY <3>1, WalletAssumption
      <4> HIDE DEF v
      <4> QED
        BY <1>3, <2>2, <4>1 DEF TabExists
    <3>2. CASE a.value # Corrupt
      <4>1. PICK m : v = told(m) /\ AllExist(store.seed, chain, m)
        BY <2>4, <2>5, <2>6, <3>2
      <4> HIDE DEF v
      <4> QED
        BY <1>3, <2>3, <4>1 DEF TabExists
    <3> QED
      BY <3>1, <3>2
  <2> HIDE DEF v
  <2> QED
    BY <1>8, <2>1, <2>7
<1>11. CASE EmptyValue(a)
  <2> DEFINE seen == Min({w.empties + 1, 2})
             v == IF w.seed # Unknown THEN w
                  ELSE [w EXCEPT !.empties = seen,
                                 !.unreachable = @ \/ seen = 2]
  <2>1. Become(t, v, task[t])
    BY <1>11 DEF EmptyValue
  <2> HIDE DEF seen
  <2>2. v.meta = w.meta /\ v.states = w.states
    BY <1>1 DEF Tab
  <2> HIDE DEF v, t, w
  <2>3. TabExists(store.seed, chain, v)
    BY <1>3, <2>2 DEF TabExists
  <2> QED
    BY <1>8, <2>1, <2>3
<1> QED
  BY <1>6, <1>7, <1>9, <1>10, <1>11 DEF Dispatch

LEMMA EntryInit ==
    ASSUME Init
    PROVE  EntryInv
<1>1. store.meta # Absent => AllExist(store.seed, chain, store.meta)
  <2> SUFFICES ASSUME store.meta # Absent, NEW i \in store.meta.ids
               PROVE  store.seed \in Seeds /\ chain[<<store.seed, i>>] # "absent"
    BY DEF AllExist
  <2>1. Installed \in Seeds /\ store.seed = Installed /\ store.meta \in RestMetas
    BY WalletAssumption DEF Init
  <2>2. i \in Indices
    BY <2>1 DEF RestMetas, IdentityMeta
  <2>3. <<Installed, i>> \in Pks
    BY <2>1, <2>2 DEF Pks
  <2>4. chain[<<Installed, i>>] = RestState(store.meta, i)
    BY <2>3 DEF Init
  <2> QED
    BY <2>1, <2>4 DEF RestState
<1>2. ASSUME NEW t \in Tabs
      PROVE  /\ TabExists(store.seed, chain, tab[t])
             /\ \A f \in BusyFlags : TaskExists(store.seed, chain, task[t][f])
             /\ \A r \in Range(kvq[t]) :
                   IsMetaStore(r) => AllExist(store.seed, chain, r.value)
  <2>1. /\ tab[t] = NewTab /\ kvq[t] = BootRequests
        /\ \A f \in BusyFlags : task[t][f] = IdleTask
    BY DEF Init
  <2>2. TabExists(store.seed, chain, NewTab)
    BY DEF TabExists, AllExist, NewTab, DefaultMeta
  <2>3. TaskExists(store.seed, chain, IdleTask)
    BY IdleTaskType DEF TaskExists
  <2> QED
    BY <2>1, <2>2, <2>3, BootIsNoStore DEF IsMetaStore
<1>3. \A a \in answers : FALSE
  BY DEF Init
<1> QED
  BY <1>1, <1>2, <1>3 DEF EntryInv

LEMMA EntryNext ==
    ASSUME SeedScope, SeedInv, EntryInv, [Next]_vars
    PROVE  EntryInv'
<1>1. TypeInv /\ TypeInv' /\ LoadedSeedIsStored /\ ProbesStored
  BY TypeInvNext, SeedFacts DEF SeedInv
<1>2. store.seed \in Seeds => store'.seed = store.seed
  BY SeedKeptStep
<1>3. Mono
  BY <1>1, <1>2, ChainKept DEF Mono
<1>4. CASE UNCHANGED vars
  <2>1. UNCHANGED <<store, chain, tab, task, kvq, answers>>
    BY <1>4 DEF vars
  <2> QED
    BY <1>1, <1>3, <2>1, EntryNode DEF EntryInv
<1>5. ASSUME NEW t \in Tabs, Session(t)
      PROVE  EntryInv'
  BY <1>1, <1>2, <1>5, EntryGiveUp, EntrySessionOnly, EntryReload, EntryArrive
     DEF Session
<1>6. ASSUME NEW t \in Tabs, User(t) \/ Proceed(t) \/ ServeKv(t)
      PROVE  EntryInv'
  BY <1>1, <1>2, <1>6, EntryUser, EntryProceed, EntryServeKv
<1>7. ASSUME NEW r \in wire, ServeContract(r)
      PROVE  EntryInv'
  BY <1>1, <1>3, <1>7, EntryServeContract
<1>8. ASSUME NEW a \in answers, Dispatch(a)
      PROVE  EntryInv'
  BY <1>1, <1>8, EntryDispatch
<1> QED
  BY <1>4, <1>5, <1>6, <1>7, <1>8 DEF Next

\* create_identity and restore_seed: whatever a session or the delegate lists
\* has a contract, in the scope in which the seed is safe.
THEOREM ListedPersonasExist ==
    ASSUME SeedScope
    PROVE  Spec => []EntriesExist
<1>1. SeedInv /\ EntryInv => EntriesExist
  <2> SUFFICES ASSUME SeedInv, EntryInv
               PROVE  EntriesExist
    OBVIOUS
  <2>1. LoadedSeedIsStored
    BY SeedFacts
  <2>2. \A i \in Listed(store.meta) : chain[<<store.seed, i>>] # "absent"
    BY DEF EntryInv, AllExist, Listed
  <2>3. ASSUME NEW t \in Tabs, tab[t].seed \in Seeds, NEW i \in tab[t].meta.ids
        PROVE  chain[KeyOf(tab[t], i)] # "absent"
    BY <2>1, <2>3 DEF LoadedSeedIsStored, EntryInv, TabExists, AllExist, KeyOf
  <2> QED
    BY <2>2, <2>3 DEF EntriesExist
<1>2. Init => SeedInv /\ EntryInv
  BY SeedInvInit, EntryInit
<1>3. SeedInv /\ EntryInv /\ [Next]_vars => (SeedInv /\ EntryInv)'
  BY SeedInvNext, EntryNext
<1> QED
  BY <1>1, <1>2, <1>3, PTL DEF Spec
=============================================================================
