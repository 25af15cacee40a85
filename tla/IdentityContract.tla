------------------------- MODULE IdentityContract --------------------------
(***************************************************************************)
(* One identity contract hosted by several nodes: the four entry points of *)
(* contracts/identity-contract/src/lib.rs run by each node against its own *)
(* replica and its own clock, over a network that may lose, duplicate,     *)
(* reorder, delay or damage what it carries.  Payloads are sent as one set *)
(* that only grows, so any of them may arrive anywhere any number of times *)
(* or never.  update_state folds a batch of updates; each iteration of its *)
(* loop is a step, and the replica changes only when the batch ends.       *)
(***************************************************************************)
EXTENDS IdentityState

CONSTANTS
    Nodes,        \* the hosts of the contract
    MaxTime,      \* bound on clocks and on the timestamps writers choose
    MaxIssued,    \* bound on the messages the owner signs
    MaxBatch,     \* bound on the updates folded in one call
    MaxSums,      \* bound on the summaries sent
    MaxGarbled    \* bound on the damaged payloads the network carries

VARIABLES
    clock,    \* clock[n]: the wall clock of host n
    replica,  \* replica[n]: the stored state of host n, None if not hosted
    job,      \* job[n]: the update_state call host n is running, or None
    net,      \* every state or delta ever sent
    sums,     \* every summary ever sent, with the host it describes
    issued    \* every message the owner ever signed

vars == <<clock, replica, job, net, sums, issued>>

\* now is read once per call; folded records the updates acknowledged so far.
Job == [cur : IdentityStateV1, now : Nat, folded : SUBSET IdentityStateV1]

ASSUME NoneNodeAssumption ==
    None \notin IdentityStateV1 \cup Job \cup Nat \cup (Nat \X Nat)

ASSUME BoundAssumption ==
    {MaxTime, MaxIssued, MaxBatch, MaxSums, MaxGarbled} \subseteq Nat

TypeOK ==
    /\ clock \in [Nodes -> Nat]
    /\ replica \in [Nodes -> IdentityStateV1 \cup {None}]
    /\ job \in [Nodes -> Job \cup {None}]
    /\ net \subseteq IdentityStateV1
    /\ sums \subseteq [node : Nodes, summary : SummaryV1]
    /\ issued \subseteq Messages

\* create_identity has sent its PUT of the empty state and nobody stored it.
Init ==
    /\ clock = [n \in Nodes |-> 0]
    /\ replica = [n \in Nodes |-> None]
    /\ job = [n \in Nodes |-> None]
    /\ net = {EmptyState}
    /\ sums = {}
    /\ issued = {}

-----------------------------------------------------------------------------
(* The world around the contract.                                          *)

Tick(n) ==
    /\ clock[n] < MaxTime
    /\ clock' = [clock EXCEPT ![n] = @ + 1]
    /\ UNCHANGED <<replica, job, net, sums, issued>>

\* Some device of the owner signs a write; its clock need not be the host's.
PublishSlot(name, time, bytes) ==
    /\ Cardinality(issued) < MaxIssued
    /\ LET slot == SignSlot(Owner, name, time, bytes)
       IN  /\ issued' = issued \cup {slot.sig.msg}
           /\ net' = net \cup {SlotState(name, slot)}
    /\ UNCHANGED <<clock, replica, job, sums>>

PublishMarker(time) ==
    /\ Cardinality(issued) < MaxIssued
    /\ LET marker == SignDestroy(Owner, time)
       IN  /\ issued' = issued \cup {marker.sig.msg}
           /\ net' = net \cup {MarkerState(marker)}
    /\ UNCHANGED <<clock, replica, job, sums>>

Sound(st) ==
    /\ \A n \in Held(st) :
          Verify(Owner, SlotMessage(Owner, n, st.slots[n].time,
                                    Hash[st.slots[n].bytes]), st.slots[n].sig)
    /\ Destroyed(st) => CheckDestroy(st.destroyed)

\* A payload arrives damaged, or was signed for another persona: its
\* signature is one of the owner's over something else, or another key's.
Garble(name, time, bytes, sig) ==
    /\ \/ sig.key = Owner /\ sig.msg \in issued
       \/ sig.key # Owner
    /\ \E st \in {SlotState(name, [time |-> time, bytes |-> bytes, sig |-> sig]),
                  MarkerState([time |-> time, sig |-> sig])} :
          ~ Sound(st) /\ net' = net \cup {st}
    /\ UNCHANGED <<clock, replica, job, sums, issued>>

-----------------------------------------------------------------------------
(* The entry points.                                                       *)

\* A whole state (a PUT, or a copy fetched from a peer) reaches a host that
\* has none; validate_state decides.
Host(n, st) ==
    /\ replica[n] = None
    /\ ValidateFull(st, clock[n])
    /\ replica' = [replica EXCEPT ![n] = st]
    /\ UNCHANGED <<clock, job, net, sums, issued>>

\* Mutation: the clock is read one unit short.
BeginUpdateEarly(n) ==
    /\ replica[n] # None
    /\ job[n] = None
    /\ job' = [job EXCEPT ![n] =
                 [cur |-> replica[n], now |-> clock[n] - 1, folded |-> {}]]
    /\ UNCHANGED <<clock, replica, net, sums, issued>>

\* Mutation: the batch is folded into the default state.
BeginUpdateFromEmpty(n) ==
    /\ replica[n] # None
    /\ job[n] = None
    /\ job' = [job EXCEPT ![n] =
                 [cur |-> EmptyState, now |-> clock[n], folded |-> {}]]
    /\ UNCHANGED <<clock, replica, net, sums, issued>>

BeginUpdate(n) ==
    /\ replica[n] # None
    /\ job[n] = None
    /\ job' = [job EXCEPT ![n] =
                 [cur |-> replica[n], now |-> clock[n], folded |-> {}]]
    /\ UNCHANGED <<clock, replica, net, sums, issued>>

\* One iteration: an update that does not merge rejects the whole batch.
FoldUpdate(n, st) ==
    /\ job[n] # None
    /\ Cardinality(job[n].folded) < MaxBatch
    /\ LET call == job[n]
       IN  job' = [job EXCEPT ![n] =
                     IF MergeAccepts(call.cur, st, call.now)
                     THEN [cur |-> MergeState(call.cur, st, call.now),
                           now |-> call.now,
                           folded |-> call.folded \cup {st}]
                     ELSE None]
    /\ UNCHANGED <<clock, replica, net, sums, issued>>

FinishUpdate(n) ==
    /\ job[n] # None
    /\ replica' = [replica EXCEPT ![n] = job[n].cur]
    /\ job' = [job EXCEPT ![n] = None]
    /\ UNCHANGED <<clock, net, sums, issued>>

\* The host stops in the middle of a call; what it stored survives.
Crash(n) ==
    /\ job[n] # None
    /\ job' = [job EXCEPT ![n] = None]
    /\ UNCHANGED <<clock, replica, net, sums, issued>>

SummarizeState(n) ==
    /\ replica[n] # None
    /\ Cardinality(sums) < MaxSums
    /\ sums' = sums \cup {[node |-> n, summary |-> Summarize(replica[n])]}
    /\ UNCHANGED <<clock, replica, job, net, issued>>

\* The summary answered may be an old one; an empty one asks for everything.
GetStateDelta(n, summary) ==
    /\ replica[n] # None
    /\ net' = net \cup {DeltaSince(replica[n], summary)}
    /\ UNCHANGED <<clock, replica, job, sums, issued>>

Writes ==
    \/ \E name \in Names, time \in 0..MaxTime, bytes \in Contents :
          PublishSlot(name, time, bytes)
    \/ \E time \in 0..MaxTime : PublishMarker(time)

Damage ==
    /\ Cardinality({st \in net : ~ Sound(st)}) < MaxGarbled
    /\ \E name \in Names, time \in 0..MaxTime, bytes \in Contents :
          \E sig \in {Sign(Owner, m) : m \in issued}
                     \cup {SignSlot(k, name, time, bytes).sig :
                             k \in Keys \ {Owner}} :
             Garble(name, time, bytes, sig)

Step(n) ==
    \/ Tick(n)
    \/ \E st \in net : Host(n, st)
    \/ BeginUpdate(n)
    \/ \E st \in net : FoldUpdate(n, st)
    \/ FinishUpdate(n)
    \/ Crash(n)
    \/ SummarizeState(n)
    \/ \E s \in sums : GetStateDelta(n, s.summary)
    \/ GetStateDelta(n, EmptySummary)

Next == Writes \/ Damage \/ \E n \in Nodes : Step(n)

Spec == Init /\ [][Next]_vars

-----------------------------------------------------------------------------
(* Properties.                                                             *)

Authentic(st) ==
    /\ \A n \in Held(st) :
          SlotMessage(Owner, n, st.slots[n].time, Hash[st.slots[n].bytes])
             \in issued
    /\ Destroyed(st) => DestroyMessage(Owner, st.destroyed.time) \in issued

\* check_slot and check_destroy: whatever a host stores, content under a name
\* or a marker, is something the owner signed for exactly that name, time and
\* content, however payloads were damaged, mixed up or batched on the way.
ReplicasAuthentic ==
    \A n \in Nodes : replica[n] # None => Authentic(replica[n])

\* merge_state against validate_full: whatever merges into a replica leaves a
\* state that validate_state of that host calls valid, so a replica can always
\* be handed on; in particular a destroyed one has no slots and the size cap
\* holds after every batch.
ReplicasValid ==
    \A n \in Nodes :
       replica[n] # None => ValidateFull(replica[n], clock[n])

\* update_state acknowledges no update it did not apply: while a batch is
\* folded, every update accepted so far is in the result, or is superseded by
\* a newer slot or by a marker.
AcknowledgedIsApplied ==
    \A n \in Nodes : job[n] # None =>
       \A st \in job[n].folded : AtLeast(job[n].cur, st)

\* get_state_delta answers even an out-of-date summary well enough: merging
\* the delta built for any summary a host ever sent leaves that host where
\* merging the whole state of the sender would, whichever valid state of those
\* about the sender holds.
DeltaIsEnough ==
    \A s \in sums, m \in Nodes :
       \A st \in (net \cup {replica[m]}) \ {None} :
          ValidateFull(st, clock[m]) =>
             LET held == replica[s.node]
                 now  == clock[s.node]
             IN  MergeState(held, DeltaSince(st, s.summary), now)
                    = MergeState(held, st, now)

\* A stored replica is never lost and never goes back: no slot returns to an
\* older write, a tombstone is not undone by a late one, a destroyed identity
\* stays destroyed and its marker never gets older.
NeverRegresses ==
    [][\A n \in Nodes : replica[n] # None =>
          replica'[n] # None /\ AtLeast(replica'[n], replica[n])]_vars

-----------------------------------------------------------------------------
(* The refinement: a replica shows its order keys, a message its stamp.    *)

View(st) ==
    [live |-> [name \in Names |->
                 IF st.slots[name] = None THEN None
                 ELSE SlotOrderKey(st.slots[name])],
     end |-> IF Destroyed(st) THEN st.destroyed.time ELSE None]

Stored(n) == IF replica[n] = None THEN EmptyState ELSE replica[n]

SlotMessages == {m \in issued : m.domain = "whoiam-slot-v1"}

DestroyMessages == {m \in issued : m.domain = "whoiam-destroy-v1"}

Register == INSTANCE IdentityRegister WITH
    written <- {[name |-> m.name, stamp |-> <<m.time, m.hash>>] :
                  m \in SlotMessages},
    ended <- {m.time : m \in DestroyMessages},
    view <- [n \in Nodes |-> View(Stored(n))]

\* update_state, validate_state and get_state_delta together implement one
\* last-writer-wins register per name at every host: whatever is lost, stale,
\* duplicated, damaged, batched or interrupted, a host only takes writes the
\* owner made, each name only moves to a newer one, and the end is final.
ImplementsRegister == Register!RegisterSpec


-----------------------------------------------------------------------------
(* The inductive invariant behind them.  Payloads on the network need not  *)
(* be valid, but a signature of the owner's is always over something it    *)
(* signed; calls in progress hold valid states that lie above the replica. *)

Unforged(st) ==
    /\ \A n \in Held(st) :
          st.slots[n].sig.key = Owner => st.slots[n].sig.msg \in issued
    /\ Destroyed(st) /\ st.destroyed.sig.key = Owner =>
          st.destroyed.sig.msg \in issued

NetUnforged == \A st \in net : Unforged(st)

JobSound(n) ==
    /\ replica[n] # None
    /\ job[n].now <= clock[n]
    /\ ValidateFull(job[n].cur, job[n].now)
    /\ Authentic(job[n].cur)
    /\ AtLeast(job[n].cur, replica[n])

JobsSound == \A n \in Nodes : job[n] # None => JobSound(n)

SumsCovered ==
    \A s \in sums : replica[s.node] # None /\ Covers(replica[s.node], s.summary)

IInv ==
    /\ TypeOK
    /\ NetUnforged
    /\ ReplicasAuthentic
    /\ ReplicasValid
    /\ JobsSound
    /\ AcknowledgedIsApplied
    /\ SumsCovered
=============================================================================
