--------------------------- MODULE IdentitySync ----------------------------
(***************************************************************************)
(* Hosts of one identity contract keeping each other up to date: a host    *)
(* sends a peer its summary (summarize_state), the peer answers with a     *)
(* delta (get_state_delta), and the host merges it (update_state).  Each   *)
(* ordered pair of hosts has one exchange under way at most; a message may *)
(* be lost, delivered twice, and answered or merged long after the states  *)
(* it was computed from have changed.                                      *)
(***************************************************************************)
EXTENDS IdentityState

CONSTANTS
    Nodes,      \* the hosts
    MaxTime,    \* bound on clocks and on the timestamps writers choose
    MaxWrites   \* bound on the writes the owner makes

VARIABLES
    clock,      \* clock[n]: the wall clock of host n
    replica,    \* replica[n]: the state host n stores
    wire,       \* wire[m, n]: what is on its way between n and its source m
    writes,     \* the number of writes made
    taken       \* the writes some host acknowledged

vars == <<clock, replica, wire, writes, taken>>

Links == {l \in Nodes \X Nodes : l[1] # l[2]}

Idle == [kind |-> "idle"]
SummaryOf(st) == [kind |-> "summary", body |-> Summarize(st)]
DeltaOf(st, summary) == [kind |-> "delta", body |-> DeltaSince(st, summary)]

\* A write as its device sends it: a state of one slot, or of the marker.
SlotWrites ==
    {SlotState(name, SignSlot(Owner, name, time, bytes)) :
        name \in Names, time \in 0..MaxTime, bytes \in Contents}

MarkerWrites == {MarkerState(SignDestroy(Owner, time)) : time \in 0..MaxTime}

Init ==
    /\ clock \in [Nodes -> 0..MaxTime]
    /\ replica = [n \in Nodes |-> EmptyState]
    /\ wire = [l \in Links |-> Idle]
    /\ writes = 0
    /\ taken = {}

Tick(n) ==
    /\ clock[n] < MaxTime
    /\ clock' = [clock EXCEPT ![n] = @ + 1]
    /\ UNCHANGED <<replica, wire, writes, taken>>

\* A device of the owner publishes through host n, which may reject.
Write(n, st) ==
    /\ writes < MaxWrites
    /\ writes' = writes + 1
    /\ replica' = [replica EXCEPT ![n] = MergeState(@, st, clock[n])]
    /\ taken' = IF MergeAccepts(replica[n], st, clock[n])
                THEN taken \cup {st} ELSE taken
    /\ UNCHANGED <<clock, wire>>

SendSummary(m, n) ==
    /\ wire[m, n] = Idle
    /\ wire' = [wire EXCEPT ![m, n] = SummaryOf(replica[n])]
    /\ UNCHANGED <<clock, replica, writes, taken>>

SendDelta(m, n) ==
    /\ wire[m, n].kind = "summary"
    /\ wire' = [wire EXCEPT ![m, n] = DeltaOf(replica[m], @.body)]
    /\ UNCHANGED <<clock, replica, writes, taken>>

Merge(m, n) ==
    /\ wire[m, n].kind = "delta"
    /\ replica' = [replica EXCEPT ![n] = MergeState(@, wire[m, n].body, clock[n])]
    /\ UNCHANGED <<clock, writes, taken>>

Deliver(m, n) ==
    /\ Merge(m, n)
    /\ wire' = [wire EXCEPT ![m, n] = Idle]

Redeliver(m, n) ==
    /\ Merge(m, n)
    /\ UNCHANGED wire

Lose(m, n) ==
    /\ wire[m, n] # Idle
    /\ wire' = [wire EXCEPT ![m, n] = Idle]
    /\ UNCHANGED <<clock, replica, writes, taken>>

Exchange(m, n) ==
    \/ SendSummary(m, n)
    \/ SendDelta(m, n)
    \/ Deliver(m, n)
    \/ Redeliver(m, n)
    \/ Lose(m, n)

Next ==
    \/ \E n \in Nodes : Tick(n)
    \/ \E n \in Nodes, st \in SlotWrites \cup MarkerWrites : Write(n, st)
    \/ \E l \in Links : Exchange(l[1], l[2])

Spec == Init /\ [][Next]_vars

\* Clocks run, hosts keep asking, and a link does not lose everything for ever.
Fairness ==
    /\ \A n \in Nodes : WF_vars(Tick(n))
    /\ \A l \in Links : /\ WF_vars(SendSummary(l[1], l[2]))
                        /\ SF_vars(SendDelta(l[1], l[2]))
                        /\ SF_vars(Deliver(l[1], l[2]))

FairSpec == Spec /\ Fairness

-----------------------------------------------------------------------------
(* Properties.                                                             *)

\* The hash tie-break and the marker rule make merging order irrelevant: once
\* the owner stops writing, all hosts come to hold the same state for good,
\* whatever is lost, repeated or answered late, and though slow clocks reject
\* what fast devices wrote until they catch up.
Converges == <>[](\A m, n \in Nodes : replica[m] = replica[n])

\* What a host acknowledged to the owner reaches every host, or something the
\* owner wrote later has taken its place there, and so it stays.
AcknowledgedSpreads ==
    \A st \in SlotWrites \cup MarkerWrites :
       (st \in taken) ~> [](\A n \in Nodes : AtLeast(replica[n], st))
=============================================================================
