---------------------------- MODULE ClientFetch ----------------------------
(***************************************************************************)
(* The consumer toolkit, toolkit/whoiam-client/src/lib.rs: one fetch of the*)
(* identity whose key is Owner, over a connection to a node that is not    *)
(* trusted.  The contracts and the clock belong to the surroundings.       *)
(***************************************************************************)
EXTENDS IdentityState

CONSTANTS
    WellFormed,  \* WellFormed[n]: the contents the schema of name n allows
    Tombstone    \* the empty content

VARIABLES
    now,         \* the clock
    published,   \* published[k]: the states the contract of key k went through
    fetch        \* the fetch: its phase, what came and what it returns

Outcome(kind) == [kind |-> kind]

Found(raw) == [kind |-> "ok", raw |-> raw]

\* FetchError.
Errors == {Outcome(k) : k \in {"not found", "bad signature", "malformed",
                               "transport", "timeout"}}

Nothing == [kind |-> "nothing"]

Idle == [phase |-> "idle", got |-> Nothing, result |-> Nothing]

\* What a GetResponse may carry: nothing, what cannot be decoded, or a state
\* some contract went through.
Payloads ==
    {[kind |-> "empty"], [kind |-> "junk"]}
    \cup [kind : {"state"}, state : UNION {published[k] : k \in Keys}]

Fetch ==
    [phase : {"idle", "connecting", "asked", "done"},
     got : {Nothing} \cup Payloads,
     result : {Nothing} \cup Errors
              \cup [kind : {"destroyed"}, since : Nat]
              \cup [kind : {"ok"}, raw : [Names -> (Contents \ {Tombstone}) \cup {None}]]]

TypeOK == fetch \in Fetch

Init == fetch = Idle

-----------------------------------------------------------------------------

\* Non-empty slots, and the names whose content breaks its schema.
RawSlots(st) ==
    [n \in Names |-> IF st.slots[n] # None /\ Size[st.slots[n].bytes] # 0
                     THEN st.slots[n].bytes ELSE None]

Broken(st) == {n \in Names : RawSlots(st)[n] \notin WellFormed[n] \cup {None}}

\* Mutation: what is signed is not looked at.
IdentityFromStateUnchecked(st) ==
    IF Destroyed(st) THEN [kind |-> "destroyed", since |-> st.destroyed.time]
    ELSE Found([n \in Names |-> IF st.slots[n] = None THEN None ELSE st.slots[n].bytes])

IdentityFromState(st) ==
    IF Destroyed(st) THEN [kind |-> "destroyed", since |-> st.destroyed.time]
    ELSE IF Broken(st) # {} THEN Outcome("malformed")
    ELSE Found(RawSlots(st))

\* Mutation: the node's word is taken.
VerifiedOutcomeTrusting(payload) ==
    CASE payload.kind = "empty" -> IdentityFromState(EmptyState)
      [] payload.kind = "junk"  -> Outcome("malformed")
      [] payload.kind = "state" -> IdentityFromState(payload.state)

\* What the payload of a GetResponse comes to.
VerifiedOutcome(payload) ==
    CASE payload.kind = "empty" -> IdentityFromState(EmptyState)
      [] payload.kind = "junk"  -> Outcome("malformed")
      [] payload.kind = "state" ->
            IF ValidateFull(payload.state, now)
            THEN IdentityFromState(payload.state) ELSE Outcome("bad signature")

Start ==
    /\ fetch.phase = "idle"
    /\ fetch' = [fetch EXCEPT !.phase = "connecting"]

Return(outcome) == fetch' = [fetch EXCEPT !.phase = "done", !.result = outcome]

\* The connection opens and the Get goes out.
Ask == fetch.phase = "connecting" /\ fetch' = [fetch EXCEPT !.phase = "asked"]

\* It cannot be opened, the Get cannot be sent, or an error comes instead of
\* an answer.
Fail ==
    \/ fetch.phase \in {"connecting", "asked"} /\ Return(Outcome("transport"))
    \/ fetch.phase = "asked" /\ Return(Outcome("not found"))

\* The first GetResponse ends the wait; other messages are passed over.
Receive(payload) ==
    /\ fetch.phase = "asked"
    /\ fetch' = [phase |-> "done", got |-> payload, result |-> VerifiedOutcome(payload)]

\* Mutation: the deadline is set on the connection and not on the answer.
TimeoutOfConnection == fetch.phase = "connecting" /\ Return(Outcome("timeout"))

\* The deadline is on the answer; opening the connection has none.
Timeout == fetch.phase = "asked" /\ Return(Outcome("timeout"))

Next ==
    /\ \/ Start
       \/ Ask
       \/ Fail
       \/ \E payload \in Payloads : Receive(payload)
       \/ Timeout
    /\ UNCHANGED <<now, published>>

-----------------------------------------------------------------------------
(* Properties.                                                             *)

\* validate_full before identity_from_state: what fetch returns, the owner has
\* published, each content under the name it was published for; and a persona
\* is reported destroyed only if its owner destroyed it.
ReturnsOnlyPublished ==
    /\ fetch.result.kind = "ok" =>
          \A n \in Names : fetch.result.raw[n] # None =>
             \E st \in published[Owner] :
                st.slots[n] # None /\ st.slots[n].bytes = fetch.result.raw[n]
    /\ fetch.result.kind = "destroyed" =>
          \E st \in published[Owner] : Destroyed(st)

\* A state the contract went through is never called a forgery, whoever served
\* it and however late: it is malformed only if the owner broke a schema, and
\* then no content of it gets through.
HonestStateIsRead ==
    \A st \in published[Owner] : fetch.got = [kind |-> "state", state |-> st] =>
       \/ fetch.result.kind = "destroyed" /\ Destroyed(st)
       \/ fetch.result.kind = "ok" /\ ~ Destroyed(st)
             /\ \A n \in Names : fetch.result.raw[n] \in WellFormed[n] \cup {None}
       \/ fetch.result.kind = "malformed" /\ \E n \in Held(st) :
             st.slots[n].bytes \notin WellFormed[n] \cup {Tombstone}

\* Once the Get is out the fetch ends, whatever the node does.
FetchEnds == fetch.phase = "asked" ~> fetch.phase = "done"
=============================================================================
