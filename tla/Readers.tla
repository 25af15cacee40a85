------------------------------ MODULE Readers ------------------------------
(***************************************************************************)
(* The two readers of a persona at one site: the page of the connect flow  *)
(* learns a proven key and shows the profile (ConnectFlow), and the site   *)
(* looks the persona up by that key with the consumer toolkit              *)
(* (ClientFetch).  Both read contracts whose owners go on publishing, over *)
(* nodes they do not trust.                                                *)
(***************************************************************************)
EXTENDS ConnectFlow

CONSTANTS
    WellFormed,  \* WellFormed[n]: the contents the schema of name n allows
    Tombstone    \* the empty content

ASSUME ReadersAssumption == Tombstone \in Contents /\ Size[Tombstone] = 0

VARIABLE fetch   \* the toolkit's fetch, for the key Owner

Client == INSTANCE ClientFetch

all == <<vars, fetch>>

TypesOK == TypeOK /\ Client!TypeOK

InitReaders == Init /\ Client!Init

\* The site looks up the key it was just shown a proof for.
Proven == page.mode = "verified" /\ page.pk = Owner

Lookup ==
    /\ Client!Next
    /\ fetch.phase = "idle" => Proven
    /\ UNCHANGED <<requests, callbacks, picker, approved, page>>

NextReaders == (Next /\ UNCHANGED fetch) \/ Lookup

\* Only timers are counted on: the watchdog of the page and the deadline of
\* the fetch.
Spec ==
    /\ InitReaders /\ [][NextReaders]_all
    /\ Fairness /\ WF_all(Client!Timeout /\ UNCHANGED vars)

-----------------------------------------------------------------------------
(* Properties of the toolkit, in this composition.                         *)

\* validate_full before identity_from_state: the site is told only what the
\* owner of the key has published.
ReturnsOnlyPublished == Client!ReturnsOnlyPublished

\* A state of the contract is never called a forgery, however late it comes.
HonestStateIsRead == Client!HonestStateIsRead

\* Once the Get is out the fetch ends, whatever the node does.
FetchEnds == Client!FetchEnds
=============================================================================
