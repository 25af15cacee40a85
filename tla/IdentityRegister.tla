------------------------- MODULE IdentityRegister --------------------------
(***************************************************************************)
(* What an identity contract promises, without signatures, sizes, batches  *)
(* or messages: every host has a view, which is a last-writer-wins register*)
(* per name until the identity ends, and nothing but the time of its end   *)
(* after.  A view only moves to newer writes of the owner; hosts move      *)
(* independently and any number of writes at a time.                       *)
(***************************************************************************)
EXTENDS Integers

CONSTANTS Nodes, Names, None

Stamps == Nat \X Nat    \* a write's time and the digest of its content

Views == [live : [Names -> Stamps \cup {None}], end : Nat \cup {None}]

VARIABLES
    written,    \* the writes of the owner: [name, stamp]
    ended,      \* the times of the destruction markers of the owner
    view        \* view[n]: what host n holds

registerVars == <<written, ended, view>>

Blank == [live |-> [name \in Names |-> None], end |-> None]

Newer(a, b) == a[1] > b[1] \/ (a[1] = b[1] /\ a[2] > b[2])

RegisterInit ==
    /\ written = {}
    /\ ended = {}
    /\ view = [n \in Nodes |-> Blank]

Writes == [name : Names, stamp : Stamps]

\* The owner writes, or ends the identity, on any device at any time.
Write ==
    /\ written \subseteq written'
    /\ written' \subseteq Writes
    /\ UNCHANGED <<ended, view>>

End ==
    /\ ended \subseteq ended'
    /\ ended' \subseteq Nat
    /\ UNCHANGED <<written, view>>

Candidates(n) ==
    {w.stamp : w \in written} \cup {view[n].live[name] : name \in Names}

\* Each register keeps its stamp or takes a newer one that was written.
Advance(n) ==
    /\ view[n].end = None
    /\ \E live \in [Names -> Candidates(n)] :
          /\ \A name \in Names : live[name] # view[n].live[name] =>
                /\ [name |-> name, stamp |-> live[name]] \in written
                /\ view[n].live[name] # None =>
                      Newer(live[name], view[n].live[name])
          /\ view' = [view EXCEPT ![n] = [live |-> live, end |-> None]]
    /\ UNCHANGED <<written, ended>>

\* The registers are gone for good; a later marker may replace an earlier.
Collapse(n) ==
    /\ \E time \in ended :
          /\ view[n].end # None => time > view[n].end
          /\ view' = [view EXCEPT ![n] = [Blank EXCEPT !.end = time]]
    /\ UNCHANGED <<written, ended>>

RegisterNext ==
    \/ Write
    \/ End
    \/ \E n \in Nodes : Advance(n) \/ Collapse(n)

RegisterSpec == RegisterInit /\ [][RegisterNext]_registerVars
=============================================================================
