------------------------ MODULE MCIdentityContract -------------------------
(* A small instance of IdentityContract for TLC.                           *)
EXTENDS IdentityContract, TLC

CONSTANTS n1, n2, me, other, profile, avatar, empty, small, large, huge

\* A tombstone, two contents that fit and one above the slot cap.  Two slots
\* with content larger than small exceed the state cap.
MCSize ==
    LET length == empty :> 0 @@ small :> 1 @@ large :> 2 @@ huge :> 5
    IN  [c \in Contents |-> length[c]]

\* The tombstone's hash is between the others', so ties go both ways.
MCHash ==
    LET digest == empty :> 2 @@ small :> 3 @@ large :> 1 @@ huge :> 4
    IN  [c \in Contents |-> digest[c]]
=============================================================================
