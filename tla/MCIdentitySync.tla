-------------------------- MODULE MCIdentitySync ---------------------------
(* A small instance of IdentitySync for TLC.                               *)
EXTENDS IdentitySync, TLC

CONSTANTS n1, n2, n3, me, profile, avatar, banner, bio, small, large, full

\* full is as long as the slot cap of the instance that uses it.
MCSize ==
    LET length == small :> 1 @@ large :> 2 @@ full :> 4
    IN  [c \in Contents |-> length[c]]

MCHash ==
    LET digest == small :> 2 @@ large :> 1 @@ full :> 3
    IN  [c \in Contents |-> digest[c]]
=============================================================================
