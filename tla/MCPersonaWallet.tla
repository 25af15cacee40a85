-------------------------- MODULE MCPersonaWallet --------------------------
(* Small instances of PersonaWallet for TLC.                               *)
EXTENDS PersonaWallet

CONSTANTS t1, t2, s1, s2, s3
=============================================================================
