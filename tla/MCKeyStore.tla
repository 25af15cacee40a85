----------------------------- MODULE MCKeyStore -----------------------------
(* A small instance of KeyStore for TLC: ids of which one begins another, and *)
(* keys that begin with a separator or with the end of an id.                 *)
EXTENDS KeyStore

CONSTANTS a, b, colon, v1, v2

MCOrigins == {<<a>>, <<a, b>>}

MCKeyNames == {<<a>>, <<b, a>>, <<colon, a>>}
=============================================================================
