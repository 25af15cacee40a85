--------------------------- MODULE PrivateStores ---------------------------
(***************************************************************************)
(* What the key-store delegate promises to the web apps of a node: each has*)
(* a store of its own.  A request reads and writes the store of the app    *)
(* that sent it, and its answer says nothing about any other.              *)
(***************************************************************************)
CONSTANTS
    Origins,    \* the web apps of the node
    KeyNames,   \* the keys they use
    Values,
    Absent

VARIABLES
    kept,       \* kept[o][k]: what app o keeps under key k, or Absent
    answer      \* the last answer, with the app it went to

vars == <<kept, answer>>

Stored(o, k)   == [to |-> o, kind |-> "stored", key |-> k]
Value(o, k, v) == [to |-> o, kind |-> "value", key |-> k, value |-> v]
Deleted(o, k)  == [to |-> o, kind |-> "deleted", key |-> k]
KeyList(o, ks) == [to |-> o, kind |-> "list", keys |-> ks]
Error(o)       == [to |-> o, kind |-> "error"]
Silent         == [kind |-> "silent"]

\* The store of app o holds v under k and is otherwise what it was.
Holds(o, k, v) == kept' = [kept EXCEPT ![o][k] = v]

Init ==
    /\ kept = [o \in Origins |-> [k \in KeyNames |-> Absent]]
    /\ answer = Silent

Store(o, k, v) ==
    \/ Holds(o, k, v) /\ answer' = Stored(o, k)
    \/ UNCHANGED kept /\ answer' = Error(o)

Get(o, k) == UNCHANGED kept /\ answer' = Value(o, k, kept[o][k])

\* The answer does not tell whether there was anything, or whether it is gone.
Delete(o, k) ==
    /\ Holds(o, k, Absent) \/ UNCHANGED kept
    /\ answer' = Deleted(o, k)

List(o) ==
    /\ UNCHANGED kept
    /\ answer' = KeyList(o, {k \in KeyNames : kept[o][k] # Absent})

Refuse == UNCHANGED kept /\ answer' = Silent

Next ==
    \/ \E o \in Origins :
          \/ \E k \in KeyNames : \/ \E v \in Values : Store(o, k, v)
                                 \/ Get(o, k)
                                 \/ Delete(o, k)
          \/ List(o)
    \/ Refuse

Spec == Init /\ [][Next]_vars
=============================================================================
