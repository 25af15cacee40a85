------------------------------ MODULE KeyStore ------------------------------
(***************************************************************************)
(* The key-store delegate, delegates/whoiam-delegate/src/lib.rs.  The node *)
(* keeps one flat map of secrets for it.  The secret of a web app is filed *)
(* under the base58 text of the app's contract id, a separator and the     *)
(* app's own key; all that keeps the apps apart is this prefix.  Texts are *)
(* sequences of characters.  The runtime hands the delegate one message at *)
(* a time.                                                                 *)
(***************************************************************************)
EXTENDS Naturals, Sequences

CONSTANTS
    Chars,      \* the characters of names
    Separator,  \* ORIGIN_SEPARATOR
    Origins,    \* the contract ids of the web apps of the node, in base58
    KeyNames,   \* the keys apps use, of any characters
    Values,     \* the secrets
    Absent

\* Base58 has no colon, and no two ids have the same text.
ASSUME OriginAssumption ==
    \A o \in Origins : o \in Seq(Chars) /\ \A i \in 1..Len(o) : o[i] # Separator

ASSUME KeyAssumption == KeyNames \subseteq Seq(Chars) /\ Separator \in Chars

ASSUME AbsentAssumption == Absent \notin Values

VARIABLES
    secrets,    \* the map of the node, from the names in use to values
    answer      \* the last answer, with the app it went to

vars == <<secrets, answer>>

Stored(o, k)   == [to |-> o, kind |-> "stored", key |-> k]
Value(o, k, v) == [to |-> o, kind |-> "value", key |-> k, value |-> v]
Deleted(o, k)  == [to |-> o, kind |-> "deleted", key |-> k]
KeyList(o, ks) == [to |-> o, kind |-> "list", keys |-> ks]
Error(o)       == [to |-> o, kind |-> "error"]
Silent         == [kind |-> "silent"]

Answers ==
    {Stored(o, k) : o \in Origins, k \in KeyNames}
    \cup {Value(o, k, v) : o \in Origins, k \in KeyNames, v \in Values \cup {Absent}}
    \cup {Deleted(o, k) : o \in Origins, k \in KeyNames}
    \cup {KeyList(o, ks) : o \in Origins, ks \in SUBSET KeyNames}
    \cup {Error(o) : o \in Origins}
    \cup {Silent}

-----------------------------------------------------------------------------
(* Names.                                                                  *)

\* Mutation: the separator is left out.
OriginPrefixBare(o) == o

OriginPrefix(o) == o \o <<Separator>>

FullName(o, k) == OriginPrefix(o) \o k

\* Mutation: the name only has to begin with the id, not with the prefix.
StartsWithId(s, p) ==
    Len(p) - 1 <= Len(s) /\ SubSeq(s, 1, Len(p) - 1) = SubSeq(p, 1, Len(p) - 1)

StartsWith(s, p) == Len(p) <= Len(s) /\ SubSeq(s, 1, Len(p)) = p

StripPrefix(s, p) == SubSeq(s, Len(p) + 1, Len(s))

FullNames == {FullName(o, k) : o \in Origins, k \in KeyNames}

-----------------------------------------------------------------------------
(* The secret map of the node.                                             *)

Lookup(name) == IF name \in DOMAIN secrets THEN secrets[name] ELSE Absent

Put(name, v) ==
    [n \in DOMAIN secrets \cup {name} |-> IF n = name THEN v ELSE secrets[n]]

Without(name) == [n \in DOMAIN secrets \ {name} |-> secrets[n]]

TypeOK ==
    /\ DOMAIN secrets \subseteq FullNames
    /\ secrets \in [DOMAIN secrets -> Values]
    /\ answer \in Answers

Init == secrets = [n \in {} |-> Absent] /\ answer = Silent

-----------------------------------------------------------------------------
(* handle_request, for a request of app o.  The node may fail to set or to *)
(* remove a secret; that a removal failed is not told.                     *)

Store(o, k, v) ==
    \/ secrets' = Put(FullName(o, k), v) /\ answer' = Stored(o, k)
    \/ UNCHANGED secrets /\ answer' = Error(o)

Get(o, k) ==
    /\ UNCHANGED secrets
    /\ answer' = Value(o, k, Lookup(FullName(o, k)))

\* Mutation: the key is removed as the app wrote it, for every app.
DeleteEverywhere(o, k) ==
    /\ secrets' = [n \in DOMAIN secrets \ {FullName(p, k) : p \in Origins} |->
                     secrets[n]]
    /\ answer' = Deleted(o, k)

Delete(o, k) ==
    /\ secrets' = Without(FullName(o, k)) \/ UNCHANGED secrets
    /\ answer' = Deleted(o, k)

List(o) ==
    /\ UNCHANGED secrets
    /\ answer' = KeyList(o, {StripPrefix(n, OriginPrefix(o)) :
                    n \in {m \in DOMAIN secrets : StartsWith(m, OriginPrefix(o))}})

\* process: only a message of a web app, not processed yet and in a form that
\* can be read, is handled.  Any other is an error and changes nothing.
Refuse == UNCHANGED secrets /\ answer' = Silent

Next ==
    \/ \E o \in Origins :
          \/ \E k \in KeyNames : \/ \E v \in Values : Store(o, k, v)
                                 \/ Get(o, k)
                                 \/ Delete(o, k)
          \/ List(o)
    \/ Refuse

Spec == Init /\ [][Next]_vars

-----------------------------------------------------------------------------
(* Properties.                                                             *)

\* What app o keeps under k, read off the flat map.
Kept == [o \in Origins |-> [k \in KeyNames |-> Lookup(FullName(o, k))]]

Private == INSTANCE PrivateStores WITH kept <- Kept

\* Origin isolation (the module's own doc): the flat map with its prefixes is
\* a private store for each app.  Whatever ids and keys look like, no request
\* of one app reads, lists, overwrites or deletes a secret of another.
ImplementsPrivateStores == Private!Spec
=============================================================================
