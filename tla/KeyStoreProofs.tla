--------------------------- MODULE KeyStoreProofs ---------------------------
(***************************************************************************)
(* Proofs about the key-store delegate.  The lemmas are about names: the   *)
(* first separator of a name ends the id of its owner, so a name tells both*)
(* whose it is and what its owner calls it.  The theorem is that the flat  *)
(* map of the delegate implements a private store for each web app.        *)
(***************************************************************************)
EXTENDS KeyStore, SequenceTheorems, TLAPS

\* Sequences are equal that agree in length and at every place.
LEMMA SameSequence ==
    ASSUME NEW S, NEW s \in Seq(S), NEW t \in Seq(S), Len(s) = Len(t),
           \A i \in 1..Len(s) : s[i] = t[i]
    PROVE  s = t
OBVIOUS

\* What a concatenation is made of.
LEMMA Concatenation ==
    ASSUME NEW S, NEW s \in Seq(S), NEW t \in Seq(S)
    PROVE  /\ s \o t \in Seq(S) /\ Len(s \o t) = Len(s) + Len(t)
           /\ \A i \in 1..Len(s) : (s \o t)[i] = s[i]
           /\ \A i \in 1..Len(t) : (s \o t)[Len(s) + i] = t[i]
<1>1. /\ s \o t \in Seq(S) /\ Len(s \o t) = Len(s) + Len(t)
      /\ \A i \in 1..Len(s) + Len(t) :
            (s \o t)[i] = IF i <= Len(s) THEN s[i] ELSE t[i - Len(s)]
  BY ConcatProperties
<1>2. Len(s) \in Nat /\ Len(t) \in Nat
  OBVIOUS
<1>3. \A i \in 1..Len(t) : (s \o t)[Len(s) + i] = t[i]
  <2> SUFFICES ASSUME NEW i \in 1..Len(t) PROVE (s \o t)[Len(s) + i] = t[i]
    OBVIOUS
  <2> DEFINE j == Len(s) + i
  <2>1. j \in 1..Len(s) + Len(t) /\ ~ j <= Len(s) /\ j - Len(s) = i
    BY <1>2
  <2> HIDE DEF j
  <2>2. (s \o t)[j] = IF j <= Len(s) THEN s[j] ELSE t[j - Len(s)]
    BY <1>1, <2>1
  <2>3. (s \o t)[j] = t[i]
    BY <2>1, <2>2
  <2> QED
    BY <2>3 DEF j
<1>4. \A i \in 1..Len(s) : (s \o t)[i] = s[i]
  BY <1>1, <1>2
<1> QED
  BY <1>1, <1>3, <1>4

\* The parts of the name of a secret, character by character.
LEMMA NameParts ==
    ASSUME NEW o \in Origins, NEW k \in KeyNames
    PROVE  /\ o \in Seq(Chars) /\ k \in Seq(Chars)
           /\ OriginPrefix(o) \in Seq(Chars)
           /\ Len(OriginPrefix(o)) = Len(o) + 1
           /\ FullName(o, k) \in Seq(Chars)
           /\ Len(FullName(o, k)) = Len(o) + 1 + Len(k)
           /\ \A i \in 1..Len(o) : FullName(o, k)[i] = o[i] /\ o[i] # Separator
           /\ FullName(o, k)[Len(o) + 1] = Separator
           /\ \A i \in 1..Len(k) : FullName(o, k)[Len(o) + 1 + i] = k[i]
<1> DEFINE p == OriginPrefix(o)
<1>1. o \in Seq(Chars) /\ k \in Seq(Chars) /\ Separator \in Chars
  BY OriginAssumption, KeyAssumption
<1>2. /\ p \in Seq(Chars) /\ Len(p) = Len(o) + 1
      /\ \A i \in 1..Len(o) : p[i] = o[i]
      /\ p[Len(o) + 1] = Separator
  BY <1>1 DEF OriginPrefix
<1> HIDE DEF p
<1>3. /\ p \o k \in Seq(Chars) /\ Len(p \o k) = Len(p) + Len(k)
      /\ \A i \in 1..Len(p) : (p \o k)[i] = p[i]
      /\ \A i \in 1..Len(k) : (p \o k)[Len(p) + i] = k[i]
  <2>1. p \in Seq(Chars) /\ k \in Seq(Chars)
    BY <1>1, <1>2
  <2>2. p \o k \in Seq(Chars) /\ Len(p \o k) = Len(p) + Len(k)
    BY <2>1, Concatenation
  <2>3. \A i \in 1..Len(p) : (p \o k)[i] = p[i]
    BY <2>1, Concatenation
  <2>4. \A i \in 1..Len(k) : (p \o k)[Len(p) + i] = k[i]
    BY <2>1, Concatenation
  <2> QED
    BY <2>2, <2>3, <2>4
<1>4. FullName(o, k) = p \o k
  BY DEF FullName, p
<1>5. Len(o) \in Nat /\ Len(k) \in Nat
  BY <1>1
<1>6. \A i \in 1..Len(o) : FullName(o, k)[i] = o[i] /\ o[i] # Separator
  BY <1>2, <1>3, <1>4, <1>5, OriginAssumption
<1>7. FullName(o, k)[Len(o) + 1] = Separator
  BY <1>2, <1>3, <1>4, <1>5
<1>8. \A i \in 1..Len(k) : FullName(o, k)[Len(o) + 1 + i] = k[i]
  BY <1>2, <1>3, <1>4, <1>5
<1> QED
  BY <1>1, <1>2, <1>3, <1>4, <1>5, <1>6, <1>7, <1>8 DEF p

\* Two names that agree up to the first separator belong to the same app.
LEMMA SameOwner ==
    ASSUME NEW o1 \in Origins, NEW o2 \in Origins,
           NEW k1 \in KeyNames, NEW k2 \in KeyNames,
           Len(o1) < Len(FullName(o2, k2)),
           \A i \in 1..Len(o1) + 1 : FullName(o1, k1)[i] = FullName(o2, k2)[i]
    PROVE  o1 = o2
<1>1. o1 \in Seq(Chars) /\ o2 \in Seq(Chars) /\ Len(o1) \in Nat /\ Len(o2) \in Nat
  BY NameParts
<1>2. ~ Len(o1) < Len(o2)
  <2> SUFFICES ASSUME Len(o1) < Len(o2) PROVE FALSE
    OBVIOUS
  <2>1. FullName(o1, k1)[Len(o1) + 1] = Separator
    BY NameParts
  <2>2. Len(o1) + 1 \in 1..Len(o2)
    BY <1>1
  <2>3. \A i \in 1..Len(o2) : FullName(o2, k2)[i] = o2[i] /\ o2[i] # Separator
    BY NameParts
  <2>4. FullName(o2, k2)[Len(o1) + 1] # Separator
    BY <2>2, <2>3
  <2> QED
    BY <1>1, <2>1, <2>4
<1>3. ~ Len(o2) < Len(o1)
  <2> SUFFICES ASSUME Len(o2) < Len(o1) PROVE FALSE
    OBVIOUS
  <2>1. FullName(o2, k2)[Len(o2) + 1] = Separator
    BY NameParts
  <2>2. Len(o2) + 1 \in 1..Len(o1)
    BY <1>1
  <2>3. \A i \in 1..Len(o1) : FullName(o1, k1)[i] = o1[i] /\ o1[i] # Separator
    BY NameParts
  <2>4. FullName(o1, k1)[Len(o2) + 1] # Separator
    BY <2>2, <2>3
  <2> QED
    BY <1>1, <2>1, <2>2, <2>4
<1>4. Len(o1) = Len(o2)
  BY <1>1, <1>2, <1>3
<1>5. \A i \in 1..Len(o1) : o1[i] = o2[i]
  <2> SUFFICES ASSUME NEW i \in 1..Len(o1) PROVE o1[i] = o2[i]
    OBVIOUS
  <2>1. FullName(o1, k1)[i] = o1[i]
    BY NameParts
  <2>2. FullName(o2, k2)[i] = o2[i]
    BY <1>4, NameParts
  <2> QED
    BY <1>1, <2>1, <2>2
<1> QED
  BY <1>1, <1>4, <1>5

\* No two secrets share a name, whoever keeps them.
LEMMA NamesApart ==
    ASSUME NEW o1 \in Origins, NEW o2 \in Origins,
           NEW k1 \in KeyNames, NEW k2 \in KeyNames,
           FullName(o1, k1) = FullName(o2, k2)
    PROVE  o1 = o2 /\ k1 = k2
<1>1. /\ o1 \in Seq(Chars) /\ k1 \in Seq(Chars) /\ k2 \in Seq(Chars)
      /\ Len(o1) \in Nat /\ Len(k1) \in Nat /\ Len(k2) \in Nat
  BY NameParts
<1>2. Len(o1) < Len(FullName(o2, k2))
  BY <1>1, NameParts
<1>3. o1 = o2
  BY <1>2, SameOwner
<1>4. Len(k1) = Len(k2)
  BY <1>1, <1>3, NameParts
<1>5. ASSUME NEW i \in 1..Len(k1) PROVE k1[i] = k2[i]
  <2>1. \A j \in 1..Len(k1) : FullName(o1, k1)[Len(o1) + 1 + j] = k1[j]
    BY NameParts
  <2>2. \A j \in 1..Len(k2) : FullName(o2, k2)[Len(o2) + 1 + j] = k2[j]
    BY NameParts
  <2> QED
    BY <1>3, <1>4, <2>1, <2>2
<1> QED
  BY <1>1, <1>3, <1>4, <1>5

\* List finds exactly the names of the app that asks.
LEMMA PrefixTellsOwner ==
    ASSUME NEW o \in Origins, NEW p \in Origins, NEW k \in KeyNames
    PROVE  StartsWith(FullName(p, k), OriginPrefix(o)) <=> p = o
<1>1. /\ o \in Seq(Chars) /\ p \in Seq(Chars) /\ k \in Seq(Chars)
      /\ Len(o) \in Nat /\ Len(p) \in Nat /\ Len(k) \in Nat
      /\ OriginPrefix(o) \in Seq(Chars) /\ Len(OriginPrefix(o)) = Len(o) + 1
      /\ FullName(p, k) \in Seq(Chars) /\ FullName(o, k) \in Seq(Chars)
  BY NameParts
<1>2. \A i \in 1..Len(o) + 1 : FullName(o, k)[i] = OriginPrefix(o)[i]
  BY <1>1 DEF FullName
<1>3. ASSUME StartsWith(FullName(p, k), OriginPrefix(o)) PROVE p = o
  <2>1. Len(o) + 1 <= Len(FullName(p, k))
    BY <1>1, <1>3 DEF StartsWith
  <2>2. \A i \in 1..Len(o) + 1 : FullName(p, k)[i] = OriginPrefix(o)[i]
    <3> SUFFICES ASSUME NEW i \in 1..Len(o) + 1
                 PROVE  FullName(p, k)[i] = OriginPrefix(o)[i]
      OBVIOUS
    <3>1. SubSeq(FullName(p, k), 1, Len(o) + 1) = OriginPrefix(o)
      BY <1>1, <1>3 DEF StartsWith
    <3>2. SubSeq(FullName(p, k), 1, Len(o) + 1)[i] = FullName(p, k)[i]
      BY <1>1, <2>1
    <3> QED
      BY <3>1, <3>2
  <2>3. Len(o) < Len(FullName(p, k))
    BY <1>1, <2>1
  <2> QED
    BY <1>2, <2>2, <2>3, SameOwner
<1>4. ASSUME p = o PROVE StartsWith(FullName(p, k), OriginPrefix(o))
  <2>1. Len(OriginPrefix(o)) <= Len(FullName(o, k))
    BY <1>1, NameParts
  <2>2. SubSeq(FullName(o, k), 1, Len(OriginPrefix(o))) = OriginPrefix(o)
    BY <1>1, <1>2, <2>1
  <2> QED
    BY <1>4, <2>1, <2>2 DEF StartsWith
<1> QED
  BY <1>3, <1>4

\* What is left of a name without the prefix is the key.
LEMMA StripGivesKey ==
    ASSUME NEW o \in Origins, NEW k \in KeyNames
    PROVE  StripPrefix(FullName(o, k), OriginPrefix(o)) = k
<1>1. /\ o \in Seq(Chars) /\ k \in Seq(Chars) /\ Len(o) \in Nat /\ Len(k) \in Nat
      /\ OriginPrefix(o) \in Seq(Chars) /\ Len(OriginPrefix(o)) = Len(o) + 1
      /\ FullName(o, k) \in Seq(Chars) /\ Len(FullName(o, k)) = Len(o) + 1 + Len(k)
      /\ \A i \in 1..Len(k) : FullName(o, k)[Len(o) + 1 + i] = k[i]
  BY NameParts
<1> DEFINE n == FullName(o, k)
           r == SubSeq(n, Len(o) + 2, Len(o) + 1 + Len(k))
<1> HIDE DEF n
<1>2. r \in Seq(Chars) /\ Len(r) = Len(k) /\ \A i \in 1..Len(k) : r[i] = n[Len(o) + 1 + i]
  BY <1>1 DEF n
<1>3. StripPrefix(n, OriginPrefix(o)) = r
  BY <1>1 DEF StripPrefix, n
<1>4. \A i \in 1..Len(k) : r[i] = k[i]
  BY <1>1, <1>2 DEF n
<1>5. r = k
  <2> HIDE DEF r
  <2>1. Len(r) = Len(k) /\ \A i \in 1..Len(r) : r[i] = k[i]
    BY <1>2, <1>4
  <2> QED
    BY <1>1, <1>2, <2>1, SameSequence
<1> QED
  BY <1>3, <1>5 DEF n

-----------------------------------------------------------------------------
(* The map.                                                                *)

\* What a write to one name leaves of the stores of the apps.
LEMMA WriteToOne ==
    ASSUME NEW o \in Origins, NEW k \in KeyNames, NEW v,
           \A p \in Origins, q \in KeyNames :
              Lookup(FullName(p, q))' =
                 IF FullName(p, q) = FullName(o, k)
                 THEN v ELSE Lookup(FullName(p, q))
    PROVE  Kept' = [Kept EXCEPT ![o][k] = v]
<1>1. \A p \in Origins, q \in KeyNames :
         FullName(p, q) = FullName(o, k) <=> p = o /\ q = k
  BY NamesApart
<1>2. \A p \in Origins, q \in KeyNames :
         Lookup(FullName(p, q))' =
            IF p = o /\ q = k THEN v ELSE Lookup(FullName(p, q))
  BY <1>1
<1>3. Kept' = [p \in Origins |-> [q \in KeyNames |-> Lookup(FullName(p, q))']]
  BY DEF Kept
<1>4. Kept' = [p \in Origins |-> [q \in KeyNames |->
                 IF p = o /\ q = k THEN v ELSE Lookup(FullName(p, q))]]
  BY <1>2, <1>3
<1>5. [Kept EXCEPT ![o][k] = v] = [p \in Origins |-> [q \in KeyNames |->
                 IF p = o /\ q = k THEN v ELSE Lookup(FullName(p, q))]]
  BY DEF Kept
<1> QED
  BY <1>4, <1>5

\* Storing under one key changes that key of that app and nothing else.
LEMMA PutIsPrivate ==
    ASSUME NEW o \in Origins, NEW k \in KeyNames, NEW v \in Values,
           secrets' = Put(FullName(o, k), v)
    PROVE  Kept' = [Kept EXCEPT ![o][k] = v]
<1>1. \A n : Lookup(n)' = IF n = FullName(o, k) THEN v ELSE Lookup(n)
  BY DEF Lookup, Put
<1> QED
  BY <1>1, WriteToOne

\* So does removing a key.
LEMMA WithoutIsPrivate ==
    ASSUME NEW o \in Origins, NEW k \in KeyNames,
           secrets' = Without(FullName(o, k))
    PROVE  Kept' = [Kept EXCEPT ![o][k] = Absent]
<1>1. \A n : Lookup(n)' = IF n = FullName(o, k) THEN Absent ELSE Lookup(n)
  BY DEF Lookup, Without
<1> QED
  BY <1>1, WriteToOne

\* The answer to List has the keys of the app that asks, as it wrote them.
LEMMA ListIsPrivate ==
    ASSUME TypeOK, NEW o \in Origins
    PROVE  {StripPrefix(n, OriginPrefix(o)) :
              n \in {m \in DOMAIN secrets : StartsWith(m, OriginPrefix(o))}}
           = {k \in KeyNames : Kept[o][k] # Absent}
<1> DEFINE own == {m \in DOMAIN secrets : StartsWith(m, OriginPrefix(o))}
<1>1. ASSUME NEW n \in own
      PROVE  StripPrefix(n, OriginPrefix(o)) \in {k \in KeyNames : Kept[o][k] # Absent}
  <2>1. PICK p \in Origins, k \in KeyNames : n = FullName(p, k)
    BY DEF TypeOK, FullNames
  <2>2. p = o
    BY <2>1, PrefixTellsOwner
  <2>3. StripPrefix(n, OriginPrefix(o)) = k
    BY <2>1, <2>2, StripGivesKey
  <2>4. Kept[o][k] = secrets[n]
    BY <2>1, <2>2 DEF Kept, Lookup
  <2>5. secrets[n] \in Values
    BY DEF TypeOK
  <2> QED
    BY <2>3, <2>4, <2>5, AbsentAssumption
<1>2. ASSUME NEW k \in KeyNames, Kept[o][k] # Absent
      PROVE  \E n \in own : k = StripPrefix(n, OriginPrefix(o))
  <2>1. FullName(o, k) \in DOMAIN secrets
    BY <1>2 DEF Kept, Lookup
  <2>2. FullName(o, k) \in own
    BY <2>1, PrefixTellsOwner
  <2> QED
    BY <2>2, StripGivesKey
<1> QED
  BY <1>1, <1>2

-----------------------------------------------------------------------------
(* The theorems.                                                           *)

\* The map holds only names an app and one of its keys make, each with a
\* value, and every answer is addressed to the app that asked.
THEOREM TypeCorrect == Spec => []TypeOK
<1>1. Init => TypeOK
  BY DEF Init, TypeOK, Answers, Silent
<1>2. TypeOK /\ [Next]_vars => TypeOK'
  <2> SUFFICES ASSUME TypeOK, [Next]_vars PROVE TypeOK'
    OBVIOUS
  <2>1. ASSUME NEW o \in Origins, NEW k \in KeyNames, NEW v \in Values, Store(o, k, v)
        PROVE  TypeOK'
    <3>1. CASE secrets' = Put(FullName(o, k), v) /\ answer' = Stored(o, k)
      <4>1. FullName(o, k) \in FullNames
        BY DEF FullNames
      <4>2. DOMAIN secrets' \subseteq FullNames
            /\ secrets' \in [DOMAIN secrets' -> Values]
        BY <3>1, <4>1 DEF TypeOK, Put
      <4> QED
        BY <3>1, <4>2 DEF TypeOK, Answers
    <3>2. CASE UNCHANGED secrets /\ answer' = Error(o)
      BY <3>2 DEF TypeOK, Answers
    <3> QED
      BY <2>1, <3>1, <3>2 DEF Store
  <2>2. ASSUME NEW o \in Origins, NEW k \in KeyNames, Get(o, k) PROVE TypeOK'
    <3>1. Lookup(FullName(o, k)) \in Values \cup {Absent}
      BY DEF TypeOK, Lookup
    <3>2. answer' \in Answers
      BY <2>2, <3>1 DEF Get, Answers
    <3> QED
      BY <2>2, <3>2 DEF Get, TypeOK
  <2>3. ASSUME NEW o \in Origins, NEW k \in KeyNames, Delete(o, k) PROVE TypeOK'
    <3>1. answer' \in Answers
      BY <2>3 DEF Delete, Answers
    <3>2. DOMAIN secrets' \subseteq FullNames
          /\ secrets' \in [DOMAIN secrets' -> Values]
      BY <2>3 DEF Delete, Without, TypeOK
    <3> QED
      BY <3>1, <3>2 DEF TypeOK
  <2>4. ASSUME NEW o \in Origins, List(o) PROVE TypeOK'
    <3>1. answer' = KeyList(o, {k \in KeyNames : Kept[o][k] # Absent})
      BY <2>4, ListIsPrivate DEF List
    <3>2. {k \in KeyNames : Kept[o][k] # Absent} \in SUBSET KeyNames
      OBVIOUS
    <3>3. answer' \in Answers
      BY <3>1, <3>2 DEF Answers
    <3> QED
      BY <2>4, <3>3 DEF List, TypeOK
  <2>5. CASE Refuse
    BY <2>5 DEF Refuse, TypeOK, Answers
  <2>6. CASE UNCHANGED vars
    BY <2>6 DEF vars, TypeOK
  <2> QED
    BY <2>1, <2>2, <2>3, <2>4, <2>5, <2>6 DEF Next
<1> QED
  BY <1>1, <1>2, PTL DEF Spec

\* The flat map with its prefixes implements a private store for each app,
\* whatever the ids and the keys of the apps look like: handle_request never
\* lets a request of one app read, list, overwrite or remove what another kept.
THEOREM Isolation == Spec => ImplementsPrivateStores
<1>1. Init => Private!Init
  BY DEF Init, Private!Init, Kept, Lookup, Silent, Private!Silent
<1>2. TypeOK /\ [Next]_vars => [Private!Next]_(Private!vars)
  <2> SUFFICES ASSUME TypeOK, [Next]_vars PROVE [Private!Next]_(Private!vars)
    OBVIOUS
  <2>1. ASSUME UNCHANGED secrets PROVE UNCHANGED Kept
    BY <2>1 DEF Kept, Lookup
  <2>2. ASSUME NEW o \in Origins, NEW k \in KeyNames, NEW v \in Values, Store(o, k, v)
        PROVE  Private!Store(o, k, v)
    <3>1. CASE secrets' = Put(FullName(o, k), v) /\ answer' = Stored(o, k)
      BY <3>1, PutIsPrivate DEF Private!Store, Private!Holds, Stored, Private!Stored
    <3>2. CASE UNCHANGED secrets /\ answer' = Error(o)
      BY <3>2, <2>1 DEF Private!Store, Error, Private!Error
    <3> QED
      BY <2>2, <3>1, <3>2 DEF Store
  <2>3. ASSUME NEW o \in Origins, NEW k \in KeyNames, Get(o, k)
        PROVE  Private!Get(o, k)
    <3>1. Lookup(FullName(o, k)) = Kept[o][k]
      BY DEF Kept
    <3> QED
      BY <2>1, <2>3, <3>1 DEF Get, Private!Get, Value, Private!Value
  <2>4. ASSUME NEW o \in Origins, NEW k \in KeyNames, Delete(o, k)
        PROVE  Private!Delete(o, k)
    <3>1. CASE secrets' = Without(FullName(o, k)) /\ answer' = Deleted(o, k)
      BY <3>1, WithoutIsPrivate DEF Private!Delete, Private!Holds, Deleted, Private!Deleted
    <3>2. CASE UNCHANGED secrets /\ answer' = Deleted(o, k)
      BY <3>2, <2>1 DEF Private!Delete, Deleted, Private!Deleted
    <3> QED
      BY <2>4, <3>1, <3>2 DEF Delete
  <2>5. ASSUME NEW o \in Origins, List(o) PROVE Private!List(o)
    <3>1. answer' = KeyList(o, {k \in KeyNames : Kept[o][k] # Absent})
      BY <2>5, ListIsPrivate DEF List
    <3> QED
      BY <2>1, <2>5, <3>1 DEF List, Private!List, KeyList, Private!KeyList
  <2>6. CASE Refuse
    BY <2>1, <2>6 DEF Refuse, Private!Refuse, Private!Next, Silent, Private!Silent
  <2>7. CASE UNCHANGED vars
    BY <2>1, <2>7 DEF vars, Private!vars
  <2> QED
    BY <2>2, <2>3, <2>4, <2>5, <2>6, <2>7 DEF Next, Private!Next
<1> QED
  BY <1>1, <1>2, TypeCorrect, PTL DEF Spec, ImplementsPrivateStores, Private!Spec
=============================================================================
