---------------------------- MODULE SequenceLemmas ----------------------------
(***************************************************************************)
(* Lemmas about the data the models are built from: least and greatest     *)
(* numbers of a set, what a sequence holds and how often, and queues.      *)
(***************************************************************************)
EXTENDS Integers, Sequences, FiniteSets, SequencesExt, TLAPS, SequenceTheorems,
        FiniteSetTheorems, WellFoundedInduction

-----------------------------------------------------------------------------

\* A set of natural numbers has a least one,
LEMMA LeastOne ==
    ASSUME NEW S \in SUBSET Nat, S # {}
    PROVE  \E m \in S : \A i \in S : m <= i
<1>1. PICK m \in S : \A i \in S : ~(<<i, m>> \in OpToRel(<, Nat))
  BY NatLessThanWellFounded, WFMin, Zenon
<1>2. \A i \in S : i < m => <<i, m>> \in OpToRel(<, Nat)
  BY DEF OpToRel
<1>3. \A i \in S : ~(i < m) /\ i \in Nat /\ m \in Nat
  BY <1>1, <1>2, Zenon
<1> QED BY <1>3

\* and a greatest one when it is bounded.
LEMMA GreatestOne ==
    ASSUME NEW S \in SUBSET Nat, S # {}, NEW b \in Nat, \A i \in S : i <= b
    PROVE  Max(S) \in S /\ \A i \in S : i <= Max(S)
<1> DEFINE T == {c \in Nat : b - c \in S}
<1>1. T \in SUBSET Nat /\ T # {}
  <2>1. PICK i \in S : TRUE
    OBVIOUS
  <2>2. b - i \in Nat /\ b - (b - i) = i
    OBVIOUS
  <2> QED BY <2>1, <2>2
<1>2. PICK c \in T : \A e \in T : c <= e
  <2> HIDE DEF T
  <2> QED BY <1>1, LeastOne
<1>3. b - c \in S
  BY <1>2
<1>4. ASSUME NEW i \in S PROVE i <= b - c
  <2>1. b - i \in T
    <3>1. b - i \in Nat /\ b - (b - i) = i
      OBVIOUS
    <3> QED BY <3>1
  <2>2. c <= b - i /\ c \in Nat /\ i \in Nat
    BY <1>2, <2>1
  <2> QED BY <2>2
<1>5. \E m \in S : \A i \in S : m >= i
  <2>1. \A i \in S : b - c >= i
    BY <1>2, <1>4
  <2> QED BY <1>3, <2>1
<1>6. Max(S) \in S /\ \A i \in S : Max(S) >= i
  BY <1>5 DEF Max
<1> QED BY <1>6

\* A set of indexes of lines to which the index of a new line is added.
LEMMA CountIndexes ==
    ASSUME NEW n \in Nat, NEW S \in SUBSET (1 .. n)
    PROVE  /\ Cardinality(S) \in Nat
           /\ Cardinality(S \cup {n + 1}) = Cardinality(S) + 1
<1>1. IsFiniteSet(1 .. n)
  BY FS_Interval
<1>2. IsFiniteSet(S)
  BY <1>1, FS_Subset
<1>3. n + 1 \notin S
  OBVIOUS
<1> QED BY <1>2, <1>3, FS_AddElement, FS_CardinalityType

\* A sequence and one more element.
LEMMA AppendGrows ==
    ASSUME NEW S, NEW s \in Seq(S), NEW e \in S
    PROVE  /\ Append(s, e) \in Seq(S) /\ Len(s) \in Nat
           /\ DOMAIN s = 1 .. Len(s) /\ DOMAIN Append(s, e) = 1 .. Len(s) + 1
           /\ Len(Append(s, e)) = Len(s) + 1
           /\ Append(s, e)[Len(s) + 1] = e /\ \A i \in 1 .. Len(s) : Append(s, e)[i] = s[i]
<1>1. /\ Append(s, e) \in Seq(S) /\ Len(Append(s, e)) = Len(s) + 1
      /\ Append(s, e)[Len(s) + 1] = e /\ \A i \in 1 .. Len(s) : Append(s, e)[i] = s[i]
  BY AppendProperties
<1> QED BY <1>1

\* Two sequences after one another.
LEMMA ConcatParts ==
    ASSUME NEW S, NEW s \in Seq(S), NEW t \in Seq(S)
    PROVE  /\ s \o t \in Seq(S) /\ Len(s \o t) = Len(s) + Len(t) /\ DOMAIN (s \o t) = 1 .. Len(s) + Len(t)
           /\ \A i \in 1 .. Len(s) : (s \o t)[i] = s[i]
           /\ \A i \in 1 .. Len(t) : (s \o t)[Len(s) + i] = t[i]
<1>1. /\ s \o t \in Seq(S) /\ Len(s \o t) = Len(s) + Len(t) /\ Len(s) \in Nat /\ Len(t) \in Nat
      /\ \A i \in 1 .. Len(s) + Len(t) : (s \o t)[i] = IF i <= Len(s) THEN s[i] ELSE t[i - Len(s)]
  BY ConcatProperties
<1>2. ASSUME NEW i \in 1 .. Len(s) PROVE (s \o t)[i] = s[i]
  BY <1>1
<1>3. ASSUME NEW i \in 1 .. Len(t) PROVE (s \o t)[Len(s) + i] = t[i]
  <2>1. Len(s) + i \in 1 .. Len(s) + Len(t) /\ ~(Len(s) + i <= Len(s)) /\ (Len(s) + i) - Len(s) = i
    BY <1>1
  <2> QED BY <1>1, <2>1
<1> QED BY <1>1, <1>2, <1>3

\* The indexes at which a sequence holds an element of X.
Matching(s, X) == {i \in DOMAIN s : s[i] \in X}

LEMMA MatchingFinite ==
    ASSUME NEW S, NEW s \in Seq(S), NEW X
    PROVE  /\ Matching(s, X) \subseteq 1 .. Len(s) /\ IsFiniteSet(Matching(s, X))
           /\ Cardinality(Matching(s, X)) \in Nat
<1>1. Len(s) \in Nat /\ DOMAIN s = 1 .. Len(s)
  OBVIOUS
<1>2. Matching(s, X) \subseteq 1 .. Len(s)
  BY <1>1 DEF Matching
<1>3. IsFiniteSet(1 .. Len(s))
  BY <1>1, FS_Interval
<1> QED BY <1>2, <1>3, FS_Subset, FS_CardinalityType

\* One more element is counted if it belongs to X.
LEMMA MatchingAppend ==
    ASSUME NEW S, NEW s \in Seq(S), NEW e \in S, NEW X
    PROVE  /\ Matching(Append(s, e), X) = Matching(s, X) \cup (IF e \in X THEN {Len(s) + 1} ELSE {})
           /\ Cardinality(Matching(Append(s, e), X)) = Cardinality(Matching(s, X)) + (IF e \in X THEN 1 ELSE 0)
<1>1. /\ DOMAIN s = 1 .. Len(s) /\ DOMAIN Append(s, e) = 1 .. Len(s) + 1 /\ Len(s) \in Nat
      /\ Append(s, e)[Len(s) + 1] = e /\ \A i \in 1 .. Len(s) : Append(s, e)[i] = s[i]
  BY AppendGrows
<1>2. \A i \in 1 .. Len(s) + 1 : i \in 1 .. Len(s) \/ i = Len(s) + 1
  BY <1>1
<1>3. Matching(Append(s, e), X) = Matching(s, X) \cup (IF e \in X THEN {Len(s) + 1} ELSE {})
  BY <1>1, <1>2 DEF Matching
<1>4. Matching(s, X) \in SUBSET (1 .. Len(s)) /\ Cardinality(Matching(s, X)) \in Nat
  BY MatchingFinite
<1>5. CASE e \in X
  <2>1. Matching(Append(s, e), X) = Matching(s, X) \cup {Len(s) + 1}
    BY <1>3, <1>5
  <2>2. Cardinality(Matching(s, X) \cup {Len(s) + 1}) = Cardinality(Matching(s, X)) + 1
    BY <1>1, <1>4, CountIndexes
  <2> QED BY <1>3, <1>5, <2>1, <2>2
<1>6. CASE e \notin X
  BY <1>3, <1>4, <1>6
<1> QED BY <1>5, <1>6

\* A sequence without its n-th element.
LEMMA RemoveAtParts ==
    ASSUME NEW S, NEW s \in Seq(S), NEW n \in DOMAIN s
    PROVE  /\ RemoveAt(s, n) \in Seq(S) /\ Len(RemoveAt(s, n)) = Len(s) - 1
           /\ \A i \in 1 .. Len(s) - 1 : \E j \in DOMAIN s : RemoveAt(s, n)[i] = s[j]
<1> DEFINE a == SubSeq(s, 1, n - 1)
           b == SubSeq(s, n + 1, Len(s))
<1>1. Len(s) \in Nat /\ n \in 1 .. Len(s) /\ DOMAIN s = 1 .. Len(s)
  OBVIOUS
<1>2. a \in Seq(S) /\ Len(a) = n - 1 /\ \A i \in 1 .. n - 1 : a[i] = s[i]
  BY <1>1
<1>3. b \in Seq(S) /\ Len(b) = Len(s) - n /\ \A i \in 1 .. Len(s) - n : b[i] = s[n + i]
  <2>1. n + 1 \in Int /\ Len(s) \in Int /\ \A i \in n + 1 .. Len(s) : s[i] \in S
    BY <1>1
  <2>2. /\ b \in Seq(S) /\ Len(b) = IF n + 1 <= Len(s) THEN Len(s) - (n + 1) + 1 ELSE 0
        /\ \A i \in 1 .. Len(s) - (n + 1) + 1 : b[i] = s[(n + 1) + i - 1]
    BY ONLY <2>1, SubSeqProperties
  <2>3. ASSUME NEW i \in 1 .. Len(s) - n PROVE b[i] = s[n + i]
    <3>1. i \in 1 .. Len(s) - (n + 1) + 1 /\ (n + 1) + i - 1 = n + i
      BY <1>1
    <3> QED BY ONLY <2>2, <3>1
  <2> HIDE DEF b
  <2> QED BY <1>1, <2>2, <2>3
<1>4. RemoveAt(s, n) = a \o b
  BY DEF RemoveAt
<1> HIDE DEF a, b
<1>5. /\ a \o b \in Seq(S) /\ Len(a \o b) = Len(a) + Len(b)
      /\ \A i \in 1 .. Len(a) : (a \o b)[i] = a[i]
      /\ \A i \in 1 .. Len(b) : (a \o b)[Len(a) + i] = b[i]
  <2>1. a \in Seq(S) /\ b \in Seq(S)
    BY ONLY <1>2, <1>3
  <2> QED BY ONLY <2>1, ConcatParts
<1>6. ASSUME NEW i \in 1 .. Len(s) - 1 PROVE \E j \in DOMAIN s : (a \o b)[i] = s[j]
  <2>1. CASE i <= n - 1
    <3>1. i \in 1 .. n - 1 /\ i \in DOMAIN s
      BY <1>1, <2>1
    <3> QED BY <1>2, <1>5, <3>1
  <2>2. CASE ~(i <= n - 1)
    <3>1. i - (n - 1) \in 1 .. Len(s) - n /\ (n - 1) + (i - (n - 1)) = i
          /\ n + (i - (n - 1)) = i + 1 /\ i + 1 \in DOMAIN s
      BY <1>1, <2>2
    <3>2. (a \o b)[(n - 1) + (i - (n - 1))] = b[i - (n - 1)]
      BY <1>2, <1>3, <1>5, <3>1
    <3>3. b[i - (n - 1)] = s[n + (i - (n - 1))]
      BY <1>3, <3>1
    <3>4. (a \o b)[i] = s[i + 1]
      BY ONLY <3>1, <3>2, <3>3
    <3> QED BY <3>1, <3>4
  <2> QED BY <2>1, <2>2
<1> DEFINE c == a \o b
<1>7. c \in Seq(S) /\ Len(c) = Len(s) - 1 /\ \A i \in 1 .. Len(s) - 1 : \E j \in DOMAIN s : c[i] = s[j]
  <2>1. Len(c) = Len(s) - 1
    BY <1>1, <1>2, <1>3, <1>5
  <2>2. \A i \in 1 .. Len(s) - 1 : \E j \in DOMAIN s : c[i] = s[j]
    BY <1>6
  <2> QED BY <1>5, <2>1, <2>2
<1>8. RemoveAt(s, n) = c
  BY <1>4
<1> HIDE DEF c
<1> QED BY <1>7, <1>8

\* The elements of a queue: its head, and those of what is left of it.
LEMMA QueueElements ==
    ASSUME NEW S, NEW s \in Seq(S), s # <<>>
    PROVE  Head(s) \in S /\ Tail(s) \in Seq(S) /\ ToSet(s) = {Head(s)} \cup ToSet(Tail(s))
<1>1. Len(s) \in Nat /\ Len(s) > 0 /\ Head(s) = s[1]
  OBVIOUS
<1>2. /\ Tail(s) \in Seq(S) /\ Len(Tail(s)) = Len(s) - 1 /\ Head(s) \in S
      /\ \A i \in 1 .. Len(Tail(s)) : Tail(s)[i] = s[i + 1]
  BY HeadTailProperties
<1>3. /\ Len(s) \in Nat /\ Len(s) > 0 /\ Head(s) = s[1] /\ Head(s) \in S
      /\ Tail(s) \in Seq(S) /\ Len(Tail(s)) = Len(s) - 1
      /\ DOMAIN s = 1 .. Len(s) /\ DOMAIN Tail(s) = 1 .. Len(s) - 1
  BY <1>1, <1>2
<1>4. \A i \in 1 .. Len(s) - 1 : Tail(s)[i] = s[i + 1]
  BY <1>2
<1>5. ToSet(Tail(s)) \subseteq ToSet(s)
  BY <1>3, <1>4 DEF ToSet
<1>6. ASSUME NEW i \in 2 .. Len(s) PROVE s[i] \in ToSet(Tail(s))
  <2>1. i - 1 \in 1 .. Len(s) - 1 /\ Tail(s)[i - 1] = s[i]
    BY <1>3, <1>4
  <2> QED BY <1>3, <2>1 DEF ToSet
<1>7. ToSet(s) \subseteq {Head(s)} \cup ToSet(Tail(s))
  <2>1. \A i \in 1 .. Len(s) : i = 1 \/ i \in 2 .. Len(s)
    BY <1>3
  <2> QED BY <1>3, <1>6, <2>1 DEF ToSet
<1>8. Head(s) \in ToSet(s)
  BY <1>3 DEF ToSet
<1> QED BY <1>3, <1>5, <1>7, <1>8

\* The elements of two sequences after one another.
LEMMA ConcatElements ==
    ASSUME NEW S, NEW s \in Seq(S), NEW t \in Seq(S)
    PROVE  ToSet(s \o t) = ToSet(s) \cup ToSet(t)
<1>1. /\ s \o t \in Seq(S) /\ Len(s \o t) = Len(s) + Len(t)
      /\ \A i \in 1 .. Len(s) + Len(t) : (s \o t)[i] = IF i <= Len(s) THEN s[i] ELSE t[i - Len(s)]
      /\ Len(s) \in Nat /\ Len(t) \in Nat
      /\ DOMAIN s = 1 .. Len(s) /\ DOMAIN t = 1 .. Len(t) /\ DOMAIN (s \o t) = 1 .. Len(s) + Len(t)
  BY ConcatProperties
<1>2. ToSet(s \o t) \subseteq ToSet(s) \cup ToSet(t)
  BY <1>1 DEF ToSet
<1>3. ToSet(s) \subseteq ToSet(s \o t)
  BY <1>1 DEF ToSet
<1>4. ASSUME NEW i \in 1 .. Len(t) PROVE t[i] \in ToSet(s \o t)
  <2>1. Len(s) + i \in 1 .. Len(s) + Len(t) /\ (s \o t)[Len(s) + i] = t[i]
    BY <1>1
  <2> QED BY <1>1, <2>1 DEF ToSet
<1>5. ToSet(t) \subseteq ToSet(s \o t)
  BY <1>4 DEF ToSet
<1> QED BY <1>2, <1>3, <1>5
=============================================================================
