-------------------------- MODULE RhinoListsProofs --------------------------
(***************************************************************************)
(* What the list operators of module RhinoLists return, for every list.    *)
(***************************************************************************)
EXTENDS RhinoLists, SequenceTheorems, WellFoundedInduction, TLAPS

\* The library's well-founded order on the naturals, without its operator.
LEMMA NatLess == OpToRel(<, Nat) = {p \in Nat \X Nat : p[1] < p[2]}
BY Zenon DEF OpToRel

\* A non-empty set of naturals has a least element, and Min is it: the search
\* of krhino_find_first_bit and the positions of the insertions are defined.
LEMMA MinNat ==
    ASSUME NEW S, S \subseteq Nat, S # {}
    PROVE  Min(S) \in S /\ \A y \in S : Min(S) <= y
<1> DEFINE R == {p \in Nat \X Nat : p[1] < p[2]}
<1>1. IsWellFoundedOn(R, Nat)
  BY NatLessThanWellFounded, NatLess
<1> HIDE DEF R
<1>2. PICK x \in S : \A y \in S : <<y, x>> \notin R
  BY <1>1, WFMin
<1>3. ASSUME NEW y \in S PROVE x <= y
  <2>1. x \in Nat /\ y \in Nat
    OBVIOUS
  <2>2. ~(y < x)
    BY <1>2, <2>1 DEF R
  <2> QED
    BY <2>1, <2>2
<1> QED
  BY <1>3 DEF Min

\* klist_rm: exactly the first occurrence goes.
LEMMA RemoveFirstSplit ==
    ASSUME NEW S, NEW s \in Seq(S), NEW e \in ToSet(s)
    PROVE  \E k \in 1..Len(s) :
              /\ s[k] = e
              /\ RemoveFirst(s, e) = SubSeq(s, 1, k - 1) \o SubSeq(s, k + 1, Len(s))
<1> DEFINE I == {i \in 1..Len(s) : s[i] = e}
<1>1. I \subseteq Nat /\ I # {}
  BY DEF ToSet
<1>2. Min(I) \in I
  BY <1>1, MinNat
<1>3. RemoveFirst(s, e) = RemoveAt(s, Min(I))
  BY <1>1, Zenon DEF RemoveFirst, SelectInSeq
<1> QED
  BY <1>2, <1>3 DEF RemoveAt

\* The elements behind the first occurrence move up by one, in their order.
LEMMA RemoveFirstShape ==
    ASSUME NEW S, NEW s \in Seq(S), NEW e \in ToSet(s)
    PROVE  LET r == RemoveFirst(s, e)
           IN  \E k \in 1..Len(s) :
                  /\ s[k] = e
                  /\ r \in Seq(S) /\ Len(r) = Len(s) - 1
                  /\ \A i \in 1..Len(r) : r[i] = IF i < k THEN s[i] ELSE s[i + 1]
<1>1. PICK k \in 1..Len(s) :
         /\ s[k] = e
         /\ RemoveFirst(s, e) = SubSeq(s, 1, k - 1) \o SubSeq(s, k + 1, Len(s))
  BY RemoveFirstSplit
<1> DEFINE r == RemoveFirst(s, e)
           u == SubSeq(s, 1, k - 1)
           v == SubSeq(s, k + 1, Len(s))
<1>2. /\ u \in Seq(S) /\ Len(u) = k - 1
      /\ \A i \in 1..k - 1 : u[i] = s[i]
  OBVIOUS
<1>3. /\ v \in Seq(S) /\ Len(v) = Len(s) - k
      /\ \A i \in 1..Len(s) - k : v[i] = s[k + i]
  OBVIOUS
<1> HIDE DEF u, v
<1>4. r = u \o v
  BY <1>1 DEF u, v
<1>5. /\ u \o v \in Seq(S) /\ Len(u \o v) = Len(u) + Len(v)
      /\ \A i \in 1..Len(u) + Len(v) :
            (u \o v)[i] = IF i <= Len(u) THEN u[i] ELSE v[i - Len(u)]
  BY <1>2, <1>3, ConcatProperties, Zenon
<1> HIDE DEF r
<1>6. r \in Seq(S) /\ Len(r) = Len(s) - 1
  BY <1>2, <1>3, <1>4, <1>5
<1>7. ASSUME NEW i \in 1..Len(r) PROVE r[i] = IF i < k THEN s[i] ELSE s[i + 1]
  <2>1. r[i] = IF i <= k - 1 THEN u[i] ELSE v[i - (k - 1)]
    BY <1>2, <1>3, <1>4, <1>5, <1>6
  <2>2. CASE i < k
    BY <1>2, <2>1, <2>2
  <2>3. CASE i >= k
    <3>1. i - (k - 1) \in 1..Len(s) - k
      BY <1>6, <2>3
    <3> QED
      BY <1>3, <2>1, <2>3, <3>1
  <2> QED
    BY <2>2, <2>3
<1> QED
  BY <1>1, <1>6, <1>7 DEF r

\* The other elements stay, in their order; an element that occurs once goes.
LEMMA RemoveFirstSeq ==
    ASSUME NEW S, NEW s \in Seq(S), NEW e
    PROVE  /\ RemoveFirst(s, e) \in Seq(S)
           /\ Len(s) > 1 => RemoveFirst(s, e) # <<>>
           /\ ToSet(RemoveFirst(s, e)) \subseteq ToSet(s)
           /\ ToSet(s) \subseteq ToSet(RemoveFirst(s, e)) \cup {e}
           /\ IsInjective(s) => /\ IsInjective(RemoveFirst(s, e))
                                /\ ToSet(RemoveFirst(s, e)) = ToSet(s) \ {e}
<1>1. CASE e \notin ToSet(s)
  <2>1. RemoveFirst(s, e) = s
    BY <1>1 DEF RemoveFirst, ToSet
  <2> QED
    BY <1>1, <2>1
<1>2. CASE e \in ToSet(s)
  <2> DEFINE r == RemoveFirst(s, e)
  <2>1. PICK k \in 1..Len(s) :
           /\ s[k] = e
           /\ r \in Seq(S) /\ Len(r) = Len(s) - 1
           /\ \A i \in 1..Len(r) : r[i] = IF i < k THEN s[i] ELSE s[i + 1]
    BY <1>2, RemoveFirstShape
  <2>2. /\ r \in Seq(S)
        /\ Len(r) = Len(s) - 1
        /\ \A i \in 1..Len(r) : r[i] = IF i < k THEN s[i] ELSE s[i + 1]
    BY <2>1
  <2> HIDE DEF r
  <2>3. \A x \in ToSet(r) : x \in ToSet(s)
    BY <2>2, SMTT(30) DEF ToSet
  <2>4. \A x \in ToSet(s) : x = e \/ x \in ToSet(r)
    <3> SUFFICES ASSUME NEW i \in 1..Len(s), s[i] # e PROVE s[i] \in ToSet(r)
      BY DEF ToSet
    <3>1. CASE i < k
      BY <2>2, <3>1 DEF ToSet
    <3>2. CASE i > k
      <4>1. i - 1 \in 1..Len(r) /\ r[i - 1] = s[i]
        BY <2>2, <3>2
      <4> QED
        BY <4>1, <2>2 DEF ToSet
    <3> QED
      BY <2>1, <3>1, <3>2
  <2>5. ASSUME IsInjective(s) PROVE IsInjective(r) /\ e \notin ToSet(r)
    <3>1. \A i, j \in 1..Len(s) : s[i] = s[j] => i = j
      BY <2>5 DEF IsInjective
    <3>2. \A i, j \in 1..Len(r) : r[i] = r[j] => i = j
      BY <2>2, <3>1, SMTT(30)
    <3>3. \A i \in 1..Len(r) : r[i] # e
      BY <2>1, <2>2, <3>1
    <3> QED
      BY <2>2, <3>2, <3>3 DEF IsInjective, ToSet
  <2>6. Len(s) > 1 => r # <<>>
    BY <2>2
  <2> QED
    BY <2>2, <2>3, <2>4, <2>5, <2>6 DEF r
<1> QED
  BY <1>1, <1>2

\* klist_insert: t gets place k, and what was there and behind it moves down.
LEMMA InsertAtSeq ==
    ASSUME NEW S, NEW s \in Seq(S), NEW t \in S, NEW k \in 1..Len(s) + 1
    PROVE  LET r == InsertAt(s, k, t)
           IN  /\ r \in Seq(S) /\ Len(r) = Len(s) + 1
               /\ \A i \in 1..Len(r) :
                     r[i] = IF i < k THEN s[i] ELSE IF i = k THEN t ELSE s[i - 1]
               /\ ToSet(r) = ToSet(s) \cup {t}
               /\ IsInjective(s) /\ t \notin ToSet(s) => IsInjective(r)
<1> DEFINE r == InsertAt(s, k, t)
           u == SubSeq(s, 1, k - 1)
           v == SubSeq(s, k, Len(s))
<1>1. k \in 1..Len(s) + 1 /\ Len(s) \in Nat
  OBVIOUS
<1>2. r = (u \o <<t>>) \o v
  BY DEF InsertAt
<1> HIDE DEF r
<1>3. /\ u \in Seq(S) /\ Len(u) = k - 1
      /\ \A i \in 1..k - 1 : u[i] = s[i]
  BY <1>1
<1>4. /\ v \in Seq(S) /\ Len(v) = Len(s) + 1 - k
      /\ \A i \in 1..Len(s) + 1 - k : v[i] = s[k + i - 1]
  BY <1>1
<1> HIDE DEF u, v
<1> DEFINE w == u \o <<t>>
<1>5. /\ w \in Seq(S) /\ Len(w) = k
      /\ \A i \in 1..k : w[i] = IF i < k THEN s[i] ELSE t
  BY <1>1, <1>3
<1> HIDE DEF w
<1>6. /\ r \in Seq(S) /\ Len(r) = Len(w) + Len(v)
      /\ \A i \in 1..Len(w) + Len(v) :
            r[i] = IF i <= Len(w) THEN w[i] ELSE v[i - Len(w)]
  <2>1. r = w \o v
    BY <1>2 DEF w
  <2> QED
    BY <2>1, <1>4, <1>5, ConcatProperties, Zenon
<1>7. Len(r) = Len(s) + 1
  BY <1>1, <1>4, <1>5, <1>6
<1>8. ASSUME NEW i \in 1..Len(r)
      PROVE  r[i] = IF i < k THEN s[i] ELSE IF i = k THEN t ELSE s[i - 1]
  <2>1. CASE i <= k
    BY <1>1, <1>4, <1>5, <1>6, <1>7, <2>1
  <2>2. CASE i > k
    <3>1. i - k \in 1..Len(s) + 1 - k
      BY <1>1, <1>7, <2>2
    <3>2. r[i] = v[i - k]
      BY <1>1, <1>4, <1>5, <1>6, <1>7, <2>2
    <3>3. v[i - k] = s[k + (i - k) - 1]
      BY <1>4, <3>1
    <3> QED
      BY <1>1, <2>2, <3>2, <3>3
  <2> QED
    BY <1>1, <2>1, <2>2
<1>9. ToSet(r) = ToSet(s) \cup {t}
  <2>1. \A i \in 1..Len(r) : r[i] \in ToSet(s) \cup {t}
    BY <1>1, <1>7, <1>8 DEF ToSet
  <2>2. t \in ToSet(r)
    <3>1. k \in 1..Len(r) /\ r[k] = t
      BY <1>1, <1>7, <1>8
    <3>2. DOMAIN r = 1..Len(r)
      BY <1>6
    <3> QED
      BY <3>1, <3>2, Zenon DEF ToSet
  <2>3. ASSUME NEW i \in 1..Len(s) PROVE s[i] \in ToSet(r)
    <3>1. CASE i < k
      <4>1. i \in 1..Len(r) /\ r[i] = s[i]
        BY <1>1, <1>7, <1>8, <3>1
      <4> QED
        BY <1>6, <4>1, SMTT(30) DEF ToSet
    <3>2. CASE i >= k
      <4>1. i + 1 \in 1..Len(r) /\ r[i + 1] = s[i]
        BY <1>1, <1>7, <1>8, <3>2
      <4> QED
        BY <1>6, <4>1 DEF ToSet
    <3> QED
      BY <1>1, <3>1, <3>2
  <2>4. ToSet(r) \subseteq ToSet(s) \cup {t}
    BY <1>6, <2>1 DEF ToSet
  <2>5. ToSet(s) \subseteq ToSet(r)
    BY <2>3 DEF ToSet
  <2> QED
    BY <2>2, <2>4, <2>5
<1>10. ASSUME IsInjective(s), t \notin ToSet(s) PROVE IsInjective(r)
  <2>1. \A i, j \in 1..Len(s) : s[i] = s[j] => i = j
    BY <1>10 DEF IsInjective
  <2>2. \A i \in 1..Len(s) : s[i] # t
    BY <1>10 DEF ToSet
  <2>3. ASSUME NEW i \in 1..Len(r), NEW j \in 1..Len(r), i < j PROVE r[i] # r[j]
    <3>1. CASE i = k \/ j = k
      BY <1>1, <1>7, <1>8, <2>2, <2>3, <3>1
    <3>2. CASE i < k /\ j < k
      BY <1>1, <1>7, <1>8, <2>1, <2>3, <3>2
    <3>3. CASE i < k /\ k < j
      <4>1. i \in 1..Len(s) /\ j - 1 \in 1..Len(s) /\ i # j - 1
        BY <1>1, <1>7, <3>3
      <4>2. r[i] = s[i] /\ r[j] = s[j - 1]
        BY <1>1, <1>8, <3>3
      <4> QED
        BY <2>1, <4>1, <4>2
    <3>4. CASE k < i
      <4>1. i - 1 \in 1..Len(s) /\ j - 1 \in 1..Len(s) /\ i - 1 # j - 1
        BY <1>1, <1>7, <2>3, <3>4
      <4>2. r[i] = s[i - 1] /\ r[j] = s[j - 1]
        BY <1>1, <1>8, <2>3, <3>4
      <4> QED
        BY <2>1, <4>1, <4>2
    <3> QED
      BY <1>1, <2>3, <3>1, <3>2, <3>3, <3>4
  <2>4. \A i, j \in 1..Len(r) : r[i] = r[j] => i = j
    BY <1>6, <2>3
  <2> QED
    BY <1>6, <2>4 DEF IsInjective
<1> QED
  BY <1>6, <1>7, <1>8, <1>9, <1>10 DEF r

\* The place of an insertion is one of the list or the one behind it, and the
\* first in front of a larger key.
LEMMA InsertPosFirst ==
    ASSUME NEW S, NEW s \in Seq(S), NEW P \in SUBSET (1..Len(s))
    PROVE  LET k == Min(P \cup {Len(s) + 1})
           IN  /\ k \in 1..Len(s) + 1
               /\ k \in P \/ k = Len(s) + 1
               /\ \A i \in P : k <= i
<1> DEFINE I == P \cup {Len(s) + 1}
           k == Min(I)
<1>1. I \subseteq Nat /\ I # {} /\ I \subseteq 1..Len(s) + 1
  <2>1. Len(s) \in Nat /\ \A x \in P : x \in 1..Len(s)
    OBVIOUS
  <2>2. \A x \in P : x \in Nat /\ x \in 1..Len(s) + 1
    BY <2>1
  <2>3. Len(s) + 1 \in Nat /\ Len(s) + 1 \in 1..Len(s) + 1
    BY <2>1
  <2> QED
    BY <2>2, <2>3
<1>2. k \in I /\ \A y \in I : k <= y
  <2> HIDE DEF I
  <2> QED
    BY <1>1, MinNat, Zenon
<1> HIDE DEF k
<1>3. k \in P \/ k = Len(s) + 1
  BY <1>2
<1>4. \A i \in P : k <= i
  BY <1>2
<1>5. k \in 1..Len(s) + 1
  BY <1>1, <1>2
<1> QED
  BY <1>3, <1>4, <1>5 DEF k

\* pend_list_add and tick_list_pri_insert put t into the list, whatever the
\* keys are, and no element twice.
LEMMA InsertSeq ==
    ASSUME NEW S, NEW s \in Seq(S), NEW t \in S, NEW key
    PROVE  LET r == InsertAt(s, InsertPos(s, t, key), t)
           IN  /\ r \in Seq(S)
               /\ ToSet(r) = ToSet(s) \cup {t}
               /\ IsInjective(s) /\ t \notin ToSet(s) => IsInjective(r)
<1> DEFINE P == {i \in 1..Len(s) : key[s[i]] > key[t]}
           k == InsertPos(s, t, key)
<1>1. k = Min(P \cup {Len(s) + 1}) /\ P \in SUBSET (1..Len(s))
  BY DEF InsertPos
<1> HIDE DEF P, k
<1>2. k \in 1..Len(s) + 1
  BY <1>1, InsertPosFirst
<1> QED
  BY <1>2, InsertAtSeq DEF k

\* A list in the order of its keys.
Ordered(s, key) == \A i, j \in 1..Len(s) : i < j => key[s[i]] <= key[s[j]]

\* Taking an element out keeps the order.
LEMMA RemoveOrdered ==
    ASSUME NEW S, NEW s \in Seq(S), NEW e, NEW key \in [S -> Int], Ordered(s, key)
    PROVE  Ordered(RemoveFirst(s, e), key)
<1>1. CASE e \notin ToSet(s)
  <2>1. RemoveFirst(s, e) = s
    BY <1>1 DEF RemoveFirst, ToSet
  <2> QED
    BY <2>1
<1>2. CASE e \in ToSet(s)
  <2> DEFINE r == RemoveFirst(s, e)
  <2>1. PICK k \in 1..Len(s) :
           /\ r \in Seq(S) /\ Len(r) = Len(s) - 1
           /\ \A i \in 1..Len(r) : r[i] = IF i < k THEN s[i] ELSE s[i + 1]
    BY <1>2, RemoveFirstShape, SMTT(30)
  <2> HIDE DEF r
  <2>2. SUFFICES ASSUME NEW i \in 1..Len(r), NEW j \in 1..Len(r), i < j
                 PROVE  key[r[i]] <= key[r[j]]
    BY DEF Ordered, r
  <2> DEFINE a == IF i < k THEN i ELSE i + 1
             b == IF j < k THEN j ELSE j + 1
  <2>3. a \in 1..Len(s) /\ b \in 1..Len(s) /\ a < b
    BY <2>1, <2>2, SMTT(30)
  <2>4. r[i] = s[a] /\ r[j] = s[b]
    BY <2>1, <2>2
  <2> HIDE DEF a, b
  <2> QED
    BY <2>3, <2>4 DEF Ordered
<1> QED
  BY <1>1, <1>2

\* An element that is put between the smaller and the larger keys keeps the
\* order.
LEMMA InsertAtOrdered ==
    ASSUME NEW S, NEW s \in Seq(S), NEW t \in S, NEW key \in [S -> Int],
           NEW k \in 1..Len(s) + 1, Ordered(s, key),
           \A i \in 1..Len(s) : i < k => key[s[i]] <= key[t],
           \A i \in 1..Len(s) : i >= k => key[t] <= key[s[i]]
    PROVE  Ordered(InsertAt(s, k, t), key)
<1> DEFINE r == InsertAt(s, k, t)
<1>1. /\ r \in Seq(S) /\ Len(r) = Len(s) + 1
      /\ \A i \in 1..Len(r) :
            r[i] = IF i < k THEN s[i] ELSE IF i = k THEN t ELSE s[i - 1]
  BY InsertAtSeq
<1> HIDE DEF r
<1>2. SUFFICES ASSUME NEW i \in 1..Len(r), NEW j \in 1..Len(r), i < j
               PROVE  key[r[i]] <= key[r[j]]
  BY DEF Ordered, r
<1>3. Len(s) \in Nat
  OBVIOUS
<1>4. CASE i < k /\ j < k
  <2>1. r[i] = s[i] /\ r[j] = s[j] /\ i \in 1..Len(s) /\ j \in 1..Len(s)
    BY <1>1, <1>3, <1>4, SMTT(30)
  <2> QED
    BY <1>2, <2>1 DEF Ordered
<1>5. CASE i < k /\ j = k
  <2>1. r[i] = s[i] /\ r[j] = t /\ i \in 1..Len(s)
    BY <1>1, <1>3, <1>5
  <2> QED
    BY <1>5, <2>1
<1>6. CASE i < k /\ j > k
  <2>1. /\ r[i] = s[i] /\ r[j] = s[j - 1]
        /\ i \in 1..Len(s) /\ j - 1 \in 1..Len(s) /\ i < j - 1
    BY <1>1, <1>3, <1>6
  <2> QED
    BY <2>1 DEF Ordered
<1>7. CASE i = k
  <2>1. r[i] = t /\ r[j] = s[j - 1] /\ j - 1 \in 1..Len(s) /\ j - 1 >= k
    BY <1>1, <1>2, <1>3, <1>7, SMTT(30)
  <2> QED
    BY <2>1
<1>8. CASE i > k
  <2>1. /\ r[i] = s[i - 1] /\ r[j] = s[j - 1]
        /\ i - 1 \in 1..Len(s) /\ j - 1 \in 1..Len(s) /\ i - 1 < j - 1
    BY <1>1, <1>2, <1>3, <1>8
  <2> QED
    BY <2>1 DEF Ordered
<1> QED
  BY <1>2, <1>3, <1>4, <1>5, <1>6, <1>7, <1>8

\* The first place in front of a larger key is such a place; P holds the places
\* with a larger key.
LEMMA InsertMinOrdered ==
    ASSUME NEW S, NEW s \in Seq(S), NEW t \in S, NEW key \in [S -> Int],
           Ordered(s, key)
    PROVE  LET P == {i \in 1..Len(s) : key[s[i]] > key[t]}
           IN  Ordered(InsertAt(s, Min(P \cup {Len(s) + 1}), t), key)
<1> DEFINE P == {i \in 1..Len(s) : key[s[i]] > key[t]}
           k == Min(P \cup {Len(s) + 1})
<1>1. P \in SUBSET (1..Len(s))
  OBVIOUS
<1>2. \A i \in 1..Len(s) : i \in P <=> key[s[i]] > key[t]
  OBVIOUS
<1> HIDE DEF P
<1>3. /\ k \in 1..Len(s) + 1
      /\ k \in P \/ k = Len(s) + 1
      /\ \A i \in P : k <= i
  BY <1>1, InsertPosFirst
<1> HIDE DEF k
<1>4. ASSUME NEW i \in 1..Len(s), i < k PROVE key[s[i]] <= key[t]
  <2>1. i \notin P
    BY <1>3, <1>4
  <2>2. key[s[i]] \in Int /\ key[t] \in Int
    OBVIOUS
  <2> QED
    BY <1>2, <2>1, <2>2
<1>5. ASSUME NEW i \in 1..Len(s), i >= k PROVE key[t] <= key[s[i]]
  <2>1. k \in P /\ k \in 1..Len(s)
    BY <1>1, <1>3, <1>5
  <2>2. key[s[k]] > key[t]
    BY <1>2, <2>1
  <2>3. key[s[k]] <= key[s[i]]
    <3>1. CASE k = i
      BY <2>1, <3>1
    <3>2. CASE k < i
      BY <2>1, <3>2 DEF Ordered
    <3> QED
      BY <1>5, <2>1, <3>1, <3>2
  <2>4. key[s[i]] \in Int /\ key[t] \in Int /\ key[s[k]] \in Int
    BY <2>1
  <2> QED
    BY <2>2, <2>3, <2>4
<1>6. Ordered(InsertAt(s, k, t), key)
  BY <1>3, <1>4, <1>5, InsertAtOrdered
<1> QED
  BY <1>6 DEF k, P

\* pend_list_reorder keeps the members of the list.
LEMMA ReorderSeq ==
    ASSUME NEW S, NEW s \in Seq(S), NEW t \in S, NEW key,
           IsInjective(s), t \in ToSet(s)
    PROVE  /\ PendListReorder(s, t, key) \in Seq(S)
           /\ ToSet(PendListReorder(s, t, key)) = ToSet(s)
           /\ IsInjective(PendListReorder(s, t, key))
<1> DEFINE q == RemoveFirst(s, t)
<1>1. q \in Seq(S) /\ IsInjective(q) /\ ToSet(q) = ToSet(s) \ {t}
  BY RemoveFirstSeq
<1> HIDE DEF q
<1>2. LET r == InsertAt(q, InsertPos(q, t, key), t)
      IN  /\ r \in Seq(S)
          /\ ToSet(r) = ToSet(q) \cup {t}
          /\ IsInjective(q) /\ t \notin ToSet(q) => IsInjective(r)
  BY <1>1, InsertSeq
<1> QED
  BY <1>1, <1>2 DEF PendListReorder, PendListAdd, q

-----------------------------------------------------------------------------
\* krhino_find_first_bit finds a list, and the first one, when there is one.
LEMMA FirstBit ==
    ASSUME NEW T, NEW n \in Nat, NEW lists \in [0..n -> Seq(T)],
           \E p \in 0..n : lists[p] # <<>>
    PROVE  /\ FindFirstBit(lists) \in 0..n
           /\ lists[FindFirstBit(lists)] # <<>>
           /\ \A p \in 0..n : lists[p] # <<>> => FindFirstBit(lists) <= p
<1> DEFINE I == {p \in DOMAIN lists : lists[p] # <<>>}
<1>1. I \subseteq Nat /\ I # {} /\ I \subseteq 0..n
  <2>1. DOMAIN lists = 0..n /\ 0..n \subseteq Nat
    OBVIOUS
  <2> QED
    BY <2>1
<1>2. Min(I) \in I /\ \A y \in I : Min(I) <= y
  BY <1>1, MinNat, Zenon
<1>3. FindFirstBit(lists) = Min(I)
  BY DEF FindFirstBit
<1> HIDE DEF I
<1>4. \A p \in 0..n : lists[p] # <<>> => p \in I
  BY DEF I
<1>5. Min(I) \in 0..n /\ lists[Min(I)] # <<>>
  BY <1>1, <1>2 DEF I
<1> QED
  BY <1>2, <1>3, <1>4, <1>5

\* Whatever has these three properties is what krhino_find_first_bit finds.
LEMMA FirstBitUnique ==
    ASSUME NEW T, NEW n \in Nat, NEW lists \in [0..n -> Seq(T)],
           NEW h \in 0..n, lists[h] # <<>>,
           \A p \in 0..n : lists[p] # <<>> => h <= p
    PROVE  FindFirstBit(lists) = h
<1>1. /\ FindFirstBit(lists) \in 0..n
      /\ lists[FindFirstBit(lists)] # <<>>
      /\ \A p \in 0..n : lists[p] # <<>> => FindFirstBit(lists) <= p
  BY FirstBit
<1> QED
  BY <1>1

\* A task at the end of a list.
LEMMA AppendSet ==
    ASSUME NEW S, NEW s \in Seq(S), NEW t \in S
    PROVE  /\ Append(s, t) \in Seq(S) /\ Append(s, t) # <<>>
           /\ ToSet(Append(s, t)) = ToSet(s) \cup {t}
           /\ IsInjective(s) /\ t \notin ToSet(s) => IsInjective(Append(s, t))
<1> DEFINE r == Append(s, t)
<1>1. /\ r \in Seq(S) /\ r # <<>> /\ Len(r) = Len(s) + 1
      /\ \A i \in 1..Len(s) : r[i] = s[i]
      /\ r[Len(s) + 1] = t
  BY AppendProperties
<1> HIDE DEF r
<1>2. ToSet(r) = ToSet(s) \cup {t}
  BY <1>1 DEF ToSet
<1>3. ASSUME IsInjective(s), t \notin ToSet(s) PROVE IsInjective(r)
  <2>1. /\ \A i, j \in 1..Len(s) : s[i] = s[j] => i = j
        /\ \A i \in 1..Len(s) : s[i] # t
    BY <1>3 DEF IsInjective, ToSet
  <2>2. \A i, j \in 1..Len(r) : r[i] = r[j] => i = j
    BY <1>1, <2>1
  <2> QED
    BY <1>1, <2>2 DEF IsInjective
<1> QED
  BY <1>1, <1>2, <1>3 DEF r

\* A task at the front of a list.
LEMMA ConsSet ==
    ASSUME NEW S, NEW s \in Seq(S), NEW t \in S
    PROVE  /\ <<t>> \o s \in Seq(S) /\ <<t>> \o s # <<>>
           /\ ToSet(<<t>> \o s) = ToSet(s) \cup {t}
           /\ IsInjective(s) /\ t \notin ToSet(s) => IsInjective(<<t>> \o s)
<1> DEFINE r == <<t>> \o s
<1>1. /\ r \in Seq(S) /\ Len(r) = Len(s) + 1
      /\ r[1] = t
      /\ \A i \in 1..Len(s) : r[i + 1] = s[i]
  OBVIOUS
<1> HIDE DEF r
<1>2. \A i \in 1..Len(r) : i = 1 \/ (i - 1 \in 1..Len(s) /\ r[i] = s[i - 1])
  <2> SUFFICES ASSUME NEW i \in 1..Len(r), i # 1
               PROVE  i - 1 \in 1..Len(s) /\ r[i] = s[i - 1]
    OBVIOUS
  <2>1. i - 1 \in 1..Len(s) /\ i = (i - 1) + 1
    BY <1>1
  <2> QED
    BY <1>1, <2>1
<1>3. ToSet(r) = ToSet(s) \cup {t}
  <2>1. ASSUME NEW i \in 1..Len(r) PROVE r[i] \in ToSet(s) \cup {t}
    <3>1. CASE i = 1
      BY <1>1, <3>1
    <3>2. CASE i # 1
      <4>1. i - 1 \in DOMAIN s /\ r[i] = s[i - 1]
        BY <1>2, <3>2
      <4> QED
        BY <4>1 DEF ToSet
    <3> QED
      BY <3>1, <3>2
  <2>2. t \in ToSet(r)
    BY <1>1 DEF ToSet
  <2>3. \A i \in 1..Len(s) : i + 1 \in 1..Len(r) /\ s[i] = r[i + 1]
    BY <1>1
  <2>4. \A i \in 1..Len(s) : s[i] \in ToSet(r)
    BY <1>1, <2>3 DEF ToSet
  <2> QED
    BY <1>1, <2>1, <2>2, <2>4 DEF ToSet
<1>4. ASSUME IsInjective(s), t \notin ToSet(s) PROVE IsInjective(r)
  <2>1. /\ \A i, j \in 1..Len(s) : s[i] = s[j] => i = j
        /\ \A i \in 1..Len(s) : s[i] # t
    BY <1>4 DEF IsInjective, ToSet
  <2>2. ASSUME NEW i \in 1..Len(r), NEW j \in 1..Len(r), r[i] = r[j] PROVE i = j
    <3>1. CASE i = 1 \/ j = 1
      BY <1>1, <1>2, <2>1, <2>2, <3>1
    <3>2. CASE i # 1 /\ j # 1
      <4>1. i - 1 \in 1..Len(s) /\ j - 1 \in 1..Len(s) /\ s[i - 1] = s[j - 1]
        BY <1>2, <2>2, <3>2
      <4>2. i - 1 = j - 1
        BY <2>1, <4>1
      <4> QED
        BY <1>1, <4>2
    <3> QED
      BY <3>1, <3>2
  <2> QED
    BY <1>1, <2>2 DEF IsInjective
<1> QED
  BY <1>1, <1>3, <1>4 DEF r

\* ready_list_head_to_tail keeps the members of the list.
LEMMA RotateSet ==
    ASSUME NEW S, NEW s \in Seq(S)
    PROVE  LET r == [i \in DOMAIN s |-> s[(i % Len(s)) + 1]]
           IN  /\ r \in Seq(S) /\ Len(r) = Len(s)
               /\ ToSet(r) = ToSet(s)
               /\ IsInjective(s) => IsInjective(r)
<1> DEFINE r == [i \in DOMAIN s |-> s[(i % Len(s)) + 1]]
           nx(i) == (i % Len(s)) + 1
<1>1. \A i \in 1..Len(s) : nx(i) = IF i = Len(s) THEN 1 ELSE i + 1
  OBVIOUS
<1> HIDE DEF nx
<1>2. /\ DOMAIN r = 1..Len(s)
      /\ \A i \in 1..Len(s) : r[i] = s[nx(i)]
  BY DEF nx
<1>3. ASSUME NEW i \in 1..Len(s) PROVE nx(i) \in 1..Len(s) /\ r[i] \in S
  <2>1. nx(i) \in 1..Len(s)
    BY <1>1
  <2> QED
    BY <1>2, <2>1, ElementOfSeq
<1>4. r \in [1..Len(s) -> S]
  <2>1. r = [i \in 1..Len(s) |-> r[i]]
    BY <1>2
  <2> HIDE DEF r
  <2> QED
    BY <1>3, <2>1
<1> HIDE DEF r
<1>5. r \in Seq(S) /\ Len(r) = Len(s)
  BY <1>4
<1>6. \A i \in 1..Len(s) : r[i] \in ToSet(s)
  BY <1>2, <1>3 DEF ToSet
<1>7. ASSUME NEW i \in 1..Len(s) PROVE s[i] \in ToSet(r)
  <2>1. CASE i = 1
    BY <1>1, <1>2, <2>1 DEF ToSet
  <2>2. CASE i > 1
    <3>1. i - 1 \in 1..Len(s) /\ nx(i - 1) = i
      BY <1>1, <2>2
    <3> QED
      BY <1>2, <3>1 DEF ToSet
  <2> QED
    BY <2>1, <2>2
<1>8. ASSUME IsInjective(s) PROVE IsInjective(r)
  <2>1. \A i, j \in 1..Len(s) : s[i] = s[j] => i = j
    BY <1>8 DEF IsInjective
  <2>2. ASSUME NEW i \in 1..Len(s), NEW j \in 1..Len(s), r[i] = r[j] PROVE i = j
    <3>1. nx(i) \in 1..Len(s) /\ nx(j) \in 1..Len(s) /\ s[nx(i)] = s[nx(j)]
      BY <1>1, <1>2, <2>2
    <3>2. nx(i) = nx(j)
      BY <2>1, <3>1
    <3> QED
      BY <1>1, <3>2
  <2> QED
    BY <1>2, <2>2 DEF IsInjective
<1>9. ToSet(r) = ToSet(s)
  <2>1. ToSet(r) \subseteq ToSet(s)
    BY <1>5, <1>6 DEF ToSet
  <2>2. ToSet(s) \subseteq ToSet(r)
    BY <1>7 DEF ToSet
  <2> QED
    BY <2>1, <2>2
<1> QED
  BY <1>5, <1>8, <1>9 DEF r

\* The parts of a sound queue.
LEMMA QueueParts ==
    ASSUME NEW T, NEW n \in Nat, NEW q, SoundQueue(q, T, n)
    PROVE  /\ q.list \in [0..n -> Seq(T)] /\ q.highest_pri \in 0..n
           /\ q.list[n] # <<>>
           /\ q.list[q.highest_pri] # <<>>
           /\ \A x \in 0..n : q.list[x] # <<>> => q.highest_pri <= x
           /\ \A x \in 0..n : IsInjective(q.list[x])
<1>1. /\ q.list \in [0..n -> Seq(T)] /\ q.highest_pri \in 0..n
      /\ q.list[n] # <<>> /\ n \in 0..n
      /\ \A x \in 0..n : IsInjective(q.list[x])
      /\ q.highest_pri = FindFirstBit(q.list)
  BY DEF SoundQueue
<1>2. \E p \in 0..n : q.list[p] # <<>>
  BY <1>1
<1>3. /\ FindFirstBit(q.list) \in 0..n
      /\ q.list[FindFirstBit(q.list)] # <<>>
      /\ \A p \in 0..n : q.list[p] # <<>> => FindFirstBit(q.list) <= p
  BY <1>1, <1>2, FirstBit, Zenon
<1> QED
  BY <1>1, <1>3

\* The task preferred_cpu_ready_task_get returns is in the highest list.
LEMMA PreferredInQueue ==
    ASSUME NEW T, NEW n \in Nat, NEW q, SoundQueue(q, T, n)
    PROVE  /\ PreferredTask(q) \in T
           /\ PreferredTask(q) \in ToSet(q.list[q.highest_pri])
<1> DEFINE s == q.list[q.highest_pri]
<1>1. s \in Seq(T) /\ s # <<>>
  <2>1. q.list \in [0..n -> Seq(T)] /\ q.highest_pri \in 0..n /\ s # <<>>
    BY QueueParts, Zenon
  <2> QED
    BY <2>1
<1>2. PreferredTask(q) = Head(s)
  BY DEF PreferredTask
<1> HIDE DEF s
<1>3. Head(s) \in T /\ Head(s) \in ToSet(s)
  BY <1>1 DEF ToSet
<1> QED
  BY <1>2, <1>3 DEF s

\* One list is replaced by a list with a task in it.
LEMMA QueueWithTask ==
    ASSUME NEW T, NEW n \in Nat, NEW q, SoundQueue(q, T, n),
           NEW p \in 0..n, NEW s \in Seq(T), s # <<>>, IsInjective(s)
    PROVE  LET h == IF q.list[p] = <<>> /\ p < q.highest_pri THEN p ELSE q.highest_pri
               r == [list |-> [q.list EXCEPT ![p] = s], highest_pri |-> h]
           IN  /\ SoundQueue(r, T, n)
               /\ \A x \in 0..n : r.list[x] = IF x = p THEN s ELSE q.list[x]
<1> DEFINE old == q.list
           top == q.highest_pri
           h == IF old[p] = <<>> /\ p < top THEN p ELSE top
           lists == [old EXCEPT ![p] = s]
<1>1. /\ old \in [0..n -> Seq(T)] /\ top \in 0..n
      /\ old[n] # <<>> /\ old[top] # <<>>
      /\ \A x \in 0..n : old[x] # <<>> => top <= x
      /\ \A x \in 0..n : IsInjective(old[x])
  BY QueueParts
<1> HIDE DEF old, top
<1>2. /\ lists \in [0..n -> Seq(T)] /\ h \in 0..n
      /\ \A x \in 0..n : lists[x] = IF x = p THEN s ELSE old[x]
  BY <1>1
<1> HIDE DEF lists
<1>3. lists[h] # <<>>
  BY <1>1, <1>2
<1>4. \A x \in 0..n : lists[x] # <<>> => h <= x
  BY <1>1, <1>2, SMTT(30)
<1>5. lists[n] # <<>> /\ \A x \in 0..n : IsInjective(lists[x])
  <2>1. \A x \in 0..n : lists[x] = s \/ lists[x] = old[x]
    BY <1>2
  <2>2. n \in 0..n
    OBVIOUS
  <2> QED
    BY <1>1, <2>1, <2>2
<1> HIDE DEF h
<1>6. FindFirstBit(lists) = h
  BY <1>2, <1>3, <1>4, FirstBitUnique, Zenon
<1>7. SoundQueue([list |-> lists, highest_pri |-> h], T, n)
  BY <1>2, <1>5, <1>6 DEF SoundQueue
<1> QED
  BY <1>2, <1>7 DEF lists, h, old, top

\* Queue r is queue q with, or without, task t in the list of priority p.
Gains(q, r, t, p, n) ==
    /\ ToSet(r.list[p]) = ToSet(q.list[p]) \cup {t}
    /\ \A x \in 0..n : x # p => ToSet(r.list[x]) = ToSet(q.list[x])

\* Task t has left the list of priority p, and nothing else is different.
Loses(q, r, t, p, n) ==
    /\ ToSet(r.list[p]) = ToSet(q.list[p]) \ {t}
    /\ \A x \in 0..n : x # p => ToSet(r.list[x]) = ToSet(q.list[x])

\* ready_list_add_tail.
LEMMA AddTailSound ==
    ASSUME NEW T, NEW n \in Nat, NEW q, SoundQueue(q, T, n),
           NEW p \in 0..n, NEW t \in T, t \notin ToSet(q.list[p])
    PROVE  LET r == ReadyListAddTail(q, t, p)
           IN  /\ SoundQueue(r, T, n)
               /\ Gains(q, r, t, p, n)
<1> DEFINE s == Append(q.list[p], t)
           h == IF q.list[p] = <<>> /\ p < q.highest_pri THEN p ELSE q.highest_pri
           r == [list |-> [q.list EXCEPT ![p] = s], highest_pri |-> h]
<1>1. q.list \in [0..n -> Seq(T)] /\ IsInjective(q.list[p])
  BY QueueParts, Zenon
<1>2. q.list[p] \in Seq(T)
  BY <1>1
<1>3. s \in Seq(T) /\ s # <<>> /\ IsInjective(s) /\ ToSet(s) = ToSet(q.list[p]) \cup {t}
  <2>1. /\ s \in Seq(T) /\ s # <<>> /\ ToSet(s) = ToSet(q.list[p]) \cup {t}
        /\ IsInjective(q.list[p]) /\ t \notin ToSet(q.list[p]) => IsInjective(s)
    BY <1>2, AppendSet, SMTT(30)
  <2> QED
    BY <1>1, <2>1, Zenon
<1>4. r = ReadyListAddTail(q, t, p)
  BY <1>1 DEF ReadyListAddTail
<1> HIDE DEF s
<1>5. /\ SoundQueue(r, T, n)
      /\ \A x \in 0..n : r.list[x] = IF x = p THEN s ELSE q.list[x]
  BY <1>3, QueueWithTask, SMTT(30)
<1> HIDE DEF r
<1> QED
  BY <1>3, <1>4, <1>5 DEF Gains

\* ready_list_add_head.
LEMMA AddHeadSound ==
    ASSUME NEW T, NEW n \in Nat, NEW q, SoundQueue(q, T, n),
           NEW p \in 0..n, NEW t \in T, t \notin ToSet(q.list[p])
    PROVE  LET r == ReadyListAddHead(q, t, p)
           IN  /\ SoundQueue(r, T, n)
               /\ Gains(q, r, t, p, n)
<1> DEFINE s == <<t>> \o q.list[p]
           h == IF q.list[p] = <<>> /\ p < q.highest_pri THEN p ELSE q.highest_pri
           r == [list |-> [q.list EXCEPT ![p] = s], highest_pri |-> h]
<1>1. q.list \in [0..n -> Seq(T)] /\ IsInjective(q.list[p])
  BY QueueParts, Zenon
<1>2. q.list[p] \in Seq(T)
  BY <1>1
<1>3. s \in Seq(T) /\ s # <<>> /\ IsInjective(s) /\ ToSet(s) = ToSet(q.list[p]) \cup {t}
  BY <1>1, <1>2, ConsSet
<1>4. r = ReadyListAddHead(q, t, p)
  BY <1>1 DEF ReadyListAddHead
<1> HIDE DEF s
<1>5. /\ SoundQueue(r, T, n)
      /\ \A x \in 0..n : r.list[x] = IF x = p THEN s ELSE q.list[x]
  BY <1>3, QueueWithTask, SMTT(30)
<1> HIDE DEF r
<1> QED
  BY <1>3, <1>4, <1>5 DEF Gains

\* ready_list_head_to_tail.
LEMMA HeadToTailSound ==
    ASSUME NEW T, NEW n \in Nat, NEW q, SoundQueue(q, T, n), NEW p \in 0..n
    PROVE  LET r == ReadyListHeadToTail(q, p)
           IN  /\ SoundQueue(r, T, n)
               /\ \A x \in 0..n : ToSet(r.list[x]) = ToSet(q.list[x])
<1> DEFINE s == [i \in DOMAIN q.list[p] |-> q.list[p][(i % Len(q.list[p])) + 1]]
           r == [list |-> [q.list EXCEPT ![p] = s], highest_pri |-> q.highest_pri]
<1>1. /\ q \in [list : [0..n -> Seq(T)], highest_pri : 0..n]
      /\ q.list \in [0..n -> Seq(T)] /\ q.highest_pri \in 0..n
      /\ IsInjective(q.list[p])
  BY QueueParts DEF SoundQueue
<1>2. q.list[p] \in Seq(T)
  BY <1>1
<1>3. /\ s \in Seq(T) /\ Len(s) = Len(q.list[p]) /\ IsInjective(s)
      /\ ToSet(s) = ToSet(q.list[p])
  BY <1>1, <1>2, RotateSet, Zenon
<1>4. ReadyListHeadToTail(q, p) = r
  BY DEF ReadyListHeadToTail
<1> HIDE DEF s
<1>6. CASE q.list[p] = <<>>
  <2>1. s = <<>>
    BY <1>2, <1>3, <1>6
  <2>2. [q.list EXCEPT ![p] = s] = q.list
    BY <1>1, <1>6, <2>1
  <2>3. r = q
    BY <1>1, <2>2
  <2> QED
    BY <1>4, <2>3
<1>7. CASE q.list[p] # <<>>
  <2>1. s # <<>>
    BY <1>2, <1>3, <1>7
  <2> DEFINE h == IF q.list[p] = <<>> /\ p < q.highest_pri THEN p ELSE q.highest_pri
  <2>2. h = q.highest_pri
    BY <1>7
  <2>3. LET rr == [list |-> [q.list EXCEPT ![p] = s], highest_pri |-> h]
        IN  /\ SoundQueue(rr, T, n)
            /\ \A x \in 0..n : rr.list[x] = IF x = p THEN s ELSE q.list[x]
    BY <1>3, <2>1, QueueWithTask, SMTT(30)
  <2> HIDE DEF h
  <2>4. /\ SoundQueue(r, T, n)
        /\ \A x \in 0..n : r.list[x] = IF x = p THEN s ELSE q.list[x]
    BY <2>2, <2>3
  <2> QED
    BY <1>3, <1>4, <2>4
<1> QED
  BY <1>6, <1>7

\* ready_list_rm of a task of a list other than the idle task's.
LEMMA RmSound ==
    ASSUME NEW T, NEW n \in Nat, NEW q, SoundQueue(q, T, n),
           NEW p \in 0..n, p # n, NEW t \in ToSet(q.list[p])
    PROVE  LET r == ReadyListRm(q, t, p)
           IN  /\ SoundQueue(r, T, n)
               /\ Loses(q, r, t, p, n)
<1> DEFINE old == q.list
           top == q.highest_pri
           s == IF Len(old[p]) > 1 THEN RemoveFirst(old[p], t) ELSE <<>>
           lists == [old EXCEPT ![p] = s]
           h == IF Len(old[p]) > 1 \/ p # top THEN top ELSE FindFirstBit(lists)
<1>1. /\ old \in [0..n -> Seq(T)] /\ top \in 0..n
      /\ old[n] # <<>> /\ old[top] # <<>>
      /\ \A x \in 0..n : old[x] # <<>> => top <= x
      /\ \A x \in 0..n : IsInjective(old[x])
  BY QueueParts
<1>2. old[p] \in Seq(T)
  BY <1>1
<1>3. s \in Seq(T) /\ IsInjective(s) /\ ToSet(s) = ToSet(old[p]) \ {t}
  <2>1. CASE Len(old[p]) > 1
    BY <1>1, <1>2, <2>1, RemoveFirstSeq
  <2>2. CASE ~(Len(old[p]) > 1)
    <3>1. ToSet(old[p]) = {t}
      BY <1>2, <2>2 DEF ToSet
    <3>2. s = <<>>
      BY <2>2
    <3> HIDE DEF s
    <3>3. <<>> \in Seq(T) /\ IsInjective(<<>>) /\ ToSet(<<>>) = {}
      BY DEF ToSet, IsInjective
    <3> QED
      BY <3>1, <3>2, <3>3
  <2> QED
    BY <2>1, <2>2
<1>4. Len(old[p]) > 1 => s # <<>>
  BY <1>2, RemoveFirstSeq
<1>5. ReadyListRm(q, t, p) = [list |-> lists, highest_pri |-> h]
  BY DEF ReadyListRm
<1> HIDE DEF old, top, s
<1>6. /\ lists \in [0..n -> Seq(T)]
      /\ \A x \in 0..n : lists[x] = IF x = p THEN s ELSE old[x]
  BY <1>1, <1>3
<1> HIDE DEF lists
<1>7. lists[n] # <<>> /\ n \in 0..n /\ \A x \in 0..n : IsInjective(lists[x])
  <2>1. \A x \in 0..n : lists[x] = s \/ lists[x] = old[x]
    BY <1>6
  <2>2. lists[n] = old[n] /\ n \in 0..n
    BY <1>6
  <2> QED
    BY <1>1, <1>3, <2>1, <2>2
<1>8. FindFirstBit(lists) = h
  <2>1. CASE Len(old[p]) > 1 \/ p # top
    <3>1. lists[top] # <<>>
      BY <1>1, <1>4, <1>6, <2>1
    <3>2. ASSUME NEW x \in 0..n, lists[x] # <<>> PROVE top <= x
      <4>1. CASE x # p
        BY <1>1, <1>6, <3>2, <4>1
      <4>2. CASE x = p
        <5>1. old[p] # <<>>
          BY <1>2 DEF ToSet, old
        <5> QED
          BY <1>1, <4>2, <5>1
      <4> QED
        BY <4>1, <4>2
    <3>3. FindFirstBit(lists) = top
      BY <1>1, <1>6, <3>1, <3>2, FirstBitUnique, ZenonT(60)
    <3> QED
      BY <2>1, <3>3
  <2>2. CASE ~(Len(old[p]) > 1 \/ p # top)
    BY <2>2
  <2> QED
    BY <2>1, <2>2
<1> HIDE DEF h
<1>9. \E x \in 0..n : lists[x] # <<>>
  BY <1>7
<1>10. FindFirstBit(lists) \in 0..n
  BY <1>6, <1>9, FirstBit, Zenon
<1>11. SoundQueue([list |-> lists, highest_pri |-> h], T, n)
  BY <1>6, <1>7, <1>8, <1>10 DEF SoundQueue
<1> QED
  BY <1>3, <1>5, <1>6, <1>11 DEF old, Loses

\* The members of a list, by position.
LEMMA MemberAt ==
    ASSUME NEW S, NEW s \in Seq(S)
    PROVE  /\ \A i \in 1..Len(s) : s[i] \in ToSet(s) /\ s[i] \in S
           /\ \A e \in ToSet(s) : e \in S /\ \E i \in 1..Len(s) : s[i] = e
BY DEF ToSet

\* The head of a list and what is behind it.
LEMMA TailSeq ==
    ASSUME NEW S, NEW s \in Seq(S), s # <<>>
    PROVE  /\ Len(s) \in Nat /\ Len(s) >= 1 /\ 1 \in 1..Len(s)
           /\ Head(s) = s[1] /\ Head(s) \in S /\ Head(s) \in ToSet(s)
           /\ Tail(s) \in Seq(S) /\ Len(Tail(s)) = Len(s) - 1
           /\ \A i \in 1..Len(Tail(s)) : Tail(s)[i] = s[i + 1] /\ i + 1 \in 1..Len(s)
           /\ ToSet(Tail(s)) \subseteq ToSet(s)
           /\ Len(s) = 1 => Tail(s) = <<>>
           /\ Len(s) = 2 => Tail(s) = <<s[2]>>
<1> DEFINE r == Tail(s)
<1>1. /\ Len(s) \in Nat /\ Len(s) >= 1 /\ DOMAIN s = 1..Len(s)
      /\ Head(s) = s[1] /\ s[1] \in S
  OBVIOUS
<1>2. /\ r \in Seq(S) /\ Len(r) = Len(s) - 1 /\ DOMAIN r = 1..Len(r)
      /\ \A i \in 1..Len(r) : r[i] = s[i + 1]
  OBVIOUS
<1> HIDE DEF r
<1>3. 1 \in 1..Len(s) /\ \A i \in 1..Len(r) : i + 1 \in 1..Len(s)
  BY <1>1, <1>2
<1>4. s[1] \in ToSet(s)
  BY <1>1, <1>3 DEF ToSet
<1>5. ToSet(r) \subseteq ToSet(s)
  BY <1>1, <1>2, <1>3, SMTT(30) DEF ToSet
<1>6. Len(s) = 1 => r = <<>>
  BY <1>1, <1>2
<1>7. Len(s) = 2 => r = <<s[2]>>
  BY <1>1, <1>2
<1> QED
  BY <1>1, <1>2, <1>3, <1>4, <1>5, <1>6, <1>7 DEF r

\* The head of a list without repetition is not in the rest of it.
LEMMA TailInjective ==
    ASSUME NEW S, NEW s \in Seq(S), s # <<>>, IsInjective(s)
    PROVE  IsInjective(Tail(s)) /\ ToSet(Tail(s)) = ToSet(s) \ {Head(s)}
<1> DEFINE r == Tail(s)
<1>1. /\ Len(s) \in Nat /\ Len(s) >= 1 /\ Head(s) = s[1]
      /\ r \in Seq(S) /\ Len(r) = Len(s) - 1
      /\ \A i \in 1..Len(r) : r[i] = s[i + 1] /\ i + 1 \in 1..Len(s)
      /\ ToSet(r) \subseteq ToSet(s)
  BY TailSeq
<1> HIDE DEF r
<1>2. \A i, j \in 1..Len(s) : s[i] = s[j] => i = j
  BY DEF IsInjective
<1>3. \A i, j \in 1..Len(r) : r[i] = r[j] => i = j
  BY <1>1, <1>2
<1>4. \A i \in 1..Len(r) : r[i] # s[1]
  BY <1>1, <1>2
<1>5. ASSUME NEW x \in ToSet(s), x # s[1] PROVE x \in ToSet(r)
  <2>1. PICK i \in 1..Len(s) : s[i] = x
    BY MemberAt
  <2>2. i - 1 \in 1..Len(r) /\ r[i - 1] = x
    BY <1>1, <1>5, <2>1
  <2> QED
    BY <1>1, <2>2, MemberAt
<1>6. s[1] \notin ToSet(r)
  BY <1>1, <1>4, MemberAt, SMTT(30)
<1>7. IsInjective(r)
  BY <1>1, <1>3 DEF IsInjective
<1> QED
  BY <1>1, <1>5, <1>6, <1>7 DEF r

\* A list with a new head, position by position.
LEMMA ConsSeq ==
    ASSUME NEW S, NEW s \in Seq(S), NEW t \in S
    PROVE  LET r == <<t>> \o s
           IN  /\ r \in Seq(S) /\ Len(s) \in Nat /\ Len(r) = Len(s) + 1 /\ r[1] = t
               /\ \A i \in 1..Len(r) : i = 1 \/ (i - 1 \in 1..Len(s) /\ r[i] = s[i - 1])
<1> DEFINE r == <<t>> \o s
<1>1. /\ r \in Seq(S) /\ Len(s) \in Nat /\ Len(r) = Len(s) + 1 /\ r[1] = t
      /\ \A i \in 1..Len(s) : r[i + 1] = s[i]
  OBVIOUS
<1> HIDE DEF r
<1>2. ASSUME NEW i \in 1..Len(r), i # 1 PROVE i - 1 \in 1..Len(s) /\ r[i] = s[i - 1]
  <2>1. i - 1 \in 1..Len(s) /\ (i - 1) + 1 = i
    BY <1>1, <1>2
  <2>2. r[(i - 1) + 1] = s[i - 1]
    BY <1>1, <2>1
  <2> QED
    BY <2>1, <2>2
<1> QED
  BY <1>1, <1>2 DEF r

\* A list with nothing behind its head.
LEMMA OneElement ==
    ASSUME NEW S, NEW s \in Seq(S), s # <<>>, Tail(s) = <<>>
    PROVE  s = <<Head(s)>>
<1> DEFINE r == Tail(s)
<1>1. Len(s) \in Nat /\ Len(r) = Len(s) - 1 /\ Head(s) = s[1] /\ r = <<>>
  BY TailSeq
<1> HIDE DEF r
<1>2. Len(r) = 0
  BY <1>1
<1>3. Len(s) = 1
  BY <1>1, <1>2
<1> QED
  BY <1>1, <1>3

\* Two lists of one element make one of two.
LEMMA TwoElements ==
    ASSUME NEW S, NEW a \in S, NEW b \in S
    PROVE  <<a>> \o <<b>> = <<a, b>>
<1> DEFINE v == <<b>>
           r == <<a>> \o v
           e == <<a, b>>
<1>1. v \in Seq(S) /\ Len(v) = 1 /\ v[1] = b
  OBVIOUS
<1> HIDE DEF v
<1>2. /\ r \in Seq(S) /\ Len(r) = Len(v) + 1 /\ r[1] = a
      /\ \A i \in 1..Len(r) : i = 1 \/ (i - 1 \in 1..Len(v) /\ r[i] = v[i - 1])
  BY <1>1, ConsSeq
<1> HIDE DEF r
<1>3. Len(r) = 2 /\ r[2] = b
  BY <1>1, <1>2
<1>4. e \in Seq(S) /\ Len(e) = 2 /\ e[1] = a /\ e[2] = b
  OBVIOUS
<1> HIDE DEF e
<1>5. \A i \in 1..2 : r[i] = e[i]
  BY <1>2, <1>3, <1>4
<1>6. r = e
  BY <1>2, <1>3, <1>4, <1>5, SeqEqual
<1> QED
  BY <1>6 DEF r, v, e
=============================================================================
