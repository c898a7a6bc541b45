------------------------- MODULE KgslTimelineProofs -------------------------
(***************************************************************************)
(* Proofs about KgslTimeline for any number of threads, fences and values. *)
(***************************************************************************)
EXTENDS KgslTimeline, FiniteLemmas

-----------------------------------------------------------------------------
(* The lists.                                                              *)

\* The rank numbers the elements of a finite set of naturals in their order.
LEMMA RankBijection ==
    ASSUME NEW P \in SUBSET Nat, IsFiniteSet(P),
           NEW rank, rank = [i \in P |-> Cardinality({j \in P : j <= i})]
    PROVE  /\ Cardinality(P) \in Nat
           /\ \A i \in P : rank[i] \in 1..Cardinality(P)
           /\ \A i, k \in P : i < k => rank[i] < rank[k]
           /\ \A n \in 1..Cardinality(P) : \E i \in P : rank[i] = n
<1> DEFINE Upto(i) == {j \in P : j <= i}
<1>1. Cardinality(P) \in Nat BY FS_CardinalityType
<1>2. ASSUME NEW i \in P
      PROVE  /\ IsFiniteSet(Upto(i)) /\ Cardinality(Upto(i)) \in Nat
             /\ Cardinality(Upto(i)) <= Cardinality(P)
             /\ Cardinality(Upto(i)) # 0
  <2>1. Upto(i) \in SUBSET P /\ i \in Upto(i) OBVIOUS
  <2> HIDE DEF Upto
  <2> QED BY <2>1, FS_Subset, FS_CardinalityType, FS_EmptySet
<1>3. \A i \in P : rank[i] = Cardinality(Upto(i)) OBVIOUS
<1>4. \A i \in P : rank[i] \in 1..Cardinality(P) 
  <2> HIDE DEF Upto
  <2> QED BY <1>1, <1>2, <1>3
<1>5. ASSUME NEW i \in P, NEW k \in P, i < k PROVE rank[i] < rank[k]
  <2>0. i \in Nat /\ k \in Nat /\ \A j \in P : j \in Nat OBVIOUS
  <2>1. Upto(i) \in SUBSET Upto(k) /\ k \in Upto(k) /\ k \notin Upto(i)
    <3>1. \A j \in P : j <= i => j <= k BY <1>5, <2>0
    <3>2. ~(k <= i) /\ k <= k BY <1>5, <2>0
    <3> QED BY <3>1, <3>2
  <2> HIDE DEF Upto
  <2>2. /\ Cardinality(Upto(i)) <= Cardinality(Upto(k))
        /\ Cardinality(Upto(i)) # Cardinality(Upto(k))
    BY <1>2, <2>1, FS_Subset
  <2> QED BY <1>2, <1>3, <2>2
<1>6. \A n \in 1..Cardinality(P) : \E i \in P : rank[i] = n
  <2> DEFINE T == 1..Cardinality(P)
  <2>1. rank \in [P -> T] BY <1>4
  <2>2. \A i, k \in P : rank[i] = rank[k] => i = k
    <3> SUFFICES ASSUME NEW i \in P, NEW k \in P, rank[i] = rank[k], i # k
                 PROVE  FALSE
      OBVIOUS
    <3>1. rank[i] \in Nat /\ rank[k] \in Nat BY <1>4
    <3>2. i < k \/ k < i OBVIOUS
    <3> QED BY <1>5, <3>1, <3>2
  <2>3. rank \in Injection(P, T) BY <2>1, <2>2 DEF Injection, IsInjective
  <2>4. IsFiniteSet(T) /\ Cardinality(T) = Cardinality(P)
    BY <1>1, IntervalCount
  <2>5. rank \in Surjection(P, T)
    <3> HIDE DEF T
    <3> QED BY <2>3, <2>4, FS_Injection
  <2> QED BY <2>5 DEF Surjection
<1> QED BY <1>1, <1>4, <1>5, <1>6

\* A list without what is not in a set: the rest stays, in its order.
LEMMA KeptFacts ==
    ASSUME NEW F, NEW s \in Seq(F), NEW S
    PROVE  /\ Kept(s, S) \in Seq(F)
           /\ \E m \in [DOMAIN Kept(s, S) -> DOMAIN s] :
                /\ \A k \in DOMAIN Kept(s, S) : /\ Kept(s, S)[k] = s[m[k]]
                                                /\ s[m[k]] \in S
                /\ \A k, l \in DOMAIN Kept(s, S) : k < l => m[k] < m[l]
                /\ \A i \in DOMAIN s : s[i] \in S => \E k \in DOMAIN Kept(s, S) : m[k] = i
<1> DEFINE P == {i \in DOMAIN s : s[i] \in S}
           rank == [i \in P |-> Cardinality({j \in P : j <= i})]
           n == Cardinality(P)
           m == [k \in 1..n |-> CHOOSE i \in P : rank[i] = k]
<1>1. /\ P \in SUBSET Nat /\ IsFiniteSet(P)
  <2>1. Len(s) \in Nat /\ DOMAIN s = 1..Len(s) OBVIOUS
  <2>2. IsFiniteSet(1..Len(s)) BY <2>1, IntervalCount
  <2>3. P \in SUBSET (1..Len(s)) BY <2>1
  <2>4. P \in SUBSET Nat BY <2>1
  <2> HIDE DEF P
  <2> QED BY <2>2, <2>3, <2>4, FS_Subset
<1>2. Kept(s, S) = [k \in 1..n |-> s[m[k]]] BY DEF Kept
<1>3. /\ n \in Nat
      /\ \A i \in P : rank[i] \in 1..n
      /\ \A i, k \in P : i < k => rank[i] < rank[k]
      /\ \A k \in 1..n : \E i \in P : rank[i] = k
  <2> HIDE DEF P
  <2> QED BY <1>1, RankBijection
<1> HIDE DEF rank
<1>4. \A k \in 1..n : m[k] \in P /\ rank[m[k]] = k BY <1>3
<1>5. \A k \in 1..n : m[k] \in DOMAIN s /\ s[m[k]] \in S BY <1>4
<1>6. ASSUME NEW k \in 1..n, NEW l \in 1..n, k < l PROVE m[k] < m[l]
  <2>1. m[k] \in P /\ m[l] \in P /\ rank[m[k]] = k /\ rank[m[l]] = l BY <1>4
  <2>2. m[k] \in Nat /\ m[l] \in Nat BY <1>1, <2>1
  <2> HIDE DEF m, P, n
  <2>3. m[l] < m[k] => rank[m[l]] < rank[m[k]] BY <1>3, <2>1
  <2> QED BY <1>3, <1>6, <2>1, <2>2, <2>3
<1>7. ASSUME NEW i \in P PROVE \E k \in 1..n : m[k] = i
  <2>1. rank[i] \in 1..n BY <1>3
  <2>2. m[rank[i]] \in P /\ rank[m[rank[i]]] = rank[i] BY <1>4, <2>1
  <2>3. i \in Nat /\ m[rank[i]] \in Nat BY <1>1, <2>2
  <2>4. m[rank[i]] = i
    <3> HIDE DEF m, P, n
    <3>1. i < m[rank[i]] => rank[i] < rank[m[rank[i]]] BY <1>3, <2>2
    <3>2. m[rank[i]] < i => rank[m[rank[i]]] < rank[i] BY <1>3, <2>2
    <3> QED BY <1>3, <2>1, <2>2, <2>3, <3>1, <3>2
  <2> QED BY <2>1, <2>4
<1>8. m \in [1..n -> DOMAIN s] BY <1>5
<1>9. Kept(s, S) \in Seq(F) /\ DOMAIN Kept(s, S) = 1..n
  <2>0. \A i \in DOMAIN s : s[i] \in F OBVIOUS
  <2>1. \A k \in 1..n : s[m[k]] \in F BY <1>5, <2>0
  <2> HIDE DEF m, n
  <2> QED BY <1>2, <1>3, <2>1
<1>10. \A k \in 1..n : Kept(s, S)[k] = s[m[k]] BY <1>2
<1>11. \A i \in DOMAIN s : s[i] \in S => \E k \in 1..n : m[k] = i BY <1>7
<1> DEFINE r == Kept(s, S)
<1>12. \E x \in [DOMAIN r -> DOMAIN s] :
         /\ \A k \in DOMAIN r : r[k] = s[x[k]] /\ s[x[k]] \in S
         /\ \A k, l \in DOMAIN r : k < l => x[k] < x[l]
         /\ \A i \in DOMAIN s : s[i] \in S => \E k \in DOMAIN r : x[k] = i
  <2> HIDE DEF m, n, r
  <2>1. DOMAIN r = 1..n BY <1>9 DEF r
  <2>2. m \in [DOMAIN r -> DOMAIN s] BY <1>8, <2>1
  <2> WITNESS m \in [DOMAIN r -> DOMAIN s]
  <2> QED BY <1>5, <1>6, <1>10, <1>11, <2>1 DEF r
<1> QED BY <1>9, <1>12

\* No element twice; and sorted by q.
Distinct(s) == \A i, j \in DOMAIN s : s[i] = s[j] => i = j

Ordered(s, q) == \A i, j \in DOMAIN s : i < j => q[s[i]] <= q[s[j]]

Seqno == [f \in Fences |-> fence[f].seqno]

LEMMA KeptList ==
    ASSUME NEW F, NEW s \in Seq(F), NEW S, NEW q
    PROVE  /\ Kept(s, S) \in Seq(F)
           /\ ToSet(Kept(s, S)) = ToSet(s) \cap S
           /\ Distinct(s) => Distinct(Kept(s, S))
           /\ Ordered(s, q) => Ordered(Kept(s, S), q)
<1> DEFINE r == Kept(s, S)
<1>1. r \in Seq(F) BY KeptFacts
<1>2. PICK m \in [DOMAIN r -> DOMAIN s] :
         /\ \A k \in DOMAIN r : r[k] = s[m[k]] /\ s[m[k]] \in S
         /\ \A k, l \in DOMAIN r : k < l => m[k] < m[l]
         /\ \A i \in DOMAIN s : s[i] \in S => \E k \in DOMAIN r : m[k] = i
  BY KeptFacts
<1> HIDE DEF r
<1>3. ToSet(r) = ToSet(s) \cap S BY <1>2 DEF ToSet
<1>4. DOMAIN r \subseteq Nat /\ DOMAIN s \subseteq Nat BY <1>1
<1>5. ASSUME Distinct(s), NEW i \in DOMAIN r, NEW j \in DOMAIN r, r[i] = r[j]
      PROVE  i = j
  <2>1. m[i] = m[j] BY <1>2, <1>5 DEF Distinct
  <2>2. i \in Nat /\ j \in Nat /\ m[i] \in Nat BY <1>2, <1>4
  <2>3. ~(i < j) BY <1>2, <2>1, <2>2
  <2>4. ~(j < i) BY <1>2, <2>1, <2>2
  <2> QED BY <2>2, <2>3, <2>4
<1>6. Ordered(s, q) => Ordered(r, q) BY <1>2 DEF Ordered
<1> QED BY <1>1, <1>3, <1>5, <1>6 DEF r, Distinct

LEMMA ReverseList ==
    ASSUME NEW F, NEW s \in Seq(F)
    PROVE  /\ Reverse(s) \in Seq(F)
           /\ ToSet(Reverse(s)) = ToSet(s)
           /\ Distinct(s) => Distinct(Reverse(s))
<1> DEFINE r == Reverse(s)
<1>1. /\ r \in Seq(F) /\ Len(r) = Len(s)
      /\ \A i \in 1..Len(s) : r[i] = s[(Len(s) - i) + 1]
  BY DEF Reverse
<1>2. Len(s) \in Nat OBVIOUS
<1> HIDE DEF r
<1>3. ToSet(r) = ToSet(s)
  <2>1. \A i \in 1..Len(s) : /\ (Len(s) - i) + 1 \in 1..Len(s)
                             /\ r[(Len(s) - i) + 1] = s[i]
    <3> SUFFICES ASSUME NEW i \in 1..Len(s)
                 PROVE  /\ (Len(s) - i) + 1 \in 1..Len(s)
                        /\ r[(Len(s) - i) + 1] = s[i]
      OBVIOUS
    <3>1. (Len(s) - i) + 1 \in 1..Len(s) BY <1>2
    <3>2. (Len(s) - ((Len(s) - i) + 1)) + 1 = i BY <1>2
    <3> QED BY <1>1, <3>1, <3>2
  <2>2. /\ ToSet(r) = {r[i] : i \in 1..Len(s)}
        /\ ToSet(s) = {s[i] : i \in 1..Len(s)}
    BY <1>1 DEF ToSet
  <2>3. \A i \in 1..Len(s) : \E k \in 1..Len(s) : r[i] = s[k] BY <1>1, <2>1
  <2>4. \A i \in 1..Len(s) : \E k \in 1..Len(s) : s[i] = r[k] BY <2>1
  <2> QED BY <2>2, <2>3, <2>4
<1>4. ASSUME Distinct(s), NEW i \in DOMAIN r, NEW j \in DOMAIN r, r[i] = r[j]
      PROVE  i = j
  <2>1. i \in 1..Len(s) /\ j \in 1..Len(s) BY <1>1
  <2> DEFINE a == (Len(s) - i) + 1
             b == (Len(s) - j) + 1
  <2>2. a \in DOMAIN s /\ b \in DOMAIN s BY <1>2, <2>1
  <2>3. s[a] = s[b] BY <1>1, <1>4, <2>1
  <2>4. a = b
    <3> HIDE DEF a, b
    <3> QED BY <1>4, <2>2, <2>3 DEF Distinct
  <2> QED BY <1>2, <2>1, <2>4
<1> QED BY <1>1, <1>3, <1>4 DEF r, Distinct

LEMMA TailList ==
    ASSUME NEW F, NEW s \in Seq(F), s # <<>>, Distinct(s)
    PROVE  /\ Head(s) \in F /\ Tail(s) \in Seq(F)
           /\ ToSet(Tail(s)) = ToSet(s) \ {Head(s)}
           /\ Head(s) \in ToSet(s)
           /\ Distinct(Tail(s))
<1>1. /\ Len(s) \in Nat /\ Len(s) >= 1 /\ DOMAIN s = 1..Len(s)
      /\ Tail(s) \in Seq(F) /\ DOMAIN Tail(s) = 1..(Len(s) - 1)
      /\ \A i \in 1..(Len(s) - 1) : Tail(s)[i] = s[i + 1]
      /\ Head(s) = s[1] /\ Head(s) \in F
  OBVIOUS
<1> DEFINE r == Tail(s)
<1> HIDE DEF r
<1>2. \A i \in 1..Len(s) : i = 1 \/ (i - 1 \in 1..(Len(s) - 1) /\ r[i - 1] = s[i])
  <2> SUFFICES ASSUME NEW i \in 1..Len(s), i # 1
               PROVE  i - 1 \in 1..(Len(s) - 1) /\ r[i - 1] = s[i]
    OBVIOUS
  <2>1. i - 1 \in 1..(Len(s) - 1) /\ (i - 1) + 1 = i BY <1>1
  <2> QED BY <1>1, <2>1 DEF r
<1>3. ToSet(r) = ToSet(s) \ {s[1]}
  <2>1. \A i \in 1..(Len(s) - 1) : i + 1 \in 1..Len(s) /\ i + 1 # 1 BY <1>1
  <2>2. \A i \in 1..(Len(s) - 1) : s[i + 1] # s[1] BY <1>1, <2>1 DEF Distinct
  <2>3. ToSet(r) = {r[i] : i \in 1..(Len(s) - 1)} BY <1>1 DEF ToSet, r
  <2>4. ToSet(s) = {s[i] : i \in 1..Len(s)} BY <1>1 DEF ToSet
  <2>5. \A i \in 1..(Len(s) - 1) : r[i] = s[i + 1] BY <1>1 DEF r
  <2> QED BY <1>2, <2>1, <2>2, <2>3, <2>4, <2>5
<1>4. ASSUME NEW i \in 1..(Len(s) - 1), NEW j \in 1..(Len(s) - 1), r[i] = r[j]
      PROVE  i = j
  <2>1. i + 1 \in 1..Len(s) /\ j + 1 \in 1..Len(s) BY <1>1
  <2>2. i + 1 = j + 1 BY <1>1, <1>4, <2>1 DEF Distinct, r
  <2> QED BY <1>1, <2>2
<1>5. s[1] \in ToSet(s) BY <1>1 DEF ToSet
<1> QED BY <1>1, <1>3, <1>4, <1>5 DEF r, Distinct

LEMMA InsertList ==
    ASSUME NEW F, NEW s \in Seq(F), NEW f \in F, NEW p \in 1..(Len(s) + 1), NEW q,
           f \notin ToSet(s), Distinct(s)
    PROVE  /\ InsertAt(s, p, f) \in Seq(F)
           /\ ToSet(InsertAt(s, p, f)) = ToSet(s) \cup {f}
           /\ Distinct(InsertAt(s, p, f))
           /\ /\ Ordered(s, q)
              /\ \A i \in 1..(p - 1) : q[s[i]] <= q[f]
              /\ \A i \in p..Len(s) : q[f] <= q[s[i]]
              => Ordered(InsertAt(s, p, f), q)
<1> DEFINE r == InsertAt(s, p, f)
           n == Len(s)
<1>0. n \in Nat /\ DOMAIN s = 1..n OBVIOUS
<1> DEFINE A == SubSeq(s, 1, p - 1)
           B == SubSeq(s, p, n)
<1>a. /\ p \in Nat /\ p >= 1 /\ p <= n + 1 BY <1>0
<1>b. /\ A \in Seq(F) /\ Len(A) = p - 1
      /\ \A i \in 1..(p - 1) : A[i] = s[i]
  BY <1>0, <1>a
<1>c. /\ B \in Seq(F) /\ Len(B) = (n + 1) - p
      /\ \A i \in 1..((n + 1) - p) : B[i] = s[(p + i) - 1]
  BY <1>0, <1>a
<1>d. r = (A \o <<f>>) \o B BY DEF InsertAt
<1> HIDE DEF A, B, r, n
<1> DEFINE C == A \o <<f>>
<1>e. /\ C \in Seq(F) /\ Len(C) = p
      /\ \A i \in 1..p : C[i] = IF i < p THEN s[i] ELSE f
  BY <1>a, <1>b
<1> HIDE DEF C
<1>1. r \in Seq(F) /\ DOMAIN r = 1..(n + 1)
  <2>0. r = C \o B BY <1>d DEF C
  <2>a. B \in Seq(F) /\ C \in Seq(F) BY <1>c, <1>e
  <2>1. r \in Seq(F) /\ Len(r) = Len(C) + Len(B) BY <2>0, <2>a
  <2>2. Len(r) = n + 1 BY <1>0, <1>a, <1>c, <1>e, <2>1
  <2>3. DOMAIN r = 1..Len(r) BY <2>1
  <2> QED BY <2>1, <2>2, <2>3
<1>2. \A i \in 1..(n + 1) : r[i] = IF i < p THEN s[i] ELSE IF i = p THEN f ELSE s[i - 1]
  <2> SUFFICES ASSUME NEW i \in 1..(n + 1)
               PROVE  r[i] = IF i < p THEN s[i] ELSE IF i = p THEN f ELSE s[i - 1]
    OBVIOUS
  <2>1. CASE i <= p BY <1>0, <1>a, <1>c, <1>d, <1>e, <2>1 DEF C
  <2>2. CASE i > p
    <3>1. i - p \in 1..((n + 1) - p) /\ (p + (i - p)) - 1 = i - 1
      BY <1>0, <1>a, <2>2
    <3>2. r[i] = B[i - p] BY <1>0, <1>a, <1>c, <1>d, <1>e, <2>2 DEF C
    <3> QED BY <1>0, <1>a, <1>c, <2>2, <3>1, <3>2
  <2> QED BY <1>0, <1>a, <2>1, <2>2
<1> p \in 1..(n + 1) BY <1>0, <1>a
<1>3. \A i \in 1..(n + 1) : i # p => IF i < p THEN i \in 1..n ELSE i - 1 \in 1..n
  BY <1>0
<1>4. \A i \in 1..n : s[i] # f BY <1>0 DEF ToSet
<1>5. ToSet(r) = ToSet(s) \cup {f}
  <2>1. \A i \in 1..n : \E k \in 1..(n + 1) : r[k] = s[i]
    <3> SUFFICES ASSUME NEW i \in 1..n PROVE \E k \in 1..(n + 1) : r[k] = s[i]
      OBVIOUS
    <3>1. CASE i < p BY <1>0, <1>2, <3>1
    <3>2. CASE ~(i < p)
      <4>1. /\ i + 1 \in 1..(n + 1) /\ ~(i + 1 < p) /\ i + 1 # p
            /\ (i + 1) - 1 = i
        BY <1>0, <3>2
      <4>2. r[i + 1] = s[i] BY <1>2, <4>1
      <4> QED BY <4>1, <4>2
    <3> QED BY <3>1, <3>2
  <2>2. \A i \in 1..(n + 1) : r[i] = f \/ \E k \in 1..n : r[i] = s[k]
    BY <1>2, <1>3
  <2>3. r[p] = f BY <1>0, <1>2
  <2>4. ToSet(r) = {r[i] : i \in 1..(n + 1)} /\ ToSet(s) = {s[i] : i \in 1..n}
    BY <1>0, <1>1 DEF ToSet
  <2> QED BY <2>1, <2>2, <2>3, <2>4
<1>6. Distinct(r)
  <2> SUFFICES ASSUME NEW i \in 1..(n + 1), NEW j \in 1..(n + 1), r[i] = r[j]
               PROVE  i = j
    BY <1>1 DEF Distinct
  <2> QED BY <1>0, <1>2, <1>3, <1>4 DEF Distinct
<1>7. ASSUME Ordered(s, q), \A i \in 1..(p - 1) : q[s[i]] <= q[f],
             \A i \in p..n : q[f] <= q[s[i]]
      PROVE  Ordered(r, q)
  <2> SUFFICES ASSUME NEW i \in 1..(n + 1), NEW j \in 1..(n + 1), i < j
               PROVE  q[r[i]] <= q[r[j]]
    BY <1>1 DEF Ordered
  <2>1. CASE i = p
    <3>1. j - 1 \in p..n /\ r[i] = f /\ r[j] = s[j - 1] BY <1>0, <1>2, <2>1
    <3> QED BY <1>7, <3>1
  <2>2. CASE j = p
    <3>1. i \in 1..(p - 1) /\ r[j] = f /\ r[i] = s[i] BY <1>0, <1>2, <2>2
    <3> QED BY <1>7, <3>1
  <2>3. CASE i # p /\ j # p
    <3> DEFINE a == IF i < p THEN i ELSE i - 1
               b == IF j < p THEN j ELSE j - 1
    <3>1. a \in 1..n /\ b \in 1..n /\ a < b BY <1>0, <2>3
    <3>2. r[i] = s[a] /\ r[j] = s[b] BY <1>2, <2>3
    <3> HIDE DEF a, b
    <3> QED BY <1>0, <1>7, <3>1, <3>2 DEF Ordered
  <2> QED BY <2>1, <2>2, <2>3
<1> QED BY <1>1, <1>5, <1>6, <1>7 DEF r, n
\* Where AddFence puts a fence the list stays sorted.
LEMMA AddedFence ==
    ASSUME fences \in Seq(Fences), fence \in [Fences -> FenceRec], NEW f \in Fences,
           f \notin ToSet(fences), Distinct(fences), Ordered(fences, Seqno)
    PROVE  /\ AddFence(f) \in Seq(Fences)
           /\ ToSet(AddFence(f)) = ToSet(fences) \cup {f}
           /\ Distinct(AddFence(f))
           /\ Ordered(AddFence(f), Seqno)
<1> DEFINE n == Len(fences)
           later == {i \in DOMAIN fences : fence[f].seqno < fence[fences[i]].seqno}
           p == IF later = {} THEN Len(fences) + 1
                ELSE CHOOSE i \in later : \A j \in later : i <= j
<1>1. AddFence(f) = InsertAt(fences, p, f) BY DEF AddFence
<1>2. n \in Nat /\ DOMAIN fences = 1..n /\ \A i \in 1..n : fences[i] \in Fences OBVIOUS
<1>3. Seqno[f] \in Nat /\ \A g \in Fences : Seqno[g] = fence[g].seqno /\ Seqno[g] \in Nat
  BY TimelineAssumption DEF Seqno, FenceRec, Values
<1>4. later \in SUBSET Nat /\ later \in SUBSET (1..n) BY <1>2
<1>5. later # {} => p \in later /\ \A j \in later : p <= j BY <1>4, LeastElement
<1>6. p \in 1..(n + 1) BY <1>2, <1>4, <1>5
<1>7. \A i \in 1..(p - 1) : Seqno[fences[i]] <= Seqno[f]
  <2> SUFFICES ASSUME NEW i \in 1..(p - 1) PROVE Seqno[fences[i]] <= Seqno[f]
    OBVIOUS
  <2>0. p \in Nat /\ n \in Nat /\ i \in Nat /\ i < p /\ p <= n + 1 /\ 1 <= i BY <1>2, <1>6
  <2>1. i \in 1..n /\ ~(p <= i) BY <2>0
  <2>2. i \notin later BY <1>5, <2>1
  <2>3. ~(fence[f].seqno < fence[fences[i]].seqno) BY <1>2, <2>1, <2>2
  <2>4. fences[i] \in Fences BY <1>2, <2>1
  <2> HIDE DEF p, later, n
  <2> QED BY <1>3, <2>3, <2>4
<1>8. \A i \in p..n : Seqno[f] <= Seqno[fences[i]]
  <2> SUFFICES ASSUME NEW i \in p..n PROVE Seqno[f] <= Seqno[fences[i]]
    OBVIOUS
  <2>1. later # {} BY <1>2
  <2>2. p \in DOMAIN fences /\ fence[f].seqno < fence[fences[p]].seqno BY <1>5, <2>1
  <2> HIDE DEF p, later
  <2>3. i \in DOMAIN fences /\ (i = p \/ p < i) BY <1>2, <1>6
  <2>4. p < i => Seqno[fences[p]] <= Seqno[fences[i]] BY <2>2, <2>3 DEF Ordered
  <2>5. fences[i] \in Fences /\ fences[p] \in Fences BY <1>2, <2>2, <2>3
  <2> HIDE DEF n
  <2> QED BY <1>3, <2>2, <2>3, <2>4, <2>5
<1> HIDE DEF p, n, later
<1> QED BY <1>1, <1>6, <1>7, <1>8, InsertList DEF n

-----------------------------------------------------------------------------
(* The inductive invariant.                                                *)

\* Only a thread that signals a fence drops its last reference, and a fence's
\* user makes no other call.
Roles ==
    /\ \A f \in Fences : /\ th[f].at = "idle" /\ th[f].temp = <<>>
                         /\ th[f].rel \in {f, NoOne}
    /\ \A t \in Threads : th[t].rel # NoOne => th[t].at \in {"signal_loop", "destroy_loop"}
    /\ \A t \in Actors : th[t].unlinked => th[t].rel # NoOne

\* A fence being made belongs to one thread and is not in use yet.
Makers ==
    /\ \A t \in Threads :
        /\ th[t].at \in {"alloc", "add"} => th[t].f \in Fences
        /\ th[t].at = "alloc" => fence[th[t].f].st = "unused"
        /\ th[t].at = "add" => /\ fence[th[t].f].st = "live"
                               /\ ~fence[th[t].f].user /\ ~fence[th[t].f].signaled
                               /\ th[t].f \notin ToSet(fences)
                               /\ \A u \in Threads : th[t].f \notin ToSet(th[u].temp)
    /\ \A t, u \in Threads : th[t].f = th[u].f => t = u \/ th[t].f = NoOne

\* The list is sorted, and no list holds a fence twice.
Sorted == Distinct(fences) /\ Ordered(fences, Seqno)

Temps ==
    \A t \in Threads :
        /\ Distinct(th[t].temp)
        /\ th[t].temp # <<>> => th[t].at \in {"signal_loop", "destroy_lock", "destroy_loop"}

\* Whatever still leads to a fence leads to one that is not freed.
Lives ==
    /\ \A f \in Fences : fence[f].user \/ f \in ToSet(fences) => fence[f].st = "live"
    /\ \A t \in Threads : \A f \in ToSet(th[t].temp) : fence[f].st = "live"
    /\ \A t \in Actors : th[t].rel # NoOne =>
        /\ fence[th[t].rel].st = "live"
        /\ th[t].unlinked => th[t].rel \notin ToSet(fences)

Created ==
    /\ idr = "none" => ref = 0 /\ \A t \in Threads : th[t].at = "idle"
    /\ \A t, u \in Threads : th[t].at = "create" => /\ idr = "blank"
                                                    /\ th[u].at = "create" => t = u

Locked ==
    \A t \in Threads : lock = t <=> th[t].at \in {"collect", "signal_loop", "destroy_loop"}

\* A fence that is waited for is to be signalled by somebody, and the list has
\* one that is due only before the signaller has collected.
Waiting ==
    \A f \in Fences : fence[f].user /\ ~fence[f].signaled =>
        /\ f \in ToSet(fences) \/ \E t \in Threads : f \in ToSet(th[t].temp)
        /\ f \in ToSet(fences) /\ Reached(f, value)
               => \E t \in Threads : th[t].at = "collect"

IInv == /\ TypeOK /\ RefExact /\ FenceRefs /\ Roles /\ Makers /\ Sorted
        /\ Temps /\ Lives /\ Created /\ Locked /\ Waiting

-----------------------------------------------------------------------------
(* What a step changes, field by field.                                    *)

\* Thread t goes to this state, and no other thread moves.
Moves(t, at, f, n, temp, rel, unlinked) ==
    /\ th' \in [Actors -> ThreadRec]
    /\ \A u \in Actors : u # t => th'[u] = th[u]
    /\ th'[t].at = at /\ th'[t].f = f /\ th'[t].seqno = n
    /\ th'[t].temp = temp /\ th'[t].rel = rel /\ th'[t].unlinked = unlinked

\* Fence f goes to this state, and no other fence changes.
Becomes(f, st, n, refs, user, signaled) ==
    /\ fence' \in [Fences -> FenceRec]
    /\ \A g \in Fences : g # f => fence'[g] = fence[g]
    /\ fence'[f].st = st /\ fence'[f].seqno = n /\ fence'[f].refs = refs
    /\ fence'[f].user = user /\ fence'[f].signaled = signaled

LEMMA EmptyList == /\ <<>> \in Seq(Fences) /\ ToSet(<<>>) = {} /\ Distinct(<<>>)
                   /\ \A q : Ordered(<<>>, q)
BY DEF ToSet, Distinct, Ordered

LEMMA GotoMoves ==
    ASSUME th \in [Actors -> ThreadRec], NEW t \in Actors, NEW at \in Points, Goto(t, at)
    PROVE  Moves(t, at, th[t].f, th[t].seqno, th[t].temp, th[t].rel, th[t].unlinked)
<1>1. th[t] \in ThreadRec OBVIOUS
<1>2. th' = [th EXCEPT ![t] = [th[t] EXCEPT !.at = at]] BY DEF Goto
<1>3. [th[t] EXCEPT !.at = at] \in ThreadRec BY <1>1 DEF ThreadRec
<1>4. th' \in [Actors -> ThreadRec] BY <1>2, <1>3
<1>5. th'[t] = [th[t] EXCEPT !.at = at] /\ \A u \in Actors : u # t => th'[u] = th[u]
  BY <1>2
<1> QED BY <1>1, <1>4, <1>5 DEF Moves, ThreadRec

LEMMA ReturnMoves ==
    ASSUME th \in [Actors -> ThreadRec], NEW t \in Actors, Return(t)
    PROVE  Moves(t, "idle", NoOne, 0, <<>>, NoOne, FALSE)
<1>1. Ready \in ThreadRec
  BY EmptyList, TimelineAssumption DEF Ready, ThreadRec, Points, Values
<1>2. th' \in [Actors -> ThreadRec] BY <1>1 DEF Return
<1>3. th'[t] = Ready /\ \A u \in Actors : u # t => th'[u] = th[u] BY DEF Return
<1> QED BY <1>2, <1>3 DEF Moves, Ready

\* dma_fence_put leaves the release to whoever drops the last reference.
LEMMA PutMoves ==
    ASSUME th \in [Actors -> ThreadRec], fence \in [Fences -> FenceRec],
           NEW t \in Actors, NEW f \in Fences, NEW state \in FenceRec,
           state.refs >= 1, PutFence(t, f, state),
           NEW temp \in Seq(Fences),
           temp = IF th[t].temp = <<>> THEN <<>> ELSE Tail(th[t].temp)
    PROVE  /\ Moves(t, th[t].at, th[t].f, th[t].seqno, temp,
                    IF state.refs = 1 THEN f ELSE NoOne, th[t].unlinked)
           /\ Becomes(f, state.st, state.seqno, state.refs - 1, state.user, state.signaled)
<1> DEFINE rel == IF state.refs = 1 THEN f ELSE NoOne
           r == [[th[t] EXCEPT !.rel = rel] EXCEPT !.temp = temp]
           s == [state EXCEPT !.refs = state.refs - 1]
<1>1. th[t] \in ThreadRec OBVIOUS
<1>2. rel \in Fences \cup {NoOne} OBVIOUS
<1>3. th' = [th EXCEPT ![t] = r] BY DEF PutFence
<1>4. fence' = [fence EXCEPT ![f] = s] BY DEF PutFence
<1>5. state.refs \in Nat BY DEF FenceRec
<1>6. s \in FenceRec /\ s.refs = state.refs - 1 /\ s.st = state.st /\ s.seqno = state.seqno
      /\ s.user = state.user /\ s.signaled = state.signaled
  <2>1. state.refs - 1 \in Nat BY <1>5
  <2> DEFINE k == state.refs - 1
  <2> HIDE DEF k
  <2>2. k \in Nat BY <2>1 DEF k
  <2>3. [state EXCEPT !.refs = k] \in FenceRec BY <2>2 DEF FenceRec
  <2>4. /\ [state EXCEPT !.refs = k].refs = k
        /\ [state EXCEPT !.refs = k].st = state.st
        /\ [state EXCEPT !.refs = k].seqno = state.seqno
    BY DEF FenceRec
  <2>5. /\ [state EXCEPT !.refs = k].user = state.user
        /\ [state EXCEPT !.refs = k].signaled = state.signaled
    BY DEF FenceRec
  <2> QED BY <2>3, <2>4, <2>5 DEF k
<1> HIDE DEF rel, s
<1>7. r \in ThreadRec /\ r.at = th[t].at /\ r.f = th[t].f /\ r.seqno = th[t].seqno
      /\ r.temp = temp /\ r.rel = rel /\ r.unlinked = th[t].unlinked
  BY <1>1, <1>2 DEF ThreadRec
<1> HIDE DEF r
<1>8. th' \in [Actors -> ThreadRec] /\ th'[t] = r /\ \A u \in Actors : u # t => th'[u] = th[u]
  BY <1>3, <1>7
<1>9. /\ fence' \in [Fences -> FenceRec] /\ fence'[f] = s
      /\ \A g \in Fences : g # f => fence'[g] = fence[g]
  BY <1>4, <1>6
<1> QED BY <1>6, <1>7, <1>8, <1>9 DEF Moves, Becomes, rel

\* A part of the list is taken over.
LEMMA TakeMoves ==
    ASSUME th \in [Actors -> ThreadRec], fence \in [Fences -> FenceRec],
           NEW t \in Actors, NEW temp \in Seq(Fences), NEW at \in Points,
           Take(t, temp, at)
    PROVE  /\ Moves(t, at, th[t].f, th[t].seqno, temp, th[t].rel, th[t].unlinked)
           /\ fence' \in [Fences -> FenceRec]
           /\ \A f \in Fences :
                /\ fence'[f].st = fence[f].st /\ fence'[f].seqno = fence[f].seqno
                /\ fence'[f].user = fence[f].user /\ fence'[f].signaled = fence[f].signaled
                /\ fence'[f].refs = fence[f].refs + (IF f \in ToSet(temp) THEN 1 ELSE 0)
<1> DEFINE r == [[th[t] EXCEPT !.temp = temp] EXCEPT !.at = at]
           s(f) == [fence[f] EXCEPT !.refs = fence[f].refs + 1]
<1>1. th[t] \in ThreadRec OBVIOUS
<1>3. th' = [th EXCEPT ![t] = r] BY DEF Take
<1>4. fence' = [f \in Fences |-> IF f \in ToSet(temp) THEN s(f) ELSE fence[f]] BY DEF Take
<1>6. ASSUME NEW f \in Fences
      PROVE  /\ s(f) \in FenceRec /\ s(f).refs = fence[f].refs + 1
             /\ s(f).st = fence[f].st /\ s(f).seqno = fence[f].seqno
             /\ s(f).user = fence[f].user /\ s(f).signaled = fence[f].signaled
  <2>1. fence[f] \in FenceRec /\ fence[f].refs \in Nat BY DEF FenceRec
  <2>2. fence[f].refs + 1 \in Nat BY <2>1
  <2> DEFINE k == fence[f].refs + 1
  <2> HIDE DEF k
  <2>3. k \in Nat BY <2>2 DEF k
  <2>4. [fence[f] EXCEPT !.refs = k] \in FenceRec BY <2>1, <2>3 DEF FenceRec
  <2>5. /\ [fence[f] EXCEPT !.refs = k].refs = k
        /\ [fence[f] EXCEPT !.refs = k].st = fence[f].st
        /\ [fence[f] EXCEPT !.refs = k].seqno = fence[f].seqno
    BY <2>1 DEF FenceRec
  <2>6. /\ [fence[f] EXCEPT !.refs = k].user = fence[f].user
        /\ [fence[f] EXCEPT !.refs = k].signaled = fence[f].signaled
    BY <2>1 DEF FenceRec
  <2> QED BY <2>4, <2>5, <2>6 DEF k
<1> HIDE DEF s
<1>7. r \in ThreadRec /\ r.at = at /\ r.f = th[t].f /\ r.seqno = th[t].seqno
      /\ r.temp = temp /\ r.rel = th[t].rel /\ r.unlinked = th[t].unlinked
  BY <1>1 DEF ThreadRec
<1> HIDE DEF r
<1>8. th' \in [Actors -> ThreadRec] /\ th'[t] = r /\ \A u \in Actors : u # t => th'[u] = th[u]
  BY <1>3, <1>7
<1>9. fence' \in [Fences -> FenceRec] BY <1>4, <1>6
<1>10. Moves(t, at, th[t].f, th[t].seqno, temp, th[t].rel, th[t].unlinked)
  BY <1>7, <1>8 DEF Moves
<1>11. \A f \in Fences : fence[f].refs \in Nat BY DEF FenceRec
<1>12. ASSUME NEW f \in Fences
       PROVE  /\ fence'[f].st = fence[f].st /\ fence'[f].seqno = fence[f].seqno
              /\ fence'[f].user = fence[f].user /\ fence'[f].signaled = fence[f].signaled
              /\ fence'[f].refs = fence[f].refs + (IF f \in ToSet(temp) THEN 1 ELSE 0)
  <2>1. fence'[f] = IF f \in ToSet(temp) THEN s(f) ELSE fence[f] BY <1>4
  <2> QED BY <1>6, <1>11, <2>1
<1> QED BY <1>9, <1>10, <1>12

-----------------------------------------------------------------------------
(* Counting.                                                               *)

\* A finite set and its size.
LEMMA Counts ==
    ASSUME NEW I, IsFiniteSet(I)
    PROVE  /\ Cardinality(I) \in Nat
           /\ Cardinality(I) = 0 <=> I = {}
           /\ \A x \in I : Cardinality(I) = 1 => I = {x}
<1>1. Cardinality(I) \in Nat /\ (Cardinality(I) = 0 <=> I = {})
  BY FS_CardinalityType, FS_EmptySet
<1>2. ASSUME NEW x \in I, Cardinality(I) = 1 PROVE I = {x}
  <2>1. IsFiniteSet(I \ {x}) /\ Cardinality(I \ {x}) = 0 BY <1>2, FS_RemoveElement
  <2>2. I \ {x} = {} BY <2>1, FS_EmptySet
  <2> QED BY <2>2
<1> QED BY <1>1, <1>2

LEMMA AllFinite ==
    /\ IsFiniteSet(InCall) /\ IsFiniteSet(Allocated) /\ IsFiniteSet(Actors)
    /\ \A f : /\ IsFiniteSet(Signalling(f)) /\ IsFiniteSet(Adding(f))
              /\ IsFiniteSet(Releasing(f))
<1>1. IsFiniteSet(Actors) BY TimelineAssumption, FS_Union DEF Actors
<1>2. InCall \in SUBSET Threads /\ Allocated \in SUBSET Fences BY DEF InCall, Allocated
<1>3. \A f : /\ Signalling(f) \in SUBSET Threads /\ Adding(f) \in SUBSET Threads
             /\ Releasing(f) \in SUBSET Actors
  BY DEF Signalling, Adding, Releasing
<1> QED BY <1>1, <1>2, <1>3, TimelineAssumption, FS_Subset

\* The references by name; the sizes of the sets of their owners are numbers.
LEMMA Sizes ==
    /\ Cardinality(InCall) \in Nat /\ Cardinality(Allocated) \in Nat
    /\ \A t \in InCall : Cardinality(InCall) >= 1
    /\ \A f \in Allocated : Cardinality(Allocated) >= 1
    /\ \A f : /\ Cardinality(Signalling(f)) \in Nat /\ Cardinality(Adding(f)) \in Nat
              /\ Cardinality(Releasing(f)) \in Nat
              /\ Cardinality(Signalling(f)) = 0 <=> Signalling(f) = {}
              /\ Cardinality(Adding(f)) = 0 <=> Adding(f) = {}
              /\ Cardinality(Releasing(f)) = 0 <=> Releasing(f) = {}
              /\ \A t \in Releasing(f) : Cardinality(Releasing(f)) = 1 => Releasing(f) = {t}
<1>1. /\ Cardinality(InCall) \in Nat /\ Cardinality(Allocated) \in Nat
      /\ \A t \in InCall : Cardinality(InCall) >= 1
      /\ \A f \in Allocated : Cardinality(Allocated) >= 1
  <2>1. /\ Cardinality(InCall) \in Nat /\ Cardinality(Allocated) \in Nat
        /\ Cardinality(InCall) = 0 <=> InCall = {}
        /\ Cardinality(Allocated) = 0 <=> Allocated = {}
    BY AllFinite, Counts
  <2> QED BY <2>1
<1>2. ASSUME NEW f
      PROVE  /\ Cardinality(Signalling(f)) \in Nat /\ Cardinality(Adding(f)) \in Nat
             /\ Cardinality(Releasing(f)) \in Nat
             /\ Cardinality(Signalling(f)) = 0 <=> Signalling(f) = {}
             /\ Cardinality(Adding(f)) = 0 <=> Adding(f) = {}
             /\ Cardinality(Releasing(f)) = 0 <=> Releasing(f) = {}
             /\ \A t \in Releasing(f) : Cardinality(Releasing(f)) = 1 => Releasing(f) = {t}
  BY AllFinite, Counts
<1> QED BY <1>1, <1>2

\* When one thread moves, only that one enters or leaves.
LEMMA ThreadMoved ==
    ASSUME NEW t \in Actors, \A u \in Actors : u # t => th'[u] = th[u]
    PROVE  /\ Cardinality(InCall)' = Cardinality(InCall)
                  + (IF t \in InCall' THEN 1 ELSE 0) - (IF t \in InCall THEN 1 ELSE 0)
           /\ \A f : /\ Cardinality(Signalling(f))' = Cardinality(Signalling(f))
                           + (IF t \in Signalling(f)' THEN 1 ELSE 0)
                           - (IF t \in Signalling(f) THEN 1 ELSE 0)
                     /\ Cardinality(Adding(f))' = Cardinality(Adding(f))
                           + (IF t \in Adding(f)' THEN 1 ELSE 0)
                           - (IF t \in Adding(f) THEN 1 ELSE 0)
                     /\ Cardinality(Releasing(f))' = Cardinality(Releasing(f))
                           + (IF t \in Releasing(f)' THEN 1 ELSE 0)
                           - (IF t \in Releasing(f) THEN 1 ELSE 0)
<1>1. InCall' \ {t} = InCall \ {t} BY DEF InCall, Actors
<1>2. ASSUME NEW f
      PROVE  /\ Signalling(f)' \ {t} = Signalling(f) \ {t}
             /\ Adding(f)' \ {t} = Adding(f) \ {t}
             /\ Releasing(f)' \ {t} = Releasing(f) \ {t}
  BY DEF Signalling, Adding, Releasing, Actors
<1>3. /\ Cardinality(InCall') = Cardinality(InCall)
             + (IF t \in InCall' THEN 1 ELSE 0) - (IF t \in InCall THEN 1 ELSE 0)
  BY <1>1, AllFinite, CountMoved
<1>4. ASSUME NEW f
      PROVE  /\ Cardinality(Signalling(f)') = Cardinality(Signalling(f))
                   + (IF t \in Signalling(f)' THEN 1 ELSE 0)
                   - (IF t \in Signalling(f) THEN 1 ELSE 0)
             /\ Cardinality(Adding(f)') = Cardinality(Adding(f))
                   + (IF t \in Adding(f)' THEN 1 ELSE 0)
                   - (IF t \in Adding(f) THEN 1 ELSE 0)
             /\ Cardinality(Releasing(f)') = Cardinality(Releasing(f))
                   + (IF t \in Releasing(f)' THEN 1 ELSE 0)
                   - (IF t \in Releasing(f) THEN 1 ELSE 0)
  BY <1>2, AllFinite, CountMoved
<1> QED BY <1>3, <1>4

LEMMA FenceMoved ==
    ASSUME NEW f \in Fences, \A g \in Fences : g # f => fence'[g].st = fence[g].st
    PROVE  Cardinality(Allocated)' = Cardinality(Allocated)
              + (IF f \in Allocated' THEN 1 ELSE 0) - (IF f \in Allocated THEN 1 ELSE 0)
<1>1. Allocated' \ {f} = Allocated \ {f} BY DEF Allocated
<1>2. Cardinality(Allocated') = Cardinality(Allocated)
              + (IF f \in Allocated' THEN 1 ELSE 0) - (IF f \in Allocated THEN 1 ELSE 0)
  BY <1>1, AllFinite, CountMoved
<1> QED BY <1>2

\* What the counts say of a fence: while something leads to it its count is
\* not 0, and who releases it is alone with it.
LEMMA Owned ==
    ASSUME IInv, NEW f \in Fences
    PROVE  /\ fence[f].refs \in Nat
           /\ fence[f].user => fence[f].refs >= 1
           /\ \A t \in Threads : f \in ToSet(th[t].temp) => fence[f].refs >= 1
           /\ \A t \in Actors : th[t].rel = f =>
                /\ fence[f].refs = 0 /\ ~fence[f].user
                /\ \A u \in Threads : f \notin ToSet(th[u].temp) /\ u \notin Adding(f)
                /\ \A u \in Actors : th[u].rel = f => u = t
<1>1. fence[f] \in FenceRec /\ fence[f].refs \in Nat /\ fence[f].user \in BOOLEAN
  BY DEF IInv, TypeOK, FenceRec
<1>2. /\ Cardinality(Signalling(f)) \in Nat /\ Cardinality(Adding(f)) \in Nat
      /\ Cardinality(Releasing(f)) \in Nat
      /\ Cardinality(Signalling(f)) = 0 <=> Signalling(f) = {}
      /\ Cardinality(Adding(f)) = 0 <=> Adding(f) = {}
      /\ Cardinality(Releasing(f)) = 0 <=> Releasing(f) = {}
      /\ \A t \in Releasing(f) : Cardinality(Releasing(f)) = 1 => Releasing(f) = {t}
  BY Sizes
<1>3. fence[f].st = "live" =>
        /\ fence[f].refs = (IF fence[f].user THEN 1 ELSE 0)
               + Cardinality(Signalling(f)) + Cardinality(Adding(f))
        /\ Cardinality(Releasing(f)) = (IF fence[f].refs = 0 THEN 1 ELSE 0)
  BY DEF IInv, FenceRefs
<1>4. fence[f].user => fence[f].refs >= 1
  BY <1>1, <1>2, <1>3 DEF IInv, Lives
<1>5. ASSUME NEW t \in Threads, f \in ToSet(th[t].temp) PROVE fence[f].refs >= 1
  <2>1. fence[f].st = "live" BY <1>5 DEF IInv, Lives
  <2>2. Signalling(f) # {} BY <1>5 DEF Signalling
  <2> QED BY <1>1, <1>2, <1>3, <2>1, <2>2
<1>6. ASSUME NEW t \in Actors, th[t].rel = f
      PROVE  /\ fence[f].refs = 0 /\ ~fence[f].user
             /\ \A u \in Threads : f \notin ToSet(th[u].temp) /\ u \notin Adding(f)
             /\ \A u \in Actors : th[u].rel = f => u = t
  <2>1. fence[f].st = "live"
    BY <1>6, TimelineAssumption DEF IInv, Lives
  <2>2. t \in Releasing(f) BY <1>6 DEF Releasing
  <2>3. fence[f].refs = 0 /\ Cardinality(Releasing(f)) = 1
    BY <1>1, <1>2, <1>3, <2>1, <2>2
  <2>4. ~fence[f].user BY <1>1, <1>4, <2>3
  <2>5. Signalling(f) = {} /\ Adding(f) = {}
    <3>1. 0 = 0 + Cardinality(Signalling(f)) + Cardinality(Adding(f))
      BY <1>3, <2>1, <2>3, <2>4
    <3>2. Cardinality(Signalling(f)) = 0 /\ Cardinality(Adding(f)) = 0 BY <1>2, <3>1
    <3> QED BY <1>2, <3>2
  <2>6. Releasing(f) = {t} BY <1>2, <2>2, <2>3
  <2>7. \A u \in Threads : f \notin ToSet(th[u].temp) BY <2>5 DEF Signalling
  <2>8. \A u \in Actors : th[u].rel = f => u = t BY <2>6 DEF Releasing
  <2> QED BY <2>3, <2>4, <2>5, <2>7, <2>8
<1> QED BY <1>1, <1>4, <1>5, <1>6

\* A step of a thread that keeps its list and releases nothing, and that leaves
\* the fences alone.
LEMMA PlainStep ==
    ASSUME IInv, NEW t \in Threads, NEW at, NEW f, NEW n,
           NEW temp, th[t].rel = NoOne, th[t].temp = temp,
           temp # <<>> => at \in {"signal_loop", "destroy_lock", "destroy_loop"},
           Moves(t, at, f, n, temp, NoOne, FALSE),
           fence' = fence, fences' = fences,
           at # "add", th[t].at \notin {"add", "collect"},
           IF at = "alloc" THEN f \in Fences /\ Fresh(f) ELSE f \in {th[t].f, NoOne},
           value' = value \/ at = "collect"
    PROVE  /\ FenceRefs' /\ Roles' /\ Makers' /\ Sorted' /\ Temps' /\ Lives' /\ Waiting'
           /\ fence' \in [Fences -> FenceRec] /\ fences' \in Seq(Fences)
           /\ th' \in [Actors -> ThreadRec]
           /\ Cardinality(InCall)' = Cardinality(InCall)
                  + (IF at \notin {"idle", "create"} THEN 1 ELSE 0)
                  - (IF th[t].at \notin {"idle", "create"} THEN 1 ELSE 0)
           /\ Cardinality(Allocated)' = Cardinality(Allocated)
<1> USE TimelineAssumption
<1>0. t \in Actors /\ t \notin Fences /\ NoOne \notin Actors BY DEF Actors
<1>1. /\ \A u \in Actors : u # t => th'[u] = th[u]
      /\ th'[t].at = at /\ th'[t].f = f /\ th'[t].temp = temp /\ th'[t].rel = NoOne
      /\ th'[t].unlinked = FALSE /\ th' \in [Actors -> ThreadRec]
  BY DEF Moves
<1>2. \A u \in Actors : /\ th'[u].temp = th[u].temp /\ th'[u].rel = th[u].rel
                        /\ th'[u].unlinked => th[u].unlinked
  BY <1>0, <1>1
<1>3. \A g : /\ Signalling(g)' = Signalling(g) /\ Releasing(g)' = Releasing(g)
             /\ Adding(g)' = Adding(g)
  BY <1>0, <1>1, <1>2 DEF Signalling, Releasing, Adding, Actors
<1>4. FenceRefs' BY <1>3 DEF IInv, FenceRefs
<1>5. Roles' BY <1>0, <1>1, <1>2 DEF IInv, Roles, Actors
<1>6. Makers'
  <2>1. \A u \in Threads : u # t => th'[u] = th[u] BY <1>1 DEF Actors
  <2>2. \A u \in Threads : u # t => th[u].f # f \/ f = NoOne
    BY DEF IInv, Makers, Fresh
  <2>3. \A u \in Threads : th'[u].temp = th[u].temp BY <1>2 DEF Actors
  <2> QED BY <1>1, <2>1, <2>2, <2>3 DEF IInv, Makers, Fresh
<1>7. Sorted' BY DEF IInv, Sorted, Seqno
<1>8. Temps' BY <1>0, <1>1, EmptyList DEF IInv, Temps, Actors
<1>9. Lives'
  <2>1. \A u \in Threads : u \in Actors BY DEF Actors
  <2> QED BY <1>2, <2>1 DEF IInv, Lives
<1>10. Waiting'
  <2> SUFFICES ASSUME NEW g \in Fences, fence[g].user, ~fence[g].signaled
               PROVE  /\ g \in ToSet(fences) \/ \E u \in Threads : g \in ToSet(th'[u].temp)
                      /\ g \in ToSet(fences) /\ Reached(g, value)'
                             => \E u \in Threads : th'[u].at = "collect"
    BY DEF Waiting
  <2>0. \A u \in Threads : u \in Actors BY DEF Actors
  <2>1. g \in ToSet(fences) \/ \E u \in Threads : g \in ToSet(th'[u].temp)
    BY <1>2, <2>0 DEF IInv, Waiting
  <2>2. CASE at = "collect" BY <1>1, <2>1, <2>2
  <2>3. CASE value' = value
    <3>1. Reached(g, value)' => Reached(g, value) BY <2>3 DEF Reached
    <3>2. \A u \in Threads : th[u].at = "collect" => u # t /\ th'[u] = th[u]
      BY <1>1, <2>0
    <3> QED BY <2>1, <3>1, <3>2 DEF IInv, Waiting
  <2> QED BY <2>2, <2>3
<1>11. /\ fence' \in [Fences -> FenceRec] /\ fences' \in Seq(Fences)
  BY DEF IInv, TypeOK
<1>12. Cardinality(InCall)' = Cardinality(InCall)
                  + (IF at \notin {"idle", "create"} THEN 1 ELSE 0)
                  - (IF th[t].at \notin {"idle", "create"} THEN 1 ELSE 0)
  <2>1. t \in InCall' <=> at \notin {"idle", "create"} BY <1>1 DEF InCall
  <2>2. t \in InCall <=> th[t].at \notin {"idle", "create"} BY DEF InCall
  <2> QED BY <1>0, <1>1, <2>1, <2>2, ThreadMoved
<1>13. Allocated' = Allocated BY DEF Allocated
<1> QED BY <1>1, <1>4, <1>5, <1>6, <1>7, <1>8, <1>9, <1>10, <1>11, <1>12, <1>13

\* The lists and the releases are of fences.
LEMMA TempsIn ==
    ASSUME IInv
    PROVE  /\ \A t \in Actors : \A f \in ToSet(th[t].temp) : f \in Fences
           /\ \A t \in Actors : th[t].rel # NoOne => th[t].rel \in Fences
           /\ \A f \in ToSet(fences) : f \in Fences
BY DEF IInv, TypeOK, ThreadRec, ToSet

LEMMA Calm ==
    ASSUME IInv, NEW t \in Threads, th[t].rel = NoOne
    PROVE  /\ t \in Actors /\ t \notin Fences /\ NoOne \notin Actors
           /\ th \in [Actors -> ThreadRec] /\ th[t] \in ThreadRec
           /\ th[t].unlinked = FALSE
           /\ th[t].at \notin {"signal_loop", "destroy_lock", "destroy_loop"}
                  => th[t].temp = <<>>
<1>1. t \in Actors /\ t \notin Fences /\ NoOne \notin Actors
  BY TimelineAssumption DEF Actors
<1>2. th \in [Actors -> ThreadRec] /\ th[t] \in ThreadRec BY <1>1 DEF IInv, TypeOK
<1>3. th[t].unlinked \in BOOLEAN BY <1>2 DEF ThreadRec
<1> QED BY <1>1, <1>2, <1>3 DEF IInv, Roles, Temps

LEMMA AllocStep ==
    ASSUME IInv, NEW t \in Threads, Alloc(t)
    PROVE  IInv'
<1> USE TimelineAssumption
<1>0. th[t].at = "idle" /\ idr = "none" /\ th[t].rel = NoOne BY DEF Alloc, At
<1>1. /\ t \in Actors /\ t \notin Fences /\ NoOne \notin Actors
      /\ th \in [Actors -> ThreadRec] /\ th[t] \in ThreadRec /\ th[t].unlinked = FALSE
      /\ th[t].temp = <<>>
  BY <1>0, Calm
<1>2. Moves(t, "create", th[t].f, th[t].seqno, <<>>, NoOne, FALSE)
  <2>1. Goto(t, "create") BY <1>0 DEF Alloc
  <2>2. "create" \in Points BY DEF Points
  <2> QED BY <1>0, <1>1, <2>1, <2>2, GotoMoves
<1>3. /\ FenceRefs' /\ Roles' /\ Makers' /\ Sorted' /\ Temps' /\ Lives' /\ Waiting'
      /\ fence' \in [Fences -> FenceRec] /\ fences' \in Seq(Fences)
      /\ th' \in [Actors -> ThreadRec]
      /\ Cardinality(InCall)' = Cardinality(InCall)
             + (IF "create" \notin {"idle", "create"} THEN 1 ELSE 0)
             - (IF th[t].at \notin {"idle", "create"} THEN 1 ELSE 0)
      /\ Cardinality(Allocated)' = Cardinality(Allocated)
  BY <1>0, <1>1, <1>2, PlainStep DEF Alloc
<1>4. /\ Cardinality(InCall) \in Nat /\ Cardinality(Allocated) \in Nat
      /\ \A u \in InCall : Cardinality(InCall) >= 1
  BY Sizes
<1>5. /\ th'[t].at = "create" /\ \A u \in Threads : u # t => th'[u].at = th[u].at
  BY <1>2 DEF Moves, Actors
<1>6. RefExact'
  <2>1. ref = (IF idr \in {"blank", "live"} THEN 1 ELSE 0)
              + Cardinality(InCall) + Cardinality(Allocated)
    BY DEF IInv, RefExact
  <2>2. ref' = (IF idr' \in {"blank", "live"} THEN 1 ELSE 0)
              + Cardinality(InCall)' + Cardinality(Allocated)'
    BY <1>0, <1>3, <1>4, <2>1 DEF Alloc, IInv, Created
  <2> QED BY <2>2 DEF RefExact
<1>7. Created' BY <1>0, <1>5 DEF Alloc, IInv, Created
<1>8. Locked' BY <1>0, <1>1, <1>5 DEF Alloc, IInv, Locked, Actors
<1>9. ref' \in Nat BY <1>0, <1>4 DEF Alloc, IInv, TypeOK, InCall
<1>10. TypeOK'
  BY <1>0, <1>3, <1>9 DEF Alloc, IInv, TypeOK
<1> QED BY <1>3, <1>6, <1>7, <1>8, <1>10 DEF IInv

LEMMA CommitStep ==
    ASSUME IInv, NEW t \in Threads, Commit(t)
    PROVE  IInv'
<1> USE TimelineAssumption
<1>0. th[t].at = "create" /\ th[t].rel = NoOne BY DEF Commit, At
<1>1. /\ t \in Actors /\ t \notin Fences /\ NoOne \notin Actors
      /\ th \in [Actors -> ThreadRec] /\ th[t] \in ThreadRec /\ th[t].unlinked = FALSE
      /\ th[t].temp = <<>>
  BY <1>0, Calm
<1>2. Moves(t, "idle", NoOne, 0, <<>>, NoOne, FALSE)
  <2>1. Return(t) BY DEF Commit
  <2> QED BY <1>1, <2>1, ReturnMoves
<1>3. /\ FenceRefs' /\ Roles' /\ Makers' /\ Sorted' /\ Temps' /\ Lives' /\ Waiting'
      /\ fence' \in [Fences -> FenceRec] /\ fences' \in Seq(Fences)
      /\ th' \in [Actors -> ThreadRec]
      /\ Cardinality(InCall)' = Cardinality(InCall)
             + (IF "idle" \notin {"idle", "create"} THEN 1 ELSE 0)
             - (IF th[t].at \notin {"idle", "create"} THEN 1 ELSE 0)
      /\ Cardinality(Allocated)' = Cardinality(Allocated)
  BY <1>0, <1>1, <1>2, PlainStep DEF Commit
<1>4. /\ Cardinality(InCall) \in Nat /\ Cardinality(Allocated) \in Nat
      /\ \A u \in InCall : Cardinality(InCall) >= 1
  BY Sizes
<1>5. /\ th'[t].at = "idle" /\ \A u \in Threads : u # t => th'[u].at = th[u].at
  BY <1>2 DEF Moves, Actors
<1>6. RefExact'
  <2>1. ref = (IF idr \in {"blank", "live"} THEN 1 ELSE 0)
              + Cardinality(InCall) + Cardinality(Allocated)
    BY DEF IInv, RefExact
  <2>2. ref' = (IF idr' \in {"blank", "live"} THEN 1 ELSE 0)
              + Cardinality(InCall)' + Cardinality(Allocated)'
    BY <1>0, <1>3, <1>4, <2>1 DEF Commit, IInv, Created
  <2> QED BY <2>2 DEF RefExact
<1>7. Created' BY <1>0, <1>5 DEF Commit, IInv, Created
<1>8. Locked' BY <1>0, <1>1, <1>5 DEF Commit, IInv, Locked, Actors
<1>9. ref' \in Nat BY <1>0, <1>4 DEF Commit, IInv, TypeOK, InCall
<1>10. TypeOK'
  BY <1>0, <1>3, <1>9 DEF Commit, IInv, TypeOK
<1> QED BY <1>3, <1>6, <1>7, <1>8, <1>10 DEF IInv

LEMMA DestroyStep ==
    ASSUME IInv, NEW t \in Threads, Destroy(t)
    PROVE  IInv'
<1> USE TimelineAssumption
<1>0. th[t].at = "idle" /\ idr = "live" /\ th[t].rel = NoOne BY DEF Destroy, At
<1>1. /\ t \in Actors /\ t \notin Fences /\ NoOne \notin Actors
      /\ th \in [Actors -> ThreadRec] /\ th[t] \in ThreadRec /\ th[t].unlinked = FALSE
      /\ th[t].temp = <<>>
  BY <1>0, Calm
<1>2. Moves(t, "sweep", th[t].f, th[t].seqno, <<>>, NoOne, FALSE)
  <2>1. Goto(t, "sweep") BY <1>0 DEF Destroy
  <2>2. "sweep" \in Points BY DEF Points
  <2> QED BY <1>0, <1>1, <2>1, <2>2, GotoMoves
<1>3. /\ FenceRefs' /\ Roles' /\ Makers' /\ Sorted' /\ Temps' /\ Lives' /\ Waiting'
      /\ fence' \in [Fences -> FenceRec] /\ fences' \in Seq(Fences)
      /\ th' \in [Actors -> ThreadRec]
      /\ Cardinality(InCall)' = Cardinality(InCall)
             + (IF "sweep" \notin {"idle", "create"} THEN 1 ELSE 0)
             - (IF th[t].at \notin {"idle", "create"} THEN 1 ELSE 0)
      /\ Cardinality(Allocated)' = Cardinality(Allocated)
  BY <1>0, <1>1, <1>2, PlainStep DEF Destroy
<1>4. /\ Cardinality(InCall) \in Nat /\ Cardinality(Allocated) \in Nat
      /\ \A u \in InCall : Cardinality(InCall) >= 1
  BY Sizes
<1>5. /\ th'[t].at = "sweep" /\ \A u \in Threads : u # t => th'[u].at = th[u].at
  BY <1>2 DEF Moves, Actors
<1>6. RefExact'
  <2>1. ref = (IF idr \in {"blank", "live"} THEN 1 ELSE 0)
              + Cardinality(InCall) + Cardinality(Allocated)
    BY DEF IInv, RefExact
  <2>2. ref' = (IF idr' \in {"blank", "live"} THEN 1 ELSE 0)
              + Cardinality(InCall)' + Cardinality(Allocated)'
    BY <1>0, <1>3, <1>4, <2>1 DEF Destroy
  <2> QED BY <2>2 DEF RefExact
<1>7. Created' BY <1>0, <1>5 DEF Destroy, IInv, Created
<1>8. Locked' BY <1>0, <1>1, <1>5 DEF Destroy, IInv, Locked, Actors
<1>9. ref' \in Nat BY <1>0, <1>4 DEF Destroy, IInv, TypeOK, InCall
<1>10. TypeOK'
  BY <1>0, <1>3, <1>9 DEF Destroy, IInv, TypeOK
<1> QED BY <1>3, <1>6, <1>7, <1>8, <1>10 DEF IInv

LEMMA PutStep ==
    ASSUME IInv, NEW t \in Threads, Put(t)
    PROVE  IInv'
<1> USE TimelineAssumption
<1>0. th[t].at = "put" /\ th[t].rel = NoOne BY DEF Put, At
<1>1. /\ t \in Actors /\ t \notin Fences /\ NoOne \notin Actors
      /\ th \in [Actors -> ThreadRec] /\ th[t] \in ThreadRec /\ th[t].unlinked = FALSE
      /\ th[t].temp = <<>>
  BY <1>0, Calm
<1>2. Moves(t, "idle", NoOne, 0, <<>>, NoOne, FALSE)
  <2>1. Return(t) BY DEF Put
  <2> QED BY <1>1, <2>1, ReturnMoves
<1>3. /\ FenceRefs' /\ Roles' /\ Makers' /\ Sorted' /\ Temps' /\ Lives' /\ Waiting'
      /\ fence' \in [Fences -> FenceRec] /\ fences' \in Seq(Fences)
      /\ th' \in [Actors -> ThreadRec]
      /\ Cardinality(InCall)' = Cardinality(InCall)
             + (IF "idle" \notin {"idle", "create"} THEN 1 ELSE 0)
             - (IF th[t].at \notin {"idle", "create"} THEN 1 ELSE 0)
      /\ Cardinality(Allocated)' = Cardinality(Allocated)
  BY <1>0, <1>1, <1>2, PlainStep DEF Put
<1>4. /\ Cardinality(InCall) \in Nat /\ Cardinality(Allocated) \in Nat
      /\ \A u \in InCall : Cardinality(InCall) >= 1
  BY Sizes
<1>5. /\ th'[t].at = "idle" /\ \A u \in Threads : u # t => th'[u].at = th[u].at
  BY <1>2 DEF Moves, Actors
<1>6. RefExact'
  <2>1. ref = (IF idr \in {"blank", "live"} THEN 1 ELSE 0)
              + Cardinality(InCall) + Cardinality(Allocated)
    BY DEF IInv, RefExact
  <2>2. ref' = (IF idr' \in {"blank", "live"} THEN 1 ELSE 0)
              + Cardinality(InCall)' + Cardinality(Allocated)'
    <3>1. Cardinality(InCall)' = Cardinality(InCall) - 1 BY <1>0, <1>3, <1>4
    <3>2. ref' = ref - 1 /\ idr' = idr BY DEF Put
    <3> QED BY <1>3, <1>4, <2>1, <3>1, <3>2
  <2> QED BY <2>2 DEF RefExact
<1>7. Created' BY <1>0, <1>5 DEF Put, IInv, Created
<1>8. Locked' BY <1>0, <1>1, <1>5 DEF Put, IInv, Locked, Actors
<1>9. ref' \in Nat
  <2>1. t \in InCall BY <1>0 DEF InCall
  <2>2. Cardinality(InCall) >= 1 BY <1>4, <2>1
  <2>3. ref >= 1 BY <1>4, <2>2 DEF IInv, RefExact
  <2>4. ref \in Nat /\ ref' = ref - 1 BY DEF Put, IInv, TypeOK
  <2> QED BY <2>3, <2>4
<1>10. TypeOK'
  BY <1>0, <1>3, <1>9 DEF Put, IInv, TypeOK
<1> QED BY <1>3, <1>6, <1>7, <1>8, <1>10 DEF IInv

LEMMA UnlockStep ==
    ASSUME IInv, NEW t \in Threads, Unlock(t)
    PROVE  IInv'
<1> USE TimelineAssumption
<1>0. th[t].at \in {"signal_loop", "destroy_loop"} /\ th[t].rel = NoOne BY DEF Unlock, At
<1>1. /\ t \in Actors /\ t \notin Fences /\ NoOne \notin Actors
      /\ th \in [Actors -> ThreadRec] /\ th[t] \in ThreadRec /\ th[t].unlinked = FALSE
      /\ th[t].temp = <<>>
  BY <1>0, Calm DEF Unlock
<1>2. Moves(t, "put", th[t].f, th[t].seqno, <<>>, NoOne, FALSE)
  <2>1. Goto(t, "put") BY <1>0 DEF Unlock
  <2>2. "put" \in Points BY DEF Points
  <2> QED BY <1>0, <1>1, <2>1, <2>2, GotoMoves
<1>3. /\ FenceRefs' /\ Roles' /\ Makers' /\ Sorted' /\ Temps' /\ Lives' /\ Waiting'
      /\ fence' \in [Fences -> FenceRec] /\ fences' \in Seq(Fences)
      /\ th' \in [Actors -> ThreadRec]
      /\ Cardinality(InCall)' = Cardinality(InCall)
             + (IF "put" \notin {"idle", "create"} THEN 1 ELSE 0)
             - (IF th[t].at \notin {"idle", "create"} THEN 1 ELSE 0)
      /\ Cardinality(Allocated)' = Cardinality(Allocated)
  BY <1>0, <1>1, <1>2, PlainStep DEF Unlock
<1>4. /\ Cardinality(InCall) \in Nat /\ Cardinality(Allocated) \in Nat
      /\ \A u \in InCall : Cardinality(InCall) >= 1
  BY Sizes
<1>5. /\ th'[t].at = "put" /\ \A u \in Threads : u # t => th'[u].at = th[u].at
  BY <1>2 DEF Moves, Actors
<1>6. RefExact'
  <2>1. ref = (IF idr \in {"blank", "live"} THEN 1 ELSE 0)
              + Cardinality(InCall) + Cardinality(Allocated)
    BY DEF IInv, RefExact
  <2>2. ref' = (IF idr' \in {"blank", "live"} THEN 1 ELSE 0)
              + Cardinality(InCall)' + Cardinality(Allocated)'
    BY <1>0, <1>3, <1>4, <2>1 DEF Unlock
  <2> QED BY <2>2 DEF RefExact
<1>7. Created' BY <1>0, <1>5 DEF Unlock, IInv, Created
<1>8. Locked' BY <1>0, <1>1, <1>5 DEF Unlock, IInv, Locked, Actors
<1>9. ref' \in Nat BY <1>0, <1>4 DEF Unlock, IInv, TypeOK, InCall
<1>10. TypeOK'
  BY <1>0, <1>3, <1>9 DEF Unlock, IInv, TypeOK
<1> QED BY <1>3, <1>6, <1>7, <1>8, <1>10 DEF IInv

LEMMA DestroyLockStep ==
    ASSUME IInv, NEW t \in Threads, DestroyLock(t)
    PROVE  IInv'
<1> USE TimelineAssumption
<1>0. th[t].at = "destroy_lock" /\ lock = NoOne /\ th[t].rel = NoOne BY DEF DestroyLock, At
<1>1. /\ t \in Actors /\ t \notin Fences /\ NoOne \notin Actors
      /\ th \in [Actors -> ThreadRec] /\ th[t] \in ThreadRec /\ th[t].unlinked = FALSE
      /\ TRUE
  BY <1>0, Calm
<1>2. Moves(t, "destroy_loop", th[t].f, th[t].seqno, th[t].temp, NoOne, FALSE)
  <2>1. Goto(t, "destroy_loop") BY <1>0 DEF DestroyLock
  <2>2. "destroy_loop" \in Points BY DEF Points
  <2> QED BY <1>0, <1>1, <2>1, <2>2, GotoMoves
<1>3. /\ FenceRefs' /\ Roles' /\ Makers' /\ Sorted' /\ Temps' /\ Lives' /\ Waiting'
      /\ fence' \in [Fences -> FenceRec] /\ fences' \in Seq(Fences)
      /\ th' \in [Actors -> ThreadRec]
      /\ Cardinality(InCall)' = Cardinality(InCall)
             + (IF "destroy_loop" \notin {"idle", "create"} THEN 1 ELSE 0)
             - (IF th[t].at \notin {"idle", "create"} THEN 1 ELSE 0)
      /\ Cardinality(Allocated)' = Cardinality(Allocated)
  BY <1>0, <1>1, <1>2, PlainStep DEF DestroyLock
<1>4. /\ Cardinality(InCall) \in Nat /\ Cardinality(Allocated) \in Nat
      /\ \A u \in InCall : Cardinality(InCall) >= 1
  BY Sizes
<1>5. /\ th'[t].at = "destroy_loop" /\ \A u \in Threads : u # t => th'[u].at = th[u].at
  BY <1>2 DEF Moves, Actors
<1>6. RefExact'
  <2>1. ref = (IF idr \in {"blank", "live"} THEN 1 ELSE 0)
              + Cardinality(InCall) + Cardinality(Allocated)
    BY DEF IInv, RefExact
  <2>2. ref' = (IF idr' \in {"blank", "live"} THEN 1 ELSE 0)
              + Cardinality(InCall)' + Cardinality(Allocated)'
    BY <1>0, <1>3, <1>4, <2>1 DEF DestroyLock
  <2> QED BY <2>2 DEF RefExact
<1>7. Created' BY <1>0, <1>5 DEF DestroyLock, IInv, Created
<1>8. Locked' BY <1>0, <1>1, <1>5 DEF DestroyLock, IInv, Locked, Actors
<1>9. ref' \in Nat BY <1>0, <1>4 DEF DestroyLock, IInv, TypeOK, InCall
<1>10. TypeOK'
  BY <1>0, <1>3, <1>9 DEF DestroyLock, IInv, TypeOK
<1> QED BY <1>3, <1>6, <1>7, <1>8, <1>10 DEF IInv

LEMMA SignalLateStep ==
    ASSUME IInv, NEW t \in Threads, th[t].seqno < value, SignalValue(t)
    PROVE  IInv'
<1> USE TimelineAssumption
<1>0. th[t].at = "signal" /\ th[t].rel = NoOne
  <2>1. th[t].at = "signal" /\ lock = NoOne /\ th[t].rel = NoOne BY DEF SignalValue, At
  <2>2. th[t] \in ThreadRec BY DEF IInv, TypeOK, Actors
  <2> QED BY <2>1, <2>2 DEF ThreadRec
<1>1. /\ t \in Actors /\ t \notin Fences /\ NoOne \notin Actors
      /\ th \in [Actors -> ThreadRec] /\ th[t] \in ThreadRec /\ th[t].unlinked = FALSE
      /\ th[t].temp = <<>>
  BY <1>0, Calm
<1>2. Moves(t, "put", th[t].f, th[t].seqno, <<>>, NoOne, FALSE)
  <2>1. Goto(t, "put") BY <1>0 DEF SignalValue
  <2>2. "put" \in Points BY DEF Points
  <2> QED BY <1>0, <1>1, <2>1, <2>2, GotoMoves
<1>3. /\ FenceRefs' /\ Roles' /\ Makers' /\ Sorted' /\ Temps' /\ Lives' /\ Waiting'
      /\ fence' \in [Fences -> FenceRec] /\ fences' \in Seq(Fences)
      /\ th' \in [Actors -> ThreadRec]
      /\ Cardinality(InCall)' = Cardinality(InCall)
             + (IF "put" \notin {"idle", "create"} THEN 1 ELSE 0)
             - (IF th[t].at \notin {"idle", "create"} THEN 1 ELSE 0)
      /\ Cardinality(Allocated)' = Cardinality(Allocated)
  BY <1>0, <1>1, <1>2, PlainStep DEF SignalValue
<1>4. /\ Cardinality(InCall) \in Nat /\ Cardinality(Allocated) \in Nat
      /\ \A u \in InCall : Cardinality(InCall) >= 1
  BY Sizes
<1>5. /\ th'[t].at = "put" /\ \A u \in Threads : u # t => th'[u].at = th[u].at
  BY <1>2 DEF Moves, Actors
<1>6. RefExact'
  <2>1. ref = (IF idr \in {"blank", "live"} THEN 1 ELSE 0)
              + Cardinality(InCall) + Cardinality(Allocated)
    BY DEF IInv, RefExact
  <2>2. ref' = (IF idr' \in {"blank", "live"} THEN 1 ELSE 0)
              + Cardinality(InCall)' + Cardinality(Allocated)'
    BY <1>0, <1>3, <1>4, <2>1 DEF SignalValue
  <2> QED BY <2>2 DEF RefExact
<1>7. Created' BY <1>0, <1>5 DEF SignalValue, IInv, Created
<1>8. Locked' BY <1>0, <1>1, <1>5 DEF SignalValue, IInv, Locked, Actors
<1>9. ref' \in Nat BY <1>0, <1>4 DEF SignalValue, IInv, TypeOK, InCall
<1>10. TypeOK'
  BY <1>0, <1>3, <1>9 DEF SignalValue, IInv, TypeOK
<1> QED BY <1>3, <1>6, <1>7, <1>8, <1>10 DEF IInv

LEMMA SignalValueStep ==
    ASSUME IInv, NEW t \in Threads, ~(th[t].seqno < value), SignalValue(t)
    PROVE  IInv'
<1> USE TimelineAssumption
<1>0. th[t].at = "signal" /\ lock = NoOne /\ th[t].seqno \in Values /\ th[t].rel = NoOne
  <2>1. th[t].at = "signal" /\ lock = NoOne /\ th[t].rel = NoOne BY DEF SignalValue, At
  <2>2. th[t] \in ThreadRec BY DEF IInv, TypeOK, Actors
  <2> QED BY <2>1, <2>2 DEF ThreadRec
<1>1. /\ t \in Actors /\ t \notin Fences /\ NoOne \notin Actors
      /\ th \in [Actors -> ThreadRec] /\ th[t] \in ThreadRec /\ th[t].unlinked = FALSE
      /\ th[t].temp = <<>>
  BY <1>0, Calm
<1>2. Moves(t, "collect", th[t].f, th[t].seqno, <<>>, NoOne, FALSE)
  <2>1. Goto(t, "collect") BY <1>0 DEF SignalValue
  <2>2. "collect" \in Points BY DEF Points
  <2> QED BY <1>0, <1>1, <2>1, <2>2, GotoMoves
<1>3. /\ FenceRefs' /\ Roles' /\ Makers' /\ Sorted' /\ Temps' /\ Lives' /\ Waiting'
      /\ fence' \in [Fences -> FenceRec] /\ fences' \in Seq(Fences)
      /\ th' \in [Actors -> ThreadRec]
      /\ Cardinality(InCall)' = Cardinality(InCall)
             + (IF "collect" \notin {"idle", "create"} THEN 1 ELSE 0)
             - (IF th[t].at \notin {"idle", "create"} THEN 1 ELSE 0)
      /\ Cardinality(Allocated)' = Cardinality(Allocated)
  BY <1>0, <1>1, <1>2, PlainStep DEF SignalValue
<1>4. /\ Cardinality(InCall) \in Nat /\ Cardinality(Allocated) \in Nat
      /\ \A u \in InCall : Cardinality(InCall) >= 1
  BY Sizes
<1>5. /\ th'[t].at = "collect" /\ \A u \in Threads : u # t => th'[u].at = th[u].at
  BY <1>2 DEF Moves, Actors
<1>6. RefExact'
  <2>1. ref = (IF idr \in {"blank", "live"} THEN 1 ELSE 0)
              + Cardinality(InCall) + Cardinality(Allocated)
    BY DEF IInv, RefExact
  <2>2. ref' = (IF idr' \in {"blank", "live"} THEN 1 ELSE 0)
              + Cardinality(InCall)' + Cardinality(Allocated)'
    BY <1>0, <1>3, <1>4, <2>1 DEF SignalValue
  <2> QED BY <2>2 DEF RefExact
<1>7. Created' BY <1>0, <1>5 DEF SignalValue, IInv, Created
<1>8. Locked' BY <1>0, <1>1, <1>5 DEF SignalValue, IInv, Locked, Actors
<1>9. ref' \in Nat BY <1>0, <1>4 DEF SignalValue, IInv, TypeOK, InCall
<1>10. TypeOK'
  BY <1>0, <1>3, <1>9 DEF SignalValue, IInv, TypeOK
<1> QED BY <1>3, <1>6, <1>7, <1>8, <1>10 DEF IInv

LEMMA BySignalStep ==
    ASSUME IInv, NEW t \in Threads, NEW n \in Values, ById(t, "signal", NoOne, n)
    PROVE  IInv'
<1> USE TimelineAssumption
<1>0. th[t].at = "idle" /\ th[t].rel = NoOne BY DEF ById, At
<1>1. /\ t \in Actors /\ t \notin Fences /\ NoOne \notin Actors
      /\ th \in [Actors -> ThreadRec] /\ th[t] \in ThreadRec /\ th[t].unlinked = FALSE
      /\ th[t].temp = <<>>
  BY <1>0, Calm
<1>2. Moves(t, "signal", NoOne, n, <<>>, NoOne, FALSE)
  <2> DEFINE r == [[[Ready EXCEPT !.at = "signal"] EXCEPT !.f = NoOne] EXCEPT !.seqno = n]
  <2>1. th' = [th EXCEPT ![t] = r] BY DEF ById
  <2>2. /\ r \in ThreadRec /\ r.at = "signal" /\ r.f = NoOne /\ r.seqno = n
        /\ r.temp = <<>> /\ r.rel = NoOne /\ r.unlinked = FALSE
    BY EmptyList DEF Ready, ThreadRec, Points
  <2> HIDE DEF r
  <2>3. /\ th' \in [Actors -> ThreadRec] /\ th'[t] = r
        /\ \A u \in Actors : u # t => th'[u] = th[u]
    BY <1>1, <2>1, <2>2
  <2> QED BY <2>2, <2>3 DEF Moves
<1>3. /\ FenceRefs' /\ Roles' /\ Makers' /\ Sorted' /\ Temps' /\ Lives' /\ Waiting'
      /\ fence' \in [Fences -> FenceRec] /\ fences' \in Seq(Fences)
      /\ th' \in [Actors -> ThreadRec]
      /\ Cardinality(InCall)' = Cardinality(InCall)
             + (IF "signal" \notin {"idle", "create"} THEN 1 ELSE 0)
             - (IF th[t].at \notin {"idle", "create"} THEN 1 ELSE 0)
      /\ Cardinality(Allocated)' = Cardinality(Allocated)
  BY <1>0, <1>1, <1>2, PlainStep DEF ById
<1>4. /\ Cardinality(InCall) \in Nat /\ Cardinality(Allocated) \in Nat
      /\ \A u \in InCall : Cardinality(InCall) >= 1
  BY Sizes
<1>5. /\ th'[t].at = "signal" /\ \A u \in Threads : u # t => th'[u].at = th[u].at
  BY <1>2 DEF Moves, Actors
<1>6. RefExact'
  <2>1. ref = (IF idr \in {"blank", "live"} THEN 1 ELSE 0)
              + Cardinality(InCall) + Cardinality(Allocated)
    BY DEF IInv, RefExact
  <2>2. ref' = (IF idr' \in {"blank", "live"} THEN 1 ELSE 0)
              + Cardinality(InCall)' + Cardinality(Allocated)'
    BY <1>0, <1>3, <1>4, <2>1 DEF ById
  <2> QED BY <2>2 DEF RefExact
<1>7. Created' BY <1>0, <1>5 DEF ById, IInv, Created
<1>8. Locked' BY <1>0, <1>1, <1>5 DEF ById, IInv, Locked, Actors
<1>9. ref' \in Nat BY <1>0, <1>4 DEF ById, IInv, TypeOK, InCall
<1>10. TypeOK'
  BY <1>0, <1>3, <1>9 DEF ById, IInv, TypeOK
<1> QED BY <1>3, <1>6, <1>7, <1>8, <1>10 DEF IInv

LEMMA ByAllocStep ==
    ASSUME IInv, NEW t \in Threads, NEW n \in Values, NEW f \in Fences, Fresh(f), ById(t, "alloc", f, n)
    PROVE  IInv'
<1> USE TimelineAssumption
<1>0. th[t].at = "idle" /\ th[t].rel = NoOne BY DEF ById, At
<1>1. /\ t \in Actors /\ t \notin Fences /\ NoOne \notin Actors
      /\ th \in [Actors -> ThreadRec] /\ th[t] \in ThreadRec /\ th[t].unlinked = FALSE
      /\ th[t].temp = <<>>
  BY <1>0, Calm
<1>2. Moves(t, "alloc", f, n, <<>>, NoOne, FALSE)
  <2> DEFINE r == [[[Ready EXCEPT !.at = "alloc"] EXCEPT !.f = f] EXCEPT !.seqno = n]
  <2>1. th' = [th EXCEPT ![t] = r] BY DEF ById
  <2>2. /\ r \in ThreadRec /\ r.at = "alloc" /\ r.f = f /\ r.seqno = n
        /\ r.temp = <<>> /\ r.rel = NoOne /\ r.unlinked = FALSE
    BY EmptyList DEF Ready, ThreadRec, Points
  <2> HIDE DEF r
  <2>3. /\ th' \in [Actors -> ThreadRec] /\ th'[t] = r
        /\ \A u \in Actors : u # t => th'[u] = th[u]
    BY <1>1, <2>1, <2>2
  <2> QED BY <2>2, <2>3 DEF Moves
<1>3. /\ FenceRefs' /\ Roles' /\ Makers' /\ Sorted' /\ Temps' /\ Lives' /\ Waiting'
      /\ fence' \in [Fences -> FenceRec] /\ fences' \in Seq(Fences)
      /\ th' \in [Actors -> ThreadRec]
      /\ Cardinality(InCall)' = Cardinality(InCall)
             + (IF "alloc" \notin {"idle", "create"} THEN 1 ELSE 0)
             - (IF th[t].at \notin {"idle", "create"} THEN 1 ELSE 0)
      /\ Cardinality(Allocated)' = Cardinality(Allocated)
  BY <1>0, <1>1, <1>2, PlainStep DEF ById
<1>4. /\ Cardinality(InCall) \in Nat /\ Cardinality(Allocated) \in Nat
      /\ \A u \in InCall : Cardinality(InCall) >= 1
  BY Sizes
<1>5. /\ th'[t].at = "alloc" /\ \A u \in Threads : u # t => th'[u].at = th[u].at
  BY <1>2 DEF Moves, Actors
<1>6. RefExact'
  <2>1. ref = (IF idr \in {"blank", "live"} THEN 1 ELSE 0)
              + Cardinality(InCall) + Cardinality(Allocated)
    BY DEF IInv, RefExact
  <2>2. ref' = (IF idr' \in {"blank", "live"} THEN 1 ELSE 0)
              + Cardinality(InCall)' + Cardinality(Allocated)'
    BY <1>0, <1>3, <1>4, <2>1 DEF ById
  <2> QED BY <2>2 DEF RefExact
<1>7. Created' BY <1>0, <1>5 DEF ById, IInv, Created
<1>8. Locked' BY <1>0, <1>1, <1>5 DEF ById, IInv, Locked, Actors
<1>9. ref' \in Nat BY <1>0, <1>4 DEF ById, IInv, TypeOK, InCall
<1>10. TypeOK'
  BY <1>0, <1>3, <1>9 DEF ById, IInv, TypeOK
<1> QED BY <1>3, <1>6, <1>7, <1>8, <1>10 DEF IInv

-----------------------------------------------------------------------------
(* The steps that change fences and lists.                                 *)

LEMMA FenceAllocStep ==
    ASSUME IInv, NEW t \in Threads, FenceAlloc(t)
    PROVE  IInv'
<1> USE TimelineAssumption
<1> DEFINE f == th[t].f
<1>0. th[t].at = "alloc" /\ th[t].rel = NoOne BY DEF FenceAlloc, At
<1>1. /\ t \in Actors /\ t \notin Fences /\ NoOne \notin Actors
      /\ th \in [Actors -> ThreadRec] /\ th[t] \in ThreadRec /\ th[t].unlinked = FALSE
      /\ th[t].temp = <<>> /\ \A u \in Threads \cup Fences : u \in Actors
  BY <1>0, Calm DEF Actors
<1>2. f \in Fences /\ fence[f].st = "unused" /\ th[t].seqno \in Values
  BY <1>0, <1>1 DEF IInv, Makers, ThreadRec
<1> HIDE DEF f
<1>3. Moves(t, "add", f, th[t].seqno, <<>>, NoOne, FALSE)
  <2>1. Goto(t, "add") BY <1>0 DEF FenceAlloc
  <2>2. "add" \in Points BY DEF Points
  <2> QED BY <1>0, <1>1, <2>1, <2>2, GotoMoves DEF f
<1>4. Becomes(f, "live", th[t].seqno, 1, FALSE, FALSE)
  <2> DEFINE s == [[[NoFence EXCEPT !.st = "live"] EXCEPT !.seqno = th[t].seqno]
                       EXCEPT !.refs = 1]
  <2>1. fence' = [fence EXCEPT ![f] = s] BY DEF FenceAlloc, f
  <2>2. /\ s \in FenceRec /\ s.st = "live" /\ s.seqno = th[t].seqno /\ s.refs = 1
        /\ s.user = FALSE /\ s.signaled = FALSE
    BY <1>2 DEF NoFence, FenceRec
  <2> HIDE DEF s
  <2>3. fence \in [Fences -> FenceRec] BY DEF IInv, TypeOK
  <2>4. /\ fence' \in [Fences -> FenceRec] /\ fence'[f] = s
        /\ \A g \in Fences : g # f => fence'[g] = fence[g]
    BY <1>2, <2>1, <2>2, <2>3
  <2> QED BY <2>2, <2>4 DEF Becomes
<1>5. /\ \A u \in Actors : u # t => th'[u] = th[u]
      /\ th'[t].at = "add" /\ th'[t].f = f /\ th'[t].temp = <<>> /\ th'[t].rel = NoOne
      /\ th'[t].unlinked = FALSE /\ th' \in [Actors -> ThreadRec]
  BY <1>3 DEF Moves
<1>6. /\ \A g \in Fences : g # f => fence'[g] = fence[g]
      /\ fence'[f].st = "live" /\ fence'[f].refs = 1 /\ fence'[f].user = FALSE
      /\ fence'[f].signaled = FALSE /\ fence' \in [Fences -> FenceRec]
  BY <1>4 DEF Becomes
<1>7. /\ \A u \in Actors : /\ th'[u].temp = th[u].temp /\ th'[u].rel = th[u].rel
                           /\ th'[u].f = th[u].f
                           /\ th'[u].unlinked = th[u].unlinked
      /\ fences' = fences /\ ref' = ref + 1 /\ idr' = idr /\ value' = value /\ lock' = lock
  BY <1>0, <1>1, <1>5 DEF FenceAlloc, f
<1>8. /\ \A u \in Threads : f \notin ToSet(th[u].temp)
      /\ f \notin ToSet(fences) /\ \A u \in Actors : th[u].rel # f
  BY <1>2 DEF IInv, Lives
<1>9. FenceRefs'
  <2> SUFFICES ASSUME NEW g \in Fences, fence'[g].st = "live"
               PROVE  /\ fence'[g].refs = (IF fence'[g].user THEN 1 ELSE 0)
                           + Cardinality(Signalling(g)') + Cardinality(Adding(g)')
                      /\ Cardinality(Releasing(g)') = (IF fence'[g].refs = 0 THEN 1 ELSE 0)
    BY DEF FenceRefs
  <2>1. Signalling(g)' = Signalling(g) /\ Releasing(g)' = Releasing(g)
    BY <1>1, <1>7 DEF Signalling, Releasing
  <2>2. CASE g # f
    <3>1. Adding(g)' = Adding(g) BY <1>0, <1>1, <1>5, <2>2 DEF Adding, f
    <3> QED BY <1>6, <2>1, <2>2, <3>1 DEF IInv, FenceRefs
  <2>3. CASE g = f
    <3>1. Signalling(g) = {} /\ Releasing(g) = {}
      BY <1>8, <2>3 DEF Signalling, Releasing
    <3>2. Adding(g)' = {t}
      BY <1>1, <1>2, <1>5, <1>7, <2>3 DEF Adding, IInv, Makers, f
    <3>3. Cardinality(Adding(g)') = 1 BY <3>2, FS_Singleton
    <3>4. Cardinality(Signalling(g)') = 0 /\ Cardinality(Releasing(g)') = 0
      BY <2>1, <3>1, FS_EmptySet
    <3> QED BY <1>6, <2>3, <3>3, <3>4
  <2> QED BY <2>2, <2>3
<1>10. Roles' BY <1>0, <1>1, <1>5, <1>7 DEF IInv, Roles
<1>11. Makers'
  <2>1. \A u \in Threads : u # t => th'[u] = th[u] /\ (th[u].f # f)
    BY <1>1, <1>2, <1>5 DEF IInv, Makers, f
  <2>2. \A u \in Threads : th'[u].temp = th[u].temp BY <1>1, <1>7
  <2> QED BY <1>2, <1>5, <1>6, <1>7, <1>8, <2>1, <2>2 DEF IInv, Makers, f
<1>12. Sorted'
  <2>1. \A i \in DOMAIN fences : fences[i] \in Fences /\ fences[i] # f
    BY <1>8 DEF ToSet, IInv, TypeOK
  <2>2. \A i \in DOMAIN fences : Seqno'[fences[i]] = Seqno[fences[i]]
    BY <1>6, <2>1 DEF Seqno
  <2>3. Ordered(fences, Seqno') BY <2>2 DEF IInv, Sorted, Ordered
  <2> QED BY <1>7, <2>3 DEF IInv, Sorted
<1>13. Temps' BY <1>1, <1>5, <1>7, EmptyList DEF IInv, Temps
<1>14. Lives'
  <2>1. \A g \in Fences : fence[g].st = "live" => fence'[g].st = "live" BY <1>2, <1>6
  <2>2. \A g \in Fences : fence'[g].user \/ g \in ToSet(fences') => fence'[g].st = "live"
    BY <1>6, <1>7, <1>8 DEF IInv, Lives
  <2>3. \A u \in Threads : \A g \in ToSet(th'[u].temp) : fence'[g].st = "live"
    BY <1>1, <1>7, <2>1, TempsIn DEF IInv, Lives
  <2>4. \A u \in Actors : th'[u].rel # NoOne =>
        /\ fence'[th'[u].rel].st = "live"
        /\ th'[u].unlinked => th'[u].rel \notin ToSet(fences')
    BY <1>1, <1>7, <2>1, TempsIn DEF IInv, Lives
  <2> QED BY <2>2, <2>3, <2>4 DEF Lives
<1>15. Created' BY <1>0, <1>1, <1>5, <1>7 DEF IInv, Created
<1>16. Locked' BY <1>0, <1>1, <1>5, <1>7 DEF IInv, Locked
<1>17. Waiting'
  <2> SUFFICES ASSUME NEW g \in Fences, fence'[g].user, ~fence'[g].signaled
               PROVE  /\ g \in ToSet(fences') \/ \E u \in Threads : g \in ToSet(th'[u].temp)
                      /\ g \in ToSet(fences') /\ Reached(g, value)'
                             => \E u \in Threads : th'[u].at = "collect"
    BY DEF Waiting
  <2>1. g # f /\ fence'[g] = fence[g] BY <1>6
  <2>2. Reached(g, value)' <=> Reached(g, value) BY <1>7, <2>1 DEF Reached
  <2>3. \A u \in Threads : th[u].at = "collect" => th'[u].at = "collect"
    BY <1>0, <1>1, <1>5
  <2> QED BY <1>1, <1>7, <2>1, <2>2, <2>3 DEF IInv, Waiting
<1>18. RefExact'
  <2>1. InCall' = InCall BY <1>0, <1>1, <1>5 DEF InCall
  <2>2. Cardinality(Allocated)' = Cardinality(Allocated) + 1
    <3>1. f \in Allocated' /\ f \notin Allocated BY <1>2, <1>6 DEF Allocated
    <3> QED BY <1>2, <1>6, <3>1, FenceMoved, Sizes
  <2> QED BY <1>7, <2>1, <2>2, Sizes DEF IInv, RefExact
<1>19. TypeOK' BY <1>5, <1>6, <1>7 DEF IInv, TypeOK
<1> QED
  BY <1>9, <1>10, <1>11, <1>12, <1>13, <1>14, <1>15, <1>16, <1>17, <1>18, <1>19 DEF IInv

LEMMA FenceAddStep ==
    ASSUME IInv, NEW t \in Threads, FenceAdd(t)
    PROVE  IInv'
<1> USE TimelineAssumption
<1> DEFINE f == th[t].f
           R == Reached(f, value)
<1>0. th[t].at = "add" /\ th[t].rel = NoOne BY DEF FenceAdd, At
<1>1. /\ t \in Actors /\ t \notin Fences /\ NoOne \notin Actors
      /\ th \in [Actors -> ThreadRec] /\ th[t] \in ThreadRec /\ th[t].unlinked = FALSE
      /\ th[t].temp = <<>> /\ \A u \in Threads \cup Fences : u \in Actors
  BY <1>0, Calm DEF Actors
<1>2. /\ f \in Fences /\ fence[f].st = "live" /\ ~fence[f].user
      /\ f \notin ToSet(fences) /\ R \in BOOLEAN
  BY <1>0, <1>1 DEF IInv, Makers, Reached
<1>a. /\ fences' = (IF R THEN fences ELSE AddFence(f))
      /\ fence' = [fence EXCEPT ![f].signaled = R, ![f].user = TRUE]
      /\ Goto(t, "put") /\ idr' = idr /\ ref' = ref /\ value' = value /\ lock' = lock
  BY DEF FenceAdd
<1> HIDE DEF f, R
<1>3. Moves(t, "put", f, th[t].seqno, <<>>, NoOne, FALSE)
  <2>2. "put" \in Points BY DEF Points
  <2> QED BY <1>0, <1>1, <1>a, <2>2, GotoMoves DEF f
<1>4. Becomes(f, "live", fence[f].seqno, fence[f].refs, TRUE, R)
  <2> DEFINE s == [[fence[f] EXCEPT !.signaled = R] EXCEPT !.user = TRUE]
  <2>3. fence \in [Fences -> FenceRec] BY DEF IInv, TypeOK
  <2>1. fence' = [fence EXCEPT ![f] = s] BY <1>2, <1>a, <2>3
  <2>2. /\ s \in FenceRec /\ s.st = "live" /\ s.seqno = fence[f].seqno
        /\ s.refs = fence[f].refs /\ s.user = TRUE /\ s.signaled = R
    <3>1. fence[f] \in FenceRec BY <1>2, <2>3
    <3> QED BY <1>2, <3>1 DEF FenceRec
  <2> HIDE DEF s
  <2>4. /\ fence' \in [Fences -> FenceRec] /\ fence'[f] = s
        /\ \A g \in Fences : g # f => fence'[g] = fence[g]
    BY <1>2, <2>1, <2>2, <2>3
  <2> QED BY <2>2, <2>4 DEF Becomes
<1>5. /\ \A u \in Actors : u # t => th'[u] = th[u]
      /\ th'[t].at = "put" /\ th'[t].f = f /\ th'[t].temp = <<>> /\ th'[t].rel = NoOne
      /\ th'[t].unlinked = FALSE /\ th' \in [Actors -> ThreadRec]
  BY <1>3 DEF Moves
<1>6. /\ \A g \in Fences : g # f => fence'[g] = fence[g]
      /\ fence'[f].st = "live" /\ fence'[f].refs = fence[f].refs /\ fence'[f].user = TRUE
      /\ fence'[f].signaled = R /\ fence' \in [Fences -> FenceRec]
      /\ fence'[f].seqno = fence[f].seqno
  BY <1>4 DEF Becomes
<1>7. /\ \A u \in Actors : /\ th'[u].temp = th[u].temp /\ th'[u].rel = th[u].rel
                           /\ th'[u].f = th[u].f
                           /\ th'[u].unlinked = th[u].unlinked
  BY <1>0, <1>1, <1>5 DEF f
<1>8. /\ fences' \in Seq(Fences) /\ Distinct(fences') /\ Ordered(fences', Seqno)
      /\ ToSet(fences') = ToSet(fences) \cup (IF R THEN {} ELSE {f})
  <2>1. /\ fences \in Seq(Fences) /\ fence \in [Fences -> FenceRec]
        /\ Distinct(fences) /\ Ordered(fences, Seqno)
    BY DEF IInv, TypeOK, Sorted
  <2>2. /\ AddFence(f) \in Seq(Fences)
        /\ ToSet(AddFence(f)) = ToSet(fences) \cup {f}
        /\ Distinct(AddFence(f)) /\ Ordered(AddFence(f), Seqno)
    BY <1>2, <2>1, AddedFence
  <2> QED BY <1>a, <2>1, <2>2
<1>9. FenceRefs'
  <2> SUFFICES ASSUME NEW g \in Fences, fence'[g].st = "live"
               PROVE  /\ fence'[g].refs = (IF fence'[g].user THEN 1 ELSE 0)
                           + Cardinality(Signalling(g)') + Cardinality(Adding(g)')
                      /\ Cardinality(Releasing(g)') = (IF fence'[g].refs = 0 THEN 1 ELSE 0)
    BY DEF FenceRefs
  <2>1. Signalling(g)' = Signalling(g) /\ Releasing(g)' = Releasing(g)
    BY <1>1, <1>7 DEF Signalling, Releasing
  <2>2. CASE g # f
    <3>1. Adding(g)' = Adding(g) BY <1>0, <1>1, <1>5, <2>2 DEF Adding, f
    <3> QED BY <1>6, <2>1, <2>2, <3>1 DEF IInv, FenceRefs
  <2>3. CASE g = f
    <3>1. /\ fence[g].refs = 0 + Cardinality(Signalling(g)) + Cardinality(Adding(g))
          /\ Cardinality(Releasing(g)) = (IF fence[g].refs = 0 THEN 1 ELSE 0)
      BY <1>2, <2>3 DEF IInv, FenceRefs
    <3>2. Adding(g) = {t} /\ Adding(g)' = {}
      BY <1>0, <1>1, <1>2, <1>5, <1>7, <2>3 DEF Adding, IInv, Makers, f
    <3>3. Cardinality(Adding(g)) = 1 BY <3>2, FS_Singleton
    <3>4. Cardinality(Adding(g)') = 0 BY <3>2, FS_EmptySet
    <3>5. Cardinality(Signalling(g)) \in Nat BY Sizes
    <3>6. fence'[g].refs = 1 + Cardinality(Signalling(g)') + Cardinality(Adding(g)')
      BY <1>6, <2>1, <2>3, <3>1, <3>3, <3>4, <3>5
    <3> QED BY <1>6, <2>1, <2>3, <3>1, <3>6
  <2> QED BY <2>2, <2>3
<1>10. Roles' BY <1>0, <1>1, <1>5, <1>7 DEF IInv, Roles
<1>11. Makers'
  <2>1. \A u \in Threads : u # t => th'[u] = th[u] /\ (th[u].f # f)
    BY <1>1, <1>2, <1>5 DEF IInv, Makers, f
  <2>2. \A u \in Threads : u # t => (th[u].f \in ToSet(fences') => th[u].f \in ToSet(fences))
    BY <1>8, <2>1
  <2>3. \A u \in Threads : th'[u].temp = th[u].temp BY <1>1, <1>7
  <2> QED BY <1>2, <1>5, <1>6, <1>7, <2>1, <2>2, <2>3 DEF IInv, Makers, f
<1>12. Sorted'
  <2>1. \A g \in Fences : fence'[g].seqno = fence[g].seqno BY <1>6
  <2>2. Seqno' = Seqno BY <2>1 DEF Seqno
  <2> QED BY <1>8, <2>2 DEF Sorted
<1>13. Temps' BY <1>1, <1>5, <1>7, EmptyList DEF IInv, Temps
<1>14. Lives'
  <2>1. \A g \in Fences : fence[g].st = "live" => fence'[g].st = "live" BY <1>2, <1>6
  <2>2. \A g \in Fences : fence'[g].user \/ g \in ToSet(fences') => fence'[g].st = "live"
    BY <1>6, <1>8 DEF IInv, Lives
  <2>3. \A u \in Threads : \A g \in ToSet(th'[u].temp) : fence'[g].st = "live"
    BY <1>1, <1>7, <2>1, TempsIn DEF IInv, Lives
  <2>4. \A u \in Actors : th[u].rel # f
    <3>1. t \in Adding(f) BY <1>0 DEF Adding, f
    <3> QED BY <1>2, <3>1, Owned
  <2>5. \A u \in Actors : th'[u].rel # NoOne =>
        /\ fence'[th'[u].rel].st = "live"
        /\ th'[u].unlinked => th'[u].rel \notin ToSet(fences')
    BY <1>1, <1>7, <1>8, <2>1, <2>4, TempsIn DEF IInv, Lives
  <2> QED BY <2>2, <2>3, <2>5 DEF Lives
<1>15. Created' BY <1>0, <1>1, <1>5, <1>a DEF IInv, Created
<1>16. Locked' BY <1>0, <1>1, <1>5, <1>a DEF IInv, Locked
<1>17. Waiting'
  <2> SUFFICES ASSUME NEW g \in Fences, fence'[g].user, ~fence'[g].signaled
               PROVE  /\ g \in ToSet(fences') \/ \E u \in Threads : g \in ToSet(th'[u].temp)
                      /\ g \in ToSet(fences') /\ Reached(g, value)'
                             => \E u \in Threads : th'[u].at = "collect"
    BY DEF Waiting
  <2>1. fence'[g].seqno = fence[g].seqno BY <1>6
  <2>2. Reached(g, value)' <=> Reached(g, value) BY <1>a, <2>1 DEF Reached
  <2>3. CASE g = f BY <1>6, <1>8, <2>2, <2>3 DEF R
  <2>4. CASE g # f
    <3>1. \A u \in Threads : th[u].at = "collect" => th'[u].at = "collect"
      BY <1>0, <1>1, <1>5
    <3> QED BY <1>1, <1>6, <1>7, <1>8, <2>2, <2>4, <3>1 DEF IInv, Waiting
  <2> QED BY <2>3, <2>4
<1>18. RefExact'
  <2>1. InCall' = InCall BY <1>0, <1>1, <1>5 DEF InCall
  <2>2. Allocated' = Allocated BY <1>2, <1>6 DEF Allocated
  <2> QED BY <1>a, <2>1, <2>2 DEF IInv, RefExact
<1>19. TypeOK' BY <1>5, <1>6, <1>8, <1>a DEF IInv, TypeOK
<1> QED
  BY <1>9, <1>10, <1>11, <1>12, <1>13, <1>14, <1>15, <1>16, <1>17, <1>18, <1>19 DEF IInv

LEMMA PollStep ==
    ASSUME IInv, NEW f \in Fences, Poll(f)
    PROVE  IInv'
<1> USE TimelineAssumption
<1>1. /\ fence' = [fence EXCEPT ![f].signaled = TRUE] /\ fence \in [Fences -> FenceRec]
      /\ idr' = idr /\ ref' = ref /\ value' = value /\ fences' = fences /\ lock' = lock
      /\ th' = th /\ fence[f].user
  BY DEF Poll, IInv, TypeOK
<1>2. /\ fence' \in [Fences -> FenceRec] /\ fence'[f].signaled = TRUE
      /\ \A g \in Fences : /\ fence'[g].st = fence[g].st /\ fence'[g].seqno = fence[g].seqno
                           /\ fence'[g].refs = fence[g].refs
                           /\ fence'[g].user = fence[g].user
                           /\ g # f => fence'[g] = fence[g]
  BY <1>1 DEF FenceRec
<1>3. FenceRefs'
  <2>1. \A g : /\ Signalling(g)' = Signalling(g) /\ Releasing(g)' = Releasing(g)
               /\ Adding(g)' = Adding(g)
    BY <1>1 DEF Signalling, Releasing, Adding
  <2> QED BY <1>2, <2>1 DEF IInv, FenceRefs
<1>4. Roles' /\ Temps' /\ Created' /\ Locked'
  BY <1>1 DEF IInv, Roles, Temps, Created, Locked
<1>5. Makers'
  <2>1. \A u \in Threads : th[u].at = "add" => th[u].f # f
    BY <1>1 DEF IInv, Makers
  <2> QED BY <1>1, <1>2, <2>1 DEF IInv, Makers
<1>6. Sorted'
  <2>1. Seqno' = Seqno BY <1>2 DEF Seqno
  <2> QED BY <1>1, <2>1 DEF IInv, Sorted
<1>7. Lives' BY <1>1, <1>2, TempsIn DEF IInv, Lives, Actors
<1>8. Waiting'
  <2>1. \A g \in Fences : Reached(g, value)' <=> Reached(g, value)
    BY <1>1, <1>2 DEF Reached
  <2> QED BY <1>1, <1>2, <2>1 DEF IInv, Waiting
<1>9. RefExact'
  <2>1. InCall' = InCall /\ Allocated' = Allocated BY <1>1, <1>2 DEF InCall, Allocated
  <2> QED BY <1>1, <2>1 DEF IInv, RefExact
<1>10. TypeOK' BY <1>1, <1>2 DEF IInv, TypeOK
<1> QED BY <1>3, <1>4, <1>5, <1>6, <1>7, <1>8, <1>9, <1>10 DEF IInv

\* A step that leaves the fences being made alone, and adds none of them to a
\* list.
LEMMA MakersKept ==
    ASSUME IInv,
           \A u \in Threads : th'[u].f = th[u].f,
           \A u \in Threads : th'[u].at \in {"alloc", "add"} => th'[u].at = th[u].at,
           \A u \in Threads : th[u].at \in {"alloc", "add"} /\ th[u].f \in Fences =>
                /\ fence'[th[u].f].st = fence[th[u].f].st
                /\ fence'[th[u].f].user => fence[th[u].f].user
                /\ fence'[th[u].f].signaled => fence[th[u].f].signaled,
           \A g \in ToSet(fences') : g \in ToSet(fences),
           \A u \in Threads : \A g \in ToSet(th'[u].temp) :
                g \in ToSet(th[u].temp) \/ g \in ToSet(fences)
    PROVE  Makers'
<1>1. \A u \in Threads :
        /\ th'[u].at \in {"alloc", "add"} => th'[u].f \in Fences
        /\ th'[u].at = "alloc" => fence'[th'[u].f].st = "unused"
  BY DEF IInv, Makers
<1>2. ASSUME NEW u \in Threads, th'[u].at = "add"
      PROVE  /\ fence'[th'[u].f].st = "live"
             /\ ~fence'[th'[u].f].user /\ ~fence'[th'[u].f].signaled
             /\ th'[u].f \notin ToSet(fences')
             /\ \A v \in Threads : th'[u].f \notin ToSet(th'[v].temp)
  <2>1. th[u].at = "add" /\ th'[u].f = th[u].f BY <1>2
  <2>2. /\ th[u].f \in Fences
        /\ fence[th[u].f].st = "live" /\ ~fence[th[u].f].user /\ ~fence[th[u].f].signaled
        /\ th[u].f \notin ToSet(fences)
        /\ \A v \in Threads : th[u].f \notin ToSet(th[v].temp)
    BY <2>1 DEF IInv, Makers
  <2> QED BY <2>1, <2>2
<1>3. \A u, v \in Threads : th'[u].f = th'[v].f => u = v \/ th'[u].f = NoOne
  BY DEF IInv, Makers
<1> QED BY <1>1, <1>2, <1>3 DEF Makers

\* A reference to a fence is dropped: by its user, or by a thread that has
\* signalled it.
LEMMA DroppedStep ==
    ASSUME IInv, NEW t \in Actors, NEW f \in Fences, NEW state \in FenceRec,
           PutFence(t, f, state), th[t].rel = NoOne,
           state.st = fence[f].st, state.seqno = fence[f].seqno, state.refs = fence[f].refs,
           \/ t = f /\ fence[f].user /\ ~state.user /\ state.signaled = fence[f].signaled
           \/ /\ t \in Threads /\ th[t].at \in {"signal_loop", "destroy_loop"}
              /\ th[t].temp # <<>> /\ f = Head(th[t].temp)
              /\ state.user = fence[f].user /\ state.signaled,
           UNCHANGED <<idr, ref, value, fences, lock>>
    PROVE  IInv'
<1> USE TimelineAssumption
<1> DEFINE temp == IF th[t].temp = <<>> THEN <<>> ELSE Tail(th[t].temp)
           own == IF t = f THEN 1 ELSE 0
<1>1. /\ th \in [Actors -> ThreadRec] /\ th[t] \in ThreadRec /\ th[t].temp \in Seq(Fences)
      /\ fence \in [Fences -> FenceRec] /\ fence[f] \in FenceRec /\ NoOne \notin Actors
      /\ \A u \in Threads \cup Fences : u \in Actors
      /\ \A u \in Fences : u \notin Threads
      /\ fence[f].refs \in Nat
  BY DEF IInv, TypeOK, ThreadRec, FenceRec, Actors
<1>2. /\ temp \in Seq(Fences) /\ Distinct(temp)
      /\ ToSet(temp) = ToSet(th[t].temp) \ {f}
      /\ IF t = f THEN ToSet(th[t].temp) = {} ELSE t \in Threads /\ f \in ToSet(th[t].temp)
      /\ temp # <<>> => th[t].temp # <<>>
  <2>1. CASE t = f
    <3>1. th[t].temp = <<>> BY <2>1 DEF IInv, Roles
    <3> QED BY <2>1, <3>1, EmptyList
  <2>2. CASE t # f
    <3>1. t \in Threads /\ th[t].temp # <<>> /\ f = Head(th[t].temp) BY <2>2
    <3>2. Distinct(th[t].temp) BY <3>1 DEF IInv, Temps
    <3>3. temp = Tail(th[t].temp) BY <3>1
    <3> QED BY <1>1, <2>2, <3>1, <3>2, <3>3, TailList
  <2> QED BY <2>1, <2>2
<1>3. /\ fence[f].refs >= 1 /\ fence[f].st = "live"
      /\ \A u \in Actors : th[u].rel # f
  <2>1. fence[f].refs >= 1 /\ fence[f].st = "live"
    <3>1. CASE t = f BY <1>1, <3>1, Owned DEF IInv, Lives
    <3>2. CASE t # f
      <4>1. t \in Threads /\ f \in ToSet(th[t].temp) BY <1>2, <3>2
      <4> QED BY <4>1, Owned DEF IInv, Lives
    <3> QED BY <3>1, <3>2
  <2>2. \A u \in Actors : th[u].rel = f => fence[f].refs = 0 BY Owned
  <2> QED BY <1>1, <2>1, <2>2
<1> HIDE DEF temp
<1>4. /\ Moves(t, th[t].at, th[t].f, th[t].seqno, temp,
               IF state.refs = 1 THEN f ELSE NoOne, th[t].unlinked)
      /\ Becomes(f, state.st, state.seqno, state.refs - 1, state.user, state.signaled)
  BY <1>1, <1>2, <1>3, PutMoves DEF temp
<1>5. /\ \A u \in Actors : u # t => th'[u] = th[u]
      /\ th'[t].temp = temp /\ th'[t].rel = (IF fence[f].refs = 1 THEN f ELSE NoOne)
      /\ th' \in [Actors -> ThreadRec]
      /\ \A u \in Actors : /\ th'[u].at = th[u].at /\ th'[u].f = th[u].f
                           /\ th'[u].unlinked = th[u].unlinked
  BY <1>4 DEF Moves
<1>6. /\ \A g \in Fences : g # f => fence'[g] = fence[g]
      /\ fence'[f].st = "live" /\ fence'[f].seqno = fence[f].seqno
      /\ fence'[f].refs = fence[f].refs - 1
      /\ fence'[f].user = state.user /\ fence'[f].signaled = state.signaled
      /\ fence' \in [Fences -> FenceRec]
  BY <1>3, <1>4 DEF Becomes
<1>7. th[t].unlinked = FALSE
  <2>1. th[t].unlinked \in BOOLEAN BY <1>1 DEF ThreadRec
  <2> QED BY <2>1 DEF IInv, Roles
<1>8. fence[f].user \in BOOLEAN /\ state.user \in BOOLEAN BY <1>1 DEF FenceRec
<1>9. FenceRefs'
  <2> SUFFICES ASSUME NEW g \in Fences, fence'[g].st = "live"
               PROVE  /\ fence'[g].refs = (IF fence'[g].user THEN 1 ELSE 0)
                           + Cardinality(Signalling(g)') + Cardinality(Adding(g)')
                      /\ Cardinality(Releasing(g)') = (IF fence'[g].refs = 0 THEN 1 ELSE 0)
    BY DEF FenceRefs
  <2>1. Adding(g)' = Adding(g) BY <1>1, <1>5 DEF Adding
  <2>2. CASE g # f
    <3>1. Signalling(g)' = Signalling(g) BY <1>1, <1>2, <1>5, <2>2 DEF Signalling
    <3>2. Releasing(g)' = Releasing(g) BY <1>1, <1>5, <2>2 DEF Releasing
    <3> QED BY <1>6, <2>1, <2>2, <3>1, <3>2 DEF IInv, FenceRefs
  <2>3. CASE g = f
    <3>1. fence[g].refs = (IF fence[g].user THEN 1 ELSE 0)
               + Cardinality(Signalling(g)) + Cardinality(Adding(g))
      BY <1>3, <2>3 DEF IInv, FenceRefs
    <3>2. /\ Cardinality(Signalling(g)) \in Nat /\ Cardinality(Adding(g)) \in Nat
      BY Sizes
    <3>3. fence'[g].refs = (IF fence'[g].user THEN 1 ELSE 0)
               + Cardinality(Signalling(g)') + Cardinality(Adding(g)')
      <4>1. CASE t = f
        <5>1. Signalling(g)' = Signalling(g) BY <1>1, <1>5, <4>1 DEF Signalling
        <5>2. fence[g].user /\ ~fence'[g].user BY <1>1, <1>6, <2>3, <4>1
        <5> QED BY <1>6, <2>1, <2>3, <3>1, <3>2, <5>1, <5>2
      <4>2. CASE t # f
        <5>1. t \in Signalling(g) /\ t \notin Signalling(g)'
          BY <1>2, <1>5, <2>3, <4>2 DEF Signalling
        <5>2. Cardinality(Signalling(g)') = Cardinality(Signalling(g)) - 1
          <6>1. Cardinality(Signalling(g)') = Cardinality(Signalling(g)) + 0 - 1
            BY <1>5, <5>1, ThreadMoved
          <6> QED BY <3>2, <6>1
        <5>3. fence'[g].user = fence[g].user BY <1>6, <2>3, <4>2
        <5> QED BY <1>6, <2>1, <2>3, <3>1, <3>2, <5>2, <5>3
      <4> QED BY <4>1, <4>2
    <3>4. Cardinality(Releasing(g)') = (IF fence'[g].refs = 0 THEN 1 ELSE 0)
      <4>1. CASE fence[f].refs = 1
        <5>1. Releasing(g)' = {t} BY <1>3, <1>5, <2>3, <4>1 DEF Releasing
        <5>2. Cardinality(Releasing(g)') = 1 BY <5>1, FS_Singleton
        <5> QED BY <1>1, <1>6, <2>3, <4>1, <5>2
      <4>2. CASE fence[f].refs # 1
        <5>1. Releasing(g)' = {} BY <1>1, <1>3, <1>5, <2>3, <4>2 DEF Releasing
        <5>2. Cardinality(Releasing(g)') = 0 BY <5>1, FS_EmptySet
        <5> QED BY <1>1, <1>6, <2>3, <4>2, <5>2
      <4> QED BY <4>1, <4>2
    <3> QED BY <3>3, <3>4
  <2> QED BY <2>2, <2>3
<1>10. Roles'
  <2>1. \A g \in Fences : g # t => th'[g] = th[g] BY <1>1, <1>5
  <2>2. \A u \in Threads : u # t => th'[u] = th[u] BY <1>1, <1>5
  <2>3. \A g \in Fences : /\ th'[g].at = "idle" /\ th'[g].temp = <<>>
                          /\ th'[g].rel \in {g, NoOne}
    <3>1. CASE t = f
      <4>1. th'[t].temp = <<>> BY <1>5, <3>1 DEF temp, IInv, Roles
      <4> QED BY <1>1, <1>5, <2>1, <3>1, <4>1 DEF IInv, Roles
    <3>2. CASE t # f
      <4>1. t \notin Fences BY <1>1, <1>2, <3>2
      <4> QED BY <2>1, <4>1 DEF IInv, Roles
    <3> QED BY <3>1, <3>2
  <2>4. \A u \in Threads : th'[u].rel # NoOne => th'[u].at \in {"signal_loop", "destroy_loop"}
    <3>1. t \in Threads => th[t].at \in {"signal_loop", "destroy_loop"} BY <1>1
    <3> QED BY <1>1, <1>5, <2>2, <3>1 DEF IInv, Roles
  <2>5. \A u \in Actors : th'[u].unlinked => th'[u].rel # NoOne
    BY <1>5, <1>7 DEF IInv, Roles
  <2> QED BY <2>3, <2>4, <2>5 DEF Roles
<1>11. Makers'
  <2>1. \A u \in Threads : th[u].at = "add" => th[u].f # f
    <3> SUFFICES ASSUME NEW u \in Threads, th[u].at = "add", th[u].f = f PROVE FALSE
      OBVIOUS
    <3>1. /\ ~fence[f].user /\ \A v \in Threads : f \notin ToSet(th[v].temp)
      BY DEF IInv, Makers
    <3> QED BY <1>2, <3>1
  <2>2. \A u \in Threads : \A g \in ToSet(th'[u].temp) : g \in ToSet(th[u].temp)
    BY <1>1, <1>2, <1>5
  <2>3. \A u \in Threads : th'[u].at = th[u].at /\ th'[u].f = th[u].f BY <1>1, <1>5
  <2>4. \A u \in Threads : th[u].at \in {"alloc", "add"} /\ th[u].f \in Fences =>
            fence'[th[u].f] = fence[th[u].f]
    BY <1>3, <1>6, <2>1 DEF IInv, Makers
  <2> QED BY <2>2, <2>3, <2>4, MakersKept
<1>12. Sorted'
  <2>1. \A g \in Fences : fence'[g].seqno = fence[g].seqno BY <1>6
  <2>2. Seqno' = Seqno BY <2>1 DEF Seqno
  <2> QED BY <2>2 DEF IInv, Sorted
<1>13. Temps'
  <2>1. \A u \in Threads : u # t => th'[u] = th[u] BY <1>1, <1>5
  <2> QED BY <1>1, <1>2, <1>5, <2>1 DEF IInv, Temps
<1>14. Lives'
  <2>1. \A g \in Fences : fence[g].st = "live" => fence'[g].st = "live" BY <1>6
  <2>2. \A g \in Fences : fence'[g].user \/ g \in ToSet(fences') => fence'[g].st = "live"
    BY <1>6 DEF IInv, Lives
  <2>3. \A u \in Threads : \A g \in ToSet(th'[u].temp) : g \in ToSet(th[u].temp)
    BY <1>1, <1>2, <1>5
  <2>4. \A u \in Threads : \A g \in ToSet(th'[u].temp) : fence'[g].st = "live"
    BY <1>1, <2>1, <2>3, TempsIn DEF IInv, Lives
  <2>5. \A u \in Actors : th'[u].rel # NoOne =>
        /\ fence'[th'[u].rel].st = "live"
        /\ th'[u].unlinked => th'[u].rel \notin ToSet(fences')
    BY <1>1, <1>5, <1>6, <1>7, <2>1, TempsIn DEF IInv, Lives
  <2> QED BY <2>2, <2>4, <2>5 DEF Lives
<1>15. Created' BY <1>1, <1>5 DEF IInv, Created
<1>16. Locked' BY <1>1, <1>5 DEF IInv, Locked
<1>17. Waiting'
  <2> SUFFICES ASSUME NEW g \in Fences, fence'[g].user, ~fence'[g].signaled
               PROVE  /\ g \in ToSet(fences') \/ \E u \in Threads : g \in ToSet(th'[u].temp)
                      /\ g \in ToSet(fences') /\ Reached(g, value)'
                             => \E u \in Threads : th'[u].at = "collect"
    BY DEF Waiting
  <2>1. g # f BY <1>6
  <2>2. fence'[g] = fence[g] BY <1>6, <2>1
  <2>3. Reached(g, value)' <=> Reached(g, value) BY <2>2 DEF Reached
  <2>4. \A u \in Threads : g \in ToSet(th[u].temp) => g \in ToSet(th'[u].temp)
    BY <1>1, <1>2, <1>5, <2>1
  <2> QED BY <1>1, <1>5, <2>2, <2>3, <2>4 DEF IInv, Waiting
<1>18. RefExact'
  <2>1. InCall' = InCall BY <1>1, <1>5 DEF InCall
  <2>2. Allocated' = Allocated BY <1>3, <1>6 DEF Allocated
  <2> QED BY <2>1, <2>2 DEF IInv, RefExact
<1>19. TypeOK' BY <1>5, <1>6 DEF IInv, TypeOK
<1> QED
  BY <1>9, <1>10, <1>11, <1>12, <1>13, <1>14, <1>15, <1>16, <1>17, <1>18, <1>19 DEF IInv

LEMMA DropStep ==
    ASSUME IInv, NEW f \in Fences, Drop(f)
    PROVE  IInv'
<1> DEFINE state == [fence[f] EXCEPT !.user = FALSE]
<1>1. fence[f].user /\ PutFence(f, f, state) /\ UNCHANGED <<idr, ref, value, fences, lock>>
  BY DEF Drop
<1>2. fence[f] \in FenceRec BY DEF IInv, TypeOK
<1>3. /\ state \in FenceRec /\ state.st = fence[f].st /\ state.seqno = fence[f].seqno
      /\ state.refs = fence[f].refs /\ ~state.user /\ state.signaled = fence[f].signaled
  BY <1>2 DEF FenceRec
<1> HIDE DEF state
<1>4. f \in Actors BY DEF Actors
<1>5. th[f].rel = NoOne
  <2>1. th[f].rel # f BY <1>1, <1>4, Owned
  <2> QED BY <2>1 DEF IInv, Roles
<1> QED BY <1>1, <1>3, <1>4, <1>5, DroppedStep

LEMMA SignalOneStep ==
    ASSUME IInv, NEW t \in Threads, SignalOne(t)
    PROVE  IInv'
<1> DEFINE f == Head(th[t].temp)
           state == [fence[f] EXCEPT !.signaled = TRUE]
<1>1. /\ th[t].at = "signal_loop" /\ th[t].rel = NoOne /\ th[t].temp # <<>>
      /\ PutFence(t, f, state) /\ UNCHANGED <<idr, ref, value, fences, lock>>
  BY DEF SignalOne, At
<1>2. f \in Fences /\ t \in Actors /\ fence[f] \in FenceRec
  <2>1. t \in Actors BY DEF Actors
  <2>2. th[t].temp \in Seq(Fences) BY <2>1 DEF IInv, TypeOK, ThreadRec
  <2>3. f \in Fences BY <1>1, <2>2
  <2> HIDE DEF f
  <2> QED BY <2>1, <2>3 DEF IInv, TypeOK
<1>3. f = Head(th[t].temp) OBVIOUS
<1> HIDE DEF f
<1>4. /\ state \in FenceRec /\ state.st = fence[f].st /\ state.seqno = fence[f].seqno
      /\ state.refs = fence[f].refs /\ state.user = fence[f].user /\ state.signaled
  BY <1>2 DEF FenceRec
<1> HIDE DEF state
<1> QED BY <1>1, <1>2, <1>3, <1>4, DroppedStep

LEMMA DestroyOneStep ==
    ASSUME IInv, NEW t \in Threads, DestroyOne(t)
    PROVE  IInv'
<1> DEFINE f == Head(th[t].temp)
           state == [[fence[f] EXCEPT !.signaled = TRUE] EXCEPT !.error = TRUE]
<1>1. /\ th[t].at = "destroy_loop" /\ th[t].rel = NoOne /\ th[t].temp # <<>>
      /\ PutFence(t, f, state) /\ UNCHANGED <<idr, ref, value, fences, lock>>
  BY DEF DestroyOne, At
<1>2. f \in Fences /\ t \in Actors /\ fence[f] \in FenceRec
  <2>1. t \in Actors BY DEF Actors
  <2>2. th[t].temp \in Seq(Fences) BY <2>1 DEF IInv, TypeOK, ThreadRec
  <2>3. f \in Fences BY <1>1, <2>2
  <2> HIDE DEF f
  <2> QED BY <2>1, <2>3 DEF IInv, TypeOK
<1>3. f = Head(th[t].temp) OBVIOUS
<1> HIDE DEF f
<1>4. /\ state \in FenceRec /\ state.st = fence[f].st /\ state.seqno = fence[f].seqno
      /\ state.refs = fence[f].refs /\ state.user = fence[f].user /\ state.signaled
  BY <1>2 DEF FenceRec
<1> HIDE DEF state
<1> QED BY <1>1, <1>2, <1>3, <1>4, DroppedStep

\* A thread takes fences off the list, with a reference to each; what stays is
\* dying or not due.
LEMMA TakenStep ==
    ASSUME IInv, NEW t \in Threads, th[t].rel = NoOne,
           NEW temp \in Seq(Fences), NEW at,
           \/ th[t].at = "collect" /\ at = "signal_loop"
           \/ th[t].at = "sweep" /\ at = "destroy_lock",
           Take(t, temp, at), Distinct(temp), ToSet(temp) \subseteq ToSet(fences),
           fences' \in Seq(Fences), Distinct(fences'), Ordered(fences', Seqno),
           ToSet(fences') \subseteq ToSet(fences),
           \A f \in ToSet(temp) : fence[f].refs > 0,
           \A f \in ToSet(fences) : fence[f].refs > 0 => f \in ToSet(fences') \cup ToSet(temp),
           \A f \in ToSet(fences') : ~(fence[f].refs > 0 /\ Reached(f, value)),
           UNCHANGED <<idr, ref, value, lock>>
    PROVE  IInv'
<1> USE TimelineAssumption
<1>1. /\ t \in Actors /\ t \notin Fences /\ NoOne \notin Actors
      /\ th \in [Actors -> ThreadRec] /\ th[t] \in ThreadRec /\ th[t].unlinked = FALSE
      /\ th[t].temp = <<>> /\ \A u \in Threads \cup Fences : u \in Actors
  BY Calm DEF Actors
<1>2. /\ Moves(t, at, th[t].f, th[t].seqno, temp, th[t].rel, th[t].unlinked)
      /\ fence' \in [Fences -> FenceRec]
      /\ \A f \in Fences :
           /\ fence'[f].st = fence[f].st /\ fence'[f].seqno = fence[f].seqno
           /\ fence'[f].user = fence[f].user /\ fence'[f].signaled = fence[f].signaled
           /\ fence'[f].refs = fence[f].refs + (IF f \in ToSet(temp) THEN 1 ELSE 0)
  <2>1. fence \in [Fences -> FenceRec] /\ at \in Points BY DEF IInv, TypeOK, Points
  <2> QED BY <1>1, <2>1, TakeMoves
<1>3. /\ \A u \in Actors : u # t => th'[u] = th[u]
      /\ th'[t].at = at /\ th'[t].temp = temp /\ th' \in [Actors -> ThreadRec]
      /\ \A u \in Actors : /\ th'[u].f = th[u].f /\ th'[u].rel = th[u].rel
                           /\ th'[u].unlinked = th[u].unlinked
  BY <1>2 DEF Moves
<1>4. \A g \in Fences : fence[g].refs \in Nat BY DEF IInv, TypeOK, FenceRec
<1>9. FenceRefs'
  <2> SUFFICES ASSUME NEW g \in Fences, fence'[g].st = "live"
               PROVE  /\ fence'[g].refs = (IF fence'[g].user THEN 1 ELSE 0)
                           + Cardinality(Signalling(g)') + Cardinality(Adding(g)')
                      /\ Cardinality(Releasing(g)') = (IF fence'[g].refs = 0 THEN 1 ELSE 0)
    BY DEF FenceRefs
  <2>1. Adding(g)' = Adding(g) /\ Releasing(g)' = Releasing(g)
    BY <1>1, <1>3 DEF Adding, Releasing
  <2>2. /\ fence[g].refs = (IF fence[g].user THEN 1 ELSE 0)
               + Cardinality(Signalling(g)) + Cardinality(Adding(g))
        /\ Cardinality(Releasing(g)) = (IF fence[g].refs = 0 THEN 1 ELSE 0)
    BY <1>2 DEF IInv, FenceRefs
  <2>3. Cardinality(Signalling(g)) \in Nat /\ Cardinality(Adding(g)) \in Nat BY Sizes
  <2>4. t \notin Signalling(g) BY <1>1, EmptyList DEF Signalling
  <2>5. t \in Signalling(g)' <=> g \in ToSet(temp) BY <1>3 DEF Signalling
  <2>6. Cardinality(Signalling(g)') = Cardinality(Signalling(g))
                                          + (IF g \in ToSet(temp) THEN 1 ELSE 0)
    <3>1. Cardinality(Signalling(g)') = Cardinality(Signalling(g))
                                          + (IF g \in ToSet(temp) THEN 1 ELSE 0) - 0
      BY <1>1, <1>3, <2>4, <2>5, ThreadMoved
    <3> QED BY <2>3, <3>1
  <2>7. fence'[g].refs = 0 <=> fence[g].refs = 0 BY <1>2, <1>4
  <2>8. fence'[g].user = fence[g].user BY <1>2
  <2>9. fence'[g].refs = (IF fence'[g].user THEN 1 ELSE 0)
             + Cardinality(Signalling(g)') + Cardinality(Adding(g)')
    <3>1. fence'[g].refs = fence[g].refs + (IF g \in ToSet(temp) THEN 1 ELSE 0) BY <1>2
    <3>2. Cardinality(Adding(g)') = Cardinality(Adding(g)) BY <2>1
    <3> DEFINE k == IF fence[g].user THEN 1 ELSE 0
               j == IF g \in ToSet(temp) THEN 1 ELSE 0
    <3>3. k \in Nat /\ j \in Nat OBVIOUS
    <3>4. (IF fence'[g].user THEN 1 ELSE 0) = k BY <2>8
    <3> HIDE DEF k, j
    <3>5. fence'[g].refs = k + Cardinality(Signalling(g)') + Cardinality(Adding(g)')
      BY <2>2, <2>3, <2>6, <3>1, <3>2, <3>3 DEF k, j
    <3> QED BY <3>4, <3>5
  <2> QED BY <2>1, <2>2, <2>7, <2>9
<1>10. Roles' BY <1>1, <1>3 DEF IInv, Roles
<1>11. Makers'
  <2>1. \A u \in Threads : th'[u].f = th[u].f BY <1>1, <1>3
  <2>2. \A u \in Threads : th'[u].at \in {"alloc", "add"} => th[u].at = th'[u].at
    BY <1>1, <1>3
  <2>3. \A u \in Threads : \A g \in ToSet(th'[u].temp) :
            g \in ToSet(th[u].temp) \/ g \in ToSet(fences)
    BY <1>1, <1>3
  <2> QED BY <1>2, <2>1, <2>2, <2>3, MakersKept
<1>12. Sorted'
  <2>1. Seqno' = Seqno BY <1>2 DEF Seqno
  <2> QED BY <2>1 DEF Sorted
<1>13. Temps'
  <2>1. \A u \in Threads : u # t => th'[u] = th[u] BY <1>1, <1>3
  <2> QED BY <1>3, <2>1 DEF IInv, Temps
<1>14. Lives'
  <2>1. \A g \in Fences : fence[g].st = "live" => fence'[g].st = "live" BY <1>2
  <2>2. \A g \in Fences : fence'[g].user \/ g \in ToSet(fences') => fence'[g].st = "live"
    BY <1>2 DEF IInv, Lives
  <2>3. \A u \in Threads : \A g \in ToSet(th'[u].temp) :
            g \in ToSet(th[u].temp) \/ g \in ToSet(fences)
    BY <1>1, <1>3
  <2>4. \A u \in Threads : \A g \in ToSet(th'[u].temp) : fence'[g].st = "live"
    BY <1>1, <2>1, <2>3, TempsIn DEF IInv, Lives
  <2>5. \A u \in Actors : th'[u].rel # NoOne =>
        /\ fence'[th'[u].rel].st = "live"
        /\ th'[u].unlinked => th'[u].rel \notin ToSet(fences')
    BY <1>1, <1>3, <2>1, TempsIn DEF IInv, Lives
  <2> QED BY <2>2, <2>4, <2>5 DEF Lives
<1>15. Created' BY <1>1, <1>3 DEF IInv, Created
<1>16. Locked' BY <1>1, <1>3 DEF IInv, Locked
<1>17. Waiting'
  <2> SUFFICES ASSUME NEW g \in Fences, fence'[g].user, ~fence'[g].signaled
               PROVE  /\ g \in ToSet(fences') \/ \E u \in Threads : g \in ToSet(th'[u].temp)
                      /\ ~(g \in ToSet(fences') /\ Reached(g, value)')
    BY DEF Waiting
  <2>1. fence[g].user /\ ~fence[g].signaled /\ fence[g].refs > 0
    <3>1. fence[g].user /\ ~fence[g].signaled BY <1>2
    <3>2. fence[g].refs >= 1 BY <3>1, Owned
    <3> QED BY <1>4, <3>1, <3>2
  <2>2. Reached(g, value)' <=> Reached(g, value) BY <1>2 DEF Reached
  <2>3. g \in ToSet(fences) \/ \E u \in Threads : g \in ToSet(th[u].temp)
    BY <2>1 DEF IInv, Waiting
  <2>4. \A u \in Threads : g \in ToSet(th[u].temp) => g \in ToSet(th'[u].temp)
    BY <1>1, <1>3, EmptyList
  <2>5. g \in ToSet(fences) => g \in ToSet(fences') \/ g \in ToSet(th'[t].temp)
    BY <1>3, <2>1
  <2> QED BY <2>1, <2>2, <2>3, <2>4, <2>5
<1>18. RefExact'
  <2>1. InCall' = InCall BY <1>1, <1>3 DEF InCall
  <2>2. Allocated' = Allocated BY <1>2 DEF Allocated
  <2> QED BY <2>1, <2>2 DEF IInv, RefExact
<1>19. TypeOK' BY <1>2, <1>3 DEF IInv, TypeOK
<1> QED
  BY <1>9, <1>10, <1>11, <1>12, <1>13, <1>14, <1>15, <1>16, <1>17, <1>18, <1>19 DEF IInv

LEMMA CollectStep ==
    ASSUME IInv, NEW t \in Threads, Collect(t)
    PROVE  IInv'
<1> DEFINE due == {f \in Fences : Reached(f, value) /\ CanGet(f)}
           taken == Kept(fences, due)
           temp == Reverse(taken)
<1>1. /\ th[t].at = "collect" /\ th[t].rel = NoOne
      /\ Take(t, temp, "signal_loop") /\ fences' = Kept(fences, Fences \ due)
      /\ UNCHANGED <<idr, ref, value, lock>>
  BY DEF Collect, At
<1>2. fences \in Seq(Fences) /\ Distinct(fences) /\ Ordered(fences, Seqno)
  BY DEF IInv, TypeOK, Sorted
<1>3. \A f \in due : f \in Fences /\ fence[f].refs > 0 BY DEF CanGet
<1>4. \A f \in Fences \ due : ~(fence[f].refs > 0 /\ Reached(f, value)) BY DEF CanGet
<1> HIDE DEF due
<1>5. taken \in Seq(Fences) /\ Distinct(taken) /\ ToSet(taken) = ToSet(fences) \cap due
  BY <1>2, KeptList
<1>6. /\ fences' \in Seq(Fences) /\ Distinct(fences') /\ Ordered(fences', Seqno)
      /\ ToSet(fences') = ToSet(fences) \cap (Fences \ due)
  BY <1>1, <1>2, KeptList
<1> HIDE DEF taken
<1>7. temp \in Seq(Fences) /\ Distinct(temp) /\ ToSet(temp) = ToSet(fences) \cap due
  BY <1>5, ReverseList
<1> HIDE DEF temp
<1>8. ToSet(fences) \subseteq ToSet(fences') \cup ToSet(temp) BY <1>6, <1>7, TempsIn
<1> QED BY <1>1, <1>3, <1>4, <1>6, <1>7, <1>8, TakenStep

LEMMA SweepStep ==
    ASSUME IInv, NEW t \in Threads, Sweep(t)
    PROVE  IInv'
<1> DEFINE due == {f \in Fences : CanGet(f)}
           temp == Kept(fences, due)
<1>1. /\ th[t].at = "sweep" /\ th[t].rel = NoOne
      /\ Take(t, temp, "destroy_lock") /\ fences' = <<>>
      /\ UNCHANGED <<idr, ref, value, lock>>
  BY DEF Sweep, At
<1>2. fences \in Seq(Fences) /\ Distinct(fences) BY DEF IInv, TypeOK, Sorted
<1>3. \A f \in due : fence[f].refs > 0 BY DEF CanGet
<1>4. \A f \in Fences : fence[f].refs > 0 => f \in due BY DEF CanGet
<1> HIDE DEF due
<1>5. temp \in Seq(Fences) /\ Distinct(temp) /\ ToSet(temp) = ToSet(fences) \cap due
  BY <1>2, KeptList
<1> HIDE DEF temp
<1>6. /\ fences' \in Seq(Fences) /\ Distinct(fences') /\ Ordered(fences', Seqno)
      /\ ToSet(fences') = {}
  BY <1>1, EmptyList
<1>7. \A f \in ToSet(fences) : fence[f].refs > 0 => f \in ToSet(fences') \cup ToSet(temp)
  BY <1>4, <1>5, TempsIn
<1> QED BY <1>1, <1>3, <1>5, <1>6, <1>7, TakenStep

\* A fence that is released is on nobody's list, so taking it off the list and
\* freeing it takes it from nobody.
LEMMA ReleaseUnlinkStep ==
    ASSUME IInv, NEW t \in Actors, ReleaseUnlink(t)
    PROVE  IInv'
<1> USE TimelineAssumption
<1> DEFINE f == th[t].rel
<1>1. /\ f # NoOne /\ fences' = Kept(fences, Fences \ {f})
      /\ th' = [th EXCEPT ![t].unlinked = TRUE]
      /\ idr' = idr /\ ref' = ref /\ value' = value /\ lock' = lock /\ fence' = fence
  BY DEF ReleaseUnlink
<1>2. /\ th \in [Actors -> ThreadRec] /\ f \in Fences
      /\ \A u \in Threads \cup Fences : u \in Actors
  BY <1>1, TempsIn DEF IInv, TypeOK, Actors
<1>3. /\ th' \in [Actors -> ThreadRec] /\ \A u \in Actors : u # t => th'[u] = th[u]
      /\ \A u \in Actors : /\ th'[u].at = th[u].at /\ th'[u].f = th[u].f
                           /\ th'[u].temp = th[u].temp /\ th'[u].rel = th[u].rel
  BY <1>1, <1>2 DEF ThreadRec
<1>4. /\ fences \in Seq(Fences) /\ Distinct(fences) /\ Ordered(fences, Seqno)
  BY DEF IInv, TypeOK, Sorted
<1>5. fence[f].refs = 0 /\ ~fence[f].user /\ \A u \in Actors : th[u].rel = f => u = t
  BY <1>2, Owned
<1> HIDE DEF f
<1>6. /\ fences' \in Seq(Fences) /\ Distinct(fences') /\ Ordered(fences', Seqno)
      /\ ToSet(fences') = ToSet(fences) \cap (Fences \ {f})
  BY <1>1, <1>4, KeptList
<1>7. FenceRefs'
  <2>1. \A g : /\ Signalling(g)' = Signalling(g) /\ Releasing(g)' = Releasing(g)
               /\ Adding(g)' = Adding(g)
    BY <1>2, <1>3 DEF Signalling, Releasing, Adding
  <2> QED BY <1>1, <2>1 DEF IInv, FenceRefs
<1>8. Roles'
  <2>1. \A u \in Actors : th'[u].unlinked => th'[u].rel # NoOne
    BY <1>1, <1>3 DEF IInv, Roles, f
  <2> QED BY <1>2, <1>3, <2>1 DEF IInv, Roles
<1>9. Temps' /\ Created' /\ Locked'
  BY <1>1, <1>2, <1>3 DEF IInv, Temps, Created, Locked
<1>a. Makers' BY <1>1, <1>2, <1>3, <1>6, MakersKept
<1>10. Sorted'
  <2>1. Seqno' = Seqno BY <1>1 DEF Seqno
  <2> QED BY <1>6, <2>1 DEF Sorted
<1>11. Lives'
  <2>1. \A u \in Actors : th'[u].rel # NoOne =>
        /\ fence'[th'[u].rel].st = "live"
        /\ th'[u].unlinked => th'[u].rel \notin ToSet(fences')
    BY <1>1, <1>3, <1>6 DEF IInv, Lives, f
  <2>2. \A g \in Fences : fence'[g].user \/ g \in ToSet(fences') => fence'[g].st = "live"
    BY <1>1, <1>6 DEF IInv, Lives
  <2>3. \A u \in Threads : \A g \in ToSet(th'[u].temp) : fence'[g].st = "live"
    BY <1>1, <1>2, <1>3 DEF IInv, Lives
  <2> QED BY <2>1, <2>2, <2>3 DEF Lives
<1>12. Waiting'
  <2>1. \A g \in Fences : Reached(g, value)' <=> Reached(g, value) BY <1>1 DEF Reached
  <2>2. \A g \in Fences : fence[g].user => (g \in ToSet(fences') <=> g \in ToSet(fences))
    BY <1>5, <1>6
  <2> QED BY <1>1, <1>2, <1>3, <2>1, <2>2 DEF IInv, Waiting
<1>13. RefExact'
  <2>1. InCall' = InCall /\ Allocated' = Allocated
    BY <1>1, <1>2, <1>3 DEF InCall, Allocated
  <2> QED BY <1>1, <2>1 DEF IInv, RefExact
<1>14. TypeOK' BY <1>1, <1>3, <1>6 DEF IInv, TypeOK
<1> QED BY <1>7, <1>8, <1>9, <1>a, <1>10, <1>11, <1>12, <1>13, <1>14 DEF IInv

LEMMA ReleaseFreeStep ==
    ASSUME IInv, NEW t \in Actors, ReleaseFree(t)
    PROVE  IInv'
<1> USE TimelineAssumption
<1> DEFINE f == th[t].rel
<1>1. /\ f # NoOne /\ th[t].unlinked /\ ref' = ref - 1
      /\ fence' = [fence EXCEPT ![f].st = "free"]
      /\ th' = [th EXCEPT ![t].rel = NoOne, ![t].unlinked = FALSE]
      /\ idr' = idr /\ value' = value /\ lock' = lock /\ fences' = fences
  BY DEF ReleaseFree
<1>2. /\ th \in [Actors -> ThreadRec] /\ th[t] \in ThreadRec
      /\ fence \in [Fences -> FenceRec] /\ f \in Fences
      /\ \A u \in Threads \cup Fences : u \in Actors
  BY <1>1, TempsIn DEF IInv, TypeOK, Actors
<1>3. /\ th' \in [Actors -> ThreadRec] /\ \A u \in Actors : u # t => th'[u] = th[u]
      /\ th'[t].rel = NoOne /\ th'[t].unlinked = FALSE
      /\ \A u \in Actors : /\ th'[u].at = th[u].at /\ th'[u].f = th[u].f
                           /\ th'[u].temp = th[u].temp
  <2> DEFINE r == [[th[t] EXCEPT !.rel = NoOne] EXCEPT !.unlinked = FALSE]
  <2>1. th' = [th EXCEPT ![t] = r] BY <1>1, <1>2
  <2>2. /\ r \in ThreadRec /\ r.rel = NoOne /\ r.unlinked = FALSE /\ r.at = th[t].at
        /\ r.f = th[t].f /\ r.temp = th[t].temp
    BY <1>2 DEF ThreadRec
  <2> HIDE DEF r
  <2>3. /\ th' \in [Actors -> ThreadRec] /\ th'[t] = r
        /\ \A u \in Actors : u # t => th'[u] = th[u]
    BY <1>2, <2>1, <2>2
  <2> QED BY <2>2, <2>3
<1>4. /\ fence[f].refs = 0 /\ ~fence[f].user
      /\ \A u \in Threads : f \notin ToSet(th[u].temp) /\ u \notin Adding(f)
      /\ \A u \in Actors : th[u].rel = f => u = t
  BY <1>2, Owned
<1>5. f \notin ToSet(fences) /\ fence[f].st = "live" BY <1>1 DEF IInv, Lives
<1>6. /\ fence' \in [Fences -> FenceRec] /\ fence'[f].st = "free"
      /\ \A g \in Fences : /\ fence'[g].seqno = fence[g].seqno
                           /\ fence'[g].user = fence[g].user
                           /\ fence'[g].signaled = fence[g].signaled
                           /\ g # f => fence'[g] = fence[g]
  BY <1>1, <1>2 DEF FenceRec
<1> HIDE DEF f
<1>7. FenceRefs'
  <2> SUFFICES ASSUME NEW g \in Fences, fence'[g].st = "live"
               PROVE  /\ fence'[g].refs = (IF fence'[g].user THEN 1 ELSE 0)
                           + Cardinality(Signalling(g)') + Cardinality(Adding(g)')
                      /\ Cardinality(Releasing(g)') = (IF fence'[g].refs = 0 THEN 1 ELSE 0)
    BY DEF FenceRefs
  <2>1. g # f BY <1>6
  <2>2. /\ Signalling(g)' = Signalling(g) /\ Releasing(g)' = Releasing(g)
        /\ Adding(g)' = Adding(g)
    BY <1>2, <1>3, <2>1 DEF Signalling, Releasing, Adding, f
  <2> QED BY <1>6, <2>1, <2>2 DEF IInv, FenceRefs
<1>8. Roles' BY <1>2, <1>3 DEF IInv, Roles
<1>9. Makers'
  <2>1. \A u \in Threads : th'[u].at = th[u].at /\ th'[u].f = th[u].f /\ th'[u].temp = th[u].temp
    BY <1>2, <1>3
  <2>2. \A u \in Threads : th[u].at \in {"alloc", "add"} /\ th[u].f \in Fences =>
            fence'[th[u].f] = fence[th[u].f]
    BY <1>4, <1>5, <1>6 DEF IInv, Makers, Adding
  <2> QED BY <1>1, <2>1, <2>2, MakersKept
<1>10. Temps' /\ Locked'
  BY <1>1, <1>2, <1>3 DEF IInv, Temps, Locked
<1>11. Sorted'
  <2>1. Seqno' = Seqno BY <1>6 DEF Seqno
  <2> QED BY <1>1, <2>1 DEF IInv, Sorted
<1>12. Lives'
  <2>1. \A g \in Fences : fence'[g].user \/ g \in ToSet(fences') => fence'[g].st = "live"
    BY <1>1, <1>4, <1>5, <1>6 DEF IInv, Lives
  <2>2. \A u \in Threads : \A g \in ToSet(th'[u].temp) : fence'[g].st = "live"
    BY <1>2, <1>3, <1>4, <1>6, TempsIn DEF IInv, Lives
  <2>3. \A u \in Actors : th'[u].rel # NoOne =>
        /\ fence'[th'[u].rel].st = "live"
        /\ th'[u].unlinked => th'[u].rel \notin ToSet(fences')
    BY <1>1, <1>3, <1>4, <1>6, TempsIn DEF IInv, Lives
  <2> QED BY <2>1, <2>2, <2>3 DEF Lives
<1>13. Waiting'
  <2>1. \A g \in Fences : Reached(g, value)' <=> Reached(g, value)
    BY <1>1, <1>6 DEF Reached
  <2>2. \A u \in Threads : th'[u].at = th[u].at /\ th'[u].temp = th[u].temp
    BY <1>2, <1>3
  <2> SUFFICES ASSUME NEW g \in Fences, fence'[g].user, ~fence'[g].signaled
               PROVE  /\ g \in ToSet(fences') \/ \E u \in Threads : g \in ToSet(th'[u].temp)
                      /\ g \in ToSet(fences') /\ Reached(g, value)'
                             => \E u \in Threads : th'[u].at = "collect"
    BY DEF Waiting
  <2>3. fence[g].user /\ ~fence[g].signaled BY <1>6
  <2> QED BY <1>1, <2>1, <2>2, <2>3 DEF IInv, Waiting
<1>14. /\ Cardinality(InCall) \in Nat /\ Cardinality(Allocated) \in Nat
       /\ Cardinality(Allocated) >= 1 /\ InCall' = InCall
       /\ Cardinality(Allocated)' = Cardinality(Allocated) - 1
       /\ ref = (IF idr \in {"blank", "live"} THEN 1 ELSE 0)
                   + Cardinality(InCall) + Cardinality(Allocated)
  <2>1. f \in Allocated /\ f \notin Allocated' BY <1>2, <1>5, <1>6 DEF Allocated
  <2>2. InCall' = InCall BY <1>2, <1>3 DEF InCall
  <2>3. Cardinality(Allocated)' = Cardinality(Allocated) + 0 - 1
    BY <1>2, <1>6, <2>1, FenceMoved
  <2> QED BY <2>1, <2>2, <2>3, Sizes DEF IInv, RefExact
<1>15. RefExact' /\ ref' \in Nat /\ ref >= 1
  BY <1>1, <1>14 DEF RefExact
<1>16. TypeOK' BY <1>1, <1>3, <1>6, <1>15 DEF IInv, TypeOK
<1>17. Created'
  <2>1. idr # "none"
    BY <1>15 DEF IInv, Created, TypeOK
  <2> QED BY <1>1, <1>2, <1>3, <2>1 DEF IInv, Created
<1> QED
  BY <1>7, <1>8, <1>9, <1>10, <1>11, <1>12, <1>13, <1>15, <1>16, <1>17 DEF IInv

-----------------------------------------------------------------------------
(* The theorems.                                                           *)

LEMMA InitIInv == Init => IInv
<1> USE TimelineAssumption
<1> SUFFICES ASSUME Init PROVE IInv OBVIOUS
<1>1. /\ idr = "none" /\ ref = 0 /\ value \in Values /\ fences = <<>> /\ lock = NoOne
      /\ \A f \in Fences : fence[f] = NoFence
      /\ \A t \in Actors : th[t] = Ready
      /\ fence = [f \in Fences |-> NoFence] /\ th = [t \in Actors |-> Ready]
      /\ \A u \in Threads \cup Fences : u \in Actors
  BY DEF Init, Actors
<1>2. /\ NoFence \in FenceRec /\ NoFence.st = "unused" /\ ~NoFence.user
  BY DEF NoFence, FenceRec, Values
<1>3. /\ Ready \in ThreadRec /\ Ready.at = "idle" /\ Ready.f = NoOne /\ Ready.temp = <<>>
      /\ Ready.rel = NoOne /\ Ready.unlinked = FALSE
  BY EmptyList DEF Ready, ThreadRec, Points, Values
<1>4. fence \in [Fences -> FenceRec] /\ th \in [Actors -> ThreadRec] BY <1>1, <1>2, <1>3
<1>5. TypeOK BY <1>1, <1>4, EmptyList DEF TypeOK
<1>6. RefExact
  <2>1. InCall = {} /\ Allocated = {} BY <1>1, <1>2, <1>3 DEF InCall, Allocated
  <2>2. Cardinality(InCall) = 0 /\ Cardinality(Allocated) = 0 BY <2>1, FS_EmptySet
  <2> QED BY <1>1, <2>2 DEF RefExact
<1>7. FenceRefs BY <1>1, <1>2 DEF FenceRefs
<1>8. Roles BY <1>1, <1>3 DEF Roles
<1>9. Makers BY <1>1, <1>3 DEF Makers
<1>10. Sorted BY <1>1, EmptyList DEF Sorted
<1>11. Temps BY <1>1, <1>3, EmptyList DEF Temps
<1>12. Lives BY <1>1, <1>2, <1>3, EmptyList DEF Lives
<1>13. Created BY <1>1, <1>3 DEF Created
<1>14. Locked BY <1>1, <1>3 DEF Locked, Actors
<1>15. Waiting BY <1>1, <1>2 DEF Waiting
<1> QED
  BY <1>5, <1>6, <1>7, <1>8, <1>9, <1>10, <1>11, <1>12, <1>13, <1>14, <1>15 DEF IInv

LEMMA StutterIInv == ASSUME IInv, UNCHANGED vars PROVE IInv'
<1>1. /\ idr' = idr /\ ref' = ref /\ value' = value /\ fences' = fences /\ lock' = lock
      /\ fence' = fence /\ th' = th
  BY DEF vars
<1>2. FenceRefs' /\ RefExact' BY <1>1 DEF IInv, FenceRefs, RefExact, Signalling, Adding,
                                 Releasing, InCall, Allocated
<1>3. TypeOK' /\ Roles' /\ Makers' /\ Temps' /\ Lives' /\ Created' /\ Locked'
  BY <1>1 DEF IInv, TypeOK, Roles, Makers, Temps, Lives, Created, Locked
<1>4. Sorted' BY <1>1 DEF IInv, Sorted, Seqno
<1>5. Waiting' BY <1>1 DEF IInv, Waiting, Reached
<1> QED BY <1>2, <1>3, <1>4, <1>5 DEF IInv

LEMMA NextIInv == ASSUME IInv, [Next]_vars PROVE IInv'
<1>1. ASSUME NEW t \in Threads, Call(t) PROVE IInv'
  <2>1. CASE Alloc(t) BY <2>1, AllocStep
  <2>2. CASE Destroy(t) BY <2>2, DestroyStep
  <2>3. ASSUME NEW n \in Values, ById(t, "signal", NoOne, n) PROVE IInv'
    BY <2>3, BySignalStep
  <2>4. ASSUME NEW f \in Fences, NEW n \in Values, Fresh(f), ById(t, "alloc", f, n)
        PROVE  IInv'
    BY <2>4, ByAllocStep
  <2> QED BY <1>1, <2>1, <2>2, <2>3, <2>4 DEF Call
<1>2. ASSUME NEW t \in Threads, Step(t) PROVE IInv'
  <2>1. CASE Commit(t) BY <2>1, CommitStep
  <2>2. CASE Put(t) BY <2>2, PutStep
  <2>3. CASE FenceAlloc(t) BY <2>3, FenceAllocStep
  <2>4. CASE FenceAdd(t) BY <2>4, FenceAddStep
  <2>5. CASE SignalValue(t) BY <2>5, SignalLateStep, SignalValueStep
  <2>6. CASE Collect(t) BY <2>6, CollectStep
  <2>7. CASE SignalOne(t) BY <2>7, SignalOneStep
  <2>8. CASE Unlock(t) BY <2>8, UnlockStep
  <2>9. CASE Sweep(t) BY <2>9, SweepStep
  <2>10. CASE DestroyLock(t) BY <2>10, DestroyLockStep
  <2>11. CASE DestroyOne(t) BY <2>11, DestroyOneStep
  <2> QED BY <1>2, <2>1, <2>2, <2>3, <2>4, <2>5, <2>6, <2>7, <2>8, <2>9, <2>10, <2>11
          DEF Step
<1>3. ASSUME NEW t \in Actors, Release(t) PROVE IInv'
  BY <1>3, ReleaseUnlinkStep, ReleaseFreeStep DEF Release
<1>4. ASSUME NEW f \in Fences, Poll(f) \/ Drop(f) PROVE IInv'
  BY <1>4, PollStep, DropStep
<1>5. CASE UNCHANGED vars BY <1>5, StutterIInv
<1> QED BY <1>1, <1>2, <1>3, <1>4, <1>5 DEF Next

THEOREM Inductive == Spec => []IInv
<1> QED BY InitIInv, NextIInv, PTL DEF Spec

\* The counts never go below 0, and every list is a list of fences.
THEOREM TypeCorrect == Spec => []TypeOK
<1>1. IInv => TypeOK BY DEF IInv
<1> QED BY <1>1, Inductive, PTL

\* ref counts exactly the id, the threads in a call and the fences not freed,
\* for any number of them: kgsl_timeline_put frees the timeline when, and only
\* when, nobody is left who may use it.
THEOREM RefIsExact == Spec => []RefExact
<1>1. IInv => RefExact BY DEF IInv
<1> QED BY <1>1, Inductive, PTL

\* Each fence's count covers its user, its maker and the threads that are to
\* signal it, and exactly one of them runs timeline_fence_release.
THEOREM FenceRefsAreExact == Spec => []FenceRefs
<1>1. IInv => FenceRefs BY DEF IInv
<1> QED BY <1>1, Inductive, PTL

\* The WARN_ON of kgsl_timeline_destroy never fires, and the list stays sorted
\* and without freed fences.
THEOREM ListIsSound == Spec => []ListSound
<1>1. ASSUME IInv PROVE ListSound
  <2>1. fences \in Seq(Fences) BY <1>1 DEF IInv, TypeOK
  <2>2. \A i \in DOMAIN fences : fences[i] \in Fences /\ fences[i] \in ToSet(fences)
    BY <2>1 DEF ToSet
  <2>3. \A i \in DOMAIN fences : fence[fences[i]].st = "live"
    BY <1>1, <2>2 DEF IInv, Lives
  <2>4. ASSUME NEW i \in DOMAIN fences, NEW j \in 1..(i - 1)
        PROVE  /\ fences[j] # fences[i]
               /\ fence[fences[j]].seqno <= fence[fences[i]].seqno
    <3>1. j \in DOMAIN fences /\ j < i /\ j # i BY <2>1
    <3>2. Seqno[fences[j]] <= Seqno[fences[i]] BY <1>1, <3>1 DEF IInv, Sorted, Ordered
    <3>3. fences[j] # fences[i] BY <1>1, <3>1 DEF IInv, Sorted, Distinct
    <3> QED BY <2>2, <3>1, <3>2, <3>3 DEF Seqno
  <2>5. ASSUME ref = 0 PROVE fences = <<>>
    <3> SUFFICES ASSUME fences # <<>> PROVE FALSE OBVIOUS
    <3>1. 1 \in DOMAIN fences BY <2>1
    <3>2. fences[1] \in Allocated BY <2>2, <2>3, <3>1 DEF Allocated
    <3>3. /\ Cardinality(Allocated) \in Nat /\ Cardinality(InCall) \in Nat
          /\ Cardinality(Allocated) >= 1
      BY <3>2, Sizes
    <3>4. ref >= 1 BY <1>1, <3>3 DEF IInv, RefExact
    <3> QED BY <2>5, <3>4
  <2> QED BY <2>3, <2>4, <2>5 DEF ListSound
<1> QED BY <1>1, Inductive, PTL

\* No fence in use is lost between the list and the threads that signal, for
\* any number of signallers, adders and destroyers.
THEOREM NoFenceIsLost == Spec => []NoLostFence
<1>1. ASSUME IInv PROVE NoLostFence
  <2>1. lock = NoOne => \A t \in Threads : th[t].at # "collect"
    BY <1>1, TimelineAssumption DEF IInv, Locked
  <2> QED BY <1>1, <2>1 DEF IInv, Waiting, NoLostFence
<1> QED BY <1>1, Inductive, PTL
=============================================================================
