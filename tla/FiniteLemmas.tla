---------------------------- MODULE FiniteLemmas ----------------------------
(***************************************************************************)
(* Lemmas about finite sets of naturals and about counting, for the proofs *)
(* of the components.                                                      *)
(***************************************************************************)
EXTENDS Integers, FiniteSets, FiniteSetsExt, FiniteSetTheorems,
        NaturalsInduction, WellFoundedInduction, TLAPS

\* A set that an element enters or leaves.
LEMMA CountMoved ==
    ASSUME NEW I, IsFiniteSet(I), NEW J, NEW t, J \ {t} = I \ {t}
    PROVE  /\ IsFiniteSet(J)
           /\ Cardinality(J) = Cardinality(I) + (IF t \in J THEN 1 ELSE 0)
                                              - (IF t \in I THEN 1 ELSE 0)
<1>1. /\ IsFiniteSet(I \ {t})
      /\ Cardinality(I \ {t}) = Cardinality(I) - (IF t \in I THEN 1 ELSE 0)
  BY FS_RemoveElement, FS_CardinalityType
<1>2. CASE t \in J
  <2>1. J = (I \ {t}) \cup {t} BY <1>2
  <2>2. /\ IsFiniteSet(J)
        /\ Cardinality(J) = Cardinality(I \ {t}) + 1
    BY <1>1, <2>1, FS_AddElement
  <2> QED BY <1>1, <1>2, <2>2, FS_CardinalityType
<1>3. CASE t \notin J
  <2>1. J = I \ {t} BY <1>3
  <2> QED BY <1>1, <1>3, <2>1, FS_CardinalityType
<1> QED BY <1>2, <1>3

\* A set of naturals has a least element, which is Min of it.
LEMMA LeastElement ==
    ASSUME NEW S \in SUBSET Nat, S # {}
    PROVE  \E x \in S : \A y \in S : x <= y
<1> DEFINE R == OpToRel(<, Nat)
<1>1. IsWellFoundedOn(R, Nat) BY NatLessThanWellFounded
<1>2. R = {ss \in Nat \X Nat : ss[1] < ss[2]} BY Zenon DEF OpToRel
<1> HIDE DEF R
<1>3. PICK x \in S : \A y \in S : <<y, x>> \notin R BY <1>1, WFMin
<1>4. \A y \in S : ~(y < x)
  <2> SUFFICES ASSUME NEW y \in S, y < x PROVE FALSE OBVIOUS
  <2>1. <<y, x>> \in R BY <1>2
  <2> QED BY <1>3, <2>1
<1> QED BY <1>4

LEMMA MinIn ==
    ASSUME NEW S \in SUBSET Nat, S # {}
    PROVE  Min(S) \in S /\ \A y \in S : Min(S) <= y
BY LeastElement DEF Min

\* The first n naturals are finite.
LEMMA IntervalCount ==
    ASSUME NEW n \in Nat
    PROVE  IsFiniteSet(1 .. n) /\ Cardinality(1 .. n) = n
<1>1. 1 \in Int /\ n \in Int OBVIOUS
<1>2. /\ IsFiniteSet(1 .. n)
      /\ Cardinality(1 .. n) = IF 1 > n THEN 0 ELSE n - 1 + 1
  BY <1>1, FS_Interval, Zenon
<1> QED BY <1>2
-----------------------------------------------------------------------------
(* Recursive functions of the form of the folds and of ClkScaling: zero on *)
(* base, elsewhere a summand and the function of a next argument.          *)

Solves(f, E, base, h, nx) ==
    f = [x \in E |-> IF x \in base THEN 0 ELSE h[x] + f[nx[x]]]

\* The arguments descend.
Descends(D, base, nx, m) ==
    /\ m \in [D -> Nat]
    /\ \A x \in D \ base : nx[x] \in D /\ m[nx[x]] < m[x]

\* One step of the recursion, and its end.
LEMMA SolvesAt ==
    ASSUME NEW f, NEW E, NEW base, NEW h, NEW nx, Solves(f, E, base, h, nx),
           NEW x \in E, x \notin base
    PROVE  f[x] = h[x] + f[nx[x]]
BY Zenon DEF Solves

LEMMA SolvesEnd ==
    ASSUME NEW f, NEW E, NEW base, NEW h, NEW nx, Solves(f, E, base, h, nx),
           NEW x \in E, x \in base
    PROVE  f[x] = 0
BY Zenon DEF Solves

\* A property of what descends holds if it has no least counterexample.
LEMMA Descent ==
    ASSUME NEW D, NEW m \in [D -> Nat], NEW bad \in SUBSET D, bad # {}
    PROVE  \E x \in bad : \A y \in bad : m[x] <= m[y]
<1> DEFINE sizes == {m[x] : x \in bad}
<1>1. sizes \in SUBSET Nat /\ sizes # {} OBVIOUS
<1>2. PICK n \in sizes : \A k \in sizes : n <= k
  <2> HIDE DEF sizes
  <2> QED BY <1>1, LeastElement
<1>3. PICK x \in bad : m[x] = n BY <1>2
<1>4. \A y \in bad : m[x] <= m[y] BY <1>2, <1>3
<1> QED BY <1>4

\* Two solutions agree.
LEMMA SolvesOnce ==
    ASSUME NEW D, NEW base, NEW h, NEW nx, NEW m, Descends(D, base, nx, m),
           NEW E \in SUBSET D, \A x \in E \ base : nx[x] \in E,
           NEW E1, E \subseteq E1, NEW f, Solves(f, E1, base, h, nx),
           NEW E2, E \subseteq E2, NEW g, Solves(g, E2, base, h, nx),
           NEW y \in E
    PROVE  f[y] = g[y]
<1> DEFINE bad == {x \in E : f[x] # g[x]}
<1> SUFFICES ASSUME bad # {} PROVE FALSE OBVIOUS
<1>1. m \in [D -> Nat] /\ bad \in SUBSET D BY DEF Descends
<1>2. PICK x \in bad : \A z \in bad : m[x] <= m[z]
  <2> HIDE DEF bad
  <2> QED BY <1>1, Descent
<1>3. x \in E /\ x \in E1 /\ x \in E2 /\ x \in D BY <1>2
<1>4. x \notin base
  <2> SUFFICES ASSUME x \in base PROVE FALSE OBVIOUS
  <2>1. f[x] = 0 BY <1>3, SolvesEnd
  <2>2. g[x] = 0 BY <1>3, SolvesEnd
  <2> QED BY <1>2, <2>1, <2>2
<1>5. nx[x] \in E /\ nx[x] \in D /\ m[nx[x]] < m[x] BY <1>3, <1>4 DEF Descends
<1>6. f[nx[x]] = g[nx[x]] BY <1>1, <1>2, <1>3, <1>5
<1>7. f[x] = h[x] + f[nx[x]] BY <1>3, <1>4, SolvesAt
<1>8. g[x] = h[x] + g[nx[x]] BY <1>3, <1>4, SolvesAt
<1> QED BY <1>2, <1>6, <1>7, <1>8

Below(D, m, k) == {x \in D : m[x] < k}

\* A solution for all that is below each argument gives one for the arguments.
LEMMA SolvesUp ==
    ASSUME NEW D, NEW base, NEW h, NEW nx, NEW m, Descends(D, base, nx, m),
           NEW E \in SUBSET D, \A x \in E \ base : nx[x] \in E,
           \A x \in E : \E f : Solves(f, Below(D, m, m[x]), base, h, nx)
    PROVE  \E f : Solves(f, E, base, h, nx)
<1> DEFINE g(x) == CHOOSE f : Solves(f, Below(D, m, m[x]), base, h, nx)
           G == [x \in E |-> IF x \in base THEN 0 ELSE h[x] + g(x)[nx[x]]]
<1>1. ASSUME NEW x \in E PROVE Solves(g(x), Below(D, m, m[x]), base, h, nx)
  OBVIOUS
<1> HIDE DEF g
<1>2. ASSUME NEW x \in E, x \notin base PROVE G[nx[x]] = g(x)[nx[x]]
  <2> DEFINE y == nx[x]
  <2>1. y \in E /\ y \in D /\ x \in D /\ m[y] < m[x] /\ m[x] \in Nat /\ m[y] \in Nat
    BY <1>2 DEF Descends
  <2>2. y \in Below(D, m, m[x]) BY <2>1 DEF Below
  <2>3. Solves(g(x), Below(D, m, m[x]), base, h, nx) BY <1>1, <1>2
  <2>4. Solves(g(y), Below(D, m, m[y]), base, h, nx) BY <1>1, <2>1
  <2> HIDE DEF y
  <2>5. CASE y \in base
    <3>1. g(x)[y] = 0 BY <2>2, <2>3, <2>5, SolvesEnd
    <3>2. G[y] = 0 BY <2>1, <2>5
    <3> QED BY <3>1, <3>2 DEF y
  <2>6. CASE y \notin base
    <3> DEFINE L == Below(D, m, m[y])
               M == Below(D, m, m[x])
    <3>1. L \in SUBSET D /\ L \subseteq M
      BY <2>1 DEF Below, Descends
    <3>2. \A z \in L \ base : nx[z] \in L
      BY <2>1 DEF Below, Descends
    <3>3. nx[y] \in L BY <2>1, <2>6 DEF Below, Descends
    <3>4. g(y)[nx[y]] = g(x)[nx[y]]
      <4> HIDE DEF L, M
      <4>1. Solves(g(x), M, base, h, nx) /\ Solves(g(y), L, base, h, nx)
        BY <2>3, <2>4 DEF L, M
      <4>2. L \subseteq L OBVIOUS
      <4> QED BY <3>1, <3>2, <3>3, <4>1, <4>2, SolvesOnce
    <3>5. g(x)[y] = h[y] + g(x)[nx[y]] BY <2>2, <2>3, <2>6, SolvesAt
    <3>6. G[y] = h[y] + g(y)[nx[y]] BY <2>1, <2>6
    <3> QED BY <3>4, <3>5, <3>6 DEF y
  <2> QED BY <2>5, <2>6
<1>3. \A x \in E : (IF x \in base THEN 0 ELSE h[x] + g(x)[nx[x]])
                     = (IF x \in base THEN 0 ELSE h[x] + G[nx[x]])
  <2> HIDE DEF G
  <2> QED BY <1>2
<1>4. Solves(G, E, base, h, nx) BY <1>3, Zenon DEF Solves
<1> QED BY <1>4

\* There is a solution.
LEMMA SolvesExists ==
    ASSUME NEW D, NEW base, NEW h, NEW nx, NEW m, Descends(D, base, nx, m)
    PROVE  \E f : Solves(f, D, base, h, nx)
<1> DEFINE Has(k) == \E f : Solves(f, Below(D, m, k), base, h, nx)
           bad == {k \in Nat : ~Has(k)}
<1>1. bad = {}
  <2> SUFFICES ASSUME bad # {} PROVE FALSE OBVIOUS
  <2>1. PICK k \in bad : \A l \in bad : k <= l
    <3>1. bad \in SUBSET Nat OBVIOUS
    <3> HIDE DEF bad
    <3> QED BY <3>1, LeastElement
  <2>2. k \in Nat BY <2>1
  <2>3. Below(D, m, k) \in SUBSET D BY DEF Below
  <2>4. \A x \in Below(D, m, k) \ base : nx[x] \in Below(D, m, k)
    BY <2>2 DEF Below, Descends
  <2>5. \A x \in Below(D, m, k) : Has(m[x])
    <3> SUFFICES ASSUME NEW x \in Below(D, m, k) PROVE Has(m[x]) OBVIOUS
    <3>1. m[x] \in Nat /\ m[x] < k BY DEF Below, Descends
    <3>2. ~(k <= m[x]) BY <2>2, <3>1
    <3>3. m[x] \notin bad BY <2>1, <3>2
    <3> QED BY <3>1, <3>3
  <2>6. Has(k) BY <2>3, <2>4, <2>5, SolvesUp
  <2> QED BY <2>1, <2>6
<1>2. \A x \in D : Has(m[x]) BY <1>1 DEF Descends
<1>3. \A x \in D \ base : nx[x] \in D BY DEF Descends
<1> QED BY <1>2, <1>3, SolvesUp
-----------------------------------------------------------------------------
(* The sum of a function over a finite set, as the folds compute it.       *)

SumOver(v, S) == MapThenSumSet(LAMBDA c : v[c], S)

Pick(s) == CHOOSE x \in s : TRUE

Summand(v, S) == [s \in SUBSET S |-> v[Pick(s)]]

Fewer(S) == [s \in SUBSET S |-> s \ {Pick(s)}]

Size(S) == [s \in SUBSET S |-> Cardinality(s)]

\* Subsets of a finite set have a size, which Fewer makes smaller.
LEMMA SubsetsDescend ==
    ASSUME NEW S, IsFiniteSet(S)
    PROVE  /\ Descends(SUBSET S, {{}}, Fewer(S), Size(S))
           /\ Size(S) \in [SUBSET S -> Nat]
           /\ \A s \in SUBSET S :
                /\ IsFiniteSet(s) /\ Cardinality(s) \in Nat
                /\ \A x \in s : Cardinality(s \ {x}) = Cardinality(s) - 1
<1>1. ASSUME NEW s \in SUBSET S
      PROVE  /\ IsFiniteSet(s) /\ Cardinality(s) \in Nat
             /\ \A x \in s : Cardinality(s \ {x}) = Cardinality(s) - 1
  <2>1. IsFiniteSet(s) BY FS_Subset
  <2> QED BY <2>1, FS_CardinalityType, FS_RemoveElement
<1>2. Size(S) \in [SUBSET S -> Nat] BY <1>1 DEF Size
<1>3. ASSUME NEW s \in SUBSET S, s # {}
      PROVE  Fewer(S)[s] \in SUBSET S /\ Size(S)[Fewer(S)[s]] < Size(S)[s]
  <2>1. Pick(s) \in s BY <1>3 DEF Pick
  <2>2. Fewer(S)[s] = s \ {Pick(s)} /\ s \ {Pick(s)} \in SUBSET S BY DEF Fewer
  <2>3. /\ Size(S)[s] = Cardinality(s)
        /\ Size(S)[s \ {Pick(s)}] = Cardinality(s \ {Pick(s)})
    BY <2>2 DEF Size
  <2>4. /\ Cardinality(s) \in Nat
        /\ Cardinality(s \ {Pick(s)}) = Cardinality(s) - 1
    BY <1>1, <2>1
  <2> QED BY <2>2, <2>3, <2>4
<1> QED BY <1>1, <1>2, <1>3 DEF Descends

\* A property of finite sets holds if it has no least counterexample.
LEMMA LeastSubset ==
    ASSUME NEW S, IsFiniteSet(S), NEW bad \in SUBSET SUBSET S, bad # {}
    PROVE  \E s \in bad : \A x \in s : s \ {x} \notin bad
<1>1. Size(S) \in [SUBSET S -> Nat] BY SubsetsDescend
<1>2. PICK s \in bad : \A r \in bad : Size(S)[s] <= Size(S)[r]
  BY <1>1, Descent
<1>3. ASSUME NEW x \in s PROVE s \ {x} \notin bad
  <2>1. s \in SUBSET S /\ s \ {x} \in SUBSET S OBVIOUS
  <2>2. Cardinality(s) \in Nat /\ Cardinality(s \ {x}) = Cardinality(s) - 1
    BY <2>1, SubsetsDescend
  <2>3. Size(S)[s] = Cardinality(s) /\ Size(S)[s \ {x}] = Cardinality(s \ {x})
    BY <2>1 DEF Size
  <2>4. ~(Size(S)[s] <= Size(S)[s \ {x}]) BY <2>2, <2>3
  <2> QED BY <1>2, <2>4
<1> QED BY <1>3

\* The fold is the solution of its recursion.
LEMMA SumSolves ==
    ASSUME NEW S, IsFiniteSet(S), NEW v
    PROVE  \E g : /\ Solves(g, SUBSET S, {{}}, Summand(v, S), Fewer(S))
                  /\ SumOver(v, S) = g[S]
<1> DEFINE Iter(g) == g = [s \in SUBSET S |-> IF s = {} THEN 0
                             ELSE v[Pick(s)] + g[s \ {Pick(s)}]]
           it == CHOOSE g : Iter(g)
<1>1. PICK g : Solves(g, SUBSET S, {{}}, Summand(v, S), Fewer(S))
  BY SubsetsDescend, SolvesExists
<1>2. ASSUME NEW f
      PROVE  Iter(f) <=> Solves(f, SUBSET S, {{}}, Summand(v, S), Fewer(S))
  <2>1. \A s \in SUBSET S :
          (IF s \in {{}} THEN 0 ELSE Summand(v, S)[s] + f[Fewer(S)[s]])
            = (IF s = {} THEN 0 ELSE v[Pick(s)] + f[s \ {Pick(s)}])
    BY DEF Summand, Fewer
  <2>2. [s \in SUBSET S |-> IF s \in {{}} THEN 0 ELSE Summand(v, S)[s] + f[Fewer(S)[s]]]
          = [s \in SUBSET S |-> IF s = {} THEN 0 ELSE v[Pick(s)] + f[s \ {Pick(s)}]]
    BY <2>1, Zenon
  <2> QED BY <2>2 DEF Solves
<1>3. Iter(it) BY <1>1, <1>2, Zenon
<1>4. SumOver(v, S) = it[S]
  BY DEF SumOver, MapThenSumSet, MapThenFoldSet, Pick
<1> HIDE DEF it, Iter
<1> QED BY <1>2, <1>3, <1>4

LEMMA SumEmpty == ASSUME NEW v PROVE SumOver(v, {}) = 0
<1>1. PICK g : /\ Solves(g, SUBSET {}, {{}}, Summand(v, {}), Fewer({}))
               /\ SumOver(v, {}) = g[{}]
  BY SumSolves, FS_EmptySet
<1>2. {} \in SUBSET {} /\ {} \in {{}} OBVIOUS
<1> QED BY <1>1, <1>2, SolvesEnd

LEMMA SumPick ==
    ASSUME NEW S, IsFiniteSet(S), NEW v, S # {}
    PROVE  SumOver(v, S) = v[Pick(S)] + SumOver(v, S \ {Pick(S)})
<1> DEFINE r == S \ {Pick(S)}
<1>1. PICK g : /\ Solves(g, SUBSET S, {{}}, Summand(v, S), Fewer(S))
               /\ SumOver(v, S) = g[S]
  BY SumSolves
<1>2. IsFiniteSet(r) BY FS_Subset
<1>3. PICK f : /\ Solves(f, SUBSET r, {{}}, Summand(v, r), Fewer(r))
               /\ SumOver(v, r) = f[r]
  BY <1>2, SumSolves
<1>4. Solves(f, SUBSET r, {{}}, Summand(v, S), Fewer(S))
  <2>1. \A s \in SUBSET r :
          (IF s \in {{}} THEN 0 ELSE Summand(v, r)[s] + f[Fewer(r)[s]])
            = (IF s \in {{}} THEN 0 ELSE Summand(v, S)[s] + f[Fewer(S)[s]])
    BY DEF Summand, Fewer
  <2>2. [s \in SUBSET r |-> IF s \in {{}} THEN 0 ELSE Summand(v, r)[s] + f[Fewer(r)[s]]]
          = [s \in SUBSET r |-> IF s \in {{}} THEN 0 ELSE Summand(v, S)[s] + f[Fewer(S)[s]]]
    BY <2>1, Zenon
  <2> QED BY <1>3, <2>2 DEF Solves
<1>5. f[r] = g[r]
  <2> DEFINE E == SUBSET r
  <2>1. /\ E \in SUBSET SUBSET S /\ E \subseteq E /\ E \subseteq SUBSET S /\ r \in E
    OBVIOUS
  <2>2. \A s \in E \ {{}} : Fewer(S)[s] \in E BY DEF Fewer
  <2>3. Descends(SUBSET S, {{}}, Fewer(S), Size(S)) BY SubsetsDescend
  <2>4. Solves(f, E, {{}}, Summand(v, S), Fewer(S)) BY <1>4
  <2> HIDE DEF E, r
  <2> QED BY <1>1, <2>1, <2>2, <2>3, <2>4, SolvesOnce
<1>6. g[S] = Summand(v, S)[S] + g[Fewer(S)[S]]
  <2>1. S \in SUBSET S /\ S \notin {{}} OBVIOUS
  <2> QED BY <1>1, <2>1, SolvesAt
<1>7. Summand(v, S)[S] = v[Pick(S)] /\ Fewer(S)[S] = r BY DEF Summand, Fewer
<1> QED BY <1>1, <1>3, <1>5, <1>6, <1>7

\* A sum of naturals is one.
LEMMA SumType ==
    ASSUME NEW S, IsFiniteSet(S), NEW v, \A c \in S : v[c] \in Nat
    PROVE  SumOver(v, S) \in Nat
<1> DEFINE bad == {s \in SUBSET S : SumOver(v, s) \notin Nat}
<1> SUFFICES ASSUME bad # {} PROVE FALSE OBVIOUS
<1>1. PICK s \in bad : \A x \in s : s \ {x} \notin bad
  <2>1. bad \in SUBSET SUBSET S OBVIOUS
  <2> HIDE DEF bad
  <2> QED BY <2>1, LeastSubset
<1>2. s \in SUBSET S /\ s # {}
  <2>1. SumOver(v, {}) \in Nat BY SumEmpty
  <2> QED BY <1>1, <2>1
<1>3. Pick(s) \in s BY <1>2 DEF Pick
<1>4. s \ {Pick(s)} \notin bad BY <1>1, <1>3
<1>5. SumOver(v, s \ {Pick(s)}) \in Nat /\ v[Pick(s)] \in Nat BY <1>2, <1>3, <1>4
<1>6. SumOver(v, s) = v[Pick(s)] + SumOver(v, s \ {Pick(s)})
  BY <1>2, SubsetsDescend, SumPick
<1>7. SumOver(v, s) \in Nat BY <1>5, <1>6
<1> QED BY <1>1, <1>7

\* Any element can be taken out of a sum.
LEMMA SumTake ==
    ASSUME NEW S, IsFiniteSet(S), NEW v, \A c \in S : v[c] \in Nat, NEW x \in S
    PROVE  SumOver(v, S) = v[x] + SumOver(v, S \ {x})
<1> DEFINE bad == {s \in SUBSET S :
                     \E c \in s : SumOver(v, s) # v[c] + SumOver(v, s \ {c})}
<1> SUFFICES ASSUME bad # {} PROVE FALSE OBVIOUS
<1>1. PICK s \in bad : \A d \in s : s \ {d} \notin bad
  <2>1. bad \in SUBSET SUBSET S OBVIOUS
  <2> HIDE DEF bad
  <2> QED BY <2>1, LeastSubset
<1>2. PICK c \in s : SumOver(v, s) # v[c] + SumOver(v, s \ {c}) BY <1>1
<1> DEFINE p == Pick(s)
           rest == s \ {c, p}
<1>3. s \in SUBSET S /\ s # {} /\ c \in S BY <1>1, <1>2
<1>4. p \in s BY <1>3 DEF Pick
<1>5. ASSUME NEW d \in s PROVE s \ {d} \notin bad BY <1>1
<1>6. SumOver(v, s) = v[p] + SumOver(v, s \ {p}) BY <1>3, SubsetsDescend, SumPick
<1>7. c # p BY <1>2, <1>6
<1>8. SumOver(v, s \ {p}) = v[c] + SumOver(v, rest)
  <2>1. (s \ {p}) \ {c} = rest /\ c \in s \ {p} /\ s \ {p} \in SUBSET S BY <1>3, <1>7
  <2>2. \A d \in s \ {p} : SumOver(v, s \ {p}) = v[d] + SumOver(v, (s \ {p}) \ {d})
    BY <1>4, <1>5, <2>1
  <2> QED BY <2>1, <2>2
<1>9. SumOver(v, s \ {c}) = v[p] + SumOver(v, rest)
  <2>1. (s \ {c}) \ {p} = rest /\ p \in s \ {c} /\ s \ {c} \in SUBSET S BY <1>3, <1>4, <1>7
  <2>2. \A d \in s \ {c} : SumOver(v, s \ {c}) = v[d] + SumOver(v, (s \ {c}) \ {d})
    BY <1>5, <2>1
  <2> QED BY <2>1, <2>2
<1>10. v[p] \in Nat /\ v[c] \in Nat /\ SumOver(v, rest) \in Nat
  <2>1. rest \in SUBSET S /\ p \in S BY <1>3, <1>4
  <2>2. IsFiniteSet(rest) BY <2>1, FS_Subset
  <2>3. SumOver(v, rest) \in Nat BY <2>1, <2>2, SumType
  <2> QED BY <1>3, <2>1, <2>3
<1> HIDE DEF p, rest
<1> QED BY <1>2, <1>6, <1>8, <1>9, <1>10

\* A sum depends on its summands only.
LEMMA SumSame ==
    ASSUME NEW S, IsFiniteSet(S), NEW v, NEW w, \A c \in S : v[c] = w[c]
    PROVE  SumOver(v, S) = SumOver(w, S)
<1> DEFINE bad == {s \in SUBSET S : SumOver(v, s) # SumOver(w, s)}
<1> SUFFICES ASSUME bad # {} PROVE FALSE OBVIOUS
<1>1. PICK s \in bad : \A x \in s : s \ {x} \notin bad
  <2>1. bad \in SUBSET SUBSET S OBVIOUS
  <2> HIDE DEF bad
  <2> QED BY <2>1, LeastSubset
<1>2. s \in SUBSET S /\ s # {}
  <2>1. SumOver(v, {}) = 0 /\ SumOver(w, {}) = 0 BY SumEmpty
  <2> QED BY <1>1, <2>1
<1>3. Pick(s) \in s BY <1>2 DEF Pick
<1>4. s \ {Pick(s)} \notin bad BY <1>1, <1>3
<1>5. SumOver(v, s \ {Pick(s)}) = SumOver(w, s \ {Pick(s)}) /\ v[Pick(s)] = w[Pick(s)]
  BY <1>2, <1>3, <1>4
<1>6. IsFiniteSet(s) BY <1>2, SubsetsDescend
<1>7. SumOver(v, s) = v[Pick(s)] + SumOver(v, s \ {Pick(s)}) BY <1>2, <1>6, SumPick
<1>8. SumOver(w, s) = w[Pick(s)] + SumOver(w, s \ {Pick(s)}) BY <1>2, <1>6, SumPick
<1> QED BY <1>1, <1>5, <1>7, <1>8

\* A sum of naturals is at least each of them.
LEMMA SumOfNaturals ==
    ASSUME NEW S, IsFiniteSet(S), NEW v, \A c \in S : v[c] \in Nat
    PROVE  SumOver(v, S) \in Nat /\ \A c \in S : SumOver(v, S) >= v[c]
<1>1. SumOver(v, S) \in Nat BY SumType
<1>2. ASSUME NEW c \in S PROVE SumOver(v, S) >= v[c]
  <2>1. SumOver(v, S) = v[c] + SumOver(v, S \ {c}) BY SumTake
  <2>2. SumOver(v, S \ {c}) \in Nat
    <3>1. IsFiniteSet(S \ {c}) /\ \A d \in S \ {c} : v[d] \in Nat BY FS_Subset
    <3> QED BY <3>1, SumType
  <2> QED BY <2>1, <2>2
<1> QED BY <1>1, <1>2
=============================================================================
