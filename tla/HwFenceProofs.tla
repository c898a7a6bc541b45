--------------------------- MODULE HwFenceProofs ---------------------------
(***************************************************************************)
(* Proofs about HwFence for any clients, fences and arrays, any size of    *)
(* the table, any hash and any limit of the parents, as long as no client  *)
(* is reset.                                                               *)
(***************************************************************************)
EXTENDS HwFence, FiniteLemmas

-----------------------------------------------------------------------------
(* The inductive invariant.                                                *)

\* Where a thread is in hw_fence_process_fence_array.
JoinPlaces == {"join", "mask", "kid", "child", "undo", "unlink", "joined", "join_destroy"}

\* Where it is while no client is reset.
Places == {"idle", "create", "destroy", "find", "register"} \cup JoinPlaces

Thread == [at : Places, key : Keys \cup {NoOne}, step : 0..(TableSize - 1),
           h : Slots, join : Slots, i : Nat, signaled : Nat]

Types == TypeOK /\ was \subseteq Fences /\ th \in [Clients -> Thread]

SlotOK(h) ==
    /\ tbl[h].valid <=> tbl[h].key # NoOne
    /\ tbl[h].signal => tbl[h].key \in Fences

\* A fence or an array has one slot.
OneSlot(g, h) == tbl[g].key = tbl[h].key /\ tbl[g].key # NoOne => g = h

Dying(f) == \E c \in Clients : At(c, "destroy") /\ th[c].key = f

\* The slot of a fence knows that it has been signalled.
FenceOK(h) ==
    tbl[h].key \in Fences =>
        /\ tbl[h].key \in enabled
        /\ tbl[h].key \in was => tbl[h].signal
        /\ tbl[h].signal => tbl[h].key \in was \/ Dying(tbl[h].key)

\* The slots that the lookup of a thread has passed.
Probed(c) == {(Home[Wanted(c)] + k) % TableSize : k \in 0..(th[c].step - 1)}

\* What a thread was called for; the slot of a fence that it destroys is
\* signalled, and not one that the lookup has passed.
CallOK(c) ==
    /\ th[c].at \in {"create", "destroy"} => th[c].key \in Fences /\ Owner[th[c].key] = c
    /\ th[c].at \in {"find", "register"} => th[c].key \in Fences
    /\ th[c].at \in JoinPlaces => th[c].key \in Arrays
    /\ th[c].at = "create" => th[c].key \notin enabled
    /\ th[c].at = "destroy" =>
           /\ th[c].key \notin was
           /\ \A h \in Slots : tbl[h].key = th[c].key => tbl[h].signal /\ h \notin Probed(c)

\* One thread waits for an array.
Exclusive(c, d) ==
    c # d /\ th[c].at \in JoinPlaces /\ th[d].at \in JoinPlaces => th[c].key # th[d].key

\* Nobody uses a fence that is destroyed.
DyingOK(c) ==
    th[c].at = "destroy" =>
        /\ \A d \in Clients : d # c /\ th[d].at # "idle" => ~KeepsAlive(th[d].key, th[c].key)
        /\ \A h \in Slots : tbl[h].key \in Arrays => ~KeepsAlive(tbl[h].key, th[c].key)

LinkOK(p) == \A h \in Linked(p) : tbl[p].key \in Arrays /\ tbl[h].key \in Fences

\* The fences that are not signalled, of the first n of an array.
Open(a, n) == {Kids[a][j] : j \in 1..n} \ was

\* The join fence is a parent of some of the first n fences only.
Within(p, n) == \A h \in Linked(p) : \E j \in 1..n : tbl[h].key = Kids[tbl[p].key][j]

\* It counts those of the first n that are not signalled, and all the others.
Counts(p, n) ==
    /\ Within(p, n)
    /\ tbl[p].pending >= Cardinality(Open(tbl[p].key, n)) + (Len(Kids[tbl[p].key]) - n)

CountOK(p) ==
    tbl[p].key \in Arrays => \E n \in 0..Len(Kids[tbl[p].key]) : Counts(p, n)

Owns(c) == tbl[th[c].join].key = th[c].key

\* The n fences that a thread has come to, and those it found signalled: if
\* these are all, the join fence is nobody's parent.
Tally(c, n) ==
    /\ th[c].signaled <= n
    /\ th[c].signaled = n =>
           /\ Owns(c) /\ Linked(th[c].join) = {}
           /\ \A j \in 1..n : Kids[th[c].key][j] \in was

\* The thread links the fence i of the array.
LinkingOK(c) ==
    /\ Owns(c) /\ th[c].i \in 1..Len(Kids[th[c].key])
    /\ Counts(th[c].join, th[c].i - 1)
    /\ Tally(c, th[c].i - 1)

\* It undoes the links of the first i fences. The join fence still counts a
\* fence that was never linked, and so does not end.
UndoingOK(c) ==
    /\ Owns(c) /\ th[c].i \in 1..Len(Kids[th[c].key])
    /\ \E n \in 0..(Len(Kids[th[c].key]) - 1) : Counts(th[c].join, n)
    /\ Within(th[c].join, th[c].i)

\* The fence is in the slot that the lookup found.
FoundOK(c) == tbl[th[c].h].key = Kids[th[c].key][th[c].i]

\* The lookup has not passed a slot that is to be unlinked.
NotPassed(c) == \A h \in Linked(th[c].join) \cap Probed(c) : tbl[h].key # Wanted(c)

JoinOK(c) ==
    /\ th[c].at = "join" => /\ \A h \in Slots : tbl[h].key # th[c].key
                            /\ th[c].i = 0 /\ th[c].signaled = 0
    /\ th[c].at = "mask" =>
           Owns(c) /\ Counts(th[c].join, 0) /\ Tally(c, 0) /\ th[c].i = 0
    /\ th[c].at \in {"kid", "child"} => LinkingOK(c)
    /\ th[c].at \in {"undo", "unlink"} => UndoingOK(c)
    /\ th[c].at = "undo" => NotPassed(c)
    /\ th[c].at \in {"child", "unlink"} => FoundOK(c)
    /\ th[c].at = "joined" => Tally(c, Len(Kids[th[c].key]))
    /\ th[c].at = "join_destroy" =>
           \A p \in Slots : tbl[p].key = th[c].key => Linked(p) = {}

IInv ==
    /\ Types
    /\ was \subseteq enabled
    /\ \A h \in Slots : SlotOK(h)
    /\ \A g, h \in Slots : OneSlot(g, h)
    /\ \A h \in Slots : FenceOK(h)
    /\ \A c \in Clients : CallOK(c)
    /\ \A c, d \in Clients : Exclusive(c, d)
    /\ \A c \in Clients : DyingOK(c)
    /\ \A p \in Slots : LinkOK(p)
    /\ \A p \in Slots : CountOK(p)
    /\ \A c \in Clients : JoinOK(c)
    /\ WaitersTold

-----------------------------------------------------------------------------
(* The table and the arrays.                                               *)

LEMMA SlotFacts ==
    /\ TableSize \in Nat /\ TableSize > 0
    /\ 0 \in Slots /\ Slots \in SUBSET Nat
    /\ \A h \in Slots : h < TableSize
BY TableAssumption DEF Slots

LEMMA KidsFacts ==
    ASSUME NEW a \in Arrays
    PROVE  /\ a \in Keys /\ a # NoOne /\ a \notin Fences
           /\ Kids[a] \in Seq(Fences) /\ Len(Kids[a]) \in Nat /\ Len(Kids[a]) > 0
           /\ DOMAIN Kids[a] = 1..Len(Kids[a])
           /\ \A i \in 1..Len(Kids[a]) : Kids[a][i] \in Fences
<1>1. Kids[a] \in Seq(Fences) /\ Kids[a] # <<>> BY TableAssumption
<1>2. Len(Kids[a]) \in Nat /\ Len(Kids[a]) > 0 BY <1>1
<1> QED BY <1>1, <1>2, TableAssumption DEF Keys

LEMMA FenceFacts ==
    ASSUME NEW f \in Fences
    PROVE  f \in Keys /\ f # NoOne /\ f \notin Arrays /\ Owner[f] \in Clients
BY TableAssumption DEF Keys

LEMMA KeepsFence ==
    ASSUME NEW a \in Arrays, NEW i \in 1..Len(Kids[a])
    PROVE  KeepsAlive(a, Kids[a][i])
BY KidsFacts DEF KeepsAlive

\* A lookup that has passed as many slots as there are has passed them all.
LEMMA AllProbed ==
    ASSUME NEW b \in Slots, NEW h \in Slots
    PROVE  \E k \in 0..(TableSize - 1) : (b + k) % TableSize = h
<1>1. CASE h >= b
  <2>1. h - b \in 0..(TableSize - 1) /\ b + (h - b) = h BY <1>1, SlotFacts DEF Slots
  <2>2. h % TableSize = h BY SlotFacts
  <2> QED BY <2>1, <2>2
<1>2. CASE h < b
  <2>1. h - b + TableSize \in 0..(TableSize - 1) /\ b + (h - b + TableSize) = h + TableSize
    BY <1>2, SlotFacts DEF Slots
  <2>2. (h + TableSize) % TableSize = h BY SlotFacts
  <2> QED BY <2>1, <2>2
<1> QED BY <1>1, <1>2, SlotFacts

LEMMA HashIn ==
    ASSUME NEW b \in Slots, NEW k \in Nat
    PROVE  (b + k) % TableSize \in Slots
BY SlotFacts DEF Slots

LEMMA OpenFacts ==
    ASSUME NEW a \in Arrays, NEW n \in 0..Len(Kids[a])
    PROVE  IsFiniteSet(Open(a, n)) /\ Cardinality(Open(a, n)) \in Nat
<1>1. n \in Nat BY KidsFacts
<1>2. IsFiniteSet(1..n) BY <1>1, IntervalCount
<1> DEFINE f == [j \in 1..n |-> Kids[a][j]]
<1>3. IsFiniteSet({Kids[a][j] : j \in 1..n})
  <2>1. f \in Surjection(1..n, {Kids[a][j] : j \in 1..n}) BY DEF Surjection
  <2> QED BY <1>2, <2>1, FS_Surjection
<1>4. IsFiniteSet(Open(a, n)) BY <1>3, FS_Difference DEF Open
<1> QED BY <1>4, FS_CardinalityType

\* The next fence of the array may be open.
LEMMA OpenNext ==
    ASSUME NEW a \in Arrays, NEW n \in 1..Len(Kids[a])
    PROVE  /\ Cardinality(Open(a, n)) <= Cardinality(Open(a, n - 1)) + 1
           /\ Kids[a][n] \in was => Cardinality(Open(a, n)) = Cardinality(Open(a, n - 1))
<1> DEFINE f == Kids[a][n]
<1>1. /\ n - 1 \in 0..Len(Kids[a]) /\ n \in 0..Len(Kids[a])
      /\ \A j \in 1..n : j \in 1..(n - 1) \/ j = n
      /\ \A j \in 1..(n - 1) : j \in 1..n
      /\ n \in 1..n
  BY KidsFacts
<1>2. Open(a, n) \subseteq Open(a, n - 1) \cup {f} BY <1>1 DEF Open
<1>3. Open(a, n - 1) \subseteq Open(a, n) BY <1>1 DEF Open
<1>4. IsFiniteSet(Open(a, n - 1)) /\ Cardinality(Open(a, n - 1)) \in Nat BY <1>1, OpenFacts
<1>5. Open(a, n) \ {f} = Open(a, n - 1) \ {f} BY <1>2, <1>3
<1>6. /\ Cardinality(Open(a, n)) = Cardinality(Open(a, n - 1))
             + (IF f \in Open(a, n) THEN 1 ELSE 0) - (IF f \in Open(a, n - 1) THEN 1 ELSE 0)
  <2> HIDE DEF f
  <2> QED BY <1>4, <1>5, CountMoved
<1>7. f \in was => f \notin Open(a, n) /\ f \notin Open(a, n - 1) BY DEF Open
<1> QED BY <1>4, <1>6, <1>7

\* A fence of the first n is signalled.
LEMMA OpenSignalled ==
    ASSUME NEW a \in Arrays, NEW n \in 0..Len(Kids[a]), NEW f, was' = was \cup {f}
    PROVE  /\ Open(a, n)' = Open(a, n) \ {f}
           /\ Cardinality(Open(a, n)') \in Nat
           /\ Cardinality(Open(a, n)') = Cardinality(Open(a, n))
                                           - (IF f \in Open(a, n) THEN 1 ELSE 0)
<1>1. Open(a, n)' = Open(a, n) \ {f} BY DEF Open
<1>2. IsFiniteSet(Open(a, n)) /\ Cardinality(Open(a, n)) \in Nat BY OpenFacts
<1> QED BY <1>1, <1>2, FS_RemoveElement, FS_CardinalityType

LEMMA OpenEmpty ==
    ASSUME NEW a
    PROVE  Open(a, 0) = {} /\ Cardinality(Open(a, 0)) = 0
<1>1. Open(a, 0) = {} BY DEF Open
<1> QED BY <1>1, FS_EmptySet

\* One fence is open, and no other.
LEMMA OpenOne ==
    ASSUME NEW a \in Arrays, NEW n \in 0..Len(Kids[a]), NEW f \in Open(a, n)
    PROVE  /\ Cardinality(Open(a, n)) >= 1
           /\ Cardinality(Open(a, n)) = 1 => Open(a, n) = {f}
<1>1. IsFiniteSet(Open(a, n)) /\ Cardinality(Open(a, n)) \in Nat BY OpenFacts
<1>2. IsFiniteSet({f}) /\ Cardinality({f}) = 1 BY FS_Singleton
<1>3. {f} \in SUBSET Open(a, n) OBVIOUS
<1> QED BY <1>1, <1>2, <1>3, FS_Subset

-----------------------------------------------------------------------------
(* What a step leaves as it is.                                            *)

\* The fields of a slot that links and counts depend on.
SameSlot(h) ==
    /\ tbl'[h].valid = tbl[h].valid /\ tbl'[h].key = tbl[h].key
    /\ tbl'[h].signal = tbl[h].signal /\ tbl'[h].parents = tbl[h].parents
    /\ tbl'[h].cnt = tbl[h].cnt /\ tbl'[h].pending = tbl[h].pending

LEMMA LinkedSame ==
    ASSUME \A h \in Slots : SameSlot(h), NEW p
    PROVE  Linked(p)' = Linked(p)
BY DEF SameSlot, Linked

\* The predicates of a thread depend on the table, on was and on enabled.
LEMMA ThreadSame ==
    ASSUME \A h \in Slots : SameSlot(h), was' = was, enabled' = enabled,
           Types, NEW c \in Clients, th'[c] = th[c]
    PROVE  /\ CallOK(c) => CallOK(c)'
           /\ CallOK(c) /\ JoinOK(c) => JoinOK(c)'
<1>1. \A p : Linked(p)' = Linked(p) BY LinkedSame
<1>2. \A h \in Slots : tbl'[h].key = tbl[h].key /\ tbl'[h].signal = tbl[h].signal
                         /\ tbl'[h].pending = tbl[h].pending
  BY DEF SameSlot
<1>3. Wanted(c)' = Wanted(c) /\ Probed(c)' = Probed(c) BY DEF Wanted, Probed
<1>4. th[c].join \in Slots /\ th[c].h \in Slots BY DEF Types, Thread
<1>5. \A h \in Slots : \A p : h \in Linked(p) <=> h \in Linked(p)' BY <1>1
<1>6. \A p : Linked(p) \subseteq Slots BY DEF Linked
<1>7. \A a, n : Open(a, n)' = Open(a, n) BY DEF Open
<1>8. \A p \in Slots : \A n : Within(p, n)' <=> Within(p, n) BY <1>1, <1>2, <1>6 DEF Within
<1>9. \A p \in Slots : \A n : Counts(p, n)' <=> Counts(p, n) BY <1>2, <1>7, <1>8 DEF Counts
<1>10. Owns(c)' <=> Owns(c) BY <1>2, <1>4 DEF Owns
<1>11. \A n : Tally(c, n)' <=> Tally(c, n) BY <1>1, <1>10 DEF Tally
<1>12. LinkingOK(c)' <=> LinkingOK(c) BY <1>4, <1>9, <1>10, <1>11 DEF LinkingOK
<1>13. UndoingOK(c)' <=> UndoingOK(c) BY <1>4, <1>8, <1>9, <1>10 DEF UndoingOK
<1>14. FoundOK(c)' <=> FoundOK(c) BY <1>2, <1>4 DEF FoundOK
<1>15. NotPassed(c)' <=> NotPassed(c) BY <1>1, <1>2, <1>3, <1>6 DEF NotPassed
<1>16. CallOK(c) => CallOK(c)' BY <1>2, <1>3 DEF CallOK
<1>17. CallOK(c) /\ JoinOK(c) => JoinOK(c)'
  BY <1>1, <1>2, <1>4, <1>9, <1>10, <1>11, <1>12, <1>13, <1>14, <1>15 DEF JoinOK
<1> QED BY <1>16, <1>17

\* So do those of the slots.
LEMMA SlotsSame ==
    ASSUME \A h \in Slots : SameSlot(h), was' = was, enabled' = enabled
    PROVE  /\ \A h \in Slots : SlotOK(h) => SlotOK(h)'
           /\ \A g, h \in Slots : OneSlot(g, h) => OneSlot(g, h)'
           /\ \A p \in Slots : LinkOK(p) => LinkOK(p)'
           /\ \A p \in Slots : CountOK(p) => CountOK(p)'
           /\ \A h \in Slots : (FenceOK(h) /\ (\A f : Dying(f) => Dying(f)')) => FenceOK(h)'
<1>1. \A p : Linked(p)' = Linked(p) BY LinkedSame
<1>2. \A h \in Slots : /\ tbl'[h].key = tbl[h].key /\ tbl'[h].signal = tbl[h].signal
                       /\ tbl'[h].pending = tbl[h].pending /\ tbl'[h].valid = tbl[h].valid
  BY DEF SameSlot
<1>6. \A p : Linked(p) \subseteq Slots BY DEF Linked
<1>7. \A a, n : Open(a, n)' = Open(a, n) BY DEF Open
<1>8. \A p \in Slots : \A n : Within(p, n)' <=> Within(p, n) BY <1>1, <1>2, <1>6 DEF Within
<1>9. \A p \in Slots : \A n : Counts(p, n)' <=> Counts(p, n) BY <1>2, <1>7, <1>8 DEF Counts
<1>10. \A p \in Slots : CountOK(p) => CountOK(p)' BY <1>2, <1>9 DEF CountOK
<1>11. \A p \in Slots : LinkOK(p) => LinkOK(p)' BY <1>1, <1>2, <1>6 DEF LinkOK
<1>12. \A h \in Slots : SlotOK(h) => SlotOK(h)' BY <1>2 DEF SlotOK
<1>13. \A g, h \in Slots : OneSlot(g, h) => OneSlot(g, h)' BY <1>2 DEF OneSlot
<1>14. \A h \in Slots : (FenceOK(h) /\ (\A f : Dying(f) => Dying(f)')) => FenceOK(h)'
  BY <1>2 DEF FenceOK
<1> QED BY <1>10, <1>11, <1>12, <1>13, <1>14

-----------------------------------------------------------------------------
(* Where a thread goes.                                                    *)

LEMMA ReadyThread ==
    /\ Ready \in Thread /\ Ready.at = "idle"
    /\ \A w \in Places, k \in Keys \cup {NoOne} :
           /\ [Ready EXCEPT !.at = w, !.key = k] \in Thread
           /\ [Ready EXCEPT !.at = w, !.key = k].at = w
           /\ [Ready EXCEPT !.at = w, !.key = k].key = k
           /\ [Ready EXCEPT !.at = w, !.key = k].step = 0
           /\ [Ready EXCEPT !.at = w, !.key = k].i = 0
           /\ [Ready EXCEPT !.at = w, !.key = k].signaled = 0
<1>1. "idle" \in Places BY DEF Places
<1>2. 0 \in 0..(TableSize - 1) /\ 0 \in Slots /\ 0 \in Nat BY SlotFacts
<1>3. Ready \in Thread BY <1>1, <1>2 DEF Ready, Thread
<1>4. ASSUME NEW w \in Places, NEW k \in Keys \cup {NoOne}
      PROVE  /\ [Ready EXCEPT !.at = w, !.key = k] \in Thread
             /\ [Ready EXCEPT !.at = w, !.key = k].at = w
             /\ [Ready EXCEPT !.at = w, !.key = k].key = k
             /\ [Ready EXCEPT !.at = w, !.key = k].step = 0
             /\ [Ready EXCEPT !.at = w, !.key = k].i = 0
             /\ [Ready EXCEPT !.at = w, !.key = k].signaled = 0
  BY <1>2 DEF Ready, Thread
<1> QED BY <1>3, <1>4 DEF Ready

\* A lookup that is not one of a reset.
LEMMA LookUpFacts ==
    ASSUME NEW t \in Thread, NEW w \in Places
    PROVE  /\ LookUp(t, w) \in Thread
           /\ LookUp(t, w).at = w /\ LookUp(t, w).key = t.key /\ LookUp(t, w).step = 0
           /\ LookUp(t, w).join = t.join /\ LookUp(t, w).i = t.i
           /\ LookUp(t, w).signaled = t.signaled
<1>1. w # "reset_destroy" BY DEF Places, JoinPlaces
<1>2. 0 \in 0..(TableSize - 1) /\ 0 \in Slots BY SlotFacts
<1> QED BY <1>1, <1>2 DEF LookUp, Thread

LEMMA WithI ==
    ASSUME NEW t \in Thread, NEW i \in Nat
    PROVE  /\ [t EXCEPT !.i = i] \in Thread
           /\ [t EXCEPT !.i = i].at = t.at /\ [t EXCEPT !.i = i].key = t.key
           /\ [t EXCEPT !.i = i].step = t.step /\ [t EXCEPT !.i = i].join = t.join
           /\ [t EXCEPT !.i = i].i = i /\ [t EXCEPT !.i = i].signaled = t.signaled
BY DEF Thread

LEMMA UndoFromFacts ==
    ASSUME NEW t \in Thread, NEW i \in Nat
    PROVE  /\ UndoFrom(t, i) \in Thread
           /\ UndoFrom(t, i).key = t.key /\ UndoFrom(t, i).join = t.join
           /\ UndoFrom(t, i).step = 0
           /\ i = 0 => UndoFrom(t, i).at = "join_destroy"
           /\ i # 0 => UndoFrom(t, i).at = "undo" /\ UndoFrom(t, i).i = i
<1>1. "join_destroy" \in Places /\ "undo" \in Places BY DEF Places, JoinPlaces
<1>2. CASE i = 0
  <2>1. UndoFrom(t, i) = LookUp(t, "join_destroy") BY <1>2 DEF UndoFrom
  <2> QED BY <1>1, <1>2, <2>1, LookUpFacts
<1>3. CASE i # 0
  <2>1. UndoFrom(t, i) = [LookUp(t, "undo") EXCEPT !.i = i] BY <1>3 DEF UndoFrom
  <2>2. LookUp(t, "undo") \in Thread BY <1>1, LookUpFacts
  <2> QED BY <1>1, <1>3, <2>1, <2>2, LookUpFacts, WithI
<1> QED BY <1>2, <1>3

\* A failed wait for an array is undone from its fence i on.
LEMMA UndoFromOK ==
    ASSUME NEW c \in Clients, NEW t \in Thread, t.key \in Arrays,
           NEW i \in 0..Len(Kids[t.key]), th'[c] = UndoFrom(t, i),
           tbl'[t.join].key = t.key,
           NEW n \in 0..(Len(Kids[t.key]) - 1), Counts(t.join, n)', Within(t.join, i)',
           \A g, h \in Slots : OneSlot(g, h)'
    PROVE  JoinOK(c)' /\ CallOK(c)'
<1> DEFINE u == UndoFrom(t, i)
<1>1. /\ u \in Thread /\ u.key = t.key /\ u.join = t.join /\ u.step = 0
      /\ i = 0 => u.at = "join_destroy"
      /\ i # 0 => u.at = "undo" /\ u.i = i
  BY KidsFacts, UndoFromFacts
<1> HIDE DEF u
<1>2. th'[c] = u BY DEF u
<1>3. CallOK(c)' BY <1>1, <1>2 DEF CallOK, JoinPlaces
<1>4. CASE i = 0
  <2>1. th'[c].at = "join_destroy" /\ th'[c].key = t.key BY <1>1, <1>2, <1>4
  <2>2. Linked(t.join)' = {} BY <1>4 DEF Within
  <2>3. t.join \in Slots /\ t.key # NoOne BY KidsFacts DEF Thread
  <2>4. \A p \in Slots : tbl'[p].key = t.key => p = t.join BY <2>3 DEF OneSlot
  <2> QED BY <1>3, <2>1, <2>2, <2>4 DEF JoinOK
<1>5. CASE i # 0
  <2>1. /\ th'[c].at = "undo" /\ th'[c].key = t.key /\ th'[c].i = i
        /\ th'[c].join = t.join /\ th'[c].step = 0
    BY <1>1, <1>2, <1>5
  <2>2. UndoingOK(c)' BY <2>1, <1>5, KidsFacts DEF UndoingOK, Owns
  <2>3. Probed(c)' = {} BY <2>1 DEF Probed
  <2>4. NotPassed(c)' BY <2>3 DEF NotPassed
  <2> QED BY <1>3, <2>1, <2>2, <2>4 DEF JoinOK
<1> QED BY <1>4, <1>5

LEMMA NextKidFacts ==
    ASSUME NEW t \in Thread, t.key \in Arrays, t.i \in 0..Len(Kids[t.key])
    PROVE  \/ /\ t.i = Len(Kids[t.key]) /\ NextKid(t) = [t EXCEPT !.at = "joined"]
              /\ NextKid(t) \in Thread
           \/ /\ t.i < Len(Kids[t.key])
              /\ NextKid(t) \in Thread
              /\ NextKid(t).at = "kid" /\ NextKid(t).key = t.key /\ NextKid(t).i = t.i + 1
              /\ NextKid(t).join = t.join /\ NextKid(t).signaled = t.signaled
           \/ /\ t.i < Len(Kids[t.key]) /\ NextKid(t) = UndoFrom(t, t.i + 1)
<1>1. "joined" \in Places /\ "kid" \in Places BY DEF Places, JoinPlaces
<1>3. Len(Kids[t.key]) \in Nat /\ t.i \in Nat BY KidsFacts
<1>4. CASE t.i = Len(Kids[t.key]) BY <1>1, <1>4 DEF NextKid, Thread
<1>5. CASE t.i # Len(Kids[t.key]) /\ Kids[t.key][t.i + 1] \in enabled
  <2> DEFINE u == LookUp(t, "kid")
  <2>1. /\ u \in Thread /\ u.at = "kid" /\ u.key = t.key /\ u.i = t.i
        /\ u.join = t.join /\ u.signaled = t.signaled
    BY <1>1, LookUpFacts
  <2>2. NextKid(t) = [u EXCEPT !.i = u.i + 1] BY <1>5 DEF NextKid
  <2> HIDE DEF u
  <2>3. NextKid(t) = [u EXCEPT !.i = t.i + 1] /\ t.i + 1 \in Nat BY <1>3, <2>1, <2>2
  <2> QED BY <1>3, <1>5, <2>1, <2>3, WithI
<1>6. CASE t.i # Len(Kids[t.key]) /\ Kids[t.key][t.i + 1] \notin enabled
  BY <1>3, <1>6 DEF NextKid
<1> QED BY <1>4, <1>5, <1>6

\* The thread goes on from the first i fences.
LEMMA NextKidOK ==
    ASSUME NEW c \in Clients, NEW t \in Thread, t.key \in Arrays,
           t.i \in 0..Len(Kids[t.key]), th'[c] = NextKid(t),
           tbl'[t.join].key = t.key, Counts(t.join, t.i)',
           t.signaled <= t.i,
           t.signaled = t.i => /\ Linked(t.join)' = {}
                               /\ \A j \in 1..t.i : Kids[t.key][j] \in was',
           \A g, h \in Slots : OneSlot(g, h)'
    PROVE  /\ JoinOK(c)' /\ CallOK(c)'
           /\ NextKid(t) \in Thread /\ NextKid(t).key = t.key
           /\ NextKid(t).at \in {"joined", "kid", "undo"}
<1>0. t.i \in Nat /\ t.signaled \in Nat BY DEF Thread
<1>1. CASE t.i = Len(Kids[t.key]) /\ NextKid(t) = [t EXCEPT !.at = "joined"] /\ NextKid(t) \in Thread
  <2>1. /\ th'[c].at = "joined" /\ th'[c].key = t.key
        /\ th'[c].join = t.join /\ th'[c].signaled = t.signaled
    BY <1>1 DEF Thread
  <2>2. Tally(c, t.i)' BY <2>1 DEF Tally, Owns
  <2>3. CallOK(c)' BY <2>1 DEF CallOK, JoinPlaces
  <2> QED BY <1>1, <2>1, <2>2, <2>3 DEF JoinOK
<1>2. CASE /\ t.i < Len(Kids[t.key]) /\ NextKid(t) \in Thread
           /\ NextKid(t).at = "kid" /\ NextKid(t).key = t.key /\ NextKid(t).i = t.i + 1
           /\ NextKid(t).join = t.join /\ NextKid(t).signaled = t.signaled
  <2>1. /\ th'[c].at = "kid" /\ th'[c].key = t.key /\ th'[c].i = t.i + 1
        /\ th'[c].join = t.join /\ th'[c].signaled = t.signaled
    BY <1>2
  <2>2. Tally(c, t.i)' BY <2>1 DEF Tally, Owns
  <2>3. t.i + 1 - 1 = t.i /\ t.i + 1 \in 1..Len(Kids[t.key]) BY <1>0, <1>2, KidsFacts
  <2>4. LinkingOK(c)' BY <2>1, <2>2, <2>3 DEF LinkingOK, Owns
  <2>5. CallOK(c)' BY <2>1 DEF CallOK, JoinPlaces
  <2> QED BY <1>2, <2>1, <2>4, <2>5 DEF JoinOK
<1>3. CASE t.i < Len(Kids[t.key]) /\ NextKid(t) = UndoFrom(t, t.i + 1)
  <2>1. t.i + 1 \in 0..Len(Kids[t.key]) /\ t.i \in 0..(Len(Kids[t.key]) - 1) /\ t.i + 1 # 0
    BY <1>0, <1>3, KidsFacts
  <2>2. Within(t.join, t.i + 1)'
    <3>1. \A j \in 1..t.i : j \in 1..(t.i + 1) BY <1>0
    <3> QED BY <3>1 DEF Counts, Within
  <2>3. JoinOK(c)' /\ CallOK(c)' BY <1>3, <2>1, <2>2, UndoFromOK
  <2>4. NextKid(t) \in Thread /\ NextKid(t).key = t.key /\ NextKid(t).at = "undo"
    <3> DEFINE i == t.i + 1
    <3>1. i \in Nat /\ i # 0 BY <1>0
    <3>2. NextKid(t) = UndoFrom(t, i) BY <1>3
    <3> HIDE DEF i
    <3>3. UndoFrom(t, i) \in Thread /\ UndoFrom(t, i).key = t.key /\ UndoFrom(t, i).at = "undo"
      BY <3>1, UndoFromFacts
    <3> QED BY <3>2, <3>3
  <2> QED BY <2>3, <2>4
<1> QED BY <1>1, <1>2, <1>3, NextKidFacts

\* A thread goes on; the table but for the waiters, was and enabled stay.
LEMMA ThreadMoves ==
    ASSUME IInv, NEW c \in Clients, NEW t \in Thread, th' = [th EXCEPT ![c] = t],
           \A h \in Slots : SameSlot(h), was' = was, enabled' = enabled,
           TypeOK', WaitersTold', CallOK(c)', JoinOK(c)', DyingOK(c)',
           t.at \in JoinPlaces =>
               \/ th[c].at \in JoinPlaces /\ th[c].key = t.key
               \/ \A d \in Clients : d # c /\ th[d].at \in JoinPlaces => th[d].key # t.key,
           t.at # "idle" => \A d \in Clients :
               d # c /\ th[d].at = "destroy" => ~KeepsAlive(t.key, th[d].key),
           th[c].at = "destroy" =>
               \/ t.at = "destroy" /\ t.key = th[c].key
               \/ \A h \in Slots : tbl[h].key # th[c].key
    PROVE  IInv'
<1>1. th \in [Clients -> Thread] BY DEF IInv, Types
<1>2. /\ th' \in [Clients -> Thread] /\ th'[c] = t
      /\ \A d \in Clients : d # c => th'[d] = th[d]
  BY <1>1
<1>3. \A h \in Slots : tbl'[h].key = tbl[h].key /\ tbl'[h].signal = tbl[h].signal
  BY DEF SameSlot
<1>4. Types' BY <1>2 DEF IInv, Types
<1>5. /\ \A h \in Slots : SlotOK(h)'
      /\ \A g, h \in Slots : OneSlot(g, h)'
      /\ \A p \in Slots : LinkOK(p)'
      /\ \A p \in Slots : CountOK(p)'
  BY SlotsSame DEF IInv
<1>6. ASSUME NEW h \in Slots PROVE FenceOK(h)'
  <2>1. FenceOK(h) BY DEF IInv
  <2>2. tbl[h].key \in Fences /\ Dying(tbl[h].key) => Dying(tbl[h].key)'
    BY <1>2, <1>3 DEF Dying, At
  <2> QED BY <1>3, <2>1, <2>2 DEF FenceOK
<1>7. ASSUME NEW d \in Clients PROVE CallOK(d)' /\ JoinOK(d)'
  <2>1. CASE d = c BY <2>1
  <2>2. CASE d # c BY <1>2, <2>2, ThreadSame DEF IInv
  <2> QED BY <2>1, <2>2
<1>8. ASSUME NEW d \in Clients, NEW e \in Clients PROVE Exclusive(d, e)'
  <2>1. Exclusive(d, e) /\ Exclusive(d, c) /\ Exclusive(c, e) BY DEF IInv
  <2> QED BY <1>2, <2>1 DEF Exclusive
<1>9. ASSUME NEW d \in Clients PROVE DyingOK(d)'
  <2>1. CASE d = c BY <2>1
  <2>2. CASE d # c
    <3>1. DyingOK(d) BY DEF IInv
    <3> QED BY <1>2, <1>3, <2>2, <3>1 DEF DyingOK
  <2> QED BY <2>1, <2>2
<1> QED BY <1>4, <1>5, <1>6, <1>7, <1>8, <1>9 DEF IInv

-----------------------------------------------------------------------------
(* One turn of the lookup.                                                 *)

Goes(c, t) == th' = [th EXCEPT ![c] = t]
Hit(c) == Compare(c, Hash(c))
Rewound(c) == [th[c] EXCEPT !.step = 0]
SameTable == UNCHANGED <<tbl, enabled>>

Advances(c) ==
    /\ ~Hit(c) /\ th[c].step + 1 # TableSize
    /\ Goes(c, [th[c] EXCEPT !.step = @ + 1]) /\ SameTable
GivesUp(c) ==
    /\ th[c].at \in {"create", "join", "destroy", "find", "join_destroy"} /\ ~Hit(c)
    /\ th[c].at = "destroy" => th[c].step + 1 = TableSize
    /\ Goes(c, Ready) /\ SameTable
KidMissing(c) ==
    /\ th[c].at = "kid" /\ Goes(c, UndoFrom(th[c], th[c].i)) /\ SameTable
UndoMissing(c) ==
    /\ th[c].at = "undo" /\ ~Hit(c) /\ th[c].step + 1 = TableSize
    /\ Goes(c, UndoFrom(th[c], th[c].i - 1)) /\ SameTable
Created(c) ==
    /\ th[c].at = "create" /\ Hit(c)
    /\ tbl' = [tbl EXCEPT ![Hash(c)] = Reserved(c)] /\ enabled' = enabled \cup {th[c].key}
    /\ Goes(c, Ready)
JoinMade(c) ==
    /\ th[c].at = "join" /\ Hit(c)
    /\ tbl' = [tbl EXCEPT ![Hash(c)] = Reserved(c)] /\ enabled' = enabled
    /\ Goes(c, [Rewound(c) EXCEPT !.at = "mask", !.join = Hash(c)])
Destroyed(c) ==
    /\ th[c].at = "destroy" /\ Hit(c)
    /\ tbl' = [tbl EXCEPT ![Hash(c)] = FreeSlot] /\ enabled' = enabled \ {th[c].key}
    /\ Goes(c, Ready)
JoinDestroyed(c) ==
    /\ th[c].at = "join_destroy" /\ Hit(c)
    /\ tbl' = [tbl EXCEPT ![Hash(c)] = FreeSlot] /\ enabled' = enabled
    /\ Goes(c, Ready)
FoundFence(c) ==
    /\ th[c].at = "find" /\ Hit(c) /\ SameTable
    /\ Goes(c, [Rewound(c) EXCEPT !.at = "register", !.h = Hash(c)])
FoundKid(c) ==
    /\ th[c].at = "kid" /\ Hit(c) /\ SameTable
    /\ Goes(c, [Rewound(c) EXCEPT !.at = "child", !.h = Hash(c)])
FoundLink(c) ==
    /\ th[c].at = "undo" /\ Hit(c) /\ SameTable
    /\ Goes(c, [Rewound(c) EXCEPT !.at = "unlink", !.h = Hash(c)])

LEMMA ProbeSplit ==
    ASSUME Types, NEW c \in Clients, Probe(c)
    PROVE  /\ \/ Advances(c) \/ GivesUp(c) \/ KidMissing(c) \/ UndoMissing(c)
              \/ Created(c) \/ JoinMade(c) \/ Destroyed(c) \/ JoinDestroyed(c)
              \/ FoundFence(c) \/ FoundKid(c) \/ FoundLink(c)
           /\ th[c].at \in {"create", "join", "destroy", "find", "kid", "undo", "join_destroy"}
           /\ UNCHANGED <<told, was, resets>>
<1>1. th[c] \in Thread BY DEF Types
<1>2. /\ th[c].at \in Creating \cup Matching /\ UNCHANGED <<told, was, resets>>
      /\ Goes(c, IF Hit(c) THEN Found(Rewound(c), Hash(c))
                 ELSE IF \/ th[c].at \in Creating /\ tbl[Hash(c)].key = th[c].key
                         \/ th[c].step + 1 = TableSize
                 THEN Missed(th[c]) ELSE [th[c] EXCEPT !.step = @ + 1])
  BY DEF Probe, Goes, Hit, Rewound
<1>3. th[c].at \in {"create", "join", "destroy", "find", "kid", "undo", "join_destroy"}
  BY <1>1, <1>2 DEF Creating, Matching, Thread, Places, JoinPlaces
<1>4. Rewound(c).at = th[c].at BY <1>1 DEF Rewound, Thread
<1>5. CASE ~Hit(c)
  <2>1. SameTable BY <1>5 DEF Probe, Hit, SameTable
  <2>2. CASE \/ th[c].at \in Creating /\ tbl[Hash(c)].key = th[c].key
             \/ th[c].step + 1 = TableSize
    <3>1. Goes(c, Missed(th[c])) BY <1>2, <1>5, <2>2
    <3>2. CASE th[c].at = "kid"
      <4>1. Missed(th[c]) = UndoFrom(th[c], th[c].i) BY <3>2 DEF Missed
      <4> QED BY <1>2, <1>3, <2>1, <3>1, <3>2, <4>1 DEF KidMissing
    <3>3. CASE th[c].at = "undo"
      <4>1. Missed(th[c]) = UndoFrom(th[c], th[c].i - 1) BY <3>3 DEF Missed
      <4>2. th[c].step + 1 = TableSize BY <2>2, <3>3 DEF Creating
      <4> QED BY <1>2, <1>3, <1>5, <2>1, <3>1, <3>3, <4>1, <4>2 DEF UndoMissing
    <3>4. CASE th[c].at \notin {"kid", "undo"}
      <4>1. Missed(th[c]) = Ready BY <1>3, <3>4 DEF Missed
      <4>2. th[c].at = "destroy" => th[c].step + 1 = TableSize BY <2>2 DEF Creating
      <4> QED BY <1>2, <1>3, <1>5, <2>1, <3>1, <3>4, <4>1, <4>2 DEF GivesUp
    <3> QED BY <3>2, <3>3, <3>4
  <2>3. CASE ~(\/ th[c].at \in Creating /\ tbl[Hash(c)].key = th[c].key
               \/ th[c].step + 1 = TableSize)
    BY <1>2, <1>3, <1>5, <2>1, <2>3 DEF Advances
  <2> QED BY <2>2, <2>3
<1>6. CASE Hit(c)
  <2>1. Goes(c, Found(Rewound(c), Hash(c))) BY <1>2, <1>6
  <2>2. CASE th[c].at = "create"
    <3>1. Found(Rewound(c), Hash(c)) = Ready BY <1>4, <2>2 DEF Found
    <3> QED BY <1>2, <1>3, <1>6, <2>1, <2>2, <3>1 DEF Created, Probe, Creating, Hit
  <2>3. CASE th[c].at = "join"
    <3>1. Found(Rewound(c), Hash(c)) = [Rewound(c) EXCEPT !.at = "mask", !.join = Hash(c)]
      BY <1>4, <2>3 DEF Found
    <3> QED BY <1>2, <1>3, <1>6, <2>1, <2>3, <3>1 DEF JoinMade, Probe, Creating, Hit
  <2>4. CASE th[c].at = "destroy"
    <3>1. Found(Rewound(c), Hash(c)) = Ready BY <1>4, <2>4 DEF Found
    <3> QED BY <1>2, <1>3, <1>6, <2>1, <2>4, <3>1 DEF Destroyed, Probe, Creating, Hit
  <2>5. CASE th[c].at = "join_destroy"
    <3>1. Found(Rewound(c), Hash(c)) = Ready BY <1>4, <2>5 DEF Found
    <3> QED BY <1>2, <1>3, <1>6, <2>1, <2>5, <3>1 DEF JoinDestroyed, Probe, Creating, Hit
  <2>6. CASE th[c].at = "find"
    <3>1. Found(Rewound(c), Hash(c)) = [Rewound(c) EXCEPT !.at = "register", !.h = Hash(c)]
      BY <1>4, <2>6 DEF Found
    <3> QED BY <1>2, <1>3, <1>6, <2>1, <2>6, <3>1 DEF FoundFence, Probe, Creating, Hit, SameTable
  <2>7. CASE th[c].at = "kid"
    <3>1. Found(Rewound(c), Hash(c)) = [Rewound(c) EXCEPT !.at = "child", !.h = Hash(c)]
      BY <1>4, <2>7 DEF Found
    <3> QED BY <1>2, <1>3, <1>6, <2>1, <2>7, <3>1 DEF FoundKid, Probe, Creating, Hit, SameTable
  <2>8. CASE th[c].at = "undo"
    <3>1. Found(Rewound(c), Hash(c)) = [Rewound(c) EXCEPT !.at = "unlink", !.h = Hash(c)]
      BY <1>4, <2>8 DEF Found
    <3> QED BY <1>2, <1>3, <1>6, <2>1, <2>8, <3>1 DEF FoundLink, Probe, Creating, Hit, SameTable
  <2> QED BY <1>3, <2>2, <2>3, <2>4, <2>5, <2>6, <2>7, <2>8
<1> QED BY <1>5, <1>6

-----------------------------------------------------------------------------
(* The steps that leave the table but for the waiters.                     *)

LEMMA QuietFacts ==
    ASSUME IInv, UNCHANGED <<tbl, enabled, told, was>>
    PROVE  /\ \A h \in Slots : SameSlot(h)
           /\ TypeOK' /\ WaitersTold'
<1>1. TypeOK /\ WaitersTold BY DEF IInv, Types
<1>2. \A h \in Slots : SameSlot(h) BY DEF SameSlot
<1>3. TypeOK' BY <1>1 DEF TypeOK
<1>4. WaitersTold' BY <1>1 DEF WaitersTold
<1> QED BY <1>2, <1>3, <1>4

\* The fields of a thread that was called.
LEMMA CallFacts ==
    ASSUME Types, NEW c \in Clients, NEW w \in Places, NEW k \in Keys, Call(c, w, k)
    PROVE  \E t \in Thread : /\ Goes(c, t) /\ th'[c] = t
                             /\ t.at = w /\ t.key = k /\ t.step = 0
                             /\ t.i = 0 /\ t.signaled = 0
<1> DEFINE t == [Ready EXCEPT !.at = w, !.key = k]
<1>0. k \in Keys \cup {NoOne} OBVIOUS
<1>1. /\ t \in Thread /\ t.at = w /\ t.key = k /\ t.step = 0
      /\ t.i = 0 /\ t.signaled = 0
  BY <1>0, ReadyThread, ZenonT(60)
<1>2. Goes(c, t) BY DEF Call, Goes
<1>3. th \in [Clients -> Thread] BY DEF Types
<1> HIDE DEF t
<1>4. th'[c] = t BY <1>2, <1>3 DEF Goes
<1> QED BY <1>1, <1>2, <1>4

LEMMA CallCreateOK ==
    ASSUME IInv, NEW c \in Clients, NEW f \in Fences, CallCreate(c, f)
    PROVE  IInv'
<1>1. /\ th[c].at = "idle" /\ c = Owner[f] /\ f \notin enabled /\ ~Busy(f)
      /\ UNCHANGED <<tbl, enabled, told, was>>
  BY DEF CallCreate, At
<1>2. "create" \in Places /\ "create" \notin JoinPlaces BY DEF Places, JoinPlaces
<1>3. f \in Keys BY FenceFacts
<1>4. PICK t \in Thread : /\ Goes(c, t) /\ th'[c] = t
                          /\ t.at = "create" /\ t.key = f /\ t.step = 0
  BY <1>2, <1>3, CallFacts DEF CallCreate, IInv
<1>5. CallOK(c)' BY <1>1, <1>2, <1>4 DEF CallOK
<1>6. JoinOK(c)' /\ DyingOK(c)' BY <1>4 DEF JoinOK, DyingOK
<1>7. ASSUME NEW d \in Clients, d # c, th[d].at = "destroy" PROVE ~KeepsAlive(f, th[d].key)
  <2>1. CallOK(d) BY DEF IInv
  <2>2. th[d].key \in Fences /\ Owner[th[d].key] = d BY <1>7, <2>1 DEF CallOK
  <2> QED BY <1>1, <1>7, <2>2, FenceFacts DEF KeepsAlive
<1>8. th' = [th EXCEPT ![c] = t] BY <1>4 DEF Goes
<1>9. \A d \in Clients : d # c /\ th[d].at = "destroy" => ~KeepsAlive(t.key, th[d].key)
  BY <1>4, <1>7
<1>10. TypeOK' /\ WaitersTold' /\ \A h \in Slots : SameSlot(h) BY <1>1, QuietFacts
<1>11. th[c].at = "idle" /\ was' = was /\ enabled' = enabled BY <1>1
<1> QED BY <1>2, <1>4, <1>5, <1>6, <1>8, <1>9, <1>10, <1>11, ThreadMoves

LEMMA CallWaitOK ==
    ASSUME IInv, NEW c \in Clients, NEW f \in Fences, CallWait(c, f)
    PROVE  IInv'
<1>1. /\ th[c].at = "idle" /\ Alive(f) /\ UNCHANGED <<tbl, enabled, told, was>>
  BY DEF CallWait, At
<1>2. "find" \in Places /\ "find" \notin JoinPlaces BY DEF Places, JoinPlaces
<1>3. f \in Keys BY FenceFacts
<1>4. PICK t \in Thread : /\ Goes(c, t) /\ th'[c] = t
                          /\ t.at = "find" /\ t.key = f /\ t.step = 0
  BY <1>2, <1>3, CallFacts DEF CallWait, IInv
<1>5. CallOK(c)' BY <1>1, <1>2, <1>4 DEF CallOK
<1>6. JoinOK(c)' /\ DyingOK(c)' BY <1>4 DEF JoinOK, DyingOK
<1>7. \A d \in Clients : th[d].at = "destroy" => ~KeepsAlive(f, th[d].key)
  BY <1>1 DEF Alive, At
<1>8. th' = [th EXCEPT ![c] = t] BY <1>4 DEF Goes
<1> QED BY <1>1, <1>2, <1>4, <1>5, <1>6, <1>7, <1>8, QuietFacts, ThreadMoves

LEMMA CallWaitArrayOK ==
    ASSUME IInv, NEW c \in Clients, NEW a \in Arrays, CallWaitArray(c, a)
    PROVE  IInv'
<1>1. /\ th[c].at = "idle" /\ ~Busy(a) /\ Alive(a) /\ UNCHANGED <<tbl, enabled, was>>
      /\ told' = {w \in told : w[2] # a}
  BY DEF CallWaitArray, At
<1>2. "join" \in Places /\ "join" \in JoinPlaces BY DEF Places, JoinPlaces
<1>3. a \in Keys /\ a \notin Fences /\ a # NoOne BY KidsFacts
<1>4. PICK t \in Thread : /\ Goes(c, t) /\ th'[c] = t
                          /\ t.at = "join" /\ t.key = a /\ t.step = 0
                          /\ t.i = 0 /\ t.signaled = 0
  BY <1>2, <1>3, CallFacts DEF CallWaitArray, IInv
<1>5. CallOK(c)' BY <1>2, <1>4 DEF CallOK
<1>6. \A h \in Slots : tbl[h].key # a BY <1>1 DEF Busy, KeepsAlive
<1>7. JoinOK(c)' /\ DyingOK(c)' BY <1>1, <1>4, <1>6 DEF JoinOK, DyingOK
<1>8. \A d \in Clients : th[d].at = "destroy" => ~KeepsAlive(a, th[d].key)
  BY <1>1 DEF Alive, At
<1>9. ASSUME NEW d \in Clients, th[d].at \in JoinPlaces PROVE th[d].key # a
  BY <1>1, <1>9 DEF Busy, KeepsAlive, JoinPlaces
<1>10. TypeOK' BY <1>1 DEF IInv, Types, TypeOK
<1>11. WaitersTold'
  <2> SUFFICES ASSUME NEW h \in Slots, tbl[h].signal, tbl[h].key \in was,
                      NEW d \in tbl[h].waiters
               PROVE  <<d, tbl[h].key>> \in told'
    BY <1>1 DEF WaitersTold
  <2>1. <<d, tbl[h].key>> \in told BY DEF IInv, WaitersTold
  <2>2. tbl[h].key # a BY <1>6
  <2> QED BY <1>1, <2>1, <2>2
<1>12. th' = [th EXCEPT ![c] = t] BY <1>4 DEF Goes
<1>13. \A h \in Slots : SameSlot(h) BY <1>1 DEF SameSlot
<1> QED BY <1>1, <1>4, <1>5, <1>7, <1>8, <1>9, <1>10, <1>11, <1>12, <1>13, ThreadMoves

\* A thread that is done.
LEMMA GoesReady ==
    ASSUME Types, NEW c \in Clients, Goes(c, Ready)
    PROVE  /\ th' = [th EXCEPT ![c] = Ready] /\ th'[c] = Ready
           /\ Ready \in Thread /\ Ready.at = "idle"
           /\ CallOK(c)' /\ JoinOK(c)' /\ DyingOK(c)'
<1>1. Ready \in Thread /\ Ready.at = "idle" BY ReadyThread
<1>2. th' = [th EXCEPT ![c] = Ready] /\ th'[c] = Ready BY DEF Goes, Types
<1>3. CallOK(c)' BY <1>1, <1>2 DEF CallOK, JoinPlaces
<1>4. JoinOK(c)' /\ DyingOK(c)' BY <1>1, <1>2 DEF JoinOK, DyingOK
<1> QED BY <1>1, <1>2, <1>3, <1>4

\* The waiters of a slot.
LEMMA RegisterFacts ==
    ASSUME TypeOK, NEW c \in Clients, NEW h \in Slots,
           tbl' = [tbl EXCEPT ![h].waiters = @ \cup {c}]
    PROVE  /\ \A g \in Slots : SameSlot(g)
           /\ \A g \in Slots : g # h => tbl'[g].waiters = tbl[g].waiters
           /\ tbl'[h].waiters = tbl[h].waiters \cup {c}
           /\ tbl' \in [Slots -> [valid : BOOLEAN, key : Keys \cup {NoOne},
                          waiters : SUBSET Clients, alloc : Clients \cup {NoOne},
                          signal : BOOLEAN, parents : [1..MaxParents -> Slots \cup {NoOne}],
                          cnt : 0..(MaxParents - 1), pending : Nat]]
<1> DEFINE X == [valid : BOOLEAN, key : Keys \cup {NoOne},
                 waiters : SUBSET Clients, alloc : Clients \cup {NoOne},
                 signal : BOOLEAN, parents : [1..MaxParents -> Slots \cup {NoOne}],
                 cnt : 0..(MaxParents - 1), pending : Nat]
           r == [tbl[h] EXCEPT !.waiters = @ \cup {c}]
<1>1. tbl \in [Slots -> X] BY DEF TypeOK
<1>2. tbl[h] \in X BY <1>1
<1>3. r \in X /\ r.waiters = tbl[h].waiters \cup {c} BY <1>2
<1>4. /\ r.valid = tbl[h].valid /\ r.key = tbl[h].key /\ r.signal = tbl[h].signal
      /\ r.parents = tbl[h].parents /\ r.cnt = tbl[h].cnt /\ r.pending = tbl[h].pending
  BY <1>2
<1>5. tbl' = [tbl EXCEPT ![h] = r] OBVIOUS
<1> HIDE DEF X, r
<1>6. tbl' \in [Slots -> X] BY <1>1, <1>3, <1>5
<1>7. tbl'[h] = r /\ \A g \in Slots : g # h => tbl'[g] = tbl[g] BY <1>1, <1>5
<1>8. \A g \in Slots : SameSlot(g) BY <1>4, <1>7 DEF SameSlot
<1> QED BY <1>3, <1>6, <1>7, <1>8 DEF X

LEMMA RegisterOK ==
    ASSUME IInv, NEW c \in Clients, Register(c)
    PROVE  IInv'
<1> DEFINE h == th[c].h
<1>0. th[c] \in Thread BY DEF IInv, Types
<1>1. /\ th[c].at = "register" /\ tbl' = [tbl EXCEPT ![h].waiters = @ \cup {c}]
      /\ told' = told \cup ((IF tbl[h].signal THEN {c} ELSE {}) \X {tbl[h].key})
      /\ Goes(c, Ready) /\ enabled' = enabled /\ was' = was
  BY DEF Register, Tell, Goes, At
<1>2. h \in Slots BY <1>0 DEF Thread
<1> HIDE DEF h
<1>3. TypeOK BY DEF IInv, Types
<1>4. /\ \A g \in Slots : SameSlot(g)
      /\ \A g \in Slots : g # h => tbl'[g].waiters = tbl[g].waiters
      /\ tbl'[h].waiters = tbl[h].waiters \cup {c}
      /\ tbl' \in [Slots -> [valid : BOOLEAN, key : Keys \cup {NoOne},
                          waiters : SUBSET Clients, alloc : Clients \cup {NoOne},
                          signal : BOOLEAN, parents : [1..MaxParents -> Slots \cup {NoOne}],
                          cnt : 0..(MaxParents - 1), pending : Nat]]
  BY <1>1, <1>2, <1>3, RegisterFacts
<1>5. TypeOK'
  <2>1. tbl[h].key \in Keys \cup {NoOne} BY <1>2, <1>3 DEF TypeOK
  <2>2. told' \subseteq Clients \X (Keys \cup {NoOne}) BY <1>1, <1>3, <2>1 DEF TypeOK
  <2> QED BY <1>1, <1>3, <1>4, <2>2 DEF TypeOK
<1>6. WaitersTold'
  <2>1. \A g \in Slots : tbl'[g].key = tbl[g].key /\ tbl'[g].signal = tbl[g].signal
    BY <1>4 DEF SameSlot
  <2> SUFFICES ASSUME NEW g \in Slots, tbl[g].signal, tbl[g].key \in was,
                      NEW d \in tbl'[g].waiters
               PROVE  <<d, tbl[g].key>> \in told'
    BY <1>1, <2>1 DEF WaitersTold
  <2>2. CASE d \in tbl[g].waiters
    <3>1. <<d, tbl[g].key>> \in told BY <2>2 DEF IInv, WaitersTold
    <3> QED BY <1>1, <3>1
  <2>3. CASE d \notin tbl[g].waiters
    <3>1. g = h /\ d = c BY <1>4, <2>3
    <3> QED BY <1>1, <3>1
  <2> QED BY <2>2, <2>3
<1>7. "idle" \notin JoinPlaces BY DEF JoinPlaces
<1>8. /\ th' = [th EXCEPT ![c] = Ready] /\ Ready \in Thread /\ Ready.at = "idle"
      /\ CallOK(c)' /\ JoinOK(c)' /\ DyingOK(c)'
  BY <1>1, GoesReady DEF IInv
<1> QED BY <1>1, <1>4, <1>5, <1>6, <1>7, <1>8, ThreadMoves

\* A thread goes on with what it was called for.
LEMMA GoesOn ==
    ASSUME IInv, NEW c \in Clients, NEW t \in Thread, Goes(c, t),
           \A h \in Slots : SameSlot(h), was' = was, enabled' = enabled,
           TypeOK', WaitersTold', CallOK(c)', JoinOK(c)',
           th[c].at # "idle", t.key = th[c].key,
           t.at \in JoinPlaces => th[c].at \in JoinPlaces,
           t.at = "destroy" <=> th[c].at = "destroy"
    PROVE  IInv'
<1>1. th' = [th EXCEPT ![c] = t] BY DEF Goes
<1>2. th \in [Clients -> Thread] BY DEF IInv, Types
<1>3. th'[c] = t /\ \A d \in Clients : d # c => th'[d] = th[d] BY <1>1, <1>2
<1>4. \A d \in Clients : DyingOK(d) BY DEF IInv
<1>5. \A h \in Slots : tbl'[h].key = tbl[h].key BY DEF SameSlot
<1>6. DyingOK(c)' BY <1>3, <1>4, <1>5 DEF DyingOK
<1>7. \A d \in Clients : d # c /\ th[d].at = "destroy" => ~KeepsAlive(t.key, th[d].key)
  BY <1>4 DEF DyingOK
<1> QED BY <1>1, <1>6, <1>7, ThreadMoves

\* A thread returns to its caller.
LEMMA Finishes ==
    ASSUME IInv, NEW c \in Clients, Goes(c, Ready),
           \A h \in Slots : SameSlot(h), was' = was, enabled' = enabled,
           TypeOK', WaitersTold',
           th[c].at = "destroy" => \A h \in Slots : tbl[h].key # th[c].key
    PROVE  IInv'
<1>1. "idle" \notin JoinPlaces BY DEF JoinPlaces
<1>2. /\ th' = [th EXCEPT ![c] = Ready] /\ Ready \in Thread /\ Ready.at = "idle"
      /\ CallOK(c)' /\ JoinOK(c)' /\ DyingOK(c)'
  BY GoesReady DEF IInv
<1> QED BY <1>1, <1>2, ThreadMoves

LEMMA MaskOK ==
    ASSUME IInv, NEW c \in Clients, Mask(c)
    PROVE  IInv'
<1>0. PICK t \in Thread : t = th[c] BY DEF IInv, Types
<1>00. PICK p \in Slots : p = t.join BY DEF Thread
<1>1. /\ t.at = "mask" /\ tbl' = [tbl EXCEPT ![p].waiters = @ \cup {c}]
      /\ th' = [th EXCEPT ![c] = NextKid(t)]
      /\ UNCHANGED <<enabled, told, was>>
  BY <1>0, <1>00 DEF Mask, At
<1>2. t \in Thread /\ p \in Slots /\ TypeOK BY DEF IInv, Types
<1>3. t.key \in Arrays BY <1>0, <1>1 DEF IInv, CallOK, JoinPlaces
<1>4. Owns(c) /\ Counts(p, 0) /\ Tally(c, 0) /\ t.i = 0 BY <1>0, <1>00, <1>1 DEF IInv, JoinOK
<1>5. /\ \A g \in Slots : SameSlot(g)
      /\ \A g \in Slots : g # p => tbl'[g].waiters = tbl[g].waiters
      /\ tbl' \in [Slots -> [valid : BOOLEAN, key : Keys \cup {NoOne},
                          waiters : SUBSET Clients, alloc : Clients \cup {NoOne},
                          signal : BOOLEAN, parents : [1..MaxParents -> Slots \cup {NoOne}],
                          cnt : 0..(MaxParents - 1), pending : Nat]]
  BY <1>1, <1>2, RegisterFacts
<1>6. TypeOK' BY <1>1, <1>2, <1>5 DEF TypeOK
<1>7. tbl[p].key = t.key BY <1>0, <1>00, <1>4 DEF Owns
<1>8. WaitersTold'
  <2>1. \A g \in Slots : tbl'[g].key = tbl[g].key /\ tbl'[g].signal = tbl[g].signal
    BY <1>5 DEF SameSlot
  <2>2. ~tbl[p].signal BY <1>2, <1>3, <1>7, KidsFacts DEF IInv, SlotOK
  <2> SUFFICES ASSUME NEW g \in Slots, tbl[g].signal, tbl[g].key \in was,
                      NEW d \in tbl'[g].waiters
               PROVE  <<d, tbl[g].key>> \in told
    BY <1>1, <2>1 DEF WaitersTold
  <2>3. d \in tbl[g].waiters BY <1>5, <2>2
  <2> QED BY <2>3 DEF IInv, WaitersTold
<1>9. th \in [Clients -> Thread] BY DEF IInv, Types
<1>10. th'[c] = NextKid(t) BY <1>1, <1>9
<1>11. Counts(p, 0)'
  <2>1. tbl'[p].key = tbl[p].key /\ tbl'[p].pending = tbl[p].pending BY <1>2, <1>5 DEF SameSlot
  <2>2. Linked(p)' = Linked(p) BY <1>5, LinkedSame
  <2>3. Linked(p) = {} BY <1>4 DEF Counts, Within
  <2>4. Open(tbl[p].key, 0)' = {} /\ Open(tbl[p].key, 0) = {} BY DEF Open
  <2>5. Within(p, 0)' BY <2>2, <2>3 DEF Within
  <2> QED BY <1>4, <2>1, <2>4, <2>5 DEF Counts
<1>12. t.signaled = 0 /\ Linked(p) = {} /\ Linked(p)' = {}
  <2>1. Linked(p) = {} BY <1>4 DEF Counts, Within
  <2>2. Linked(p)' = Linked(p) BY <1>5, LinkedSame
  <2> QED BY <1>2, <1>4, <2>1, <2>2, <1>0 DEF Tally, Thread
<1>13. tbl'[p].key = t.key BY <1>2, <1>5, <1>7 DEF SameSlot
<1>14. \A g, h \in Slots : OneSlot(g, h)' BY <1>1, <1>5, SlotsSame DEF IInv
<1>15. t.i \in 0..Len(Kids[t.key]) BY <1>3, <1>4, KidsFacts
<1>16. \A j \in 1..t.i : Kids[t.key][j] \in was' BY <1>4
<1>17. t.signaled <= t.i BY <1>4, <1>12
<1>19. Counts(p, t.i)' BY <1>4, <1>11
<1>20. /\ JoinOK(c)' /\ CallOK(c)'
       /\ NextKid(t) \in Thread /\ NextKid(t).key = t.key
       /\ NextKid(t).at \in {"joined", "kid", "undo"}
  BY <1>2, <1>3, <1>10, <1>12, <1>13, <1>14, <1>15, <1>16, <1>17, <1>19, <1>00, NextKidOK
<1>21. Goes(c, NextKid(t)) BY <1>1 DEF Goes
<1>22. th[c].at \in JoinPlaces /\ th[c].at \notin {"idle", "destroy"} BY <1>0, <1>1 DEF JoinPlaces
<1>23. NextKid(t).at # "destroy" /\ NextKid(t).key = th[c].key BY <1>0, <1>20
<1> QED BY <1>1, <1>5, <1>6, <1>8, <1>20, <1>21, <1>22, <1>23, GoesOn

LEMMA JoinedOK ==
    ASSUME IInv, NEW c \in Clients, Joined(c)
    PROVE  IInv'
<1> DEFINE t == th[c]
<1>1. t.at = "joined" /\ UNCHANGED <<tbl, enabled, was>> BY DEF Joined, At
<1>2. \A h \in Slots : SameSlot(h) BY <1>1 DEF SameSlot
<1>3. t \in Thread /\ TypeOK /\ WaitersTold BY DEF IInv, Types
<1>4. t.key \in Arrays BY <1>1 DEF IInv, CallOK, JoinPlaces
<1>5. CASE t.signaled # Len(Kids[t.key])
  <2>1. Goes(c, Ready) /\ told' = told BY <1>5 DEF Joined, Goes
  <2>2. TypeOK' /\ WaitersTold' BY <1>1, <2>1, QuietFacts
  <2> QED BY <1>1, <1>2, <2>1, <2>2, Finishes
<1>6. CASE t.signaled = Len(Kids[t.key])
  <2> DEFINE u == LookUp(t, "join_destroy")
  <2>1. Goes(c, u) /\ told' = told \cup ({c} \X {tbl[t.join].key})
    BY <1>6 DEF Joined, Goes, Tell
  <2>2. "join_destroy" \in Places BY DEF Places, JoinPlaces
  <2>3. u \in Thread /\ u.at = "join_destroy" /\ u.key = t.key BY <1>3, <2>2, LookUpFacts
  <2> HIDE DEF u
  <2>4. th'[c] = u BY <2>1 DEF Goes, IInv, Types
  <2>5. CallOK(c)' BY <1>4, <2>3, <2>4 DEF CallOK, JoinPlaces
  <2>6. Tally(c, Len(Kids[t.key])) BY <1>1 DEF IInv, JoinOK
  <2>7. tbl[t.join].key = t.key /\ Linked(t.join) = {} BY <1>6, <2>6 DEF Tally, Owns
  <2>8. t.join \in Slots /\ t.key # NoOne BY <1>3, <1>4, KidsFacts DEF Thread
  <2>9. \A p \in Slots : tbl[p].key = t.key => p = t.join BY <2>7, <2>8 DEF IInv, OneSlot
  <2>10. \A p : Linked(p)' = Linked(p) BY <1>2, LinkedSame
  <2>11. JoinOK(c)' BY <1>1, <2>3, <2>4, <2>7, <2>9, <2>10 DEF JoinOK
  <2>12. TypeOK'
    <3>1. tbl[t.join].key \in Keys \cup {NoOne} BY <1>3, <2>8 DEF TypeOK
    <3> QED BY <1>1, <1>3, <2>1, <3>1 DEF TypeOK
  <2>13. WaitersTold' BY <1>1, <1>3, <2>1 DEF WaitersTold
  <2>14. th[c].at \in JoinPlaces /\ th[c].at \notin {"idle", "destroy"} BY <1>1 DEF JoinPlaces
  <2> QED BY <1>1, <1>2, <2>1, <2>3, <2>5, <2>11, <2>12, <2>13, <2>14, GoesOn
<1> QED BY <1>5, <1>6

\* The last slot that the lookup has seen.
LEMMA ProbedNext ==
    ASSUME NEW c \in Clients, NEW h, NEW s \in Nat, th[c].step = s, th'[c].step = s + 1,
           Wanted(c)' = Wanted(c), h \in Probed(c)'
    PROVE  h \in Probed(c) \/ h = Hash(c)
<1>1. PICK k \in 0..s : h = (Home[Wanted(c)] + k) % TableSize BY DEF Probed
<1>2. CASE k = s BY <1>1, <1>2 DEF Hash
<1>3. CASE k # s
  <2>1. k \in 0..(s - 1) BY <1>3
  <2> QED BY <1>1, <2>1 DEF Probed
<1> QED BY <1>2, <1>3

\* The lookup ends when it has seen all slots.
LEMMA ProbedAll ==
    ASSUME Types, NEW c \in Clients, Wanted(c) \in Keys, th[c].step + 1 = TableSize,
           NEW h \in Slots
    PROVE  h \in Probed(c) \/ h = Hash(c)
<1>1. th[c].step \in Nat BY SlotFacts DEF Types, Thread
<1>2. Home[Wanted(c)] \in Slots BY TableAssumption
<1>3. PICK k \in 0..(TableSize - 1) : (Home[Wanted(c)] + k) % TableSize = h
  BY <1>2, AllProbed
<1>4. CASE k = th[c].step BY <1>3, <1>4 DEF Hash
<1>5. CASE k # th[c].step
  <2>1. k \in 0..(th[c].step - 1) BY <1>1, <1>5, SlotFacts
  <2> QED BY <1>3, <2>1 DEF Probed
<1> QED BY <1>4, <1>5

LEMMA HashInSlots ==
    ASSUME Types, NEW c \in Clients, Wanted(c) \in Keys
    PROVE  Hash(c) \in Slots
<1>1. th[c].step \in Nat BY SlotFacts DEF Types, Thread
<1>2. Home[Wanted(c)] \in Slots BY TableAssumption
<1> QED BY <1>1, <1>2, HashIn DEF Hash

\* A thread looks for a fence or an array.
LEMMA WantedKey ==
    ASSUME IInv, NEW c \in Clients,
           th[c].at \in {"create", "join", "destroy", "find", "kid", "undo", "join_destroy"}
    PROVE  /\ Wanted(c) \in Keys /\ Hash(c) \in Slots
           /\ th[c].at \notin {"kid", "undo"} => Wanted(c) = th[c].key
           /\ th[c].at \in {"kid", "undo"} =>
                  Wanted(c) = Kids[th[c].key][th[c].i] /\ Wanted(c) \in Fences
<1>1. th[c] \in Thread /\ CallOK(c) /\ JoinOK(c) BY DEF IInv, Types
<1>2. CASE th[c].at \in {"kid", "undo"}
  <2>1. th[c].key \in Arrays BY <1>1, <1>2 DEF CallOK, JoinPlaces
  <2>2. th[c].i \in 1..Len(Kids[th[c].key])
    BY <1>1, <1>2 DEF JoinOK, LinkingOK, UndoingOK
  <2>3. Wanted(c) = Kids[th[c].key][th[c].i] BY <1>2 DEF Wanted
  <2>4. Wanted(c) \in Fences BY <2>1, <2>2, <2>3, KidsFacts
  <2>5. Wanted(c) \in Keys BY <2>4, FenceFacts
  <2> QED BY <1>2, <2>3, <2>4, <2>5, HashInSlots DEF IInv
<1>3. CASE th[c].at \notin {"kid", "undo"}
  <2>1. Wanted(c) = th[c].key BY <1>3 DEF Wanted
  <2>2. th[c].key \in Fences \cup Arrays BY <1>1, <1>3 DEF CallOK, JoinPlaces
  <2>3. Wanted(c) \in Keys BY <2>1, <2>2 DEF Keys
  <2> QED BY <1>3, <2>1, <2>3, HashInSlots DEF IInv
<1> QED BY <1>2, <1>3

LEMMA HitMatch ==
    ASSUME NEW c \in Clients, th[c].at \in {"destroy", "find", "kid", "undo", "join_destroy"}
    PROVE  Hit(c) <=> tbl[Hash(c)].key = Wanted(c)
BY DEF Hit, Compare, Creating

LEMMA AdvancesOK ==
    ASSUME IInv, NEW c \in Clients, Probe(c), Advances(c)
    PROVE  IInv'
<1>1. /\ th[c].at \in {"create", "join", "destroy", "find", "kid", "undo", "join_destroy"}
      /\ UNCHANGED <<tbl, enabled, told, was>> /\ ~Hit(c) /\ th[c].step + 1 # TableSize
  BY ProbeSplit DEF IInv, Advances, SameTable
<1>2. th[c] \in Thread /\ CallOK(c) /\ JoinOK(c) BY DEF IInv, Types
<1>3. PICK t \in Thread : /\ Goes(c, t) /\ t.step = th[c].step + 1 /\ t.at = th[c].at
                          /\ t.key = th[c].key /\ t.h = th[c].h /\ t.join = th[c].join
                          /\ t.i = th[c].i /\ t.signaled = th[c].signaled
  <2>1. Goes(c, [th[c] EXCEPT !.step = th[c].step + 1]) BY DEF Advances
  <2>2. th[c].step + 1 \in 0..(TableSize - 1) BY <1>1, <1>2, SlotFacts DEF Thread
  <2> QED BY <1>2, <2>1, <2>2 DEF Thread
<1>4. th'[c] = t BY <1>3 DEF Goes, IInv, Types
<1>5. Wanted(c)' = Wanted(c) BY <1>3, <1>4 DEF Wanted
<1>6. ASSUME NEW h, h \in Probed(c)' PROVE h \in Probed(c) \/ h = Hash(c)
  <2>1. th[c].step \in Nat BY <1>2, SlotFacts DEF Thread
  <2> QED BY <1>3, <1>4, <1>5, <1>6, <2>1, ProbedNext
<1>7. /\ \A h \in Slots : SameSlot(h)
      /\ TypeOK' /\ WaitersTold'
  BY <1>1, QuietFacts
<1>8. \A p : Linked(p)' = Linked(p) BY <1>7, LinkedSame
<1>9. CallOK(c)'
  <2>1. th[c].at = "destroy" => tbl[Hash(c)].key # th[c].key
    BY <1>1, WantedKey, HitMatch
  <2>2. th[c].at = "destroy" =>
           \A h \in Slots : tbl[h].key = th[c].key => h \notin Probed(c)'
    BY <1>2, <1>6, <2>1 DEF CallOK
  <2> QED BY <1>1, <1>2, <1>3, <1>4, <2>2 DEF CallOK
<1>10. JoinOK(c)'
  <2>1. th[c].at = "undo" => NotPassed(c)'
    <3>1. th[c].at = "undo" => tbl[Hash(c)].key # Wanted(c) BY <1>1, HitMatch
    <3>2. th'[c].join = th[c].join BY <1>3, <1>4
    <3>3. th[c].at = "undo" => NotPassed(c) BY <1>2 DEF JoinOK
    <3> QED BY <1>1, <1>5, <1>6, <1>8, <3>1, <3>2, <3>3 DEF NotPassed
  <2>2. Owns(c)' <=> Owns(c) BY <1>1, <1>3, <1>4 DEF Owns
  <2>3. \A p, n : Open(p, n)' = Open(p, n) BY <1>1 DEF Open
  <2>4. \A p, n : Within(p, n)' <=> Within(p, n) BY <1>1, <1>8 DEF Within
  <2>5. \A p, n : Counts(p, n)' <=> Counts(p, n) BY <1>1, <2>3, <2>4 DEF Counts
  <2>6. \A n : Tally(c, n)' <=> Tally(c, n)
    BY <1>1, <1>3, <1>4, <1>8, <2>2 DEF Tally
  <2>7. LinkingOK(c)' <=> LinkingOK(c)
    BY <1>3, <1>4, <2>2, <2>5, <2>6 DEF LinkingOK
  <2>8. UndoingOK(c)' <=> UndoingOK(c)
    BY <1>3, <1>4, <2>2, <2>4, <2>5 DEF UndoingOK
  <2> QED BY <1>1, <1>2, <1>3, <1>4, <1>8, <2>1, <2>7, <2>8 DEF JoinOK
<1>11. th[c].at # "idle" /\ (t.at \in JoinPlaces => th[c].at \in JoinPlaces) BY <1>1, <1>3
<1> QED BY <1>1, <1>3, <1>7, <1>9, <1>10, <1>11, GoesOn

LEMMA GivesUpOK ==
    ASSUME IInv, NEW c \in Clients, Probe(c), GivesUp(c)
    PROVE  IInv'
<1>1. UNCHANGED <<tbl, enabled, told, was>> BY ProbeSplit DEF IInv, GivesUp, SameTable
<1>2. /\ \A h \in Slots : SameSlot(h)
      /\ TypeOK' /\ WaitersTold'
  BY <1>1, QuietFacts
<1>3. ASSUME th[c].at = "destroy", NEW h \in Slots PROVE tbl[h].key # th[c].key
  <2>1. th[c].step + 1 = TableSize /\ ~Hit(c) BY <1>3 DEF GivesUp
  <2>2. Wanted(c) = th[c].key /\ Wanted(c) \in Keys BY <1>3, WantedKey
  <2>3. tbl[Hash(c)].key # th[c].key BY <1>3, <2>1, <2>2, HitMatch
  <2>4. h \in Probed(c) \/ h = Hash(c) BY <2>1, <2>2, ProbedAll DEF IInv
  <2>5. h \in Probed(c) => tbl[h].key # th[c].key BY <1>3 DEF IInv, CallOK
  <2> QED BY <2>3, <2>4, <2>5
<1>4. Goes(c, Ready) BY DEF GivesUp
<1> QED BY <1>1, <1>2, <1>3, <1>4, Finishes

\* A thread gives the array up; nothing is undone yet.
LEMMA UndoStarts ==
    ASSUME IInv, NEW c \in Clients, UNCHANGED <<tbl, enabled, told, was>>,
           th[c].at \in JoinPlaces, NEW t \in Thread, t = th[c],
           NEW i \in 0..Len(Kids[t.key]), Goes(c, UndoFrom(t, i)), Owns(c),
           NEW n \in 0..(Len(Kids[t.key]) - 1), Counts(t.join, n), Within(t.join, i)
    PROVE  IInv'
<1>1. t.key \in Arrays BY DEF IInv, CallOK
<1>2. i \in Nat BY <1>1, KidsFacts
<1>3. /\ \A h \in Slots : SameSlot(h)
      /\ TypeOK' /\ WaitersTold'
  BY QuietFacts
<1>4. \A g, h \in Slots : OneSlot(g, h)' BY <1>3, SlotsSame DEF IInv
<1>5. Counts(t.join, n)' /\ Within(t.join, i)'
  <2>1. \A p : Linked(p)' = Linked(p) BY <1>3, LinkedSame
  <2>2. \A m : Within(t.join, m)' <=> Within(t.join, m) BY <2>1 DEF Within
  <2>3. \A a : Open(a, n)' = Open(a, n) BY DEF Open
  <2> QED BY <2>2, <2>3 DEF Counts
<1>6. th'[c] = UndoFrom(t, i) BY DEF Goes, IInv, Types
<1>7. tbl'[t.join].key = t.key BY DEF Owns
<1>8. JoinOK(c)' /\ CallOK(c)' BY <1>1, <1>4, <1>5, <1>6, <1>7, UndoFromOK
<1>9. /\ UndoFrom(t, i) \in Thread /\ UndoFrom(t, i).key = th[c].key
      /\ UndoFrom(t, i).at # "destroy"
  BY <1>2, UndoFromFacts
<1>10. th[c].at \notin {"idle", "destroy"} BY DEF JoinPlaces
<1> QED BY <1>3, <1>8, <1>9, <1>10, GoesOn

LEMMA KidMissingOK ==
    ASSUME IInv, NEW c \in Clients, Probe(c), KidMissing(c)
    PROVE  IInv'
<1>1. UNCHANGED <<tbl, enabled, told, was>> /\ th[c].at = "kid" /\ th[c].at \in JoinPlaces
  BY ProbeSplit DEF IInv, KidMissing, SameTable, JoinPlaces
<1>2. PICK t \in Thread : t = th[c] BY DEF IInv, Types
<1>3. LinkingOK(c) /\ t.key \in Arrays BY <1>1, <1>2 DEF IInv, JoinOK, CallOK
<1>4. /\ Owns(c) /\ t.i \in 1..Len(Kids[t.key]) /\ Counts(t.join, t.i - 1)
      /\ t.i - 1 \in 0..(Len(Kids[t.key]) - 1) /\ t.i \in 0..Len(Kids[t.key])
  BY <1>2, <1>3, KidsFacts DEF LinkingOK
<1>5. Within(t.join, t.i)
  <2>1. \A j \in 1..(t.i - 1) : j \in 1..t.i BY <1>4
  <2> QED BY <1>4, <2>1 DEF Counts, Within
<1>6. Goes(c, UndoFrom(t, t.i)) BY <1>2 DEF KidMissing
<1> QED BY <1>1, <1>2, <1>4, <1>5, <1>6, UndoStarts

LEMMA UndoMissingOK ==
    ASSUME IInv, NEW c \in Clients, Probe(c), UndoMissing(c)
    PROVE  IInv'
<1>1. UNCHANGED <<tbl, enabled, told, was>> /\ th[c].at = "undo" /\ th[c].at \in JoinPlaces
  BY ProbeSplit DEF IInv, UndoMissing, SameTable, JoinPlaces
<1>2. PICK t \in Thread : t = th[c] BY DEF IInv, Types
<1>3. UndoingOK(c) /\ NotPassed(c) /\ t.key \in Arrays BY <1>1, <1>2 DEF IInv, JoinOK, CallOK
<1>4. PICK n \in 0..(Len(Kids[t.key]) - 1) : Counts(t.join, n)
  BY <1>2, <1>3 DEF UndoingOK
<1>5. /\ Owns(c) /\ t.i \in 1..Len(Kids[t.key]) /\ Within(t.join, t.i)
      /\ t.i - 1 \in 0..Len(Kids[t.key])
  BY <1>2, <1>3, KidsFacts DEF UndoingOK
<1>6. Within(t.join, t.i - 1)
  <2> SUFFICES ASSUME NEW h \in Linked(t.join)
               PROVE  \E j \in 1..(t.i - 1) : tbl[h].key = Kids[tbl[t.join].key][j]
    BY DEF Within
  <2>1. PICK j \in 1..t.i : tbl[h].key = Kids[tbl[t.join].key][j] BY <1>5 DEF Within
  <2>2. Wanted(c) = Kids[t.key][t.i] /\ Wanted(c) \in Keys BY <1>1, <1>2, WantedKey
  <2>3. tbl[Hash(c)].key # Wanted(c) BY <1>1, HitMatch DEF UndoMissing
  <2>4. h \in Slots BY DEF Linked
  <2>5. h \in Probed(c) \/ h = Hash(c) BY <2>2, <2>4, ProbedAll DEF UndoMissing, IInv
  <2>6. tbl[h].key # Wanted(c) BY <1>2, <1>3, <2>3, <2>5 DEF NotPassed
  <2>7. tbl[t.join].key = t.key BY <1>2, <1>5 DEF Owns
  <2>8. j # t.i BY <2>1, <2>2, <2>6, <2>7
  <2>9. j \in 1..(t.i - 1) BY <1>5, <2>8
  <2> QED BY <2>1, <2>9
<1>7. Goes(c, UndoFrom(t, t.i - 1)) BY <1>2 DEF UndoMissing
<1> QED BY <1>1, <1>2, <1>4, <1>5, <1>6, <1>7, UndoStarts

\* The lookup has found a slot, which the thread goes on to use.
LEMMA FoundThread ==
    ASSUME IInv, NEW c \in Clients, NEW w \in Places,
           th[c].at \in {"find", "kid", "undo"}, Hit(c),
           Goes(c, [Rewound(c) EXCEPT !.at = w, !.h = Hash(c)])
    PROVE  \E t \in Thread :
               /\ Goes(c, t) /\ th'[c] = t /\ t.at = w /\ t.key = th[c].key
               /\ t.join = th[c].join /\ t.i = th[c].i /\ t.signaled = th[c].signaled
               /\ t.h = Hash(c) /\ tbl[Hash(c)].key = Wanted(c)
<1>1. th[c] \in Thread BY DEF IInv, Types
<1>2. Hash(c) \in Slots BY WantedKey
<1>3. tbl[Hash(c)].key = Wanted(c) BY HitMatch
<1>4. 0 \in 0..(TableSize - 1) BY SlotFacts
<1> DEFINE t == [Rewound(c) EXCEPT !.at = w, !.h = Hash(c)]
<1>5. /\ t \in Thread /\ t.at = w /\ t.key = th[c].key
      /\ t.join = th[c].join /\ t.i = th[c].i /\ t.signaled = th[c].signaled
      /\ t.h = Hash(c)
  BY <1>1, <1>2, <1>4 DEF Rewound, Thread
<1> HIDE DEF t
<1>6. Goes(c, t) BY DEF t
<1>7. th'[c] = t BY <1>6 DEF Goes, IInv, Types
<1> QED BY <1>3, <1>5, <1>6, <1>7

LEMMA FoundFenceOK ==
    ASSUME IInv, NEW c \in Clients, Probe(c), FoundFence(c)
    PROVE  IInv'
<1>1. UNCHANGED <<tbl, enabled, told, was>> /\ th[c].at = "find" /\ Hit(c)
  BY ProbeSplit DEF IInv, FoundFence, SameTable
<1>2. "register" \in Places /\ "register" \notin JoinPlaces BY DEF Places, JoinPlaces
<1>3. PICK t \in Thread : /\ Goes(c, t) /\ th'[c] = t /\ t.at = "register" /\ t.key = th[c].key
  BY <1>1, <1>2, FoundThread, ZenonT(60) DEF FoundFence
<1>4. /\ \A h \in Slots : SameSlot(h)
      /\ TypeOK' /\ WaitersTold'
  BY <1>1, QuietFacts
<1>5. th[c].key \in Fences BY <1>1 DEF IInv, CallOK
<1>6. CallOK(c)' /\ JoinOK(c)' BY <1>2, <1>3, <1>5 DEF CallOK, JoinOK
<1> QED BY <1>1, <1>2, <1>3, <1>4, <1>6, GoesOn

LEMMA FoundKidOK ==
    ASSUME IInv, NEW c \in Clients, Probe(c), FoundKid(c)
    PROVE  IInv'
<1>1. /\ UNCHANGED <<tbl, enabled, told, was>> /\ th[c].at = "kid" /\ Hit(c)
      /\ th[c].at \in JoinPlaces
  BY ProbeSplit DEF IInv, FoundKid, SameTable, JoinPlaces
<1>2. "child" \in Places /\ "child" \in JoinPlaces BY DEF Places, JoinPlaces
<1>3. PICK t \in Thread :
          /\ Goes(c, t) /\ th'[c] = t /\ t.at = "child" /\ t.key = th[c].key
          /\ t.join = th[c].join /\ t.i = th[c].i /\ t.signaled = th[c].signaled
          /\ t.h = Hash(c) /\ tbl[Hash(c)].key = Wanted(c)
  BY <1>1, <1>2, FoundThread DEF FoundKid
<1>4. /\ \A h \in Slots : SameSlot(h)
      /\ TypeOK' /\ WaitersTold'
  BY <1>1, QuietFacts
<1>5. th[c].key \in Arrays /\ LinkingOK(c) BY <1>1 DEF IInv, CallOK, JoinOK
<1>6. CallOK(c)' BY <1>2, <1>3, <1>5 DEF CallOK
<1>7. Wanted(c) = Kids[th[c].key][th[c].i] BY <1>1, WantedKey
<1>8. FoundOK(c)' BY <1>1, <1>3, <1>7 DEF FoundOK
<1>9. LinkingOK(c)'
  <2>1. \A p : Linked(p)' = Linked(p) BY <1>4, LinkedSame
  <2>2. Owns(c)' <=> Owns(c) BY <1>1, <1>3 DEF Owns
  <2>3. \A p, n : Open(p, n)' = Open(p, n) BY <1>1 DEF Open
  <2>4. \A p, n : Within(p, n)' <=> Within(p, n) BY <1>1, <2>1 DEF Within
  <2>5. \A p, n : Counts(p, n)' <=> Counts(p, n) BY <1>1, <2>3, <2>4 DEF Counts
  <2>6. \A n : Tally(c, n)' <=> Tally(c, n) BY <1>1, <1>3, <2>1, <2>2 DEF Tally
  <2> QED BY <1>3, <1>5, <2>2, <2>5, <2>6 DEF LinkingOK
<1>10. JoinOK(c)' BY <1>3, <1>8, <1>9 DEF JoinOK
<1> QED BY <1>1, <1>2, <1>3, <1>4, <1>6, <1>10, GoesOn

LEMMA FoundLinkOK ==
    ASSUME IInv, NEW c \in Clients, Probe(c), FoundLink(c)
    PROVE  IInv'
<1>1. /\ UNCHANGED <<tbl, enabled, told, was>> /\ th[c].at = "undo" /\ Hit(c)
      /\ th[c].at \in JoinPlaces
  BY ProbeSplit DEF IInv, FoundLink, SameTable, JoinPlaces
<1>2. "unlink" \in Places /\ "unlink" \in JoinPlaces BY DEF Places, JoinPlaces
<1>3. PICK t \in Thread :
          /\ Goes(c, t) /\ th'[c] = t /\ t.at = "unlink" /\ t.key = th[c].key
          /\ t.join = th[c].join /\ t.i = th[c].i /\ t.signaled = th[c].signaled
          /\ t.h = Hash(c) /\ tbl[Hash(c)].key = Wanted(c)
  BY <1>1, <1>2, FoundThread DEF FoundLink
<1>4. /\ \A h \in Slots : SameSlot(h)
      /\ TypeOK' /\ WaitersTold'
  BY <1>1, QuietFacts
<1>5. th[c].key \in Arrays /\ UndoingOK(c) BY <1>1 DEF IInv, CallOK, JoinOK
<1>6. CallOK(c)' BY <1>2, <1>3, <1>5 DEF CallOK
<1>7. Wanted(c) = Kids[th[c].key][th[c].i] BY <1>1, WantedKey
<1>8. FoundOK(c)' BY <1>1, <1>3, <1>7 DEF FoundOK
<1>9. UndoingOK(c)'
  <2>1. \A p : Linked(p)' = Linked(p) BY <1>4, LinkedSame
  <2>2. Owns(c)' <=> Owns(c) BY <1>1, <1>3 DEF Owns
  <2>3. \A p, n : Open(p, n)' = Open(p, n) BY <1>1 DEF Open
  <2>4. \A p, n : Within(p, n)' <=> Within(p, n) BY <1>1, <2>1 DEF Within
  <2>5. \A p, n : Counts(p, n)' <=> Counts(p, n) BY <1>1, <2>3, <2>4 DEF Counts
  <2> QED BY <1>3, <1>5, <2>2, <2>4, <2>5 DEF UndoingOK
<1>10. JoinOK(c)' BY <1>3, <1>8, <1>9 DEF JoinOK
<1> QED BY <1>1, <1>2, <1>3, <1>4, <1>6, <1>10, GoesOn

-----------------------------------------------------------------------------
(* The steps that change the table.                                        *)

\* What such a step does to the join fence of an array that another thread
\* waits for: the slot stays, it is linked to no other, it counts as before.
Kept(a) ==
    \A p \in Slots :
        /\ tbl[p].key = a <=> tbl'[p].key = a
        /\ tbl[p].key = a =>
               /\ Linked(p)' \subseteq Linked(p)
               /\ \A n \in 0..Len(Kids[a]) : Counts(p, n) => Counts(p, n)'
               /\ \A n : Within(p, n) => Within(p, n)'

LEMMA KeptFrame ==
    ASSUME NEW d \in Clients, Types, CallOK(d), JoinOK(d), NEW t \in Thread,
           th[d] = t, th'[d] = t,
           t.at \in JoinPlaces => Kept(t.key),
           t.at \in JoinPlaces =>
               \A h \in Slots : tbl[h].key \in Fences /\ KeepsAlive(t.key, tbl[h].key)
                                  => tbl'[h].key = tbl[h].key,
           t.at \in JoinPlaces =>
               \A j \in 1..Len(Kids[t.key]) :
                   Kids[t.key][j] \in was => Kids[t.key][j] \in was'
    PROVE  JoinOK(d)'
<1>0. SUFFICES ASSUME t.at \in JoinPlaces PROVE JoinOK(d)'
  <2>1. CASE t.at \notin JoinPlaces BY <2>1 DEF JoinOK, JoinPlaces
  <2> QED BY <2>1
<1>1. PICK a \in Arrays : a = t.key BY <1>0 DEF CallOK
<1>2. PICK L \in Nat : L = Len(Kids[a]) BY KidsFacts
<1>3. \A j \in 1..L : KeepsAlive(a, Kids[a][j]) /\ Kids[a][j] \in Fences
  BY <1>2, KidsFacts, KeepsFence
<1>4. PICK p \in Slots : p = t.join BY DEF Thread
<1>5. t.h \in Slots /\ t.i \in Nat /\ t.signaled \in Nat BY DEF Thread
<1>6. /\ tbl[p].key = a <=> tbl'[p].key = a
      /\ tbl[p].key = a =>
             /\ Linked(p)' \subseteq Linked(p)
             /\ \A n \in 0..L : Counts(p, n) => Counts(p, n)'
             /\ \A n : Within(p, n) => Within(p, n)'
  BY <1>0, <1>1, <1>2 DEF Kept
<1>7. (Owns(d) <=> tbl[p].key = a) /\ (Owns(d)' <=> tbl'[p].key = a)
  BY <1>1, <1>4 DEF Owns
<1>8. ASSUME NEW n, n <= L, n \in Nat, Tally(d, n) PROVE Tally(d, n)'
  <2>1. \A j \in 1..n : j \in 1..L BY <1>8
  <2> QED BY <1>0, <1>1, <1>2, <1>4, <1>6, <1>7, <1>8, <2>1 DEF Tally
<1>9. LinkingOK(d) => LinkingOK(d)'
  <2> SUFFICES ASSUME LinkingOK(d) PROVE LinkingOK(d)' OBVIOUS
  <2>1. /\ Owns(d) /\ t.i \in 1..L /\ Counts(p, t.i - 1) /\ Tally(d, t.i - 1)
    BY <1>1, <1>2, <1>4 DEF LinkingOK
  <2>2. t.i - 1 \in 0..L /\ t.i - 1 <= L /\ t.i - 1 \in Nat BY <2>1
  <2>3. Counts(p, t.i - 1)' /\ Owns(d)' BY <1>6, <1>7, <2>1, <2>2
  <2>4. Tally(d, t.i - 1)' BY <1>8, <2>1, <2>2
  <2> QED BY <1>1, <1>2, <1>4, <2>1, <2>3, <2>4 DEF LinkingOK
<1>10. UndoingOK(d) => UndoingOK(d)'
  <2> SUFFICES ASSUME UndoingOK(d) PROVE UndoingOK(d)' OBVIOUS
  <2>1. PICK n \in 0..(L - 1) : Counts(p, n) BY <1>1, <1>2, <1>4 DEF UndoingOK
  <2>2. Owns(d) /\ t.i \in 1..L /\ Within(p, t.i) BY <1>1, <1>2, <1>4 DEF UndoingOK
  <2>3. Counts(p, n)' /\ Owns(d)' /\ Within(p, t.i)' BY <1>6, <1>7, <2>1, <2>2
  <2> QED BY <1>1, <1>2, <1>4, <2>1, <2>2, <2>3 DEF UndoingOK
<1>11. t.at \in {"child", "unlink"} => FoundOK(d)'
  <2> SUFFICES ASSUME t.at \in {"child", "unlink"} PROVE FoundOK(d)' OBVIOUS
  <2>1. FoundOK(d) /\ t.i \in 1..L
    BY <1>1, <1>2 DEF JoinOK, LinkingOK, UndoingOK
  <2>2. tbl[t.h].key = Kids[a][t.i] BY <1>1, <2>1 DEF FoundOK
  <2>3. tbl'[t.h].key = tbl[t.h].key BY <1>0, <1>1, <1>3, <1>5, <2>1, <2>2
  <2> QED BY <1>1, <2>2, <2>3 DEF FoundOK
<1>12. t.at = "undo" => NotPassed(d)'
  <2> SUFFICES ASSUME t.at = "undo", NEW h \in Linked(p)', h \in Probed(d)'
               PROVE  tbl'[h].key # Wanted(d)'
    BY <1>4 DEF NotPassed
  <2>1. NotPassed(d) /\ Owns(d) /\ t.i \in 1..L /\ Within(p, t.i)
    BY <1>1, <1>2, <1>4 DEF JoinOK, UndoingOK
  <2>2. h \in Linked(p) BY <1>6, <1>7, <2>1
  <2>3. PICK j \in 1..t.i : tbl[h].key = Kids[tbl[p].key][j] BY <2>1, <2>2 DEF Within
  <2>4. tbl[h].key = Kids[a][j] /\ j \in 1..L BY <1>7, <2>1, <2>3
  <2>5. h \in Slots BY <2>2 DEF Linked
  <2>6. tbl'[h].key = tbl[h].key BY <1>0, <1>1, <1>3, <2>4, <2>5
  <2>7. Wanted(d)' = Wanted(d) /\ Probed(d)' = Probed(d) BY DEF Wanted, Probed
  <2>8. tbl[h].key # Wanted(d) BY <1>4, <2>1, <2>2, <2>7 DEF NotPassed
  <2> QED BY <2>6, <2>7, <2>8
<1>13. t.at = "join" => /\ \A h \in Slots : tbl'[h].key # t.key
                        /\ t.i = 0 /\ t.signaled = 0
  BY <1>0 DEF JoinOK, Kept
<1>14. t.at = "mask" => Owns(d)' /\ Counts(p, 0)' /\ Tally(d, 0)' /\ t.i = 0
  <2> SUFFICES ASSUME t.at = "mask" PROVE Owns(d)' /\ Counts(p, 0)' /\ Tally(d, 0)' /\ t.i = 0
    OBVIOUS
  <2>1. Owns(d) /\ Counts(p, 0) /\ Tally(d, 0) /\ t.i = 0 BY <1>4 DEF JoinOK
  <2>2. Tally(d, 0)' BY <1>8, <2>1
  <2> QED BY <1>6, <1>7, <2>1, <2>2
<1>15. t.at = "joined" => Tally(d, L)'
  BY <1>1, <1>2, <1>8 DEF JoinOK
<1>16. t.at = "join_destroy" => \A q \in Slots : tbl'[q].key = a => Linked(q)' = {}
  BY <1>0, <1>1 DEF JoinOK, Kept
<1>17. t.at \in {"kid", "child"} => LinkingOK(d) BY DEF JoinOK
<1>18. t.at \in {"undo", "unlink"} => UndoingOK(d) BY DEF JoinOK
<1> QED BY <1>1, <1>2, <1>4, <1>9, <1>10, <1>11, <1>12, <1>13, <1>14, <1>15, <1>16,
           <1>17, <1>18 DEF JoinOK

LEMMA KeptBy ==
    ASSUME NEW a \in Arrays,
           \A p \in Slots : tbl[p].key = a <=> tbl'[p].key = a,
           \A p \in Slots : tbl[p].key = a =>
               /\ tbl'[p].pending = tbl[p].pending
               /\ Linked(p)' \subseteq Linked(p)
               /\ \A h \in Linked(p)' : tbl'[h].key = tbl[h].key,
           \A j \in 1..Len(Kids[a]) : Kids[a][j] \in was <=> Kids[a][j] \in was'
    PROVE  Kept(a)
<1> SUFFICES ASSUME NEW p \in Slots, tbl[p].key = a
             PROVE  /\ \A n \in 0..Len(Kids[a]) : Counts(p, n) => Counts(p, n)'
                    /\ \A n : Within(p, n) => Within(p, n)'
  BY DEF Kept
<1>1. \A n : Within(p, n) => Within(p, n)' BY DEF Within
<1>2. ASSUME NEW n \in 0..Len(Kids[a]) PROVE Open(a, n)' = Open(a, n)
  <2>1. \A j \in 1..n : j \in 1..Len(Kids[a]) BY KidsFacts
  <2> QED BY <2>1 DEF Open
<1>3. tbl'[p].key = a /\ tbl'[p].pending = tbl[p].pending OBVIOUS
<1>4. ASSUME NEW n \in 0..Len(Kids[a]), Counts(p, n) PROVE Counts(p, n)'
  <2>1. Open(tbl[p].key, n)' = Open(tbl[p].key, n) BY <1>2, <1>3 DEF Open
  <2> QED BY <1>1, <1>3, <1>4, <2>1 DEF Counts
<1> QED BY <1>1, <1>4

\* The step of one thread, as the others see it.
LEMMA Others ==
    ASSUME IInv, NEW c \in Clients, NEW t \in Thread, Goes(c, t), DyingOK(c)',
           t.at \in JoinPlaces =>
               \/ th[c].at \in JoinPlaces /\ th[c].key = t.key
               \/ \A d \in Clients : d # c /\ th[d].at \in JoinPlaces => th[d].key # t.key,
           t.at # "idle" => \A d \in Clients :
               d # c /\ th[d].at = "destroy" => ~KeepsAlive(t.key, th[d].key),
           \A h \in Slots : tbl'[h].key \in Arrays =>
               \/ \E g \in Slots : tbl[g].key = tbl'[h].key
               \/ th[c].at # "idle" /\ th[c].key = tbl'[h].key
    PROVE  /\ th' \in [Clients -> Thread] /\ th'[c] = t
           /\ \A d \in Clients : d # c => th'[d] = th[d]
           /\ \A d, e \in Clients : Exclusive(d, e)'
           /\ \A d \in Clients : DyingOK(d)'
<1>1. th \in [Clients -> Thread] BY DEF IInv, Types
<1>2. /\ th' \in [Clients -> Thread] /\ th'[c] = t
      /\ \A d \in Clients : d # c => th'[d] = th[d]
  BY <1>1 DEF Goes
<1>3. ASSUME NEW d \in Clients, NEW e \in Clients PROVE Exclusive(d, e)'
  <2>1. Exclusive(d, e) /\ Exclusive(d, c) /\ Exclusive(c, e) BY DEF IInv
  <2> QED BY <1>2, <2>1 DEF Exclusive
<1>4. ASSUME NEW d \in Clients PROVE DyingOK(d)'
  <2>1. CASE d = c BY <2>1
  <2>2. CASE d # c
    <3>1. DyingOK(d) BY DEF IInv
    <3>2. ASSUME th[d].at = "destroy", NEW h \in Slots, tbl'[h].key \in Arrays
          PROVE  ~KeepsAlive(tbl'[h].key, th[d].key)
      BY <2>2, <3>1, <3>2 DEF DyingOK
    <3>3. ASSUME th[d].at = "destroy", NEW e \in Clients, e # d, th'[e].at # "idle"
          PROVE  ~KeepsAlive(th'[e].key, th[d].key)
      BY <1>2, <2>2, <3>1, <3>3 DEF DyingOK
    <3> QED BY <1>2, <2>2, <3>2, <3>3 DEF DyingOK
  <2> QED BY <2>1, <2>2
<1> QED BY <1>2, <1>3, <1>4

LEMMA CallKept ==
    ASSUME NEW d \in Clients, CallOK(d), th'[d] = th[d],
           th[d].at = "create" => th[d].key \notin enabled',
           th[d].at = "destroy" =>
               /\ th[d].key \notin was'
               /\ \A h \in Slots : tbl'[h].key = th[d].key =>
                      tbl[h].key = th[d].key /\ (tbl[h].signal => tbl'[h].signal)
    PROVE  CallOK(d)'
<1>1. Probed(d)' = Probed(d) BY DEF Probed, Wanted
<1> QED BY <1>1 DEF CallOK

LEMMA CallDestroyOK ==
    ASSUME IInv, NEW c \in Clients, NEW f \in Fences, CallDestroy(c, f)
    PROVE  IInv'
<1>1. /\ th[c].at = "idle" /\ f \in enabled /\ ~Busy(f) /\ f \in was
      /\ tbl' = tbl /\ enabled' = enabled /\ was' = was \ {f}
      /\ told' = {w \in told : w[2] # f}
  BY DEF CallDestroy, At
<1>2. Owner[f] = c BY DEF CallDestroy
<1>3. "destroy" \in Places /\ "destroy" \notin JoinPlaces BY DEF Places, JoinPlaces
<1>4. f \in Keys /\ f # NoOne /\ f \notin Arrays BY FenceFacts
<1>5. PICK t \in Thread : /\ Goes(c, t) /\ th'[c] = t
                          /\ t.at = "destroy" /\ t.key = f /\ t.step = 0
  BY <1>3, <1>4, CallFacts DEF CallDestroy, IInv
<1>6. /\ \A d \in Clients : th[d].at # "idle" => ~KeepsAlive(th[d].key, f)
      /\ \A h \in Slots : tbl[h].key \in Arrays => ~KeepsAlive(tbl[h].key, f)
  BY <1>1 DEF Busy
<1>7. th \in [Clients -> Thread] BY DEF IInv, Types
<1>8. \A d \in Clients : d # c => th'[d] = th[d] BY <1>5, <1>7 DEF Goes
<1>9. DyingOK(c)' BY <1>1, <1>5, <1>6, <1>8 DEF DyingOK
<1>10. ASSUME NEW d \in Clients, d # c, th[d].at = "destroy" PROVE ~KeepsAlive(f, th[d].key)
  <2>1. CallOK(d) BY DEF IInv
  <2>2. th[d].key \in Fences /\ Owner[th[d].key] = d BY <1>10, <2>1 DEF CallOK
  <2> QED BY <1>2, <1>4, <1>10, <2>2 DEF KeepsAlive
<1>11. \A d \in Clients : d # c /\ th[d].at = "destroy" => ~KeepsAlive(t.key, th[d].key)
  BY <1>5, <1>10
<1>12. /\ th' \in [Clients -> Thread]
       /\ \A d, e \in Clients : Exclusive(d, e)'
       /\ \A d \in Clients : DyingOK(d)'
  BY <1>1, <1>3, <1>5, <1>9, <1>11, Others
<1>13. TypeOK' BY <1>1 DEF IInv, Types, TypeOK
<1>14. Types' BY <1>1, <1>12, <1>13 DEF IInv, Types
<1>15. \A h \in Slots : SlotOK(h)' BY <1>1 DEF IInv, SlotOK
<1>16. \A g, h \in Slots : OneSlot(g, h)' BY <1>1 DEF IInv, OneSlot
<1>17. \A p : Linked(p)' = Linked(p) BY <1>1 DEF Linked
<1>18. \A p \in Slots : LinkOK(p)' BY <1>1, <1>17 DEF IInv, LinkOK
<1>19. ASSUME NEW h \in Slots PROVE FenceOK(h)'
  <2>1. FenceOK(h) BY DEF IInv
  <2>2. Dying(f)' BY <1>5 DEF Dying, At
  <2>3. Dying(tbl[h].key) => Dying(tbl[h].key)' BY <1>1, <1>8 DEF Dying, At
  <2> QED BY <1>1, <2>1, <2>2, <2>3 DEF FenceOK
<1>20. ASSUME NEW a \in Arrays, ~KeepsAlive(a, f) PROVE Kept(a)
  <2>1. \A j \in 1..Len(Kids[a]) : Kids[a][j] # f BY <1>20, KeepsFence
  <2>2. \A j \in 1..Len(Kids[a]) : Kids[a][j] \in was <=> Kids[a][j] \in was' BY <1>1, <2>1
  <2>3. \A p \in Slots : tbl[p].key = a <=> tbl'[p].key = a BY <1>1
  <2>4. \A p \in Slots : tbl[p].key = a =>
               /\ tbl'[p].pending = tbl[p].pending
               /\ Linked(p)' \subseteq Linked(p)
               /\ \A h \in Linked(p)' : tbl'[h].key = tbl[h].key
    BY <1>1, <1>17
  <2> QED BY <2>2, <2>3, <2>4, KeptBy
<1>21. ASSUME NEW p \in Slots PROVE CountOK(p)'
  <2> SUFFICES ASSUME tbl[p].key \in Arrays
               PROVE  \E n \in 0..Len(Kids[tbl[p].key]) : Counts(p, n)'
    BY <1>1 DEF CountOK
  <2>1. PICK n \in 0..Len(Kids[tbl[p].key]) : Counts(p, n) BY DEF IInv, CountOK
  <2>2. Kept(tbl[p].key) BY <1>6, <1>20
  <2> QED BY <2>1, <2>2 DEF Kept
<1>22. ASSUME NEW d \in Clients PROVE CallOK(d)'
  <2>1. CASE d # c
    <3>1. CallOK(d) BY DEF IInv
    <3> QED BY <1>1, <1>8, <2>1, <3>1, CallKept DEF CallOK
  <2>2. CASE d = c
    <3>1. Probed(c)' = {} BY <1>5 DEF Probed
    <3>2. \A h \in Slots : tbl[h].key = f => tbl[h].signal BY <1>1 DEF IInv, FenceOK
    <3> QED BY <1>1, <1>2, <1>3, <1>5, <2>2, <3>1, <3>2 DEF CallOK
  <2> QED BY <2>1, <2>2
<1>23. ASSUME NEW d \in Clients PROVE JoinOK(d)'
  <2>1. CASE d # c
    <3>1. PICK u \in Thread : u = th[d] BY <1>7
    <3>2. CallOK(d) /\ JoinOK(d) /\ Types BY DEF IInv
    <3>3. u.at \in JoinPlaces => u.key \in Arrays /\ ~KeepsAlive(u.key, f)
      BY <1>6, <3>1, <3>2 DEF CallOK, JoinPlaces
    <3>4. u.at \in JoinPlaces => Kept(u.key) BY <1>20, <3>3
    <3>5. u.at \in JoinPlaces =>
             \A j \in 1..Len(Kids[u.key]) : Kids[u.key][j] \in was => Kids[u.key][j] \in was'
      BY <1>1, <3>3, KeepsFence
    <3>6. th'[d] = u BY <1>8, <2>1, <3>1
    <3> QED BY <1>1, <3>1, <3>2, <3>4, <3>5, <3>6, KeptFrame
  <2>2. CASE d = c BY <1>5, <2>2 DEF JoinOK
  <2> QED BY <2>1, <2>2
<1>24. WaitersTold'
  <2> SUFFICES ASSUME NEW h \in Slots, tbl[h].signal, tbl[h].key \in was', NEW d \in tbl[h].waiters
               PROVE  <<d, tbl[h].key>> \in told'
    BY <1>1 DEF WaitersTold
  <2>1. tbl[h].key # f /\ <<d, tbl[h].key>> \in told BY <1>1 DEF IInv, WaitersTold
  <2> QED BY <1>1, <2>1
<1>25. was' \subseteq enabled' BY <1>1 DEF IInv
<1> QED BY <1>12, <1>14, <1>15, <1>16, <1>18, <1>19, <1>21, <1>22, <1>23, <1>24, <1>25 DEF IInv

\* The other threads that wait for an array.
LEMMA OthersJoin ==
    ASSUME IInv, NEW c \in Clients, \A d \in Clients : d # c => th'[d] = th[d],
           \A a \in Arrays : (th[c].at \in JoinPlaces => a # th[c].key) => Kept(a),
           \A d \in Clients : d # c /\ th[d].at \in JoinPlaces =>
               \A h \in Slots : tbl[h].key \in Fences /\ KeepsAlive(th[d].key, tbl[h].key)
                                  => tbl'[h].key = tbl[h].key,
           was' = was
    PROVE  \A d \in Clients : d # c => JoinOK(d)'
<1> SUFFICES ASSUME NEW d \in Clients, d # c PROVE JoinOK(d)' OBVIOUS
<1>1. PICK t \in Thread : t = th[d] BY DEF IInv, Types
<1>2. CallOK(d) /\ JoinOK(d) /\ Types /\ Exclusive(c, d) BY DEF IInv
<1>3. th'[d] = t BY <1>1
<1>4. t.at \in JoinPlaces => t.key \in Arrays BY <1>1, <1>2 DEF CallOK
<1>5. t.at \in JoinPlaces => Kept(t.key) BY <1>1, <1>2, <1>4 DEF Exclusive
<1> QED BY <1>1, <1>2, <1>3, <1>5, KeptFrame

\* A free slot is taken.
LEMMA Filled ==
    ASSUME IInv, NEW c \in Clients, th[c].at \in {"create", "join"}, Hit(c),
           tbl' = [tbl EXCEPT ![Hash(c)] = Reserved(c)], told' = told,
           enabled' \subseteq Fences
    PROVE  LET h == Hash(c) IN
           /\ h \in Slots /\ tbl[h].key = NoOne
           /\ tbl'[h].valid = TRUE /\ tbl'[h].key = th[c].key /\ tbl'[h].signal = FALSE
           /\ tbl'[h].waiters = {}
           /\ th[c].at = "join" => tbl'[h].pending = Len(Kids[th[c].key])
           /\ \A g \in Slots : g # h => tbl'[g] = tbl[g]
           /\ \A p : Linked(p)' = Linked(p)
           /\ \A p : h \notin Linked(p)
           /\ TypeOK'
<1> DEFINE h == Hash(c)
<1>1. h \in Slots BY WantedKey
<1>2. ~tbl[h].valid BY DEF Hit, Compare, Creating
<1>3. SlotOK(h) BY <1>1 DEF IInv
<1>4. tbl[h].key = NoOne BY <1>2, <1>3 DEF SlotOK
<1>5. TypeOK BY DEF IInv, Types
<1>6. th[c].key \in Fences \cup Arrays /\ (th[c].at = "join" => th[c].key \in Arrays)
  BY DEF IInv, CallOK, JoinPlaces
<1>7. /\ Reserved(c).valid = TRUE /\ Reserved(c).key = th[c].key /\ Reserved(c).signal = FALSE
      /\ Reserved(c).waiters = {} /\ Reserved(c).cnt = 0
      /\ th[c].at = "join" => Reserved(c).pending = Len(Kids[th[c].key])
  BY DEF Reserved, FreeSlot
<1>8. Reserved(c) \in [valid : BOOLEAN, key : Keys \cup {NoOne},
                          waiters : SUBSET Clients, alloc : Clients \cup {NoOne},
                          signal : BOOLEAN, parents : [1..MaxParents -> Slots \cup {NoOne}],
                          cnt : 0..(MaxParents - 1), pending : Nat]
  <2>1. (IF th[c].at = "join" THEN Len(Kids[th[c].key]) ELSE 0) \in Nat BY <1>6, KidsFacts
  <2>2. (IF th[c].at = "create" THEN c ELSE NoOne) \in Clients \cup {NoOne} OBVIOUS
  <2>3. 0 \in 0..(MaxParents - 1) BY TableAssumption
  <2>4. th[c].key \in Keys BY <1>6 DEF Keys
  <2>5. [i \in 1..MaxParents |-> NoOne] \in [1..MaxParents -> Slots \cup {NoOne}] OBVIOUS
  <2> QED BY <2>1, <2>2, <2>3, <2>4, <2>5 DEF Reserved, FreeSlot
<1> HIDE DEF h
<1>9. tbl' = [tbl EXCEPT ![h] = Reserved(c)] BY DEF h
<1>10. tbl'[h] = Reserved(c) /\ \A g \in Slots : g # h => tbl'[g] = tbl[g]
  BY <1>1, <1>5, <1>9 DEF TypeOK
<1>11. TypeOK'
  <2> DEFINE X == [valid : BOOLEAN, key : Keys \cup {NoOne},
                   waiters : SUBSET Clients, alloc : Clients \cup {NoOne},
                   signal : BOOLEAN, parents : [1..MaxParents -> Slots \cup {NoOne}],
                   cnt : 0..(MaxParents - 1), pending : Nat]
  <2>1. tbl \in [Slots -> X] BY <1>5 DEF TypeOK
  <2>2. Reserved(c) \in X BY <1>8
  <2> HIDE DEF X
  <2>3. tbl' \in [Slots -> X] BY <1>1, <1>9, <2>1, <2>2
  <2> QED BY <1>5, <2>3 DEF TypeOK, X
<1>12. \A p : h \notin Linked(p) BY <1>2 DEF Linked, h
<1>13. ASSUME NEW p PROVE Linked(p)' = Linked(p)
  <2>1. h \notin Linked(p)' BY <1>7, <1>10 DEF Linked
  <2>2. \A g \in Slots : g # h => (g \in Linked(p)' <=> g \in Linked(p)) BY <1>10 DEF Linked
  <2>3. Linked(p) \subseteq Slots /\ Linked(p)' \subseteq Slots BY DEF Linked
  <2> QED BY <1>12, <2>1, <2>2, <2>3
<1> QED BY <1>1, <1>4, <1>7, <1>10, <1>11, <1>12, <1>13 DEF h

LEMMA CreatedOK ==
    ASSUME IInv, NEW c \in Clients, Probe(c), Created(c)
    PROVE  IInv'
<1>1. /\ th[c].at = "create" /\ Hit(c) /\ Goes(c, Ready) /\ was' = was /\ told' = told
      /\ tbl' = [tbl EXCEPT ![Hash(c)] = Reserved(c)] /\ enabled' = enabled \cup {th[c].key}
  BY ProbeSplit DEF IInv, Created
<1>2. PICK f \in Fences : f = th[c].key BY <1>1 DEF IInv, CallOK
<1>3. Owner[f] = c /\ f \notin enabled BY <1>1, <1>2 DEF IInv, CallOK
<1>4. enabled' \subseteq Fences BY <1>1, <1>2 DEF IInv, Types, TypeOK
<1>5. PICK h \in Slots :
           /\ tbl[h].key = NoOne /\ tbl'[h].valid = TRUE /\ tbl'[h].key = f
           /\ tbl'[h].signal = FALSE /\ tbl'[h].waiters = {}
           /\ \A g \in Slots : g # h => tbl'[g] = tbl[g]
           /\ \A p : Linked(p)' = Linked(p)
           /\ \A p : h \notin Linked(p)
           /\ TypeOK'
  BY <1>1, <1>2, <1>4, Filled
<1>6. f # NoOne /\ f \notin Arrays /\ NoOne \notin Arrays /\ NoOne \notin Fences
  BY TableAssumption DEF Keys
<1>7. /\ Ready \in Thread /\ Ready.at = "idle" /\ "idle" \notin JoinPlaces
      /\ CallOK(c)' /\ JoinOK(c)' /\ DyingOK(c)'
  BY <1>1, GoesReady DEF IInv, JoinPlaces
<1>8. \A g \in Slots : tbl'[g].key \in Arrays => tbl[g].key = tbl'[g].key BY <1>5, <1>6
<1>9. /\ th' \in [Clients -> Thread] /\ \A d \in Clients : d # c => th'[d] = th[d]
      /\ \A d, e \in Clients : Exclusive(d, e)'
      /\ \A d \in Clients : DyingOK(d)'
  BY <1>1, <1>7, <1>8, Others
<1>10. Types' BY <1>1, <1>5, <1>9 DEF IInv, Types
<1>11. \A g \in Slots : SlotOK(g)' BY <1>2, <1>5, <1>6 DEF IInv, SlotOK
<1>12. \A g \in Slots : tbl[g].key # f BY <1>3 DEF IInv, FenceOK
<1>13. \A g, k \in Slots : OneSlot(g, k)' BY <1>5, <1>12 DEF IInv, OneSlot
<1>14. ASSUME NEW p \in Slots PROVE LinkOK(p)'
  <2>1. \A g \in Linked(p) : g \in Slots /\ g # h BY <1>5 DEF Linked
  <2> QED BY <1>5, <1>6, <2>1 DEF IInv, LinkOK
<1>15. ASSUME NEW g \in Slots PROVE FenceOK(g)'
  <2>1. CASE g = h
    <3>1. f \notin was BY <1>3 DEF IInv
    <3> QED BY <1>1, <1>2, <1>5, <2>1, <3>1 DEF FenceOK
  <2>2. CASE g # h
    <3>1. FenceOK(g) /\ tbl'[g] = tbl[g] BY <1>5, <2>2 DEF IInv
    <3>2. Dying(tbl[g].key) => Dying(tbl[g].key)' BY <1>1, <1>9, <3>1 DEF Dying, At
    <3> QED BY <1>1, <3>1, <3>2 DEF FenceOK
  <2> QED BY <2>1, <2>2
<1>16. ASSUME NEW a \in Arrays PROVE Kept(a)
  <2>1. \A p \in Slots : tbl[p].key = a <=> tbl'[p].key = a BY <1>5, <1>6
  <2>2. \A p \in Slots : tbl[p].key = a =>
               /\ tbl'[p].pending = tbl[p].pending
               /\ Linked(p)' \subseteq Linked(p)
               /\ \A g \in Linked(p)' : tbl'[g].key = tbl[g].key
    BY <1>5, <1>6 DEF Linked
  <2> QED BY <1>1, <2>1, <2>2, KeptBy
<1>17. ASSUME NEW p \in Slots PROVE CountOK(p)'
  <2> SUFFICES ASSUME tbl'[p].key \in Arrays
               PROVE  \E n \in 0..Len(Kids[tbl'[p].key]) : Counts(p, n)'
    BY DEF CountOK
  <2>1. tbl'[p].key = tbl[p].key BY <1>8
  <2>2. PICK n \in 0..Len(Kids[tbl[p].key]) : Counts(p, n) BY <2>1 DEF IInv, CountOK
  <2>3. Kept(tbl[p].key) BY <1>16, <2>1
  <2> QED BY <2>1, <2>2, <2>3 DEF Kept
<1>18. ASSUME NEW d \in Clients PROVE CallOK(d)'
  <2>1. CASE d # c
    <3>1. CallOK(d) BY DEF IInv
    <3>2. th[d].at \in {"create", "destroy"} => th[d].key # f BY <1>3, <2>1, <3>1 DEF CallOK
    <3>3. th[d].at = "create" => th[d].key \notin enabled' BY <1>1, <1>2, <3>1, <3>2 DEF CallOK
    <3>4. th[d].at = "destroy" =>
               /\ th[d].key \notin was'
               /\ \A g \in Slots : tbl'[g].key = th[d].key =>
                      tbl[g].key = th[d].key /\ (tbl[g].signal => tbl'[g].signal)
      BY <1>1, <1>5, <3>1, <3>2 DEF CallOK
    <3> QED BY <1>9, <2>1, <3>1, <3>3, <3>4, CallKept
  <2>2. CASE d = c BY <1>7, <2>2
  <2> QED BY <2>1, <2>2
<1>19. \A d \in Clients : JoinOK(d)'
  <2>1. \A g \in Slots : tbl[g].key \in Fences => tbl'[g].key = tbl[g].key BY <1>5, <1>6
  <2> QED BY <1>1, <1>7, <1>9, <1>16, <2>1, OthersJoin
<1>20. WaitersTold'
  <2> SUFFICES ASSUME NEW g \in Slots, tbl'[g].signal, tbl'[g].key \in was, NEW d \in tbl'[g].waiters
               PROVE  <<d, tbl'[g].key>> \in told
    BY <1>1 DEF WaitersTold
  <2>1. tbl'[g] = tbl[g] BY <1>5
  <2> QED BY <2>1 DEF IInv, WaitersTold
<1>21. was' \subseteq enabled' BY <1>1 DEF IInv
<1> QED BY <1>9, <1>10, <1>11, <1>13, <1>14, <1>15, <1>17, <1>18, <1>19, <1>20, <1>21 DEF IInv

LEMMA JoinMadeOK ==
    ASSUME IInv, NEW c \in Clients, Probe(c), JoinMade(c)
    PROVE  IInv'
<1>1. /\ th[c].at = "join" /\ Hit(c) /\ was' = was /\ told' = told /\ enabled' = enabled
      /\ tbl' = [tbl EXCEPT ![Hash(c)] = Reserved(c)]
      /\ Goes(c, [Rewound(c) EXCEPT !.at = "mask", !.join = Hash(c)])
  BY ProbeSplit DEF IInv, JoinMade
<1>2. PICK a \in Arrays : a = th[c].key BY <1>1 DEF IInv, CallOK, JoinPlaces
<1>3. /\ \A g \in Slots : tbl[g].key # a
      /\ th[c].i = 0 /\ th[c].signaled = 0
  BY <1>1, <1>2 DEF IInv, JoinOK
<1>4. enabled' \subseteq Fences BY <1>1 DEF IInv, Types, TypeOK
<1>5. PICK h \in Slots :
           /\ h = Hash(c) /\ tbl[h].key = NoOne /\ tbl'[h].valid = TRUE /\ tbl'[h].key = a
           /\ tbl'[h].signal = FALSE /\ tbl'[h].waiters = {}
           /\ tbl'[h].pending = Len(Kids[a])
           /\ \A g \in Slots : g # h => tbl'[g] = tbl[g]
           /\ \A p : Linked(p)' = Linked(p)
           /\ \A p : h \notin Linked(p)
           /\ TypeOK'
  <2> DEFINE h == Hash(c)
  <2>1. /\ h \in Slots /\ tbl[h].key = NoOne /\ tbl'[h].valid = TRUE /\ tbl'[h].key = th[c].key
        /\ tbl'[h].signal = FALSE /\ tbl'[h].waiters = {}
        /\ tbl'[h].pending = Len(Kids[th[c].key])
        /\ \A g \in Slots : g # h => tbl'[g] = tbl[g]
        /\ \A p : Linked(p)' = Linked(p)
        /\ \A p : h \notin Linked(p)
        /\ TypeOK'
    BY <1>1, <1>4, Filled
  <2> HIDE DEF h
  <2>2. h = Hash(c) BY DEF h
  <2> QED BY <1>2, <2>1, <2>2, Zenon
<1>6. /\ a # NoOne /\ a \notin Fences /\ NoOne \notin Arrays /\ NoOne \notin Fences
      /\ Len(Kids[a]) \in Nat
  BY KidsFacts, TableAssumption DEF Keys
<1>7. PICK t \in Thread : /\ Goes(c, t) /\ t.at = "mask" /\ t.key = a /\ t.join = h
                          /\ t.i = 0 /\ t.signaled = 0
  <2>1. th[c] \in Thread BY DEF IInv, Types
  <2>2. 0 \in 0..(TableSize - 1) /\ "mask" \in Places BY SlotFacts DEF Places, JoinPlaces
  <2> DEFINE u == [Rewound(c) EXCEPT !.at = "mask", !.join = Hash(c)]
  <2>3. /\ u \in Thread /\ u.at = "mask" /\ u.key = a /\ u.join = h
        /\ u.i = 0 /\ u.signaled = 0
    BY <1>2, <1>3, <1>5, <2>1, <2>2 DEF Rewound, Thread
  <2> QED BY <1>1, <2>3
<1>8. th'[c] = t /\ "mask" \in JoinPlaces /\ th[c].at \in JoinPlaces
  BY <1>1, <1>7 DEF Goes, IInv, Types, JoinPlaces
<1>9. DyingOK(c)' BY <1>7, <1>8 DEF DyingOK
<1>10. \A d \in Clients : d # c /\ th[d].at = "destroy" => ~KeepsAlive(t.key, th[d].key)
  BY <1>1, <1>2, <1>7 DEF IInv, DyingOK
<1>11. \A g \in Slots : tbl'[g].key \in Arrays =>
           \/ tbl[g].key = tbl'[g].key
           \/ th[c].at # "idle" /\ th[c].key = tbl'[g].key
  BY <1>1, <1>2, <1>5
<1>12. /\ th' \in [Clients -> Thread] /\ \A d \in Clients : d # c => th'[d] = th[d]
       /\ \A d, e \in Clients : Exclusive(d, e)'
       /\ \A d \in Clients : DyingOK(d)'
  BY <1>2, <1>7, <1>8, <1>9, <1>10, <1>11, Others
<1>13. Types' BY <1>1, <1>5, <1>12 DEF IInv, Types
<1>14. \A g \in Slots : SlotOK(g)' BY <1>5, <1>6 DEF IInv, SlotOK
<1>15. \A g, k \in Slots : OneSlot(g, k)' BY <1>3, <1>5 DEF IInv, OneSlot
<1>16. ASSUME NEW p \in Slots PROVE LinkOK(p)'
  <2>1. \A g \in Linked(p) : g \in Slots /\ g # h BY <1>5 DEF Linked
  <2> QED BY <1>5, <2>1 DEF IInv, LinkOK
<1>17. ASSUME NEW g \in Slots PROVE FenceOK(g)'
  <2>1. CASE g = h BY <1>5, <1>6, <2>1 DEF FenceOK
  <2>2. CASE g # h
    <3>1. FenceOK(g) /\ tbl'[g] = tbl[g] BY <1>5, <2>2 DEF IInv
    <3>2. Dying(tbl[g].key) => Dying(tbl[g].key)' BY <1>1, <1>12, <3>1 DEF Dying, At
    <3> QED BY <1>1, <3>1, <3>2 DEF FenceOK
  <2> QED BY <2>1, <2>2
<1>18. ASSUME NEW b \in Arrays, b # a PROVE Kept(b)
  <2>1. \A p \in Slots : tbl[p].key = b <=> tbl'[p].key = b BY <1>5, <1>6, <1>18
  <2>2. \A p \in Slots : tbl[p].key = b =>
               /\ tbl'[p].pending = tbl[p].pending
               /\ Linked(p)' \subseteq Linked(p)
               /\ \A g \in Linked(p)' : tbl'[g].key = tbl[g].key
    <3>0. \A p : Linked(p) \subseteq Slots BY DEF Linked
    <3>1. \A p : \A g \in Linked(p)' : g \in Slots /\ g # h BY <1>5, <3>0
    <3>2. \A p \in Slots : tbl[p].key = b => p # h BY <1>5, <1>6
    <3> QED BY <1>5, <3>1, <3>2
  <2> QED BY <1>1, <2>1, <2>2, KeptBy
<1>19. Linked(h)' = {} BY <1>5, <1>6 DEF IInv, LinkOK
<1>20. Counts(h, 0)'
  <2>1. Cardinality(Open(a, 0)') = 0
    <3>1. Open(a, 0)' = {} BY DEF Open
    <3> QED BY <3>1, FS_EmptySet
  <2>2. Open(tbl[h].key, 0)' = Open(a, 0)' BY <1>5 DEF Open
  <2>3. Within(h, 0)' BY <1>19 DEF Within
  <2> QED BY <1>5, <1>6, <2>1, <2>2, <2>3 DEF Counts
<1>21. ASSUME NEW p \in Slots PROVE CountOK(p)'
  <2>1. CASE p = h
    <3>1. 0 \in 0..Len(Kids[a]) BY <1>6
    <3> QED BY <1>5, <1>20, <2>1, <3>1 DEF CountOK
  <2>2. CASE p # h
    <3> SUFFICES ASSUME tbl'[p].key \in Arrays
                 PROVE  \E n \in 0..Len(Kids[tbl'[p].key]) : Counts(p, n)'
      BY DEF CountOK
    <3>1. tbl'[p].key = tbl[p].key /\ tbl[p].key # a BY <1>3, <1>5, <2>2
    <3>2. PICK n \in 0..Len(Kids[tbl[p].key]) : Counts(p, n) BY <3>1 DEF IInv, CountOK
    <3>3. Kept(tbl[p].key) BY <1>18, <3>1
    <3> QED BY <3>1, <3>2, <3>3 DEF Kept
  <2> QED BY <2>1, <2>2
<1>22. ASSUME NEW d \in Clients PROVE CallOK(d)'
  <2>1. CASE d # c
    <3>1. CallOK(d) BY DEF IInv
    <3>2. th[d].at = "destroy" => th[d].key # a BY <1>6, <3>1 DEF CallOK
    <3>3. th[d].at = "create" => th[d].key \notin enabled' BY <1>1, <3>1 DEF CallOK
    <3>4. th[d].at = "destroy" =>
               /\ th[d].key \notin was'
               /\ \A g \in Slots : tbl'[g].key = th[d].key =>
                      tbl[g].key = th[d].key /\ (tbl[g].signal => tbl'[g].signal)
      BY <1>1, <1>5, <3>1, <3>2 DEF CallOK
    <3> QED BY <1>12, <2>1, <3>1, <3>3, <3>4, CallKept
  <2>2. CASE d = c BY <1>7, <1>8, <2>2 DEF CallOK
  <2> QED BY <2>1, <2>2
<1>23. JoinOK(c)'
  <2>1. Owns(c)' BY <1>5, <1>7, <1>8 DEF Owns
  <2>2. Tally(c, 0)' BY <1>7, <1>8, <1>19, <2>1 DEF Tally
  <2> QED BY <1>7, <1>8, <1>20, <2>1, <2>2 DEF JoinOK
<1>24. \A d \in Clients : JoinOK(d)'
  <2>1. \A g \in Slots : tbl[g].key \in Fences => tbl'[g].key = tbl[g].key BY <1>5, <1>6
  <2>2. \A b \in Arrays : (th[c].at \in JoinPlaces => b # th[c].key) => Kept(b)
    BY <1>2, <1>8, <1>18
  <2> QED BY <1>1, <1>12, <1>23, <2>1, <2>2, OthersJoin
<1>25. WaitersTold'
  <2> SUFFICES ASSUME NEW g \in Slots, tbl'[g].signal, tbl'[g].key \in was, NEW d \in tbl'[g].waiters
               PROVE  <<d, tbl'[g].key>> \in told
    BY <1>1 DEF WaitersTold
  <2>1. tbl'[g] = tbl[g] BY <1>5
  <2> QED BY <2>1 DEF IInv, WaitersTold
<1>26. was' \subseteq enabled' BY <1>1 DEF IInv
<1> QED BY <1>12, <1>13, <1>14, <1>15, <1>16, <1>17, <1>21, <1>22, <1>24, <1>25, <1>26 DEF IInv

\* A slot is freed.
LEMMA Freed ==
    ASSUME IInv, NEW h \in Slots, tbl' = [tbl EXCEPT ![h] = FreeSlot], told' = told,
           enabled' \subseteq Fences
    PROVE  /\ tbl'[h].key = NoOne /\ tbl'[h].valid = FALSE /\ tbl'[h].signal = FALSE
           /\ \A g \in Slots : g # h => tbl'[g] = tbl[g]
           /\ \A p : Linked(p)' = Linked(p) \ {h}
           /\ \A g \in Slots : SlotOK(g)'
           /\ \A g, k \in Slots : OneSlot(g, k)'
           /\ TypeOK'
<1>1. TypeOK BY DEF IInv, Types
<1>2. /\ FreeSlot.key = NoOne /\ FreeSlot.valid = FALSE /\ FreeSlot.signal = FALSE
  BY DEF FreeSlot
<1>3. FreeSlot \in [valid : BOOLEAN, key : Keys \cup {NoOne},
                          waiters : SUBSET Clients, alloc : Clients \cup {NoOne},
                          signal : BOOLEAN, parents : [1..MaxParents -> Slots \cup {NoOne}],
                          cnt : 0..(MaxParents - 1), pending : Nat]
  <2>1. 0 \in 0..(MaxParents - 1) BY TableAssumption
  <2>2. [i \in 1..MaxParents |-> NoOne] \in [1..MaxParents -> Slots \cup {NoOne}] OBVIOUS
  <2> QED BY <2>1, <2>2 DEF FreeSlot
<1>4. tbl'[h] = FreeSlot /\ \A g \in Slots : g # h => tbl'[g] = tbl[g] BY <1>1 DEF TypeOK
<1>5. TypeOK' BY <1>1, <1>3 DEF TypeOK
<1>6. ASSUME NEW p PROVE Linked(p)' = Linked(p) \ {h}
  <2>1. h \notin Linked(p)' BY <1>2, <1>4 DEF Linked
  <2>2. \A g \in Slots : g # h => (g \in Linked(p)' <=> g \in Linked(p)) BY <1>4 DEF Linked
  <2>3. Linked(p) \subseteq Slots /\ Linked(p)' \subseteq Slots BY DEF Linked
  <2> QED BY <2>1, <2>2, <2>3
<1>7. \A g \in Slots : SlotOK(g)' BY <1>2, <1>4 DEF IInv, SlotOK
<1>8. \A g, k \in Slots : OneSlot(g, k)' BY <1>2, <1>4 DEF IInv, OneSlot
<1> QED BY <1>2, <1>4, <1>5, <1>6, <1>7, <1>8

LEMMA DestroyedOK ==
    ASSUME IInv, NEW c \in Clients, Probe(c), Destroyed(c)
    PROVE  IInv'
<1>1. /\ th[c].at = "destroy" /\ Hit(c) /\ Goes(c, Ready) /\ was' = was /\ told' = told
      /\ tbl' = [tbl EXCEPT ![Hash(c)] = FreeSlot] /\ enabled' = enabled \ {th[c].key}
  BY ProbeSplit DEF IInv, Destroyed
<1>2. PICK f \in Fences : f = th[c].key BY <1>1 DEF IInv, CallOK
<1>3. Owner[f] = c /\ f \notin was BY <1>1, <1>2 DEF IInv, CallOK
<1>4. PICK h \in Slots : h = Hash(c) /\ tbl[h].key = f BY <1>1, <1>2, WantedKey, HitMatch
<1>5. enabled' \subseteq Fences /\ tbl' = [tbl EXCEPT ![h] = FreeSlot]
  BY <1>1, <1>4 DEF IInv, Types, TypeOK
<1>6. /\ tbl'[h].key = NoOne /\ tbl'[h].valid = FALSE /\ tbl'[h].signal = FALSE
      /\ \A g \in Slots : g # h => tbl'[g] = tbl[g]
      /\ \A p : Linked(p)' = Linked(p) \ {h}
      /\ \A g \in Slots : SlotOK(g)'
      /\ \A g, k \in Slots : OneSlot(g, k)'
      /\ TypeOK'
  BY <1>1, <1>5, Freed
<1>7. f # NoOne /\ f \notin Arrays /\ NoOne \notin Arrays /\ NoOne \notin Fences
  BY TableAssumption DEF Keys
<1>8. /\ Ready \in Thread /\ Ready.at = "idle" /\ "idle" \notin JoinPlaces
      /\ CallOK(c)' /\ JoinOK(c)' /\ DyingOK(c)'
  BY <1>1, GoesReady DEF IInv, JoinPlaces
<1>9. \A g \in Slots : tbl'[g].key \in Arrays => tbl[g].key = tbl'[g].key BY <1>6, <1>7
<1>10. /\ th' \in [Clients -> Thread] /\ \A d \in Clients : d # c => th'[d] = th[d]
       /\ \A d, e \in Clients : Exclusive(d, e)'
       /\ \A d \in Clients : DyingOK(d)'
  BY <1>1, <1>8, <1>9, Others
<1>11. Types' BY <1>1, <1>6, <1>10 DEF IInv, Types
<1>12. \A g \in Slots : g # h => tbl[g].key # f BY <1>4, <1>7 DEF IInv, OneSlot
<1>13. \A p : Linked(p) \subseteq Slots BY DEF Linked
<1>14. ASSUME NEW p \in Slots PROVE LinkOK(p)'
  <2>1. LinkOK(p) BY DEF IInv
  <2> QED BY <1>4, <1>6, <1>7, <1>13, <2>1 DEF LinkOK
<1>15. ASSUME NEW g \in Slots PROVE FenceOK(g)'
  <2>1. CASE g = h BY <1>6, <1>7, <2>1 DEF FenceOK
  <2>2. CASE g # h
    <3>1. FenceOK(g) /\ tbl'[g] = tbl[g] /\ tbl[g].key # f BY <1>6, <1>12, <2>2 DEF IInv
    <3>2. Dying(tbl[g].key) => Dying(tbl[g].key)' BY <1>2, <1>10, <3>1 DEF Dying, At
    <3> QED BY <1>1, <1>2, <3>1, <3>2 DEF FenceOK
  <2> QED BY <2>1, <2>2
<1>16. ASSUME NEW a \in Arrays PROVE Kept(a)
  <2>1. \A p \in Slots : tbl[p].key = a <=> tbl'[p].key = a BY <1>4, <1>6, <1>7
  <2>2. \A p \in Slots : tbl[p].key = a => p # h BY <1>4, <1>7
  <2>3. \A p \in Slots : tbl[p].key = a =>
               /\ tbl'[p].pending = tbl[p].pending
               /\ Linked(p)' \subseteq Linked(p)
               /\ \A g \in Linked(p)' : tbl'[g].key = tbl[g].key
    BY <1>6, <1>13, <2>2
  <2> QED BY <1>1, <2>1, <2>3, KeptBy
<1>17. ASSUME NEW p \in Slots PROVE CountOK(p)'
  <2> SUFFICES ASSUME tbl'[p].key \in Arrays
               PROVE  \E n \in 0..Len(Kids[tbl'[p].key]) : Counts(p, n)'
    BY DEF CountOK
  <2>1. tbl'[p].key = tbl[p].key BY <1>9
  <2>2. PICK n \in 0..Len(Kids[tbl[p].key]) : Counts(p, n) BY <2>1 DEF IInv, CountOK
  <2>3. Kept(tbl[p].key) BY <1>16, <2>1
  <2> QED BY <2>1, <2>2, <2>3 DEF Kept
<1>18. ASSUME NEW d \in Clients PROVE CallOK(d)'
  <2>1. CASE d # c
    <3>1. CallOK(d) BY DEF IInv
    <3>3. th[d].at = "create" => th[d].key \notin enabled' BY <1>1, <3>1 DEF CallOK
    <3>4. th[d].at = "destroy" =>
               /\ th[d].key \notin was'
               /\ \A g \in Slots : tbl'[g].key = th[d].key =>
                      tbl[g].key = th[d].key /\ (tbl[g].signal => tbl'[g].signal)
      BY <1>1, <1>6, <1>7, <3>1 DEF CallOK
    <3> QED BY <1>10, <2>1, <3>1, <3>3, <3>4, CallKept
  <2>2. CASE d = c BY <1>8, <2>2
  <2> QED BY <2>1, <2>2
<1>19. \A d \in Clients : JoinOK(d)'
  <2>1. ASSUME NEW d \in Clients, d # c, th[d].at \in JoinPlaces,
               NEW g \in Slots, KeepsAlive(th[d].key, tbl[g].key)
        PROVE  tbl'[g].key = tbl[g].key
    <3>1. DyingOK(c) /\ th[d].at # "idle" BY <2>1 DEF IInv, JoinPlaces
    <3>2. tbl[g].key # f BY <1>1, <1>2, <2>1, <3>1 DEF DyingOK
    <3> QED BY <1>4, <1>6, <3>2
  <2> QED BY <1>1, <1>8, <1>10, <1>16, <2>1, OthersJoin
<1>20. WaitersTold'
  <2> SUFFICES ASSUME NEW g \in Slots, tbl'[g].signal, tbl'[g].key \in was, NEW d \in tbl'[g].waiters
               PROVE  <<d, tbl'[g].key>> \in told
    BY <1>1 DEF WaitersTold
  <2>1. tbl'[g] = tbl[g] BY <1>6
  <2> QED BY <2>1 DEF IInv, WaitersTold
<1>21. was' \subseteq enabled' BY <1>1, <1>2, <1>3 DEF IInv
<1> QED BY <1>6, <1>10, <1>11, <1>14, <1>15, <1>17, <1>18, <1>19, <1>20, <1>21 DEF IInv

LEMMA JoinDestroyedOK ==
    ASSUME IInv, NEW c \in Clients, Probe(c), JoinDestroyed(c)
    PROVE  IInv'
<1>1. /\ th[c].at = "join_destroy" /\ Hit(c) /\ Goes(c, Ready) /\ was' = was /\ told' = told
      /\ tbl' = [tbl EXCEPT ![Hash(c)] = FreeSlot] /\ enabled' = enabled
  BY ProbeSplit DEF IInv, JoinDestroyed
<1>2. PICK a \in Arrays : a = th[c].key BY <1>1 DEF IInv, CallOK, JoinPlaces
<1>3. PICK h \in Slots : h = Hash(c) /\ tbl[h].key = a BY <1>1, <1>2, WantedKey, HitMatch
<1>4. Linked(h) = {} BY <1>1, <1>2, <1>3 DEF IInv, JoinOK
<1>5. enabled' \subseteq Fences /\ tbl' = [tbl EXCEPT ![h] = FreeSlot]
  BY <1>1, <1>3 DEF IInv, Types, TypeOK
<1>6. /\ tbl'[h].key = NoOne /\ tbl'[h].valid = FALSE /\ tbl'[h].signal = FALSE
      /\ \A g \in Slots : g # h => tbl'[g] = tbl[g]
      /\ \A p : Linked(p)' = Linked(p) \ {h}
      /\ \A g \in Slots : SlotOK(g)'
      /\ \A g, k \in Slots : OneSlot(g, k)'
      /\ TypeOK'
  BY <1>1, <1>5, Freed
<1>7. a # NoOne /\ a \notin Fences /\ NoOne \notin Arrays /\ NoOne \notin Fences
  BY KidsFacts, TableAssumption DEF Keys
<1>8. /\ Ready \in Thread /\ Ready.at = "idle" /\ "idle" \notin JoinPlaces
      /\ CallOK(c)' /\ JoinOK(c)' /\ DyingOK(c)'
  BY <1>1, GoesReady DEF IInv, JoinPlaces
<1>9. \A g \in Slots : tbl'[g].key \in Arrays => tbl[g].key = tbl'[g].key BY <1>6, <1>7
<1>10. /\ th' \in [Clients -> Thread] /\ \A d \in Clients : d # c => th'[d] = th[d]
       /\ \A d, e \in Clients : Exclusive(d, e)'
       /\ \A d \in Clients : DyingOK(d)'
  BY <1>1, <1>8, <1>9, Others
<1>11. Types' BY <1>1, <1>6, <1>10 DEF IInv, Types
<1>12. \A g \in Slots : g # h => tbl[g].key # a BY <1>3, <1>7 DEF IInv, OneSlot
<1>13. \A p : Linked(p) \subseteq Slots BY DEF Linked
<1>14. ASSUME NEW p \in Slots PROVE LinkOK(p)'
  <2>1. LinkOK(p) BY DEF IInv
  <2>2. CASE p = h BY <1>4, <1>6, <2>2 DEF LinkOK
  <2>3. CASE p # h BY <1>6, <1>13, <2>1, <2>3 DEF LinkOK
  <2> QED BY <2>2, <2>3
<1>15. ASSUME NEW g \in Slots PROVE FenceOK(g)'
  <2>1. CASE g = h BY <1>6, <1>7, <2>1 DEF FenceOK
  <2>2. CASE g # h
    <3>1. FenceOK(g) /\ tbl'[g] = tbl[g] BY <1>6, <2>2 DEF IInv
    <3>2. Dying(tbl[g].key) => Dying(tbl[g].key)' BY <1>1, <1>10, <3>1 DEF Dying, At
    <3> QED BY <1>1, <3>1, <3>2 DEF FenceOK
  <2> QED BY <2>1, <2>2
<1>16. ASSUME NEW b \in Arrays, b # a PROVE Kept(b)
  <2>1. \A p \in Slots : tbl[p].key = b <=> tbl'[p].key = b BY <1>3, <1>6, <1>7, <1>16
  <2>2. \A p \in Slots : tbl[p].key = b => p # h BY <1>3, <1>16
  <2>3. \A p \in Slots : tbl[p].key = b =>
               /\ tbl'[p].pending = tbl[p].pending
               /\ Linked(p)' \subseteq Linked(p)
               /\ \A g \in Linked(p)' : tbl'[g].key = tbl[g].key
    BY <1>6, <1>13, <2>2
  <2> QED BY <1>1, <2>1, <2>3, KeptBy
<1>17. ASSUME NEW p \in Slots PROVE CountOK(p)'
  <2> SUFFICES ASSUME tbl'[p].key \in Arrays
               PROVE  \E n \in 0..Len(Kids[tbl'[p].key]) : Counts(p, n)'
    BY DEF CountOK
  <2>1. tbl'[p].key = tbl[p].key /\ p # h BY <1>6, <1>7, <1>9
  <2>2. PICK n \in 0..Len(Kids[tbl[p].key]) : Counts(p, n) BY <2>1 DEF IInv, CountOK
  <2>3. Kept(tbl[p].key) BY <1>12, <1>16, <2>1
  <2> QED BY <2>1, <2>2, <2>3 DEF Kept
<1>18. ASSUME NEW d \in Clients PROVE CallOK(d)'
  <2>1. CASE d # c
    <3>1. CallOK(d) BY DEF IInv
    <3>3. th[d].at = "create" => th[d].key \notin enabled' BY <1>1, <3>1 DEF CallOK
    <3>4. th[d].at = "destroy" =>
               /\ th[d].key \notin was'
               /\ \A g \in Slots : tbl'[g].key = th[d].key =>
                      tbl[g].key = th[d].key /\ (tbl[g].signal => tbl'[g].signal)
      BY <1>1, <1>6, <1>7, <3>1 DEF CallOK
    <3> QED BY <1>10, <2>1, <3>1, <3>3, <3>4, CallKept
  <2>2. CASE d = c BY <1>8, <2>2
  <2> QED BY <2>1, <2>2
<1>19. \A d \in Clients : JoinOK(d)'
  <2>1. \A g \in Slots : tbl[g].key \in Fences => tbl'[g].key = tbl[g].key BY <1>3, <1>6, <1>7
  <2>2. \A b \in Arrays : (th[c].at \in JoinPlaces => b # th[c].key) => Kept(b)
    BY <1>1, <1>2, <1>16 DEF JoinPlaces
  <2> QED BY <1>1, <1>8, <1>10, <2>1, <2>2, OthersJoin
<1>20. WaitersTold'
  <2> SUFFICES ASSUME NEW g \in Slots, tbl'[g].signal, tbl'[g].key \in was, NEW d \in tbl'[g].waiters
               PROVE  <<d, tbl'[g].key>> \in told
    BY <1>1 DEF WaitersTold
  <2>1. tbl'[g] = tbl[g] BY <1>6
  <2> QED BY <2>1 DEF IInv, WaitersTold
<1>21. was' \subseteq enabled' BY <1>1 DEF IInv
<1> QED BY <1>6, <1>10, <1>11, <1>14, <1>15, <1>17, <1>18, <1>19, <1>20, <1>21 DEF IInv

\* A thread changes the links and the count of its own join fence.
LEMMA LinkMoves ==
    ASSUME IInv, NEW c \in Clients, NEW t \in Thread, Goes(c, t),
           th[c].at \in JoinPlaces, t.at \in JoinPlaces, t.key = th[c].key,
           UNCHANGED <<enabled, told, was>>, TypeOK',
           \A g \in Slots : /\ tbl'[g].valid = tbl[g].valid /\ tbl'[g].key = tbl[g].key
                            /\ tbl'[g].signal = tbl[g].signal /\ tbl'[g].waiters = tbl[g].waiters,
           \A p \in Slots : LinkOK(p)',
           NEW q \in Slots, tbl[q].key = t.key,
           NEW n \in 0..Len(Kids[t.key]), Counts(q, n)',
           \A b \in Arrays : b # t.key => Kept(b),
           JoinOK(c)', CallOK(c)'
    PROVE  IInv'
<1>1. t.at \notin {"idle", "destroy"} /\ th[c].at \notin {"idle", "destroy"} BY DEF JoinPlaces
<1>2. th'[c] = t BY DEF Goes, IInv, Types
<1>3. DyingOK(c)' BY <1>1, <1>2 DEF DyingOK
<1>4. \A d \in Clients : d # c /\ th[d].at = "destroy" => ~KeepsAlive(t.key, th[d].key)
  BY <1>1 DEF IInv, DyingOK
<1>5. /\ th' \in [Clients -> Thread] /\ \A d \in Clients : d # c => th'[d] = th[d]
      /\ \A d, e \in Clients : Exclusive(d, e)'
      /\ \A d \in Clients : DyingOK(d)'
  BY <1>3, <1>4, Others
<1>6. Types' BY <1>5 DEF IInv, Types
<1>7. \A g \in Slots : SlotOK(g)' BY DEF IInv, SlotOK
<1>8. \A g, k \in Slots : OneSlot(g, k)' BY DEF IInv, OneSlot
<1>9. ASSUME NEW g \in Slots PROVE FenceOK(g)'
  <2>1. FenceOK(g) /\ tbl'[g].key = tbl[g].key /\ tbl'[g].signal = tbl[g].signal BY DEF IInv
  <2>2. Dying(tbl[g].key) => Dying(tbl[g].key)' BY <1>1, <1>5, <2>1 DEF Dying, At
  <2> QED BY <2>1, <2>2 DEF FenceOK
<1>10. t.key \in Arrays /\ t.key # NoOne
  <2>1. t.key \in Arrays BY DEF IInv, CallOK
  <2> QED BY <2>1, KidsFacts
<1>11. ASSUME NEW p \in Slots PROVE CountOK(p)'
  <2> SUFFICES ASSUME tbl'[p].key \in Arrays
               PROVE  \E m \in 0..Len(Kids[tbl'[p].key]) : Counts(p, m)'
    BY DEF CountOK
  <2>1. tbl'[p].key = tbl[p].key OBVIOUS
  <2>2. CASE tbl[p].key = t.key
    <3>1. p = q BY <1>10, <2>2 DEF IInv, OneSlot
    <3> QED BY <2>1, <2>2, <3>1
  <2>3. CASE tbl[p].key # t.key
    <3>1. PICK m \in 0..Len(Kids[tbl[p].key]) : Counts(p, m) BY <2>1 DEF IInv, CountOK
    <3>2. Kept(tbl[p].key) BY <2>1, <2>3
    <3> QED BY <2>1, <3>1, <3>2 DEF Kept
  <2> QED BY <2>2, <2>3
<1>12. ASSUME NEW d \in Clients PROVE CallOK(d)'
  <2>1. CASE d # c
    <3>1. CallOK(d) BY DEF IInv
    <3>3. th[d].at = "create" => th[d].key \notin enabled' BY <3>1 DEF CallOK
    <3>4. th[d].at = "destroy" =>
               /\ th[d].key \notin was'
               /\ \A g \in Slots : tbl'[g].key = th[d].key =>
                      tbl[g].key = th[d].key /\ (tbl[g].signal => tbl'[g].signal)
      BY <3>1 DEF CallOK
    <3> QED BY <1>5, <2>1, <3>1, <3>3, <3>4, CallKept
  <2>2. CASE d = c BY <2>2
  <2> QED BY <2>1, <2>2
<1>13. \A d \in Clients : JoinOK(d)'
  <2>1. \A b \in Arrays : (th[c].at \in JoinPlaces => b # th[c].key) => Kept(b) OBVIOUS
  <2>2. \A g \in Slots : tbl'[g].key = tbl[g].key OBVIOUS
  <2> QED BY <1>5, <2>1, <2>2, OthersJoin
<1>14. WaitersTold' BY DEF IInv, WaitersTold
<1>15. was' \subseteq enabled' BY DEF IInv
<1> QED BY <1>5, <1>6, <1>7, <1>8, <1>9, <1>11, <1>12, <1>13, <1>14, <1>15 DEF IInv

\* The array of a thread that links or unlinks a child, and the two slots.
LEMMA ChildFacts ==
    ASSUME IInv, NEW c \in Clients, th[c].at \in {"child", "unlink"},
           NEW t \in Thread, t = th[c]
    PROVE  /\ t.key \in Arrays /\ t.i \in 1..Len(Kids[t.key]) /\ Len(Kids[t.key]) \in Nat
           /\ t.h \in Slots /\ t.join \in Slots /\ t.h # t.join
           /\ tbl[t.join].key = t.key /\ tbl[t.h].key = Kids[t.key][t.i]
           /\ tbl[t.h].key \in Fences /\ t.key \notin Fences
<1>1. t.key \in Arrays BY DEF IInv, CallOK, JoinPlaces
<1>2. /\ t.i \in 1..Len(Kids[t.key]) /\ tbl[t.join].key = t.key
      /\ tbl[t.h].key = Kids[t.key][t.i]
  BY DEF IInv, JoinOK, LinkingOK, UndoingOK, FoundOK, Owns
<1>3. t.h \in Slots /\ t.join \in Slots BY DEF Thread
<1>4. tbl[t.h].key \in Fences /\ t.key \notin Fences /\ Len(Kids[t.key]) \in Nat
  BY <1>1, <1>2, KidsFacts
<1> QED BY <1>1, <1>2, <1>3, <1>4

LEMMA UnlinkOK ==
    ASSUME IInv, NEW c \in Clients, Unlink(c)
    PROVE  IInv'
<1>1. PICK t \in Thread : t = th[c] BY DEF IInv, Types
<1>2. PICK h \in Slots : h = t.h BY DEF Thread
<1>3. PICK q \in Slots : q = t.join BY DEF Thread
<1> DEFINE mine == {j \in 1..tbl[h].cnt : tbl[h].parents[j] = q}
<1>4. /\ th[c].at = "unlink"
      /\ tbl' = [tbl EXCEPT ![h].parents = [j \in 1..MaxParents |->
                                               IF j \in mine THEN NoOne ELSE @[j]],
                            ![h].cnt = @ - Cardinality(mine)]
      /\ Goes(c, UndoFrom(t, t.i - 1)) /\ UNCHANGED <<enabled, told, was>>
  BY <1>1, <1>2, <1>3 DEF Unlink, At, Goes
<1>5. /\ t.key \in Arrays /\ t.i \in 1..Len(Kids[t.key]) /\ Len(Kids[t.key]) \in Nat /\ h # q
      /\ tbl[q].key = t.key /\ tbl[h].key = Kids[t.key][t.i]
      /\ tbl[h].key \in Fences /\ t.key \notin Fences
  BY <1>1, <1>2, <1>3, <1>4, ChildFacts
<1>6. UndoingOK(c) BY <1>4 DEF IInv, JoinOK
<1>7. PICK n \in 0..(Len(Kids[t.key]) - 1) : Counts(q, n) BY <1>1, <1>3, <1>6 DEF UndoingOK
<1>8. TypeOK BY DEF IInv, Types
<1>9. /\ tbl[h].cnt \in 0..(MaxParents - 1) /\ MaxParents \in Nat
      /\ tbl[h].parents \in [1..MaxParents -> Slots \cup {NoOne}]
  BY <1>8, TableAssumption DEF TypeOK
<1>10. Cardinality(mine) \in 0..tbl[h].cnt
  <2>1. tbl[h].cnt \in Nat BY <1>9
  <2>2. IsFiniteSet(1..tbl[h].cnt) /\ Cardinality(1..tbl[h].cnt) = tbl[h].cnt
    BY <2>1, IntervalCount
  <2>3. mine \in SUBSET (1..tbl[h].cnt) OBVIOUS
  <2> HIDE DEF mine
  <2>4. IsFiniteSet(mine) /\ Cardinality(mine) <= tbl[h].cnt
    <3> DEFINE I == 1..tbl[h].cnt
    <3>1. IsFiniteSet(I) /\ Cardinality(I) = tbl[h].cnt /\ mine \in SUBSET I BY <2>2, <2>3
    <3> HIDE DEF I
    <3> QED BY <3>1, FS_Subset
  <2>5. Cardinality(mine) \in Nat BY <2>4, FS_CardinalityType
  <2> QED BY <2>1, <2>4, <2>5
<1>11. PICK m \in 0..tbl[h].cnt : m = Cardinality(mine) BY <1>10
<1>12. PICK P \in [1..MaxParents -> Slots \cup {NoOne}] :
           P = [j \in 1..MaxParents |-> IF j \in mine THEN NoOne ELSE tbl[h].parents[j]]
  BY <1>9
<1>13. \A j \in 1..tbl[h].cnt : P[j] # NoOne => P[j] = tbl[h].parents[j] /\ P[j] # q
  BY <1>9, <1>12
<1>14. tbl' = [tbl EXCEPT ![h].parents = P, ![h].cnt = @ - m] BY <1>4, <1>11, <1>12
<1> HIDE DEF mine
<1>15. tbl[h].cnt - m \in 0..(MaxParents - 1) /\ tbl[h].cnt - m <= tbl[h].cnt BY <1>9
<1>16. /\ tbl'[h].parents = P /\ tbl'[h].cnt = tbl[h].cnt - m
       /\ \A g \in Slots : g # h => tbl'[g] = tbl[g]
       /\ \A g \in Slots : /\ tbl'[g].valid = tbl[g].valid /\ tbl'[g].key = tbl[g].key
                           /\ tbl'[g].signal = tbl[g].signal /\ tbl'[g].waiters = tbl[g].waiters
                           /\ tbl'[g].pending = tbl[g].pending
  BY <1>8, <1>14 DEF TypeOK
<1>17. TypeOK'
  <2> DEFINE S == [valid : BOOLEAN, key : Keys \cup {NoOne},
                   waiters : SUBSET Clients, alloc : Clients \cup {NoOne},
                   signal : BOOLEAN, parents : [1..MaxParents -> Slots \cup {NoOne}],
                   cnt : 0..(MaxParents - 1), pending : Nat]
  <2>1. tbl \in [Slots -> S] BY <1>8 DEF TypeOK
  <2>2. tbl' = [tbl EXCEPT ![h] = [tbl[h] EXCEPT !.parents = P, !.cnt = tbl[h].cnt - m]]
    BY <1>14, <2>1
  <2>3. [tbl[h] EXCEPT !.parents = P, !.cnt = tbl[h].cnt - m] \in S BY <1>15, <2>1
  <2>4. tbl' \in [Slots -> S] BY <2>1, <2>2, <2>3
  <2> QED BY <1>4, <1>8, <2>4 DEF TypeOK
<1>18. NoOne \notin Slots BY TableAssumption
<1>19. ASSUME NEW p \in Slots PROVE Linked(p)' \subseteq Linked(p)
  <2> SUFFICES ASSUME NEW g \in Linked(p)' PROVE g \in Linked(p) OBVIOUS
  <2>1. /\ g \in Slots /\ tbl'[g].valid /\ ~tbl'[g].signal
        /\ \E i \in 1..tbl'[g].cnt : tbl'[g].parents[i] = p
    BY DEF Linked
  <2>2. CASE g # h BY <1>16, <2>1, <2>2 DEF Linked
  <2>3. CASE g = h
    <3>1. PICK i \in 1..(tbl[h].cnt - m) : P[i] = p BY <1>16, <2>1, <2>3
    <3>2. i \in 1..tbl[h].cnt BY <1>9, <1>15
    <3>3. tbl[h].parents[i] = p BY <1>13, <1>18, <3>1, <3>2
    <3> QED BY <1>16, <2>1, <2>3, <3>2, <3>3 DEF Linked
  <2> QED BY <2>2, <2>3
<1>20. h \notin Linked(q)'
  <2> SUFFICES ASSUME NEW i \in 1..(tbl[h].cnt - m), P[i] = q PROVE FALSE
    BY <1>16 DEF Linked
  <2>1. i \in 1..tbl[h].cnt BY <1>9, <1>15
  <2> QED BY <1>13, <1>18, <2>1
<1>21. \A p : Linked(p) \subseteq Slots BY DEF Linked
<1>22. ASSUME NEW p \in Slots PROVE LinkOK(p)'
  BY <1>16, <1>19, <1>21 DEF IInv, LinkOK
<1>23. ASSUME NEW b \in Arrays PROVE Kept(b)
  <2>1. \A p \in Slots : tbl[p].key = b <=> tbl'[p].key = b BY <1>16
  <2>2. \A p \in Slots : tbl[p].key = b =>
               /\ tbl'[p].pending = tbl[p].pending
               /\ Linked(p)' \subseteq Linked(p)
               /\ \A g \in Linked(p)' : tbl'[g].key = tbl[g].key
    BY <1>16, <1>19, <1>21
  <2> QED BY <1>4, <2>1, <2>2, KeptBy
<1>24. n \in 0..Len(Kids[t.key]) /\ t.i - 1 \in 0..Len(Kids[t.key]) /\ t.i - 1 \in Nat
  BY <1>5
<1>25. Counts(q, n)' BY <1>5, <1>7, <1>23, <1>24 DEF Kept
<1>26. Within(q, t.i - 1)'
  <2> SUFFICES ASSUME NEW g \in Linked(q)'
               PROVE  \E j \in 1..(t.i - 1) : tbl'[g].key = Kids[tbl'[q].key][j]
    BY DEF Within
  <2>1. g \in Linked(q) /\ g # h /\ g \in Slots BY <1>19, <1>20, <1>21
  <2>2. Within(q, t.i) BY <1>1, <1>3, <1>6 DEF UndoingOK
  <2>3. PICK j \in 1..t.i : tbl[g].key = Kids[tbl[q].key][j] BY <2>1, <2>2 DEF Within
  <2>4. tbl[g].key # tbl[h].key
    <3>1. tbl[h].key # NoOne BY <1>5, FenceFacts
    <3> QED BY <2>1, <3>1 DEF IInv, OneSlot
  <2>5. j # t.i BY <1>5, <2>3, <2>4
  <2>6. j \in 1..(t.i - 1) BY <1>5, <2>5
  <2> QED BY <1>16, <2>1, <2>3, <2>6
<1>27. \A g, k \in Slots : OneSlot(g, k)' BY <1>16 DEF IInv, OneSlot
<1>28. th'[c] = UndoFrom(t, t.i - 1) BY <1>4 DEF Goes, IInv, Types
<1>29. tbl'[q].key = t.key BY <1>5, <1>16
<1>30. JoinOK(c)' /\ CallOK(c)'
  BY <1>3, <1>5, <1>24, <1>25, <1>26, <1>27, <1>28, <1>29, UndoFromOK
<1>31. /\ UndoFrom(t, t.i - 1) \in Thread /\ UndoFrom(t, t.i - 1).key = t.key
       /\ UndoFrom(t, t.i - 1).at \in JoinPlaces
  BY <1>24, UndoFromFacts DEF JoinPlaces
<1>32. th[c].at \in JoinPlaces BY <1>4 DEF JoinPlaces
<1>33. PICK u \in Thread : u = UndoFrom(t, t.i - 1) BY <1>31
<1>34. /\ Goes(c, u) /\ u.at \in JoinPlaces /\ u.key = th[c].key /\ tbl[q].key = u.key
       /\ n \in 0..Len(Kids[u.key])
  BY <1>1, <1>4, <1>5, <1>24, <1>31, <1>33
<1> QED BY <1>4, <1>16, <1>17, <1>22, <1>23, <1>25, <1>30, <1>32, <1>34, LinkMoves

\* The sums behind a count.
LEMMA CountDown ==
    ASSUME NEW p \in Nat, NEW x \in Nat, NEW L \in Nat, NEW i \in 1..L,
           p >= x + (L - (i - 1))
    PROVE  p - 1 \in Nat /\ p - 1 >= x + (L - i)
OBVIOUS

LEMMA CountOver ==
    ASSUME NEW p \in Nat, NEW x \in Nat, NEW y \in Nat, NEW L \in Nat, NEW i \in 1..L,
           p >= x + (L - (i - 1)), y <= x + 1
    PROVE  p >= y + (L - i)
OBVIOUS

\* The slot of a child gets a parent more.
AddsParent(h, q) ==
    tbl' = [tbl EXCEPT ![h] = [tbl[h] EXCEPT !.cnt = @ + 1, !.parents[tbl[h].cnt + 1] = q]]

LEMMA AddsParentFacts ==
    ASSUME TypeOK, NEW h \in Slots, NEW q \in Slots, AddsParent(h, q),
           NEW k, k = tbl[h].cnt, k + 1 < MaxParents
    PROVE  /\ k \in Nat
           /\ tbl'[h].cnt = k + 1
           /\ \A j \in 1..k : tbl'[h].parents[j] = tbl[h].parents[j]
           /\ tbl'[h].parents[k + 1] = q
           /\ \A g \in Slots : g # h => tbl'[g] = tbl[g]
           /\ \A g \in Slots : /\ tbl'[g].valid = tbl[g].valid /\ tbl'[g].key = tbl[g].key
                               /\ tbl'[g].signal = tbl[g].signal
                               /\ tbl'[g].waiters = tbl[g].waiters
                               /\ tbl'[g].pending = tbl[g].pending
           /\ UNCHANGED <<enabled, told>> => TypeOK'
<1> DEFINE S == [valid : BOOLEAN, key : Keys \cup {NoOne},
                 waiters : SUBSET Clients, alloc : Clients \cup {NoOne},
                 signal : BOOLEAN, parents : [1..MaxParents -> Slots \cup {NoOne}],
                 cnt : 0..(MaxParents - 1), pending : Nat]
<1>1. tbl \in [Slots -> S] BY DEF TypeOK
<1>2. k \in Nat BY <1>1, TableAssumption
<1>3. k + 1 \in 0..(MaxParents - 1) /\ k + 1 \in 1..MaxParents /\ k \in 0..MaxParents
  BY <1>2, TableAssumption
<1>4. PICK s \in S : s = tbl[h] BY <1>1
<1>5. PICK P \in [1..MaxParents -> Slots \cup {NoOne}] : P = [s.parents EXCEPT ![k + 1] = q]
  BY <1>3, <1>4
<1>6. P[k + 1] = q /\ \A j \in 1..k : P[j] = s.parents[j]
  <2>1. s.parents \in [1..MaxParents -> Slots \cup {NoOne}] BY <1>4
  <2>2. \A j \in 1..k : j \in 1..MaxParents /\ j # k + 1 BY <1>3, TableAssumption
  <2> QED BY <1>3, <1>5, <2>1, <2>2
<1> DEFINE r == [s EXCEPT !.cnt = k + 1, !.parents = P]
<1>7. /\ r \in S
      /\ r.cnt = k + 1 /\ r.parents = P /\ r.valid = s.valid /\ r.key = s.key
      /\ r.signal = s.signal /\ r.waiters = s.waiters /\ r.pending = s.pending
  BY <1>3, <1>4, <1>5
<1>8. tbl' = [tbl EXCEPT ![h] = [s EXCEPT !.cnt = k + 1, !.parents[k + 1] = q]]
  BY <1>2, <1>4 DEF AddsParent
<1>9. [s EXCEPT !.cnt = k + 1, !.parents[k + 1] = q] = r
  BY <1>4, <1>5
<1> HIDE DEF S, r
<1>10. tbl' = [tbl EXCEPT ![h] = r] BY <1>8, <1>9
<1>11. tbl'[h] = r /\ \A g \in Slots : g # h => tbl'[g] = tbl[g] BY <1>1, <1>10
<1>12. tbl' \in [Slots -> S] BY <1>1, <1>7, <1>10
<1>13. UNCHANGED <<enabled, told>> => TypeOK' BY <1>12 DEF TypeOK, S
<1> QED BY <1>2, <1>4, <1>6, <1>7, <1>11, <1>13

\* The join fence counts one fence less.
CountsDown(q) == tbl' = [tbl EXCEPT ![q].pending = @ - 1]

LEMMA CountsDownFacts ==
    ASSUME TypeOK, NEW q \in Slots, CountsDown(q), NEW m \in Nat, m = tbl[q].pending - 1
    PROVE  /\ tbl'[q].pending = m
           /\ \A g \in Slots : g # q => tbl'[g] = tbl[g]
           /\ \A g \in Slots : /\ tbl'[g].valid = tbl[g].valid /\ tbl'[g].key = tbl[g].key
                               /\ tbl'[g].signal = tbl[g].signal
                               /\ tbl'[g].waiters = tbl[g].waiters
                               /\ tbl'[g].cnt = tbl[g].cnt /\ tbl'[g].parents = tbl[g].parents
           /\ UNCHANGED <<enabled, told>> => TypeOK'
<1> DEFINE S == [valid : BOOLEAN, key : Keys \cup {NoOne},
                 waiters : SUBSET Clients, alloc : Clients \cup {NoOne},
                 signal : BOOLEAN, parents : [1..MaxParents -> Slots \cup {NoOne}],
                 cnt : 0..(MaxParents - 1), pending : Nat]
<1>1. tbl \in [Slots -> S] BY DEF TypeOK
<1>2. tbl' = [tbl EXCEPT ![q] = [tbl[q] EXCEPT !.pending = m]] BY <1>1 DEF CountsDown
<1> DEFINE r == [tbl[q] EXCEPT !.pending = m]
<1>3. /\ r \in S
      /\ r.pending = m /\ r.parents = tbl[q].parents /\ r.valid = tbl[q].valid
      /\ r.key = tbl[q].key /\ r.signal = tbl[q].signal /\ r.waiters = tbl[q].waiters
      /\ r.cnt = tbl[q].cnt
  BY <1>1
<1> HIDE DEF S, r
<1>4. tbl' = [tbl EXCEPT ![q] = r] BY <1>2 DEF r
<1>5. tbl'[q] = r /\ \A g \in Slots : g # q => tbl'[g] = tbl[g] BY <1>1, <1>4
<1>6. tbl' \in [Slots -> S] BY <1>1, <1>3, <1>4
<1>7. UNCHANGED <<enabled, told>> => TypeOK' BY <1>6 DEF TypeOK, S
<1> QED BY <1>3, <1>5, <1>7

\* A child that was signalled before it could be linked is counted down.
LEMMA ChildSignalledOK ==
    ASSUME IInv, NEW c \in Clients, th[c].at = "child", NEW t \in Thread, t = th[c],
           tbl[t.h].signal, UNCHANGED <<enabled, told, was>>,
           CountsDown(t.join),
           Goes(c, NextKid([t EXCEPT !.signaled = @ + 1]))
    PROVE  IInv'
<1>1. PICK q \in Slots : q = t.join BY DEF Thread
<1>2. PICK h \in Slots : h = t.h BY DEF Thread
<1>3. /\ t.key \in Arrays /\ t.i \in 1..Len(Kids[t.key]) /\ Len(Kids[t.key]) \in Nat
      /\ tbl[q].key = t.key /\ tbl[h].key = Kids[t.key][t.i]
      /\ tbl[h].key \in Fences /\ t.key \notin Fences
  BY <1>1, <1>2, ChildFacts
<1>4. Counts(q, t.i - 1) /\ Tally(c, t.i - 1) BY <1>1 DEF IInv, JoinOK, LinkingOK
<1>5. TypeOK BY DEF IInv, Types
<1>6. /\ t.i - 1 \in 0..Len(Kids[t.key]) /\ t.i \in 0..Len(Kids[t.key])
      /\ t.signaled \in Nat /\ t.i \in Nat
  BY <1>3 DEF Thread
<1>7. Kids[t.key][t.i] \in was
  <2>1. FenceOK(h) BY DEF IInv
  <2>2. ASSUME NEW d \in Clients, th[d].at = "destroy", th[d].key = tbl[h].key PROVE FALSE
    <3>1. DyingOK(d) /\ d # c /\ th[c].at # "idle" BY <2>2 DEF IInv
    <3>2. KeepsAlive(t.key, tbl[h].key) BY <1>3, KeepsFence
    <3> QED BY <2>2, <3>1, <3>2 DEF DyingOK
  <2>3. ~Dying(tbl[h].key) BY <2>2 DEF Dying, At
  <2> QED BY <1>2, <1>3, <2>1, <2>3 DEF FenceOK
<1>8. /\ Cardinality(Open(t.key, t.i)) = Cardinality(Open(t.key, t.i - 1))
      /\ Cardinality(Open(t.key, t.i - 1)) \in Nat
  BY <1>3, <1>6, <1>7, OpenNext, OpenFacts
<1>9. /\ tbl[q].pending >= Cardinality(Open(t.key, t.i - 1)) + (Len(Kids[t.key]) - (t.i - 1))
      /\ tbl[q].pending \in Nat
  BY <1>3, <1>4, <1>5 DEF Counts, TypeOK
<1>10. /\ tbl[q].pending - 1 \in Nat
       /\ tbl[q].pending - 1 >= Cardinality(Open(t.key, t.i)) + (Len(Kids[t.key]) - t.i)
  BY <1>3, <1>8, <1>9, CountDown
<1>11. CountsDown(q) BY <1>1
<1>12. /\ tbl'[q].pending = tbl[q].pending - 1
       /\ TypeOK'
       /\ \A g \in Slots : g # q => tbl'[g] = tbl[g]
       /\ \A g \in Slots : /\ tbl'[g].valid = tbl[g].valid /\ tbl'[g].key = tbl[g].key
                           /\ tbl'[g].signal = tbl[g].signal /\ tbl'[g].waiters = tbl[g].waiters
                           /\ tbl'[g].cnt = tbl[g].cnt /\ tbl'[g].parents = tbl[g].parents
  BY <1>5, <1>10, <1>11, CountsDownFacts
<1>14. \A p : Linked(p)' = Linked(p) BY <1>12 DEF Linked
<1>15. \A p : Linked(p) \subseteq Slots BY DEF Linked
<1>16. ASSUME NEW p \in Slots PROVE LinkOK(p)'
  BY <1>12, <1>14, <1>15 DEF IInv, LinkOK
<1>17. ASSUME NEW b \in Arrays, b # t.key PROVE Kept(b)
  <2>1. \A p \in Slots : tbl[p].key = b <=> tbl'[p].key = b BY <1>12
  <2>2. \A p \in Slots : tbl[p].key = b =>
               /\ tbl'[p].pending = tbl[p].pending
               /\ Linked(p)' \subseteq Linked(p)
               /\ \A g \in Linked(p)' : tbl'[g].key = tbl[g].key
    BY <1>3, <1>12, <1>14, <1>15, <1>17
  <2> QED BY <2>1, <2>2, KeptBy
<1>18. Counts(q, t.i)'
  <2>1. Open(t.key, t.i)' = Open(t.key, t.i) BY DEF Open
  <2>2. tbl'[q].key = t.key BY <1>3, <1>12
  <2>3. \A j \in 1..(t.i - 1) : j \in 1..t.i BY <1>6
  <2>4. Within(q, t.i - 1) BY <1>4 DEF Counts
  <2>5. ASSUME NEW g \in Linked(q)' PROVE \E j \in 1..t.i : tbl'[g].key = Kids[tbl'[q].key][j]
    <3>1. g \in Linked(q) /\ g \in Slots BY <1>14, <1>15
    <3>2. PICK j \in 1..(t.i - 1) : tbl[g].key = Kids[tbl[q].key][j] BY <2>4, <3>1 DEF Within
    <3> QED BY <1>3, <1>12, <2>2, <2>3, <3>1, <3>2
  <2>6. Within(q, t.i)' BY <2>5 DEF Within
  <2>7. Open(tbl[q].key, t.i)' = Open(t.key, t.i) BY <2>1, <2>2 DEF Open
  <2> QED BY <1>10, <1>12, <2>2, <2>6, <2>7 DEF Counts
<1>19. PICK u \in Thread : /\ u = [t EXCEPT !.signaled = @ + 1]
                           /\ u.key = t.key /\ u.join = t.join /\ u.i = t.i
                           /\ u.signaled = t.signaled + 1
  BY <1>6 DEF Thread
<1>20. th'[c] = NextKid(u) BY <1>19 DEF Goes, IInv, Types
<1>21. u.signaled <= u.i /\ u.i \in 0..Len(Kids[u.key]) /\ u.key \in Arrays
  BY <1>3, <1>4, <1>6, <1>19 DEF Tally
<1>22. ASSUME u.signaled = u.i
       PROVE  Linked(q)' = {} /\ \A j \in 1..u.i : Kids[u.key][j] \in was'
  <2>1. t.signaled = t.i - 1 BY <1>6, <1>19, <1>22
  <2>2. Linked(q) = {} /\ \A j \in 1..(t.i - 1) : Kids[t.key][j] \in was
    BY <1>1, <1>4, <2>1 DEF Tally
  <2>3. \A j \in 1..t.i : j \in 1..(t.i - 1) \/ j = t.i BY <1>6
  <2> QED BY <1>7, <1>14, <1>19, <2>2, <2>3
<1>23. \A g, k \in Slots : OneSlot(g, k)' BY <1>12 DEF IInv, OneSlot
<1>24. tbl'[q].key = u.key /\ Counts(q, u.i)' BY <1>3, <1>12, <1>18, <1>19
<1>25. /\ JoinOK(c)' /\ CallOK(c)'
       /\ NextKid(u) \in Thread /\ NextKid(u).key = u.key
       /\ NextKid(u).at \in {"joined", "kid", "undo"}
  <2>1. q = u.join BY <1>1, <1>19
  <2> QED BY <1>20, <1>21, <1>22, <1>23, <1>24, <2>1, NextKidOK
<1>26. PICK v \in Thread : v = NextKid(u) BY <1>25
<1>27. /\ Goes(c, v) /\ v.at \in JoinPlaces /\ v.key = th[c].key /\ tbl[q].key = v.key
       /\ t.i \in 0..Len(Kids[v.key]) /\ th[c].at \in JoinPlaces /\ v.key = t.key
  BY <1>3, <1>6, <1>19, <1>25, <1>26 DEF JoinPlaces
<1> QED BY <1>12, <1>16, <1>17, <1>18, <1>25, <1>27, LinkMoves

\* The join fence becomes a parent of a child.
LEMMA ChildLinkedOK ==
    ASSUME IInv, NEW c \in Clients, th[c].at = "child", NEW t \in Thread, t = th[c],
           NEW h \in Slots, h = t.h,
           ~tbl[h].signal, tbl[h].cnt + 1 < MaxParents, UNCHANGED <<enabled, told, was>>,
           AddsParent(h, t.join),
           Goes(c, NextKid(t))
    PROVE  IInv'
<1>1. PICK q \in Slots : q = t.join BY DEF Thread
<1>3. /\ t.key \in Arrays /\ t.i \in 1..Len(Kids[t.key]) /\ Len(Kids[t.key]) \in Nat
      /\ tbl[q].key = t.key /\ tbl[h].key = Kids[t.key][t.i] /\ h # q
      /\ tbl[h].key \in Fences /\ t.key \notin Fences
  BY <1>1, ChildFacts
<1>4. Counts(q, t.i - 1) /\ Tally(c, t.i - 1) BY <1>1 DEF IInv, JoinOK, LinkingOK
<1>5. TypeOK BY DEF IInv, Types
<1>6. /\ t.i - 1 \in 0..Len(Kids[t.key]) /\ t.i \in 0..Len(Kids[t.key])
      /\ t.signaled \in Nat /\ t.i \in Nat
  BY <1>3 DEF Thread
<1>8. /\ Cardinality(Open(t.key, t.i)) <= Cardinality(Open(t.key, t.i - 1)) + 1
      /\ Cardinality(Open(t.key, t.i - 1)) \in Nat /\ Cardinality(Open(t.key, t.i)) \in Nat
  BY <1>3, <1>6, OpenNext, OpenFacts
<1>9. /\ tbl[q].pending >= Cardinality(Open(t.key, t.i - 1)) + (Len(Kids[t.key]) - (t.i - 1))
      /\ tbl[q].pending \in Nat
  BY <1>3, <1>4, <1>5 DEF Counts, TypeOK
<1>10. tbl[q].pending >= Cardinality(Open(t.key, t.i)) + (Len(Kids[t.key]) - t.i)
  BY <1>3, <1>8, <1>9, CountOver
<1>11. PICK k : k = tbl[h].cnt OBVIOUS
<1>12. AddsParent(h, q) /\ k + 1 < MaxParents BY <1>1, <1>11
<1>13. k \in Nat /\ tbl'[h].cnt = k + 1 /\ TypeOK' BY <1>5, <1>11, <1>12, AddsParentFacts
<1>14. /\ \A g \in Slots : g # h => tbl'[g] = tbl[g]
       /\ \A g \in Slots : /\ tbl'[g].valid = tbl[g].valid /\ tbl'[g].key = tbl[g].key
                           /\ tbl'[g].signal = tbl[g].signal /\ tbl'[g].waiters = tbl[g].waiters
                           /\ tbl'[g].pending = tbl[g].pending
  BY <1>5, <1>11, <1>12, AddsParentFacts
<1>16. \A j \in 1..k : tbl'[h].parents[j] = tbl[h].parents[j]
  BY <1>5, <1>11, <1>12, AddsParentFacts
<1>17. tbl'[h].parents[k + 1] = q BY <1>5, <1>11, <1>12, AddsParentFacts
<1>18. ASSUME NEW p \in Slots PROVE Linked(p)' \subseteq Linked(p) \cup (IF p = q THEN {h} ELSE {})
  <2> SUFFICES ASSUME NEW g \in Linked(p)', g # h \/ p # q PROVE g \in Linked(p) OBVIOUS
  <2>1. /\ g \in Slots /\ tbl'[g].valid /\ ~tbl'[g].signal
        /\ \E i \in 1..tbl'[g].cnt : tbl'[g].parents[i] = p
    BY DEF Linked
  <2>2. CASE g # h BY <1>14, <2>1, <2>2 DEF Linked
  <2>3. CASE g = h
    <3>1. PICK i \in 1..(k + 1) : tbl'[h].parents[i] = p BY <1>13, <2>1, <2>3
    <3>2. i # k + 1 BY <1>17, <2>3, <3>1
    <3>3. i \in 1..k BY <1>13, <3>2
    <3>4. tbl[h].parents[i] = p BY <1>16, <3>1, <3>3
    <3> QED BY <1>11, <1>14, <2>1, <2>3, <3>3, <3>4 DEF Linked
  <2> QED BY <2>2, <2>3
<1>19. \A p : Linked(p) \subseteq Slots BY DEF Linked
<1>20. ASSUME NEW p \in Slots PROVE LinkOK(p)'
  <2>1. LinkOK(p) BY DEF IInv
  <2>2. CASE p = q BY <1>3, <1>14, <1>18, <1>19, <2>1, <2>2 DEF LinkOK
  <2>3. CASE p # q BY <1>14, <1>18, <1>19, <2>1, <2>3 DEF LinkOK
  <2> QED BY <2>2, <2>3
<1>21. ASSUME NEW b \in Arrays, b # t.key PROVE Kept(b)
  <2>1. \A p \in Slots : tbl[p].key = b <=> tbl'[p].key = b BY <1>14
  <2>2. \A p \in Slots : tbl[p].key = b =>
               /\ tbl'[p].pending = tbl[p].pending
               /\ Linked(p)' \subseteq Linked(p)
               /\ \A g \in Linked(p)' : tbl'[g].key = tbl[g].key
    BY <1>3, <1>14, <1>18, <1>19, <1>21
  <2> QED BY <2>1, <2>2, KeptBy
<1>22. Counts(q, t.i)'
  <2>1. Open(t.key, t.i)' = Open(t.key, t.i) BY DEF Open
  <2>2. tbl'[q].key = t.key /\ tbl'[q].pending = tbl[q].pending BY <1>3, <1>14
  <2>3. t.i \in 1..t.i /\ \A j \in 1..(t.i - 1) : j \in 1..t.i BY <1>3, <1>6
  <2>4. Within(q, t.i - 1) BY <1>4 DEF Counts
  <2>5. ASSUME NEW g \in Linked(q)' PROVE \E j \in 1..t.i : tbl'[g].key = Kids[tbl'[q].key][j]
    <3>1. CASE g = h BY <1>3, <1>14, <2>2, <2>3, <3>1
    <3>2. CASE g # h
      <4>1. g \in Linked(q) /\ g \in Slots BY <1>18, <1>19, <3>2
      <4>2. PICK j \in 1..(t.i - 1) : tbl[g].key = Kids[tbl[q].key][j]
        BY <2>4, <4>1 DEF Within
      <4> QED BY <1>3, <1>14, <2>2, <2>3, <4>1, <4>2
    <3> QED BY <3>1, <3>2
  <2>6. Within(q, t.i)' BY <2>5 DEF Within
  <2>7. Open(tbl[q].key, t.i)' = Open(t.key, t.i) BY <2>1, <2>2 DEF Open
  <2> QED BY <1>10, <2>2, <2>6, <2>7 DEF Counts
<1>23. th'[c] = NextKid(t) BY DEF Goes, IInv, Types
<1>24. t.signaled < t.i
  <2>1. t.signaled <= t.i - 1 BY <1>4 DEF Tally
  <2> QED BY <1>6, <2>1
<1>25. \A g, k2 \in Slots : OneSlot(g, k2)' BY <1>14 DEF IInv, OneSlot
<1>26. tbl'[q].key = t.key BY <1>3, <1>14
<1>27. /\ JoinOK(c)' /\ CallOK(c)'
       /\ NextKid(t) \in Thread /\ NextKid(t).key = t.key
       /\ NextKid(t).at \in {"joined", "kid", "undo"}
  <2>1. t.signaled <= t.i /\ t.signaled # t.i BY <1>6, <1>24
  <2> QED BY <1>1, <1>3, <1>6, <1>22, <1>23, <1>25, <1>26, <2>1, NextKidOK
<1>28. PICK v \in Thread : v = NextKid(t) BY <1>27
<1>29. /\ Goes(c, v) /\ v.at \in JoinPlaces /\ v.key = th[c].key /\ tbl[q].key = v.key
       /\ t.i \in 0..Len(Kids[v.key]) /\ th[c].at \in JoinPlaces /\ v.key = t.key
  BY <1>3, <1>6, <1>27, <1>28 DEF JoinPlaces
<1> QED BY <1>13, <1>14, <1>20, <1>21, <1>22, <1>27, <1>29, LinkMoves

LEMMA ChildOK ==
    ASSUME IInv, NEW c \in Clients, Child(c)
    PROVE  IInv'
<1>1. PICK t \in Thread : t = th[c] BY DEF IInv, Types
<1>2. PICK h \in Slots : h = t.h BY DEF Thread
<1>3. th[c].at = "child" /\ UNCHANGED <<enabled, told, was>> BY DEF Child, At
<1>4. CASE /\ tbl[h].signal
           /\ tbl' = [tbl EXCEPT ![t.join].pending = @ - 1]
           /\ th' = [th EXCEPT ![c] = NextKid([t EXCEPT !.signaled = @ + 1])]
  BY <1>1, <1>2, <1>3, <1>4, ChildSignalledOK DEF Goes, CountsDown
<1>5. CASE /\ ~tbl[h].signal /\ tbl[h].cnt + 1 < MaxParents
           /\ tbl' = [tbl EXCEPT ![h] = [tbl[h] EXCEPT !.cnt = @ + 1,
                                                      !.parents[tbl[h].cnt + 1] = t.join]]
           /\ th' = [th EXCEPT ![c] = NextKid(t)]
  BY <1>1, <1>2, <1>3, <1>5, ChildLinkedOK DEF Goes, AddsParent
<1>6. CASE tbl' = tbl /\ th' = [th EXCEPT ![c] = UndoFrom(t, t.i)]
  <2>1. /\ t.key \in Arrays /\ t.i \in 1..Len(Kids[t.key]) /\ Len(Kids[t.key]) \in Nat
        /\ tbl[t.join].key = t.key
    BY <1>1, <1>3, ChildFacts
  <2>2. Counts(t.join, t.i - 1) /\ Owns(c) BY <1>1, <1>3 DEF IInv, JoinOK, LinkingOK
  <2>3. t.i - 1 \in 0..(Len(Kids[t.key]) - 1) /\ t.i \in 0..Len(Kids[t.key]) BY <2>1
  <2>4. Within(t.join, t.i)
    <3>1. \A j \in 1..(t.i - 1) : j \in 1..t.i BY <2>1
    <3> QED BY <2>2, <3>1 DEF Counts, Within
  <2>5. th[c].at \in JoinPlaces /\ Goes(c, UndoFrom(t, t.i)) BY <1>3, <1>6 DEF JoinPlaces, Goes
  <2> QED BY <1>1, <1>3, <1>6, <2>2, <2>3, <2>4, <2>5, UndoStarts
<1> QED BY <1>1, <1>2, <1>4, <1>5, <1>6 DEF Child

-----------------------------------------------------------------------------
(* The fence controller.                                                   *)

\* The parents of a fence, and those that it is the last to end.
Parents(h) == {p \in Slots : h \in Linked(p)}
Ended(h) == {p \in Parents(h) : tbl[p].pending = 1}

\* A fence that is not signalled is open in each of its parents.
LEMMA ParentCounts ==
    ASSUME IInv, NEW h \in Slots, tbl[h].key \in Fences, ~tbl[h].signal,
           NEW p \in Slots, h \in Linked(p), NEW a, a = tbl[p].key,
           NEW n \in 0..Len(Kids[a]), Counts(p, n)
    PROVE  /\ a \in Arrays /\ tbl[h].key \in Open(a, n)
           /\ tbl[p].pending \in Nat
           /\ tbl[p].pending >= 1
           /\ tbl[p].pending = 1 => n = Len(Kids[a]) /\ Open(a, n) = {tbl[h].key}
<1>1. a \in Arrays BY DEF IInv, LinkOK
<1>2. tbl[h].key \notin was BY DEF IInv, FenceOK
<1>3. tbl[h].key \in Open(a, n) BY <1>2 DEF Counts, Within, Open
<1>4. /\ Cardinality(Open(a, n)) >= 1
      /\ Cardinality(Open(a, n)) = 1 => Open(a, n) = {tbl[h].key}
  BY <1>1, <1>3, OpenOne
<1>5. Cardinality(Open(a, n)) \in Nat /\ Len(Kids[a]) \in Nat BY <1>1, OpenFacts, KidsFacts
<1>6. tbl[p].pending \in Nat BY DEF IInv, Types, TypeOK
<1>7. tbl[p].pending >= Cardinality(Open(a, n)) + (Len(Kids[a]) - n) BY DEF Counts
<1>8. PICK m \in Nat : m = Cardinality(Open(a, n)) BY <1>5
<1>9. m >= 1 /\ tbl[p].pending >= m + (Len(Kids[a]) - n) BY <1>4, <1>7, <1>8
<1>10. /\ tbl[p].pending >= 1
       /\ tbl[p].pending = 1 => m = 1 /\ n = Len(Kids[a])
  BY <1>5, <1>6, <1>8, <1>9
<1> QED BY <1>1, <1>3, <1>4, <1>6, <1>8, <1>10

LEMMA ParentPending ==
    ASSUME IInv, NEW h \in Slots, tbl[h].key \in Fences, ~tbl[h].signal, NEW p \in Parents(h)
    PROVE  /\ p \in Slots /\ tbl[p].key \in Arrays /\ p # h
           /\ tbl[p].pending \in Nat /\ tbl[p].pending >= 1
<1>1. p \in Slots /\ h \in Linked(p) BY DEF Parents
<1>2. tbl[p].key \in Arrays BY <1>1 DEF IInv, LinkOK
<1>3. PICK n \in 0..Len(Kids[tbl[p].key]) : Counts(p, n) BY <1>1, <1>2 DEF IInv, CountOK
<1>4. tbl[p].pending \in Nat /\ tbl[p].pending >= 1 BY <1>1, <1>3, ParentCounts
<1>5. p # h BY <1>2, FenceFacts
<1> QED BY <1>1, <1>2, <1>4, <1>5

\* What becomes of the slots, of the fence f, its parents P and the ended ones E.
Signals(h, f, P, E) ==
    /\ f \in Fences /\ tbl[h].valid /\ tbl[h].signal = FALSE
    /\ P \subseteq Slots /\ E \subseteq P
    /\ \A p \in P : tbl[p].key \in Arrays /\ tbl[p].pending \in Nat /\ tbl[p].pending >= 1
    /\ \A p \in E : tbl[p].pending = 1 /\ tbl'[p] = FreeSlot
    /\ \A p \in P \ E : tbl[p].pending >= 2 /\ tbl'[p].pending = tbl[p].pending - 1
    /\ \A g \in Slots : g \notin P => tbl'[g].pending = tbl[g].pending
    /\ tbl'[h].signal = TRUE
    /\ \A g \in Slots : g # h /\ g \notin E => tbl'[g].signal = tbl[g].signal
    /\ \A g \in Slots : g \notin E =>
           /\ tbl'[g].valid = tbl[g].valid /\ tbl'[g].key = tbl[g].key
           /\ tbl'[g].waiters = tbl[g].waiters
           /\ tbl'[g].cnt = tbl[g].cnt /\ tbl'[g].parents = tbl[g].parents
    /\ told' = told \cup (tbl[h].waiters \X {f})
                    \cup UNION {tbl[p].waiters \X {tbl[p].key} : p \in E}
    /\ UNCHANGED <<enabled, th>> /\ was' = was \cup {f}
    /\ TypeOK'

LEMMA SignalFacts ==
    ASSUME IInv, NEW h \in Slots, Signal(h), NEW f, f = tbl[h].key,
           NEW P, P = Parents(h), NEW E, E = Ended(h)
    PROVE  Signals(h, f, P, E)
<1>1. tbl[h].valid /\ f \in Fences /\ ~tbl[h].signal BY DEF Signal
<1>2. TypeOK BY DEF IInv, Types
<1>3. P = {p \in Slots : \E i \in 1..tbl[h].cnt : tbl[h].parents[i] = p}
  BY <1>1 DEF Parents, Linked
<1>4. E = {p \in P : tbl[p].pending = 1} BY DEF Ended
<1>5. /\ tbl' = [g \in Slots |->
                     CASE g = h -> [tbl[h] EXCEPT !.signal = TRUE]
                       [] g \in E -> FreeSlot
                       [] g \in P \ E -> [tbl[g] EXCEPT !.pending = @ - 1]
                       [] OTHER -> tbl[g]]
      /\ told' = told \cup (tbl[h].waiters \X {f})
                      \cup UNION {tbl[p].waiters \X {tbl[p].key} : p \in E}
      /\ was' = was \cup {f}
      /\ UNCHANGED <<enabled, th>>
  BY <1>3, <1>4 DEF Signal
<1>6. P \subseteq Slots /\ E \subseteq P BY <1>3, <1>4
<1>7. \A p \in P : /\ tbl[p].key \in Arrays /\ tbl[p].pending \in Nat /\ tbl[p].pending >= 1
                   /\ p # h
  BY <1>1, ParentPending
<1>8. \A p \in P \ E : tbl[p].pending >= 2 BY <1>4, <1>7
<1> DEFINE S == [valid : BOOLEAN, key : Keys \cup {NoOne},
                 waiters : SUBSET Clients, alloc : Clients \cup {NoOne},
                 signal : BOOLEAN, parents : [1..MaxParents -> Slots \cup {NoOne}],
                 cnt : 0..(MaxParents - 1), pending : Nat]
<1>9. tbl \in [Slots -> S] BY <1>2 DEF TypeOK
<1>10. tbl[h].signal = FALSE BY <1>1, <1>9
<1>11. tbl'[h] = [tbl[h] EXCEPT !.signal = TRUE] BY <1>5, <1>6, <1>7
<1>12. /\ tbl'[h] \in S /\ tbl'[h].signal = TRUE
       /\ tbl'[h].valid = tbl[h].valid /\ tbl'[h].key = tbl[h].key
       /\ tbl'[h].waiters = tbl[h].waiters /\ tbl'[h].pending = tbl[h].pending
       /\ tbl'[h].cnt = tbl[h].cnt /\ tbl'[h].parents = tbl[h].parents
  BY <1>9, <1>11
<1>13. FreeSlot \in S
  <2>1. 0 \in 0..(MaxParents - 1) BY TableAssumption
  <2>2. [i \in 1..MaxParents |-> NoOne] \in [1..MaxParents -> Slots \cup {NoOne}] OBVIOUS
  <2> QED BY <2>1, <2>2 DEF FreeSlot
<1>14. \A p \in E : tbl[p].pending = 1 /\ tbl'[p] = FreeSlot BY <1>4, <1>5, <1>6, <1>7
<1>15. ASSUME NEW p \in P \ E
       PROVE  /\ tbl'[p] \in S /\ tbl'[p].pending = tbl[p].pending - 1
              /\ tbl'[p].valid = tbl[p].valid /\ tbl'[p].key = tbl[p].key
              /\ tbl'[p].waiters = tbl[p].waiters /\ tbl'[p].signal = tbl[p].signal
              /\ tbl'[p].cnt = tbl[p].cnt /\ tbl'[p].parents = tbl[p].parents
  <2>1. p \in Slots /\ p # h /\ tbl[p].pending - 1 \in Nat BY <1>6, <1>7, <1>8
  <2>2. tbl'[p] = [tbl[p] EXCEPT !.pending = @ - 1] BY <1>5, <2>1
  <2> QED BY <1>9, <2>1, <2>2
<1>16. \A g \in Slots : g # h /\ g \notin P => tbl'[g] = tbl[g] BY <1>5, <1>6
<1> HIDE DEF S
<1>17. \A g \in Slots : tbl'[g] \in S BY <1>9, <1>12, <1>13, <1>14, <1>15, <1>16
<1>18. tbl' \in [Slots -> S] BY <1>5, <1>17
<1>19. \A p \in E : tbl[p].waiters \subseteq Clients /\ tbl[p].key \in Keys \cup {NoOne}
  BY <1>2, <1>6 DEF TypeOK
<1>20. tbl[h].waiters \subseteq Clients /\ f \in Keys \cup {NoOne} BY <1>2 DEF TypeOK
<1>21. told' \subseteq Clients \X (Keys \cup {NoOne})
  <2>1. told \subseteq Clients \X (Keys \cup {NoOne}) BY <1>2 DEF TypeOK
  <2>2. tbl[h].waiters \X {f} \subseteq Clients \X (Keys \cup {NoOne}) BY <1>20
  <2>3. UNION {tbl[p].waiters \X {tbl[p].key} : p \in E} \subseteq Clients \X (Keys \cup {NoOne})
    BY <1>19
  <2> QED BY <1>5, <2>1, <2>2, <2>3
<1>22. TypeOK' BY <1>2, <1>5, <1>18, <1>21 DEF TypeOK, S
<1>23. \A g \in Slots : g \notin P => tbl'[g].pending = tbl[g].pending BY <1>12, <1>16
<1>24. \A g \in Slots : g # h /\ g \notin E => tbl'[g].signal = tbl[g].signal
  BY <1>15, <1>16
<1>25. \A g \in Slots : g \notin E =>
                  /\ tbl'[g].valid = tbl[g].valid /\ tbl'[g].key = tbl[g].key
                  /\ tbl'[g].waiters = tbl[g].waiters
                  /\ tbl'[g].cnt = tbl[g].cnt /\ tbl'[g].parents = tbl[g].parents
  BY <1>12, <1>15, <1>16
<1> QED BY <1>1, <1>5, <1>6, <1>7, <1>8, <1>10, <1>12, <1>14, <1>15, <1>22, <1>23, <1>24, <1>25
   DEF Signals

\* A join fence ends with the last of the fences of its array.
LEMMA EndedFacts ==
    ASSUME IInv, NEW h \in Slots, tbl[h].key \in Fences, ~tbl[h].signal,
           NEW p \in Ended(h), NEW a, a = tbl[p].key
    PROVE  /\ p \in Slots /\ a \in Arrays /\ Linked(p) = {h}
           /\ \A j \in 1..Len(Kids[a]) : Kids[a][j] \in was \/ Kids[a][j] = tbl[h].key
           /\ \A n \in 0..(Len(Kids[a]) - 1) : ~Counts(p, n)
<1>1. p \in Slots /\ h \in Linked(p) /\ tbl[p].pending = 1 BY DEF Ended, Parents
<1>2. a \in Arrays BY <1>1 DEF IInv, LinkOK
<1>3. PICK n \in 0..Len(Kids[a]) : Counts(p, n) BY <1>1, <1>2 DEF IInv, CountOK
<1>4. n = Len(Kids[a]) /\ Open(a, n) = {tbl[h].key}
  <2>1. h \in Linked(p) /\ p \in Slots /\ Counts(p, n) BY <1>1, <1>3
  <2>2. tbl[p].pending = 1 => n = Len(Kids[a]) /\ Open(a, n) = {tbl[h].key}
    BY <2>1, ParentCounts, ZenonT(60)
  <2> QED BY <1>1, <2>2, Zenon
<1>5. \A j \in 1..Len(Kids[a]) : Kids[a][j] \in was \/ Kids[a][j] = tbl[h].key
  BY <1>4 DEF Open
<1>6. ASSUME NEW g \in Linked(p) PROVE g = h
  <2>1. g \in Slots /\ ~tbl[g].signal BY DEF Linked
  <2>2. tbl[g].key \in Fences BY <1>1 DEF IInv, LinkOK
  <2>3. tbl[g].key \notin was BY <2>1, <2>2 DEF IInv, FenceOK
  <2>4. PICK j \in 1..n : tbl[g].key = Kids[a][j] BY <1>3 DEF Counts, Within
  <2>5. tbl[g].key = tbl[h].key BY <1>4, <1>5, <2>3, <2>4
  <2>6. tbl[g].key # NoOne BY <2>2, FenceFacts
  <2> QED BY <2>1, <2>5, <2>6 DEF IInv, OneSlot
<1>7. Linked(p) = {h} BY <1>1, <1>6
<1>8. ASSUME NEW m \in 0..(Len(Kids[a]) - 1), Counts(p, m) PROVE FALSE
  <2>1. m \in 0..Len(Kids[a]) /\ m # Len(Kids[a]) BY <1>2, KidsFacts
  <2> QED BY <1>1, <1>8, <2>1, ParentCounts
<1> QED BY <1>1, <1>2, <1>5, <1>7, <1>8

LEMMA SignalLinks ==
    ASSUME IInv, NEW h \in Slots, Signal(h)
    PROVE  \A p \in Slots : Linked(p)' = Linked(p) \ {h}
<1>1. PICK P : P = Parents(h) OBVIOUS
<1>2. PICK E : E = Ended(h) OBVIOUS
<1>3. /\ \A p \in P : tbl[p].key \in Arrays
      /\ P \subseteq Slots /\ E \subseteq P
      /\ \A p \in E : tbl'[p] = FreeSlot
      /\ tbl'[h].signal = TRUE
      /\ \A g \in Slots : g # h /\ g \notin E => tbl'[g].signal = tbl[g].signal
      /\ \A g \in Slots : g \notin E =>
             /\ tbl'[g].valid = tbl[g].valid
             /\ tbl'[g].cnt = tbl[g].cnt /\ tbl'[g].parents = tbl[g].parents
  <2>1. PICK f : f = tbl[h].key OBVIOUS
  <2>2. Signals(h, f, P, E) BY <1>1, <1>2, <2>1, SignalFacts
  <2> QED BY <2>2 DEF Signals
<1> SUFFICES ASSUME NEW p \in Slots, NEW g \in Slots
             PROVE  g \in Linked(p)' <=> g \in Linked(p) /\ g # h
  BY DEF Linked
<1>4. CASE g = h BY <1>3, <1>4 DEF Linked
<1>5. CASE g \in E /\ g # h
  <2>1. g \notin Linked(p)' BY <1>3, <1>5 DEF Linked, FreeSlot
  <2>2. g \in Linked(p) => tbl[g].key \in Fences BY DEF IInv, LinkOK
  <2>3. tbl[g].key \notin Fences BY <1>3, <1>5, KidsFacts
  <2> QED BY <2>1, <2>2, <2>3
<1>6. CASE g \notin E /\ g # h
  <2>1. /\ tbl'[g].valid = tbl[g].valid /\ tbl'[g].signal = tbl[g].signal
        /\ tbl'[g].cnt = tbl[g].cnt /\ tbl'[g].parents = tbl[g].parents
    BY <1>3, <1>6
  <2> QED BY <1>6, <2>1 DEF Linked
<1> QED BY <1>4, <1>5, <1>6

\* A join fence that does not end counts on.
LEMMA SignalKept ==
    ASSUME IInv, NEW h \in Slots, Signal(h), NEW a \in Arrays,
           \A p \in Ended(h) : tbl[p].key # a
    PROVE  Kept(a)
<1>1. PICK P : P = Parents(h) OBVIOUS
<1>2. PICK E : E = Ended(h) OBVIOUS
<1>3. PICK f : f = tbl[h].key OBVIOUS
<1>4. /\ f \in Fences /\ ~tbl[h].signal
      /\ P \subseteq Slots /\ E \subseteq P
      /\ \A p \in P : tbl[p].key \in Arrays /\ tbl[p].pending \in Nat /\ tbl[p].pending >= 1
      /\ \A p \in E : tbl'[p] = FreeSlot
      /\ \A p \in P \ E : tbl[p].pending >= 2 /\ tbl'[p].pending = tbl[p].pending - 1
      /\ \A g \in Slots : g \notin P => tbl'[g].pending = tbl[g].pending
      /\ \A g \in Slots : g \notin E => tbl'[g].key = tbl[g].key
      /\ was' = was \cup {f}
  <2>1. Signals(h, f, P, E) BY <1>1, <1>2, <1>3, SignalFacts
  <2> QED BY <2>1 DEF Signals
<1>5. \A p \in E : tbl[p].key # a /\ tbl'[p].key # a
  BY <1>2, <1>4, KidsFacts DEF FreeSlot
<1> SUFFICES ASSUME NEW p \in Slots
             PROVE  /\ tbl[p].key = a <=> tbl'[p].key = a
                    /\ tbl[p].key = a =>
                           /\ Linked(p)' \subseteq Linked(p)
                           /\ \A n \in 0..Len(Kids[a]) : Counts(p, n) => Counts(p, n)'
                           /\ \A n : Within(p, n) => Within(p, n)'
  BY DEF Kept
<1>6. tbl[p].key = a <=> tbl'[p].key = a BY <1>4, <1>5
<1>7. SUFFICES ASSUME tbl[p].key = a
               PROVE  /\ Linked(p)' \subseteq Linked(p)
                      /\ \A n \in 0..Len(Kids[a]) : Counts(p, n) => Counts(p, n)'
                      /\ \A n : Within(p, n) => Within(p, n)'
  BY <1>6
<1>8. Linked(p)' \subseteq Linked(p) /\ p \notin E BY <1>5, <1>7, SignalLinks
<1>9. \A g \in Linked(p) : tbl'[g].key = tbl[g].key
  <2> SUFFICES ASSUME NEW g \in Linked(p) PROVE tbl'[g].key = tbl[g].key OBVIOUS
  <2>1. g \in Slots /\ tbl[g].key \in Fences BY DEF IInv, LinkOK, Linked
  <2>2. g \notin E BY <1>4, <2>1, FenceFacts
  <2> QED BY <1>4, <2>1, <2>2
<1>10. tbl'[p].key = a BY <1>6, <1>7
<1>11. \A n : Within(p, n) => Within(p, n)' BY <1>7, <1>8, <1>9, <1>10 DEF Within
<1>12. ASSUME NEW n \in 0..Len(Kids[a]), Counts(p, n) PROVE Counts(p, n)'
  <2>1. /\ Open(a, n)' = Open(a, n) \ {f} /\ Cardinality(Open(a, n)') \in Nat
        /\ Cardinality(Open(a, n)') = Cardinality(Open(a, n))
                                         - (IF f \in Open(a, n) THEN 1 ELSE 0)
    <3>1. was' = was \cup {f} BY <1>4
    <3> QED BY <3>1, OpenSignalled
  <2>2. PICK x \in Nat : x = Cardinality(Open(a, n)) BY OpenFacts
  <2>3. PICK y \in Nat : y = Cardinality(Open(a, n)') BY <2>1
  <2>4. PICK L \in Nat : L = Len(Kids[a]) BY KidsFacts
  <2>5. tbl[p].pending >= x + (L - n) /\ tbl[p].pending \in Nat /\ n \in 0..L
    BY <1>7, <1>12, <2>2, <2>4 DEF Counts, IInv, Types, TypeOK
  <2>6. tbl'[p].pending >= y + (L - n)
    <3>1. CASE p \in P
      <4>1. h \in Linked(p) BY <1>1, <3>1 DEF Parents
      <4>2. f \in Open(a, n) BY <1>3, <1>4, <1>7, <1>12, <4>1, ParentCounts
      <4>3. y = x - 1 BY <2>1, <2>2, <2>3, <4>2
      <4>4. tbl'[p].pending = tbl[p].pending - 1 BY <1>4, <1>8, <3>1
      <4> QED BY <2>5, <4>3, <4>4
    <3>2. CASE p \notin P
      <4>1. y <= x BY <2>1, <2>2, <2>3
      <4>2. tbl'[p].pending = tbl[p].pending BY <1>4, <3>2
      <4> QED BY <2>5, <4>1, <4>2
    <3> QED BY <3>1, <3>2
  <2>7. Open(tbl[p].key, n)' = Open(a, n)' BY <1>10 DEF Open
  <2>8. Within(p, n)' BY <1>11, <1>12 DEF Counts
  <2> QED BY <1>10, <2>3, <2>4, <2>6, <2>7, <2>8 DEF Counts
<1> QED BY <1>8, <1>11, <1>12

\* A thread whose join fence ends: all its children are linked.
LEMMA EndedJoin ==
    ASSUME IInv, NEW h \in Slots, tbl[h].key \in Fences, ~tbl[h].signal, NEW p \in Ended(h),
           NEW d \in Clients, NEW t \in Thread, t = th[d], t.at \in JoinPlaces, t.key = tbl[p].key
    PROVE  t.at = "joined" /\ t.signaled < Len(Kids[t.key])
<1>1. PICK a \in Arrays : a = t.key BY DEF IInv, CallOK
<1>2. /\ p \in Slots /\ Linked(p) = {h}
      /\ \A n \in 0..(Len(Kids[a]) - 1) : ~Counts(p, n)
  BY <1>1, EndedFacts
<1>3. JoinOK(d) BY DEF IInv
<1>4. PICK L \in Nat : L = Len(Kids[a]) /\ L > 0 BY <1>1, KidsFacts
<1>5. Owns(d) => t.join = p
  <2>1. t.join \in Slots /\ a # NoOne BY <1>1, KidsFacts DEF Thread
  <2> QED BY <1>1, <1>2, <2>1 DEF Owns, IInv, OneSlot
<1>6. t.at # "join" BY <1>2, <1>3 DEF JoinOK
<1>7. t.at # "join_destroy" BY <1>2, <1>3 DEF JoinOK
<1>8. t.at # "mask"
  <2> SUFFICES ASSUME t.at = "mask" PROVE FALSE OBVIOUS
  <2>1. Owns(d) /\ Counts(t.join, 0) BY <1>3 DEF JoinOK
  <2>2. 0 \in 0..(L - 1) BY <1>4
  <2> QED BY <1>2, <1>4, <1>5, <2>1, <2>2
<1>9. t.at \notin {"kid", "child"}
  <2> SUFFICES ASSUME t.at \in {"kid", "child"} PROVE FALSE OBVIOUS
  <2>1. Owns(d) /\ t.i \in 1..L /\ Counts(t.join, t.i - 1)
    BY <1>1, <1>3, <1>4 DEF JoinOK, LinkingOK
  <2>2. t.i - 1 \in 0..(L - 1) BY <1>4, <2>1
  <2> QED BY <1>2, <1>4, <1>5, <2>1, <2>2
<1>10. t.at \notin {"undo", "unlink"}
  <2> SUFFICES ASSUME t.at \in {"undo", "unlink"} PROVE FALSE OBVIOUS
  <2>1. Owns(d) /\ \E n \in 0..(L - 1) : Counts(t.join, n)
    BY <1>1, <1>3, <1>4 DEF JoinOK, UndoingOK
  <2> QED BY <1>2, <1>4, <1>5, <2>1
<1>11. t.at = "joined" BY <1>6, <1>7, <1>8, <1>9, <1>10 DEF JoinPlaces
<1>12. Tally(d, L) BY <1>1, <1>3, <1>4, <1>11 DEF JoinOK
<1>13. t.signaled # L BY <1>2, <1>5, <1>12 DEF Tally
<1>14. t.signaled <= L /\ t.signaled \in Nat BY <1>12 DEF Tally, Thread
<1> QED BY <1>1, <1>4, <1>11, <1>13, <1>14

LEMMA SignalJoinOK ==
    ASSUME IInv, NEW h \in Slots, Signal(h), NEW d \in Clients
    PROVE  JoinOK(d)'
<1>1. PICK P : P = Parents(h) OBVIOUS
<1>2. PICK E : E = Ended(h) OBVIOUS
<1>3. PICK f : f = tbl[h].key OBVIOUS
<1>4. Signals(h, f, P, E) BY <1>1, <1>2, <1>3, SignalFacts
<1>5. /\ f \in Fences /\ ~tbl[h].signal /\ E \subseteq P /\ th' = th /\ was' = was \cup {f}
      /\ \A p \in P : tbl[p].key \in Arrays
      /\ \A g \in Slots : g \notin E => tbl'[g].key = tbl[g].key
  BY <1>4 DEF Signals
<1>6. PICK t \in Thread : t = th[d] /\ t = th'[d] BY <1>5 DEF IInv, Types
<1>7. CASE \E p \in E : t.at \in JoinPlaces /\ t.key = tbl[p].key
  <2>1. t.at = "joined" /\ t.signaled < Len(Kids[t.key])
    BY <1>2, <1>3, <1>5, <1>6, <1>7, EndedJoin
  <2>2. t.key \in Arrays BY <1>5, <1>7
  <2>3. PICK L \in Nat : L = Len(Kids[t.key]) BY <2>2, KidsFacts
  <2>4. t.signaled <= L /\ t.signaled # L BY <2>1, <2>3 DEF Thread
  <2>5. Tally(d, L)' BY <1>6, <2>4 DEF Tally
  <2> QED BY <1>6, <2>1, <2>3, <2>5 DEF JoinOK
<1>8. CASE \A p \in E : t.at \in JoinPlaces => t.key # tbl[p].key
  <2>1. Types /\ CallOK(d) /\ JoinOK(d) BY DEF IInv
  <2>2. t.at \in JoinPlaces => Kept(t.key)
    <3> SUFFICES ASSUME t.at \in JoinPlaces PROVE Kept(t.key) OBVIOUS
    <3>1. t.key \in Arrays BY <1>6, <2>1 DEF CallOK
    <3>2. \A p \in Ended(h) : tbl[p].key # t.key BY <1>2, <1>8
    <3> QED BY <3>1, <3>2, SignalKept
  <2>3. \A g \in Slots : tbl[g].key \in Fences => tbl'[g].key = tbl[g].key
    BY <1>5, FenceFacts
  <2> QED BY <1>5, <1>6, <2>1, <2>2, <2>3, KeptFrame
<1> QED BY <1>7, <1>8

LEMMA SignalOK ==
    ASSUME IInv, NEW h \in Slots, Signal(h)
    PROVE  IInv'
<1>1. PICK P : P = Parents(h) OBVIOUS
<1>2. PICK E : E = Ended(h) OBVIOUS
<1>3. PICK f : f = tbl[h].key OBVIOUS
<1>4. Signals(h, f, P, E) BY <1>1, <1>2, <1>3, SignalFacts
<1>5. /\ f \in Fences /\ tbl[h].signal = FALSE /\ P \subseteq Slots /\ E \subseteq P
      /\ \A p \in P : tbl[p].key \in Arrays
      /\ tbl'[h].signal = TRUE
      /\ \A g \in Slots : g # h /\ g \notin E => tbl'[g].signal = tbl[g].signal
      /\ \A g \in Slots : g \notin E => /\ tbl'[g].valid = tbl[g].valid /\ tbl'[g].key = tbl[g].key
                                        /\ tbl'[g].waiters = tbl[g].waiters
      /\ enabled' = enabled /\ th' = th /\ was' = was \cup {f} /\ TypeOK'
  BY <1>4 DEF Signals
<1>6. told \subseteq told' /\ \A w \in tbl[h].waiters : <<w, f>> \in told'
  <2>1. told' = told \cup (tbl[h].waiters \X {f})
                     \cup UNION {tbl[p].waiters \X {tbl[p].key} : p \in E}
    BY <1>4 DEF Signals
  <2> QED BY <2>1
<1>7. \A g \in E : /\ tbl'[g].key = NoOne /\ tbl'[g].valid = FALSE /\ tbl'[g].signal = FALSE
                   /\ g # h
  BY <1>3, <1>4, <1>5, KidsFacts DEF Signals, FreeSlot
<1>8. NoOne \notin Fences /\ NoOne \notin Arrays BY TableAssumption DEF Keys
<1>9. \A g \in Slots : g # h => tbl[g].key # f
  <2>1. f # NoOne BY <1>5, FenceFacts
  <2> QED BY <1>3, <2>1 DEF IInv, OneSlot
<1>10. Types' BY <1>5 DEF IInv, Types
<1>11. was' \subseteq enabled' BY <1>3, <1>5 DEF IInv, FenceOK
<1>12. ASSUME NEW g \in Slots PROVE SlotOK(g)'
  <2>1. SlotOK(g) BY DEF IInv
  <2>2. CASE g \in E BY <1>7, <2>2 DEF SlotOK
  <2>3. CASE g \notin E BY <1>3, <1>5, <2>1, <2>3 DEF SlotOK
  <2> QED BY <2>2, <2>3
<1>13. ASSUME NEW g \in Slots, NEW k \in Slots PROVE OneSlot(g, k)'
  <2>1. OneSlot(g, k) BY DEF IInv
  <2> QED BY <1>5, <1>7, <2>1 DEF OneSlot
<1>14. ASSUME NEW g \in Slots PROVE FenceOK(g)'
  <2>1. FenceOK(g) BY DEF IInv
  <2>3. CASE g = h BY <1>3, <1>5, <1>7, <2>1, <2>3 DEF FenceOK
  <2>4. CASE g \in E BY <1>7, <1>8, <2>4 DEF FenceOK
  <2>5. CASE g # h /\ g \notin E
    <3>1. tbl'[g].key = tbl[g].key /\ tbl'[g].signal = tbl[g].signal /\ tbl[g].key # f
      BY <1>5, <1>9, <2>5
    <3>2. Dying(tbl[g].key) => Dying(tbl[g].key)' BY <1>5, <3>1 DEF Dying, At
    <3> QED BY <1>5, <2>1, <3>1, <3>2 DEF FenceOK
  <2> QED BY <2>3, <2>4, <2>5
<1>15. ASSUME NEW d \in Clients PROVE CallOK(d)'
  <2>1. CallOK(d) BY DEF IInv
  <2>2. th[d].at = "create" => th[d].key \notin enabled' BY <1>5, <2>1 DEF CallOK
  <2>3. ASSUME th[d].at = "destroy"
        PROVE  /\ th[d].key \notin was'
               /\ \A g \in Slots : tbl'[g].key = th[d].key =>
                      tbl[g].key = th[d].key /\ (tbl[g].signal => tbl'[g].signal)
    <3>1. /\ th[d].key \in Fences /\ th[d].key \notin was
          /\ \A g \in Slots : tbl[g].key = th[d].key => tbl[g].signal
      BY <2>1, <2>3 DEF CallOK
    <3>2. th[d].key # f BY <1>3, <1>5, <3>1
    <3> QED BY <1>5, <1>7, <1>8, <3>1, <3>2
  <2>4. th'[d] = th[d] BY <1>5
  <2> QED BY <2>1, <2>2, <2>3, <2>4, CallKept
<1>16. ASSUME NEW d \in Clients, NEW e \in Clients PROVE Exclusive(d, e)'
  BY <1>5 DEF IInv, Exclusive
<1>17. ASSUME NEW d \in Clients PROVE DyingOK(d)'
  <2>1. DyingOK(d) BY DEF IInv
  <2>2. \A g \in Slots : tbl'[g].key \in Arrays => tbl'[g].key = tbl[g].key BY <1>5, <1>7, <1>8
  <2> QED BY <1>5, <2>1, <2>2 DEF DyingOK
<1>18. \A p \in Slots : Linked(p)' = Linked(p) \ {h} BY SignalLinks
<1>19. ASSUME NEW p \in Slots PROVE LinkOK(p)'
  <2> SUFFICES ASSUME NEW g \in Linked(p)' PROVE tbl'[p].key \in Arrays /\ tbl'[g].key \in Fences
    BY DEF LinkOK
  <2>1. g \in Linked(p) /\ g # h BY <1>18
  <2>2. g \in Slots /\ tbl[p].key \in Arrays /\ tbl[g].key \in Fences
    BY <2>1 DEF IInv, LinkOK, Linked
  <2>3. g \notin E BY <1>5, <2>2, FenceFacts
  <2>4. p \notin E BY <1>2, <1>3, <1>5, <2>1, EndedFacts
  <2> QED BY <1>5, <2>2, <2>3, <2>4
<1>20. ASSUME NEW p \in Slots PROVE CountOK(p)'
  <2> SUFFICES ASSUME tbl'[p].key \in Arrays
               PROVE  \E n \in 0..Len(Kids[tbl'[p].key]) : Counts(p, n)'
    BY DEF CountOK
  <2>1. p \notin E /\ tbl'[p].key = tbl[p].key BY <1>5, <1>7, <1>8
  <2>2. PICK n \in 0..Len(Kids[tbl[p].key]) : Counts(p, n) BY <2>1 DEF IInv, CountOK
  <2>3. \A q \in E : tbl[q].key # tbl[p].key
    <3>1. tbl[p].key # NoOne BY <1>8, <2>1
    <3> QED BY <1>5, <2>1, <3>1 DEF IInv, OneSlot
  <2>4. Kept(tbl[p].key) BY <1>2, <2>1, <2>3, SignalKept
  <2> QED BY <2>1, <2>2, <2>4 DEF Kept
<1>21. \A d \in Clients : JoinOK(d)' BY SignalJoinOK
<1>22. WaitersTold'
  <2> SUFFICES ASSUME NEW g \in Slots, tbl'[g].signal, tbl'[g].key \in was', NEW w \in tbl'[g].waiters
               PROVE  <<w, tbl'[g].key>> \in told'
    BY DEF WaitersTold
  <2>1. g \notin E BY <1>7
  <2>2. tbl'[g].key = tbl[g].key /\ tbl'[g].waiters = tbl[g].waiters BY <1>5, <2>1
  <2>3. CASE g = h BY <1>3, <1>6, <2>2, <2>3
  <2>4. CASE g # h
    <3>1. tbl[g].signal /\ tbl[g].key \in was BY <1>5, <1>9, <2>1, <2>2, <2>4
    <3>2. <<w, tbl[g].key>> \in told BY <2>2, <3>1 DEF IInv, WaitersTold
    <3> QED BY <1>6, <2>2, <3>2
  <2> QED BY <2>3, <2>4
<1> QED BY <1>10, <1>11, <1>12, <1>13, <1>14, <1>15, <1>16, <1>17, <1>19, <1>20, <1>21, <1>22
   DEF IInv

-----------------------------------------------------------------------------
(* The specification, up to the first reset.                               *)

Inv == resets \in Nat /\ (resets = 0 => IInv)

LEMMA InitOK == Init => Inv
<1> SUFFICES ASSUME Init PROVE IInv BY DEF Init, Inv
<1>1. /\ \A h \in Slots : tbl[h] = FreeSlot
      /\ enabled = {} /\ told = {} /\ was = {}
      /\ \A c \in Clients : th[c] = Ready
  BY DEF Init
<1>2. /\ FreeSlot.valid = FALSE /\ FreeSlot.key = NoOne /\ FreeSlot.signal = FALSE
      /\ FreeSlot.waiters = {}
  BY DEF FreeSlot
<1>3. Ready \in Thread /\ Ready.at = "idle" BY ReadyThread
<1>4. NoOne \notin Fences /\ NoOne \notin Arrays BY TableAssumption DEF Keys
<1>5. FreeSlot \in [valid : BOOLEAN, key : Keys \cup {NoOne},
                    waiters : SUBSET Clients, alloc : Clients \cup {NoOne},
                    signal : BOOLEAN, parents : [1..MaxParents -> Slots \cup {NoOne}],
                    cnt : 0..(MaxParents - 1), pending : Nat]
  <2>1. 0 \in 0..(MaxParents - 1) BY TableAssumption
  <2>2. [i \in 1..MaxParents |-> NoOne] \in [1..MaxParents -> Slots \cup {NoOne}] OBVIOUS
  <2> QED BY <2>1, <2>2 DEF FreeSlot
<1>6. Types BY <1>1, <1>3, <1>5 DEF Init, Types, TypeOK
<1>7. \A p : Linked(p) = {} BY <1>1, <1>2 DEF Linked
<1>8. \A h \in Slots : SlotOK(h) /\ FenceOK(h) BY <1>1, <1>2, <1>4 DEF SlotOK, FenceOK
<1>9. \A g, h \in Slots : OneSlot(g, h) BY <1>1, <1>2 DEF OneSlot
<1>10. \A p \in Slots : LinkOK(p) /\ CountOK(p) BY <1>1, <1>2, <1>4, <1>7 DEF LinkOK, CountOK
<1>11. \A c \in Clients : CallOK(c) /\ DyingOK(c) /\ JoinOK(c)
  BY <1>1, <1>3 DEF CallOK, DyingOK, JoinOK, JoinPlaces
<1>12. \A c, d \in Clients : Exclusive(c, d) BY <1>1, <1>3 DEF Exclusive, JoinPlaces
<1>13. WaitersTold BY <1>1, <1>2 DEF WaitersTold
<1> QED BY <1>1, <1>6, <1>8, <1>9, <1>10, <1>11, <1>12, <1>13 DEF IInv

LEMMA ProbeOK ==
    ASSUME IInv, NEW c \in Clients, Probe(c)
    PROVE  IInv'
<1>1. Types BY DEF IInv
<1>2. \/ Advances(c) \/ GivesUp(c) \/ KidMissing(c) \/ UndoMissing(c)
      \/ Created(c) \/ JoinMade(c) \/ Destroyed(c) \/ JoinDestroyed(c)
      \/ FoundFence(c) \/ FoundKid(c) \/ FoundLink(c)
  BY <1>1, ProbeSplit
<1> QED BY <1>2, AdvancesOK, GivesUpOK, KidMissingOK, UndoMissingOK, CreatedOK, JoinMadeOK,
           DestroyedOK, JoinDestroyedOK, FoundFenceOK, FoundKidOK, FoundLinkOK

\* The steps of a reset are not taken.
LEMMA NoReset ==
    ASSUME IInv, NEW c \in Clients
    PROVE  ~ResetSlot(c) /\ ~ResetTell(c)
<1>1. th[c].at \in Places BY DEF IInv, Types, Thread
<1> QED BY <1>1 DEF ResetSlot, ResetTell, At, Places, JoinPlaces

\* The steps that can be taken while no client is reset.
LEMMA StepSplit ==
    ASSUME Inv, Next, resets' = 0
    PROVE  /\ IInv /\ resets = 0
           /\ \/ \E c \in Clients : \/ Probe(c) \/ Register(c) \/ Mask(c) \/ Child(c)
                                    \/ Unlink(c) \/ Joined(c)
              \/ \E c \in Clients, f \in Fences :
                     CallCreate(c, f) \/ CallDestroy(c, f) \/ CallWait(c, f)
              \/ \E c \in Clients, a \in Arrays : CallWaitArray(c, a)
              \/ \E h \in Slots : Signal(h)
<1>1. resets \in Nat BY DEF Inv
<1>2. \A c \in Clients : ~CallReset(c) BY <1>1 DEF CallReset
<1>3. resets = 0
  BY <1>2 DEF Next, Step, Probe, Register, Mask, Child, Unlink, Joined, ResetSlot, ResetTell,
              CallCreate, CallDestroy, CallWait, CallWaitArray, Signal
<1>4. IInv BY <1>3 DEF Inv
<1> QED BY <1>2, <1>3, <1>4, NoReset, ZenonT(60) DEF Next, Step

LEMMA NextOK == Inv /\ [Next]_vars => Inv'
<1> SUFFICES ASSUME Inv, [Next]_vars PROVE Inv' OBVIOUS
<1>1. CASE UNCHANGED vars
  <2>1. resets' = resets /\ UNCHANGED <<tbl, enabled, told, was, th>> BY <1>1 DEF vars
  <2>2. ASSUME IInv PROVE IInv'
    <3>1. /\ \A h \in Slots : SameSlot(h)
          /\ TypeOK' /\ WaitersTold'
      BY <2>1, <2>2, QuietFacts
    <3>2. Types /\ Types' /\ was' \subseteq enabled' BY <2>1, <2>2, <3>1 DEF IInv, Types
    <3>3. \A c \in Clients : CallOK(c)' /\ JoinOK(c)'
      BY <2>1, <2>2, <3>1, <3>2, ThreadSame DEF IInv
    <3>4. \A f : Dying(f)' <=> Dying(f) BY <2>1 DEF Dying, At
    <3>5. /\ \A h \in Slots : SlotOK(h)' /\ FenceOK(h)' /\ LinkOK(h)' /\ CountOK(h)'
          /\ \A g, h \in Slots : OneSlot(g, h)'
      BY <2>1, <2>2, <3>1, <3>4, SlotsSame DEF IInv
    <3>6. \A c \in Clients : DyingOK(c)' BY <2>1, <2>2 DEF IInv, DyingOK
    <3>7. \A c, d \in Clients : Exclusive(c, d)' BY <2>1, <2>2 DEF IInv, Exclusive
    <3> QED BY <3>1, <3>2, <3>3, <3>5, <3>6, <3>7 DEF IInv
  <2> QED BY <2>1, <2>2 DEF Inv
<1>2. CASE Next
  <2>1. resets' \in Nat
    <3>1. resets \in Nat BY DEF Inv
    <3>2. resets' = resets \/ resets' = resets + 1
      BY <1>2 DEF Next, Step, Probe, Register, Mask, Child, Unlink, Joined, ResetSlot, ResetTell,
                  CallReset, CallCreate, CallDestroy, CallWait, CallWaitArray, Signal
    <3> QED BY <3>1, <3>2
  <2>2. ASSUME resets' = 0 PROVE IInv'
    <3>1. IInv BY <1>2, <2>2, StepSplit
    <3>2. ASSUME NEW c \in Clients,
                 Probe(c) \/ Register(c) \/ Mask(c) \/ Child(c) \/ Unlink(c) \/ Joined(c)
          PROVE  IInv'
      BY <3>1, <3>2, ProbeOK, RegisterOK, MaskOK, ChildOK, UnlinkOK, JoinedOK
    <3>3. ASSUME NEW c \in Clients, NEW f \in Fences,
                 CallCreate(c, f) \/ CallDestroy(c, f) \/ CallWait(c, f)
          PROVE  IInv'
      BY <3>1, <3>3, CallCreateOK, CallDestroyOK, CallWaitOK
    <3>4. ASSUME NEW c \in Clients, NEW a \in Arrays, CallWaitArray(c, a) PROVE IInv'
      BY <3>1, <3>4, CallWaitArrayOK
    <3>5. ASSUME NEW h \in Slots, Signal(h) PROVE IInv' BY <3>1, <3>5, SignalOK
    <3> QED BY <1>2, <2>2, <3>2, <3>3, <3>4, <3>5, StepSplit
  <2> QED BY <2>1, <2>2 DEF Inv
<1> QED BY <1>1, <1>2

LEMMA Invariance == Spec => []Inv
<1> QED BY InitOK, NextOK, PTL DEF Spec

-----------------------------------------------------------------------------
(* The theorems.                                                           *)

\* The table keeps its type as long as no client is reset: no count of a join
\* fence goes below 0 and no list of parents overflows, whatever the size of
\* the table and the hash.
THEOREM TableTyped == Spec => [](resets = 0 => TypeOK)
<1>1. Inv => (resets = 0 => TypeOK) BY DEF Inv, IInv, Types
<1> QED BY <1>1, Invariance, PTL

\* As long as no client is reset, a client registered with a fence that was
\* signalled has been told: the fence is looked at again under its lock by
\* who registers, and the signal tells who is registered.
THEOREM NobodyForgotten == Spec => [](resets = 0 => WaitersTold)
<1>1. Inv => (resets = 0 => WaitersTold) BY DEF Inv, IInv
<1> QED BY <1>1, Invariance, PTL

\* A join fence is a parent only of fences of its array.
LinksBelong == \A p \in Slots : \A h \in Linked(p) : KeepsAlive(tbl[p].key, tbl[h].key)

\* As long as no client is reset, what is undone, ends or is destroyed leaves no
\* link behind that would count down the join fence that takes the slot next.
THEOREM NoStaleParent == Spec => [](resets = 0 => LinksBelong)
<1>1. ASSUME IInv PROVE LinksBelong
  <2> SUFFICES ASSUME NEW p \in Slots, NEW h \in Linked(p) PROVE KeepsAlive(tbl[p].key, tbl[h].key)
    BY DEF LinksBelong
  <2>1. tbl[p].key \in Arrays BY <1>1 DEF IInv, LinkOK
  <2>2. PICK n \in 0..Len(Kids[tbl[p].key]) : Counts(p, n) BY <1>1, <2>1 DEF IInv, CountOK
  <2>3. PICK j \in 1..n : tbl[h].key = Kids[tbl[p].key][j] BY <2>2 DEF Counts, Within
  <2>4. j \in 1..Len(Kids[tbl[p].key]) BY <2>1, <2>2, <2>3, KidsFacts
  <2> QED BY <2>1, <2>3, <2>4, KeepsFence
<1>2. Inv => (resets = 0 => LinksBelong) BY <1>1 DEF Inv
<1> QED BY <1>2, Invariance, PTL

LEMMA ToldLate ==
    ASSUME Inv, [Next]_vars, resets' = 0, NEW c \in Clients, NEW a \in Arrays,
           <<c, a>> \in told', <<c, a>> \notin told
    PROVE  \A i \in DOMAIN Kids[a] : Kids[a][i] \in was'
<1>1. DOMAIN Kids[a] = 1..Len(Kids[a]) /\ a \notin Fences BY KidsFacts
<1>2. Next BY DEF vars
<1>3. IInv BY <1>2, StepSplit
<1>4. ASSUME NEW d \in Clients, Register(d) PROVE FALSE
  <2>1. PICK h \in Slots : h = th[d].h BY <1>3 DEF IInv, Types, Thread
  <2>2. told' = told \cup ((IF tbl[h].signal THEN {d} ELSE {}) \X {tbl[h].key})
    BY <1>4, <2>1 DEF Register, Tell
  <2>3. tbl[h].signal /\ tbl[h].key = a BY <2>2
  <2> QED BY <1>1, <1>3, <2>3 DEF IInv, SlotOK
<1>5. ASSUME NEW d \in Clients, Joined(d) PROVE \A i \in DOMAIN Kids[a] : Kids[a][i] \in was'
  <2>1. /\ th[d].at = "joined" /\ was' = was /\ th[d].signaled = Len(Kids[th[d].key])
        /\ told' = told \cup ({d} \X {tbl[th[d].join].key})
    BY <1>5 DEF Joined, At, Tell
  <2>2. a = tbl[th[d].join].key BY <2>1
  <2>3. Tally(d, Len(Kids[th[d].key])) BY <1>3, <2>1 DEF IInv, JoinOK
  <2>4. a = th[d].key /\ \A j \in 1..Len(Kids[th[d].key]) : Kids[th[d].key][j] \in was
    BY <2>1, <2>2, <2>3 DEF Tally, Owns
  <2> QED BY <1>1, <2>1, <2>4
<1>6. ASSUME NEW h \in Slots, Signal(h) PROVE \A i \in DOMAIN Kids[a] : Kids[a][i] \in was'
  <2>1. PICK P : P = Parents(h) OBVIOUS
  <2>2. PICK E : E = Ended(h) OBVIOUS
  <2>3. PICK f : f = tbl[h].key OBVIOUS
  <2>4. Signals(h, f, P, E) BY <1>3, <1>6, <2>1, <2>2, <2>3, SignalFacts
  <2>5. /\ f \in Fences /\ ~tbl[h].signal /\ was' = was \cup {f}
        /\ told' = told \cup (tbl[h].waiters \X {f})
                        \cup UNION {tbl[p].waiters \X {tbl[p].key} : p \in E}
    BY <2>4 DEF Signals
  <2>6. <<c, a>> \notin tbl[h].waiters \X {f} BY <1>1, <2>5
  <2>7. PICK p \in E : <<c, a>> \in tbl[p].waiters \X {tbl[p].key} BY <2>5, <2>6
  <2>8. a = tbl[p].key BY <2>7
  <2>9. \A j \in 1..Len(Kids[a]) : Kids[a][j] \in was \/ Kids[a][j] = tbl[h].key
    BY <1>3, <2>2, <2>3, <2>5, <2>8, EndedFacts
  <2> QED BY <1>1, <2>3, <2>5, <2>9
<1>7. ASSUME NEW d \in Clients, Probe(d) \/ Mask(d) \/ Child(d) \/ Unlink(d) PROVE FALSE
  BY <1>7 DEF Probe, Mask, Child, Unlink
<1>8. ASSUME NEW d \in Clients, NEW f \in Fences,
             CallCreate(d, f) \/ CallDestroy(d, f) \/ CallWait(d, f)
      PROVE  FALSE
  BY <1>8 DEF CallCreate, CallDestroy, CallWait
<1>9. ASSUME NEW d \in Clients, NEW b \in Arrays, CallWaitArray(d, b) PROVE FALSE
  BY <1>9 DEF CallWaitArray
<1> QED BY <1>2, <1>4, <1>5, <1>6, <1>7, <1>8, <1>9, StepSplit

\* A client is told of an array only when all its fences are signalled,
\* whoever tells it: the driver that found them all signalled while it linked
\* them, or the fence controller by the last one.
THEOREM ToldOnlyWhenAll == Spec => JoinNotEarly
<1> DEFINE A == resets' = 0 => \A c \in Clients, a \in Arrays :
                    <<c, a>> \in told' \ told => \A i \in DOMAIN Kids[a] : Kids[a][i] \in was'
<1>1. Inv /\ [Next]_vars => [A]_vars
  <2>1. Inv /\ [Next]_vars => A BY ToldLate
  <2> QED BY <2>1
<1>2. Spec => [][A]_vars BY <1>1, Invariance, PTL DEF Spec
<1> QED BY <1>2 DEF JoinNotEarly
=============================================================================
