--------------------------- MODULE KgslTimeline ---------------------------
(***************************************************************************)
(* A software timeline of the GPU driver (kgsl_timeline.c): a value that   *)
(* only grows, and dma fences that wait for it. A thread signals the       *)
(* timeline, others add fences and drop them, the owner destroys it; the   *)
(* object goes away with its last reference, and every fence holds one.    *)
(*                                                                         *)
(* Two locks nest: lock, which is also the lock of every fence and is held *)
(* over several steps here, and fence_lock, which protects the list and    *)
(* whose critical sections are single steps. A reference count is left to  *)
(* 0 before the release callback removes the fence from the list, so the   *)
(* list may hold dying fences.                                             *)
(***************************************************************************)
EXTENDS Naturals, Sequences, SequencesExt, FiniteSets

CONSTANTS
    Threads,
    Fences,    \* the fence objects, each of them allocated once at most
    MaxValue,  \* bound: the values signalled and waited for are 0..MaxValue
    NoOne

Values == 0..MaxValue

\* The user of a fence is an actor of its own, named by the fence.
Actors == Threads \cup Fences

ASSUME TimelineAssumption ==
    /\ MaxValue \in Nat \ {0}
    /\ IsFiniteSet(Threads) /\ IsFiniteSet(Fences) /\ Threads \cap Fences = {}
    /\ NoOne \notin Threads \cup Fences

VARIABLES
    idr,     \* what the id leads to: "none", "blank" (NULL), "live", "gone"
    ref,     \* kgsl_timeline.ref
    value,
    fences,  \* the list of active fences
    lock,    \* the holder of kgsl_timeline.lock
    fence,   \* the dma fences
    th       \* the threads: the step of their call, their list, their release

vars == <<idr, ref, value, fences, lock, fence, th>>

NoFence == [st |-> "unused", seqno |-> 0, refs |-> 0, user |-> FALSE,
            signaled |-> FALSE, error |-> FALSE]

Ready == [at |-> "idle", f |-> NoOne, seqno |-> 0, temp |-> <<>>,
          rel |-> NoOne, unlinked |-> FALSE]

Init ==
    /\ idr = "none"
    /\ ref = 0
    /\ value \in Values
    /\ fences = <<>>
    /\ lock = NoOne
    /\ fence = [f \in Fences |-> NoFence]
    /\ th = [t \in Actors |-> Ready]

At(t, at) == th[t].at = at /\ th[t].rel = NoOne

Goto(t, at) == th' = [th EXCEPT ![t].at = at]

Return(t) == th' = [th EXCEPT ![t] = Ready]

\* The elements of a list that are in a set, in their order: the k-th is the
\* one at the place with k places of such elements up to it.
Kept(s, S) ==
    LET places == {i \in DOMAIN s : s[i] \in S}
        rank == [i \in places |-> Cardinality({j \in places : j <= i})]
    IN [k \in 1..Cardinality(places) |-> s[CHOOSE i \in places : rank[i] = k]]

\* timeline_fence_signaled.
Reached(f, v) == fence[f].seqno <= v

-----------------------------------------------------------------------------
(* kgsl_timeline_alloc and kgsl_ioctl_timeline_create: the id first, the   *)
(* pointer in a second critical section of timelines_lock.                 *)

Alloc(t) ==
    /\ At(t, "idle") /\ idr = "none"
    /\ idr' = "blank"
    /\ ref' = 1
    /\ Goto(t, "create")
    /\ UNCHANGED <<value, fences, lock, fence>>

Commit(t) ==
    /\ At(t, "create")
    /\ idr' = "live"
    /\ Return(t)
    /\ UNCHANGED <<ref, value, fences, lock, fence>>

-----------------------------------------------------------------------------
(* kgsl_timeline_by_id for a call that signals or allocates a fence, and   *)
(* the kgsl_timeline_put at its end.                                       *)

ById(t, at, f, n) ==
    /\ At(t, "idle")
    /\ idr = "live" /\ ref > 0
    /\ ref' = ref + 1
    /\ th' = [th EXCEPT ![t] = [Ready EXCEPT !.at = at, !.f = f, !.seqno = n]]
    /\ UNCHANGED <<idr, value, fences, lock, fence>>

\* Mutant: a reference too many is dropped.
PutTwice(t) ==
    /\ At(t, "put")
    /\ ref' = ref - 2
    /\ Return(t)
    /\ UNCHANGED <<idr, value, fences, lock, fence>>

Put(t) ==
    /\ At(t, "put")
    /\ ref' = ref - 1
    /\ Return(t)
    /\ UNCHANGED <<idr, value, fences, lock, fence>>

-----------------------------------------------------------------------------
(* kgsl_timeline_fence_alloc.                                              *)

\* Mutant: the fence has no reference to its timeline.
FenceAllocNoGet(t) ==
    /\ At(t, "alloc")
    /\ fence' = [fence EXCEPT ![th[t].f] =
                    [NoFence EXCEPT !.st = "live", !.seqno = th[t].seqno, !.refs = 1]]
    /\ Goto(t, "add")
    /\ UNCHANGED <<idr, ref, value, fences, lock>>

FenceAlloc(t) ==
    /\ At(t, "alloc")
    /\ ref' = ref + 1
    /\ fence' = [fence EXCEPT ![th[t].f] =
                    [NoFence EXCEPT !.st = "live", !.seqno = th[t].seqno, !.refs = 1]]
    /\ Goto(t, "add")
    /\ UNCHANGED <<idr, value, fences, lock>>

\* kgsl_timeline_add_fence: before the first fence with a larger seqno.
AddFence(f) ==
    LET later == {i \in DOMAIN fences : fence[f].seqno < fence[fences[i]].seqno}
        at == IF later = {} THEN Len(fences) + 1
              ELSE CHOOSE i \in later : \A j \in later : i <= j
    IN InsertAt(fences, at, f)

\* Checked and added under the lock; a fence that has passed is signalled.
FenceAdd(t) ==
    LET f == th[t].f
    IN /\ At(t, "add") /\ lock = NoOne
       /\ fences' = IF Reached(f, value) THEN fences ELSE AddFence(f)
       /\ fence' = [fence EXCEPT ![f].signaled = Reached(f, value), ![f].user = TRUE]
       /\ Goto(t, "put")
       /\ UNCHANGED <<idr, ref, value, lock>>

-----------------------------------------------------------------------------
(* The users of a fence: dma_fence_is_signaled, and dma_fence_put with     *)
(* timeline_fence_release.                                                 *)

Poll(f) ==
    /\ fence[f].user /\ ~fence[f].signaled /\ Reached(f, value)
    /\ lock = NoOne
    /\ fence' = [fence EXCEPT ![f].signaled = TRUE]
    /\ UNCHANGED <<idr, ref, value, fences, lock, th>>

\* dma_fence_put of a fence by a thread, the rest of its state given.
PutFence(t, f, state) ==
    /\ fence' = [fence EXCEPT ![f] = [state EXCEPT !.refs = @ - 1]]
    /\ th' = [th EXCEPT ![t].rel = IF state.refs = 1 THEN f ELSE NoOne,
                        ![t].temp = IF @ = <<>> THEN @ ELSE Tail(@)]

Drop(f) ==
    /\ fence[f].user
    /\ PutFence(f, f, [fence[f] EXCEPT !.user = FALSE])
    /\ UNCHANGED <<idr, ref, value, fences, lock>>

\* Mutant: the list is left as it is.
ReleaseUnlinkNot(t) ==
    /\ th[t].rel # NoOne /\ ~th[t].unlinked
    /\ th' = [th EXCEPT ![t].unlinked = TRUE]
    /\ UNCHANGED <<idr, ref, value, fences, lock, fence>>

\* The fence leaves the list if it is still there, under fence_lock ...
ReleaseUnlink(t) ==
    /\ th[t].rel # NoOne /\ ~th[t].unlinked
    /\ fences' = Kept(fences, Fences \ {th[t].rel})
    /\ th' = [th EXCEPT ![t].unlinked = TRUE]
    /\ UNCHANGED <<idr, ref, value, lock, fence>>

\* ... and is freed with its reference to the timeline.
ReleaseFree(t) ==
    /\ th[t].rel # NoOne /\ th[t].unlinked
    /\ ref' = ref - 1
    /\ fence' = [fence EXCEPT ![th[t].rel].st = "free"]
    /\ th' = [th EXCEPT ![t].rel = NoOne, ![t].unlinked = FALSE]
    /\ UNCHANGED <<idr, value, fences, lock>>

-----------------------------------------------------------------------------
(* kgsl_timeline_signal.                                                   *)

SignalValue(t) ==
    /\ At(t, "signal") /\ lock = NoOne
    /\ IF th[t].seqno < value
       THEN Goto(t, "put") /\ UNCHANGED <<value, lock>>
       ELSE /\ value' = th[t].seqno
            /\ lock' = t
            /\ Goto(t, "collect")
    /\ UNCHANGED <<idr, ref, fences, fence>>

\* Mutant: kref_get.
GetAlways(f) == TRUE

\* kref_get_unless_zero: a fence whose count is 0 cannot be taken.
CanGet(f) == fence[f].refs > 0

\* A part of the list is taken over, with a reference to each fence.
Take(t, temp, at) ==
    /\ fence' = [f \in Fences |-> IF f \in ToSet(temp)
                                  THEN [fence[f] EXCEPT !.refs = @ + 1]
                                  ELSE fence[f]]
    /\ th' = [th EXCEPT ![t].temp = temp, ![t].at = at]

\* Mutant: a fence for the very value is left waiting.
CollectBelow(t) ==
    LET due == {f \in Fences : fence[f].seqno < value /\ CanGet(f)}
    IN /\ At(t, "collect")
       /\ Take(t, Reverse(Kept(fences, due)), "signal_loop")
       /\ fences' = Kept(fences, Fences \ due)
       /\ UNCHANGED <<idr, ref, value, lock>>

Collect(t) ==
    LET due == {f \in Fences : Reached(f, value) /\ CanGet(f)}
    IN /\ At(t, "collect")
       /\ Take(t, Reverse(Kept(fences, due)), "signal_loop")
       /\ fences' = Kept(fences, Fences \ due)
       /\ UNCHANGED <<idr, ref, value, lock>>

\* dma_fence_signal_locked and dma_fence_put, under the lock.
SignalOne(t) ==
    /\ At(t, "signal_loop") /\ th[t].temp # <<>>
    /\ LET f == Head(th[t].temp)
       IN PutFence(t, f, [fence[f] EXCEPT !.signaled = TRUE])
    /\ UNCHANGED <<idr, ref, value, fences, lock>>

Unlock(t) ==
    /\ At(t, "signal_loop") \/ At(t, "destroy_loop")
    /\ th[t].temp = <<>>
    /\ lock' = NoOne
    /\ Goto(t, "put")
    /\ UNCHANGED <<idr, ref, value, fences, fence>>

-----------------------------------------------------------------------------
(* kgsl_ioctl_timeline_destroy, with the reference of the id.              *)

Destroy(t) ==
    /\ At(t, "idle") /\ idr = "live"
    /\ idr' = "gone"
    /\ Goto(t, "sweep")
    /\ UNCHANGED <<ref, value, fences, lock, fence>>

\* Mutant: the list is emptied, and nobody takes the fences.
SweepForget(t) ==
    /\ At(t, "sweep")
    /\ Take(t, <<>>, "destroy_lock")
    /\ fences' = <<>>
    /\ UNCHANGED <<idr, ref, value, lock>>

Sweep(t) ==
    /\ At(t, "sweep")
    /\ Take(t, Kept(fences, {f \in Fences : CanGet(f)}), "destroy_lock")
    /\ fences' = <<>>
    /\ UNCHANGED <<idr, ref, value, lock>>

DestroyLock(t) ==
    /\ At(t, "destroy_lock") /\ lock = NoOne
    /\ lock' = t
    /\ Goto(t, "destroy_loop")
    /\ UNCHANGED <<idr, ref, value, fences, fence>>

\* The fence is signalled with the error -ENOENT.
DestroyOne(t) ==
    /\ At(t, "destroy_loop") /\ th[t].temp # <<>>
    /\ LET f == Head(th[t].temp)
       IN PutFence(t, f, [fence[f] EXCEPT !.signaled = TRUE, !.error = TRUE])
    /\ UNCHANGED <<idr, ref, value, fences, lock>>

-----------------------------------------------------------------------------
\* The steps an actor takes once it is in a call.
Release(t) == ReleaseUnlink(t) \/ ReleaseFree(t)

Step(t) ==
    \/ Commit(t) \/ Put(t) \/ FenceAlloc(t) \/ FenceAdd(t)
    \/ SignalValue(t) \/ Collect(t) \/ SignalOne(t) \/ Unlock(t)
    \/ Sweep(t) \/ DestroyLock(t) \/ DestroyOne(t)

\* A fence object that nobody has taken yet is the memory of a new fence.
Fresh(f) == fence[f].st = "unused" /\ \A t \in Threads : th[t].f # f

Call(t) ==
    \/ Alloc(t) \/ Destroy(t)
    \/ \E n \in Values : ById(t, "signal", NoOne, n)
    \/ \E f \in Fences, n \in Values : Fresh(f) /\ ById(t, "alloc", f, n)

Next ==
    \/ \E t \in Threads : Call(t) \/ Step(t)
    \/ \E t \in Actors : Release(t)
    \/ \E f \in Fences : Poll(f) \/ Drop(f)

Spec == Init /\ [][Next]_vars

\* A thread in a call runs on and gets the lock in the end; nobody has to
\* call, to poll or to drop a fence.
FairSpec ==
    /\ Spec
    /\ \A t \in Threads : SF_vars(Step(t)) /\ WF_vars(Release(t))

-----------------------------------------------------------------------------
(* Properties.                                                             *)

Points == {"idle", "create", "alloc", "add", "put", "signal", "collect",
           "signal_loop", "sweep", "destroy_lock", "destroy_loop"}

FenceRec == [st : {"unused", "live", "free"}, seqno : Values, refs : Nat,
             user : BOOLEAN, signaled : BOOLEAN, error : BOOLEAN]

ThreadRec == [at : Points, f : Fences \cup {NoOne}, seqno : Values,
              temp : Seq(Fences), rel : Fences \cup {NoOne}, unlinked : BOOLEAN]

TypeOK ==
    /\ idr \in {"none", "blank", "live", "gone"}
    /\ ref \in Nat
    /\ value \in Values
    /\ fences \in Seq(Fences)
    /\ lock \in Threads \cup {NoOne}
    /\ fence \in [Fences -> FenceRec]
    /\ th \in [Actors -> ThreadRec]

\* The timeline is owned by its id, by the threads in a call and by the fences
\* that are not freed.
InCall == {t \in Threads : th[t].at \notin {"idle", "create"}}

Allocated == {f \in Fences : fence[f].st = "live"}

\* Every reference has an owner and every owner its reference, through look-ups
\* that race with the destroy ioctl and releases from within the signal loop:
\* at 0 nobody may touch the timeline any more, and nobody leaks it.
RefExact ==
    ref = (IF idr \in {"blank", "live"} THEN 1 ELSE 0)
              + Cardinality(InCall) + Cardinality(Allocated)

\* Who is to signal a fence, who adds it and who releases it.
Signalling(f) == {t \in Threads : f \in ToSet(th[t].temp)}

Adding(f) == {t \in Threads : th[t].at = "add" /\ th[t].f = f}

Releasing(f) == {t \in Actors : th[t].rel = f}

\* A fence's count covers its user, the lists of the threads that are to signal
\* it and the thread that allocates it; at 0 exactly one of them releases it,
\* although until then a signaller or the destroy ioctl may find it on the list.
FenceRefs ==
    \A f \in Fences : fence[f].st = "live" =>
        /\ fence[f].refs = (IF fence[f].user THEN 1 ELSE 0)
               + Cardinality(Signalling(f)) + Cardinality(Adding(f))
        /\ Cardinality(Releasing(f)) = (IF fence[f].refs = 0 THEN 1 ELSE 0)

\* WARN_ON(!list_empty(&timeline->fences)) of kgsl_timeline_destroy, and more:
\* the list holds no fence that is freed, and it is sorted ("sorted list of
\* active fences", kgsl_timeline.h).
ListSound ==
    /\ idr # "none" /\ ref = 0 => fences = <<>>
    /\ \A i \in DOMAIN fences :
           /\ fence[fences[i]].st = "live"
           /\ \A j \in 1..(i - 1) : /\ fences[j] # fences[i]
                                    /\ fence[fences[j]].seqno <= fence[fences[i]].seqno

\* No fence is lost: one that somebody still uses and that is not signalled is
\* on the list, for a value to come, or on the list of a thread that is about
\* to signal it. (While a signaller has the lock its value is written and the
\* fences are not collected yet.)
NoLostFence ==
    \A f \in Fences : fence[f].user /\ ~fence[f].signaled =>
        \/ /\ f \in ToSet(fences)
           /\ lock = NoOne => ~Reached(f, value)
        \/ \E t \in Threads : f \in ToSet(th[t].temp)

\* A fence whose value is reached is signalled in the end, unless its user
\* drops it; whether the signaller or the destroy ioctl gets to it first.
FenceSignaled ==
    \A f \in Fences :
        (fence[f].user /\ Reached(f, value)) ~> (fence[f].signaled \/ ~fence[f].user)
=============================================================================
