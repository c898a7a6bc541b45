------------------------------ MODULE HwFence ------------------------------
(***************************************************************************)
(* The table of HW fences (mm-drivers/hw_fence, hw_fence_drv_priv.c and    *)
(* msm_hw_fence.c), shared by the drivers of the clients and the fence     *)
(* controller. A fence is found by linear probing from its hash, one slot  *)
(* under its lock at a time; the slot is locked again to be used. A fence  *)
(* array becomes a join fence, which counts the fences that are pending    *)
(* and is the parent of each of them; what fails half-way is undone.       *)
(*                                                                         *)
(* Each critical section of a slot's lock is one step; the join's lock     *)
(* nests in that of the child. The fence controller is external: it        *)
(* signals a fence, tells the clients that wait for it and counts down the *)
(* parents. To tell a client is to write its Rx queue, if there is room,   *)
(* and to send the IPC; the queue itself is left out.                      *)
(***************************************************************************)
EXTENDS Naturals, Sequences, FiniteSets

CONSTANTS
    Clients,      \* the clients, each with one driver thread
    Fences,       \* the dma fences, a context and a seqno each
    Arrays,       \* the fence arrays, a context and a seqno each
    Kids,         \* the fences of an array, a sequence
    Owner,        \* the client whose driver creates and destroys a fence
    Waiters,      \* the clients whose drivers wait
    Home,         \* the hash of a fence or an array
    TableSize,    \* hw_fence_table_entries
    MaxParents,   \* MSM_HW_FENCE_MAX_JOIN_PARENTS
    MaxResets,    \* bound on the calls of msm_hw_fence_reset_client
    NoOne

Keys == Fences \cup Arrays
Slots == 0..(TableSize - 1)

ASSUME TableAssumption ==
    /\ TableSize \in Nat \ {0} /\ MaxParents \in Nat \ {0}
    /\ MaxResets \in Nat /\ Owner \in [Fences -> Clients] /\ Waiters \subseteq Clients
    /\ Home \in [Keys -> Slots]
    /\ Kids \in [Arrays -> Seq(Fences)] /\ \A a \in Arrays : Kids[a] # <<>>
    /\ Fences \cap Arrays = {}
    /\ NoOne \notin Keys \cup Clients \cup Slots

VARIABLES
    tbl,      \* hw_fences_tbl
    enabled,  \* the dma fences with MSM_HW_FENCE_FLAG_ENABLED_BIT
    told,     \* the waits that were answered: a client and a fence or array
    was,      \* the fences that have been signalled since they were created
    resets,   \* the resets so far
    th        \* the driver threads

vars == <<tbl, enabled, told, was, resets, th>>

\* _cleanup_hw_fence, and valid = 0.
FreeSlot == [valid |-> FALSE, key |-> NoOne, waiters |-> {}, alloc |-> NoOne,
             signal |-> FALSE, parents |-> [i \in 1..MaxParents |-> NoOne],
             cnt |-> 0, pending |-> 0]

Ready == [at |-> "idle", key |-> NoOne, step |-> 0, h |-> 0, join |-> 0,
          i |-> 0, signaled |-> 0]

Init ==
    /\ tbl = [h \in Slots |-> FreeSlot]
    /\ enabled = {} /\ told = {} /\ was = {}
    /\ resets = 0
    /\ th = [c \in Clients |-> Ready]

At(c, at) == th[c].at = at

\* A lookup begins at the hash.
LookUp(t, at) == [t EXCEPT !.at = at, !.step = 0, !.h = IF at = "reset_destroy" THEN @ ELSE 0]

\* _signal_all_wait_clients and the answer to a client that waits.
Tell(cs, key) == told' = told \cup (cs \X {key})

-----------------------------------------------------------------------------
(* The calls: msm_hw_fence_create, _destroy, _wait_update, _reset_client.  *)

Call(c, at, key) == th' = [th EXCEPT ![c] = [Ready EXCEPT !.at = at, !.key = key]]

\* A caller has a reference to the dma fence, and so has who waits for an
\* array to each of its fences.
KeepsAlive(key, f) == key = f \/ (key \in Arrays /\ \E i \in DOMAIN Kids[key] : Kids[key][i] = f)
Busy(f) == \/ \E c \in Clients : th[c].at # "idle" /\ KeepsAlive(th[c].key, f)
           \/ \E h \in Slots : tbl[h].key \in Arrays /\ KeepsAlive(tbl[h].key, f)

\* The dma fence is not on its way out.
Alive(key) == \A c \in Clients : At(c, "destroy") => ~KeepsAlive(key, th[c].key)

CallCreate(c, f) ==
    /\ At(c, "idle") /\ c = Owner[f] /\ f \notin enabled /\ ~Busy(f)
    /\ Call(c, "create", f)
    /\ UNCHANGED <<tbl, enabled, told, was, resets>>

\* By the release of the dma fence: it is signalled and has no reference left.
CallDestroy(c, f) ==
    /\ At(c, "idle") /\ c = Owner[f] /\ f \in enabled /\ ~Busy(f) /\ f \in was
    /\ Call(c, "destroy", f)
    /\ was' = was \ {f}
    /\ told' = {w \in told : w[2] # f}
    /\ UNCHANGED <<tbl, enabled, resets>>

\* hw_fence_process_fence: of a HW fence only.
CallWait(c, f) ==
    /\ At(c, "idle") /\ c \in Waiters /\ f \in enabled /\ Alive(f)
    /\ Call(c, "find", f)
    /\ UNCHANGED <<tbl, enabled, told, was, resets>>

\* hw_fence_process_fence_array, for an array that is not waited for already.
CallWaitArray(c, a) ==
    /\ At(c, "idle") /\ c \in Waiters /\ ~Busy(a) /\ Alive(a)
    /\ Call(c, "join", a)
    /\ told' = {w \in told : w[2] # a}
    /\ UNCHANGED <<tbl, enabled, was, resets>>

CallReset(c) ==
    /\ At(c, "idle") /\ resets < MaxResets
    /\ Call(c, "reset", NoOne)
    /\ resets' = resets + 1
    /\ UNCHANGED <<tbl, enabled, told, was>>

-----------------------------------------------------------------------------
(* _hw_fence_lookup_and_process.                                           *)

Creating == {"create", "join"}
Matching == {"destroy", "find", "kid", "undo", "join_destroy", "reset_destroy"}

\* The context and seqno a thread looks for.
Wanted(c) == IF th[c].at \in {"kid", "undo"} THEN Kids[th[c].key][th[c].i]
             ELSE th[c].key

\* _calculate_hash.
Hash(c) == (Home[Wanted(c)] + th[c].step) % TableSize

\* The next slot of msm_hw_fence_reset_client.
ResetNext(t) == IF t.h + 1 = TableSize THEN Ready
                ELSE [Ready EXCEPT !.at = "reset", !.h = t.h + 1]

\* _cleanup_join_and_child_fences, from the fence i back to the first.
UndoFrom(t, i) == IF i = 0 THEN LookUp(t, "join_destroy")
                  ELSE [LookUp(t, "undo") EXCEPT !.i = i]

\* The lookup has found the slot; the thread goes on.
Found(t, h) ==
    CASE t.at = "find" -> [t EXCEPT !.at = "register", !.h = h]
      [] t.at = "join" -> [t EXCEPT !.at = "mask", !.join = h]
      [] t.at = "kid" -> [t EXCEPT !.at = "child", !.h = h]
      [] t.at = "undo" -> [t EXCEPT !.at = "unlink", !.h = h]
      [] t.at = "reset_destroy" -> ResetNext(t)
      [] OTHER -> Ready

\* It has not.
Missed(t) ==
    CASE t.at = "kid" -> UndoFrom(t, t.i)
      [] t.at = "undo" -> UndoFrom(t, t.i - 1)
      [] t.at = "reset_destroy" -> ResetNext(t)
      [] OTHER -> Ready

\* _reserve_hw_fence and _reserve_join_fence.
Reserved(c) ==
    [FreeSlot EXCEPT !.valid = TRUE, !.key = th[c].key,
                     !.alloc = IF th[c].at = "create" THEN c ELSE NoOne,
                     !.pending = IF th[c].at = "join" THEN Len(Kids[th[c].key]) ELSE 0]

\* _is_hw_fence_free or _hw_fence_match.
Compare(c, h) == IF th[c].at \in Creating THEN ~tbl[h].valid
                 ELSE tbl[h].key = Wanted(c)

\* One turn of the loop, under the lock of one slot.
Probe(c) ==
    LET h == Hash(c)
        t == th[c]
        hit == Compare(c, h)
        same == t.at \in Creating /\ tbl[h].key = t.key
    IN /\ t.at \in Creating \cup Matching
       /\ th' = [th EXCEPT ![c] = IF hit THEN Found([t EXCEPT !.step = 0], h)
                                  ELSE IF same \/ t.step + 1 = TableSize THEN Missed(t)
                                  ELSE [t EXCEPT !.step = @ + 1]]
       /\ tbl' = CASE hit /\ t.at \in Creating -> [tbl EXCEPT ![h] = Reserved(c)]
                   [] hit /\ t.at \in {"destroy", "join_destroy", "reset_destroy"} ->
                          [tbl EXCEPT ![h] = FreeSlot]
                   [] OTHER -> tbl
       /\ enabled' = CASE hit /\ t.at = "create" -> enabled \cup {t.key}
                       [] hit /\ t.at = "destroy" -> enabled \ {t.key}
                       [] OTHER -> enabled
       /\ UNCHANGED <<told, was, resets>>

-----------------------------------------------------------------------------
(* hw_fence_register_wait_client.                                          *)

\* Mutant: a fence that is signalled already is not looked at.
RegisterOnly(c) ==
    LET h == th[c].h
    IN /\ At(c, "register")
       /\ tbl' = [tbl EXCEPT ![h].waiters = @ \cup {c}]
       /\ th' = [th EXCEPT ![c] = Ready]
       /\ UNCHANGED <<enabled, told, was, resets>>

Register(c) ==
    LET h == th[c].h
    IN /\ At(c, "register")
       /\ tbl' = [tbl EXCEPT ![h].waiters = @ \cup {c}]
       /\ Tell(IF tbl[h].signal THEN {c} ELSE {}, tbl[h].key)
       /\ th' = [th EXCEPT ![c] = Ready]
       /\ UNCHANGED <<enabled, was, resets>>

-----------------------------------------------------------------------------
(* hw_fence_process_fence_array.                                           *)

\* The next fence of the array: it must be a HW fence.
NextKid(t) == IF t.i = Len(Kids[t.key]) THEN [t EXCEPT !.at = "joined"]
              ELSE IF Kids[t.key][t.i + 1] \in enabled
              THEN [LookUp(t, "kid") EXCEPT !.i = @ + 1]
              ELSE UndoFrom(t, t.i + 1)

Mask(c) ==
    /\ At(c, "mask")
    /\ tbl' = [tbl EXCEPT ![th[c].join].waiters = @ \cup {c}]
    /\ th' = [th EXCEPT ![c] = NextKid(@)]
    /\ UNCHANGED <<enabled, told, was, resets>>

\* Mutant: one parent more than the list is meant to hold.
ChildFull(c) ==
    LET t == th[c]
        kid == tbl[t.h]
    IN /\ At(c, "child")
       /\ \/ /\ kid.signal
             /\ tbl' = [tbl EXCEPT ![t.join].pending = @ - 1]
             /\ th' = [th EXCEPT ![c] = NextKid([t EXCEPT !.signaled = @ + 1])]
          \/ /\ ~kid.signal /\ kid.cnt < MaxParents
             /\ tbl' = [tbl EXCEPT ![t.h] = [kid EXCEPT !.cnt = @ + 1,
                                                        !.parents[kid.cnt + 1] = t.join]]
             /\ th' = [th EXCEPT ![c] = NextKid(t)]
    /\ UNCHANGED <<enabled, told, was, resets>>

\* The child, under its lock: counted down if it is signalled, else the join
\* fence becomes one of its parents, if there is room.
Child(c) ==
    LET t == th[c]
        kid == tbl[t.h]
    IN /\ At(c, "child")
       /\ \/ /\ kid.signal
             /\ tbl' = [tbl EXCEPT ![t.join].pending = @ - 1]
             /\ th' = [th EXCEPT ![c] = NextKid([t EXCEPT !.signaled = @ + 1])]
          \/ /\ ~kid.signal /\ kid.cnt + 1 < MaxParents
             /\ tbl' = [tbl EXCEPT ![t.h] = [kid EXCEPT !.cnt = @ + 1,
                                                        !.parents[kid.cnt + 1] = t.join]]
             /\ th' = [th EXCEPT ![c] = NextKid(t)]
          \/ /\ ~kid.signal /\ kid.cnt + 1 >= MaxParents
             /\ th' = [th EXCEPT ![c] = UndoFrom(t, t.i)]
             /\ UNCHANGED tbl
    /\ UNCHANGED <<enabled, told, was, resets>>

\* Mutant: the undo destroys the join fence and leaves the children alone.
UnlinkNot(c) ==
    /\ At(c, "unlink")
    /\ th' = [th EXCEPT ![c] = UndoFrom(th[c], th[c].i - 1)]
    /\ UNCHANGED <<tbl, enabled, told, was, resets>>

\* The child leaves the join fence: the entries of the list become invalid
\* where they are, the count goes down.
Unlink(c) ==
    LET t == th[c]
        mine == {j \in 1..tbl[t.h].cnt : tbl[t.h].parents[j] = t.join}
    IN /\ At(c, "unlink")
       /\ tbl' = [tbl EXCEPT ![t.h].parents = [j \in 1..MaxParents |->
                                                  IF j \in mine THEN NoOne ELSE @[j]],
                             ![t.h].cnt = @ - Cardinality(mine)]
       /\ th' = [th EXCEPT ![c] = UndoFrom(t, t.i - 1)]
       /\ UNCHANGED <<enabled, told, was, resets>>

\* Mutant: a pending count of 0 is taken for the end.
JoinedEarly(c) ==
    /\ At(c, "joined")
    /\ Tell({c}, tbl[th[c].join].key)
    /\ th' = [th EXCEPT ![c] = LookUp(th[c], "join_destroy")]
    /\ UNCHANGED <<tbl, enabled, was, resets>>

\* "all fences were signaled, signal client now".
Joined(c) ==
    LET t == th[c]
    IN /\ At(c, "joined")
       /\ \/ /\ t.signaled = Len(Kids[t.key])
             /\ Tell({c}, tbl[t.join].key)
             /\ th' = [th EXCEPT ![c] = LookUp(t, "join_destroy")]
          \/ /\ t.signaled # Len(Kids[t.key])
             /\ th' = [th EXCEPT ![c] = Ready]
             /\ UNCHANGED told
       /\ UNCHANGED <<tbl, enabled, was, resets>>

-----------------------------------------------------------------------------
(* hw_fence_utils_cleanup_fence, for one slot after the other.             *)

ResetSlot(c) ==
    LET h == th[c].h
    IN /\ At(c, "reset")
       /\ tbl' = [tbl EXCEPT ![h].waiters = @ \ {c}]
       /\ th' = [th EXCEPT ![c].at = "reset_tell"]
       /\ UNCHANGED <<enabled, told, was, resets>>

\* Without the lock; the fence is destroyed or, by a flag of the call, kept.
ResetTell(c) ==
    LET t == th[c]
        s == tbl[t.h]
    IN /\ At(c, "reset_tell")
       /\ \/ /\ s.alloc # c
             /\ th' = [th EXCEPT ![c] = ResetNext(t)]
             /\ UNCHANGED told
          \/ /\ s.alloc = c
             /\ Tell(IF s.signal THEN {} ELSE s.waiters, s.key)
             /\ \E at \in {"next", "reset_destroy"} :
                    th' = [th EXCEPT ![c] = IF at = "next" THEN ResetNext(t)
                                            ELSE [LookUp(t, at) EXCEPT !.key = s.key]]
       /\ UNCHANGED <<tbl, enabled, was, resets>>

-----------------------------------------------------------------------------
(* The fence controller (external).                                        *)

Signal(h) ==
    LET s == tbl[h]
        parents == {p \in Slots : \E i \in 1..s.cnt : s.parents[i] = p}
        ends == {p \in parents : tbl[p].pending = 1}
    IN /\ s.valid /\ s.key \in Fences /\ ~s.signal
       /\ tbl' = [g \in Slots |->
                     CASE g = h -> [s EXCEPT !.signal = TRUE]
                       [] g \in ends -> FreeSlot
                       [] g \in parents \ ends -> [tbl[g] EXCEPT !.pending = @ - 1]
                       [] OTHER -> tbl[g]]
       /\ told' = told \cup (s.waiters \X {s.key})
                       \cup UNION {tbl[p].waiters \X {tbl[p].key} : p \in ends}
       /\ was' = was \cup {s.key}
       /\ UNCHANGED <<enabled, resets, th>>

-----------------------------------------------------------------------------
Step(c) ==
    \/ Probe(c) \/ Register(c) \/ Mask(c) \/ Child(c) \/ Unlink(c) \/ Joined(c)
    \/ ResetSlot(c) \/ ResetTell(c)

Next ==
    \/ \E c \in Clients : Step(c) \/ CallReset(c)
    \/ \E c \in Clients, f \in Fences : CallCreate(c, f) \/ CallDestroy(c, f) \/ CallWait(c, f)
    \/ \E c \in Clients, a \in Arrays : CallWaitArray(c, a)
    \/ \E h \in Slots : Signal(h)

Spec == Init /\ [][Next]_vars

-----------------------------------------------------------------------------
(* Properties.                                                             *)

TypeOK ==
    /\ tbl \in [Slots -> [valid : BOOLEAN, key : Keys \cup {NoOne},
                          waiters : SUBSET Clients, alloc : Clients \cup {NoOne},
                          signal : BOOLEAN, parents : [1..MaxParents -> Slots \cup {NoOne}],
                          cnt : 0..(MaxParents - 1), pending : Nat]]
    /\ enabled \subseteq Fences
    /\ told \subseteq Clients \X (Keys \cup {NoOne})

\* What a join fence counts is what can still end it: the fences of its array
\* that its thread has not come to, and the unsignalled ones it is a parent of;
\* and it is a parent of no other. A child may signal, and so free the join
\* fence, while the thread links the next one, and a link that fails is undone.
\* A reset takes slots from under all this, and is left out.
Linked(p) == {h \in Slots : tbl[h].valid /\ ~tbl[h].signal
                             /\ \E i \in 1..tbl[h].cnt : tbl[h].parents[i] = p}
Linking(c, p) == th[c].join = p /\ th[c].at \in {"mask", "kid", "child"}
Undoing(c, p) == th[c].join = p /\ th[c].at \in {"undo", "unlink", "join_destroy"}
ToCome(p) == {w \in Clients \X (1..Cardinality(Fences)) :
                 /\ Linking(w[1], p)
                 /\ w[2] >= th[w[1]].i /\ w[2] <= Len(Kids[th[w[1]].key])}

JoinAccounts ==
    resets = 0 => \A p \in Slots :
        /\ \A h \in Linked(p) : KeepsAlive(tbl[p].key, tbl[h].key)
        /\ tbl[p].key \in Arrays /\ (\A c \in Clients : ~Undoing(c, p)) =>
               tbl[p].pending = Cardinality(Linked(p)) + Cardinality(ToCome(p))

\* No client waits in vain on a single fence: a client that is registered with
\* a signalled fence has been told.
WaitersTold ==
    \A h \in Slots : tbl[h].signal /\ tbl[h].key \in was =>
        \A c \in tbl[h].waiters : <<c, tbl[h].key>> \in told

\* A client is told of an array only when all its fences are signalled, as
\* long as no reset takes a slot from between a lookup and its use.
JoinNotEarly ==
    [][ resets' = 0 => \A c \in Clients, a \in Arrays :
            <<c, a>> \in told' \ told => \A i \in DOMAIN Kids[a] : Kids[a][i] \in was' ]_vars
=============================================================================
