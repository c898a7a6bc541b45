---------------------------- MODULE IpaPmProofs ----------------------------
(***************************************************************************)
(* Proofs about IpaPm for any number of clients, callers and suspenders.   *)
(* What each theorem needs of the drivers is stated with it: some hold for *)
(* all of them, some for drivers that use one kind of calls per client.    *)
(***************************************************************************)
EXTENDS IpaPm, FiniteLemmas

USE DEF At, Goto, Step, Return, SetState, queues, clock, threads, suspend

\* The names of the actors.
LEMMA Handles ==
    /\ Async \subseteq Clients /\ Sync \subseteq Clients /\ Skip \subseteq Clients
    /\ Callers \subseteq Threads /\ Suspenders \subseteq Threads
    /\ Wq \in Threads /\ Atomic \subseteq Callers /\ Sync \subseteq Callers
    /\ Wq \notin Callers /\ Wq \notin Suspenders
    /\ Callers \cap Suspenders = {} /\ Atomic \cap Sync = {}
    /\ NoClient \notin Clients
BY HandlesAssumption, PmThreadsAssumption DEF Threads, Callers

LEMMA ThreadsFinite == IsFiniteSet(Threads)
<1>1. IsFiniteSet(Sync) BY HandlesAssumption, FS_Subset
<1>2. IsFiniteSet(Atomic \cup Sync) BY <1>1, PmThreadsAssumption, FS_Union
<1>3. IsFiniteSet((Atomic \cup Sync) \cup Suspenders)
  BY <1>2, PmThreadsAssumption, FS_Union
<1> QED BY <1>3, FS_AddElement DEF Threads, Callers

\* Devote, case by case.
LEMMA DevoteCases ==
    ASSUME NEW t \in Threads, NEW c \in Clients, Devote(t, c)
    PROVE  /\ \/ At(t, "undo_dec", c) /\ Return(t)
              \/ At(t, "timer_dec", c) /\ Goto(t, "timer_bit", c)
              \/ At(t, "off_dec", c) /\ Goto(t, "off_set", c)
              \/ At(t, "all_dec", c) /\ Goto(t, "all_bit", c)
           /\ DropVote(c)
           /\ UNCHANGED <<skip, state, done, bits, queues, other, plan, thr,
                          suspend>>
           /\ ResetIfGated
BY DEF Devote, AfterDevote

\* DeactivateClient, case by case.
LEMMA ClearCases ==
    ASSUME NEW t \in Threads, NEW c \in Clients, DeactivateClient(t, c)
    PROVE  /\ \/ At(t, "timer_bit", c) /\ Goto(t, "scale", NoClient)
              \/ At(t, "off_bit", c) /\ Goto(t, "scale", NoClient)
              \/ At(t, "all_bit", c) /\ Goto(t, "idle", NoClient)
           /\ bits' = bits \ {c}
           /\ UNCHANGED <<skip, state, done, votes, awake, queues, clock,
                          suspend>>
<1>1. DOMAIN AfterClear = {"timer_bit", "off_bit", "all_bit"} BY DEF AfterClear
<1>2. PICK p \in DOMAIN AfterClear : At(t, p, c) /\ Goto(t, AfterClear[p], NoClient)
  BY DEF DeactivateClient
<1>3. /\ AfterClear["timer_bit"] = "scale" /\ AfterClear["off_bit"] = "scale"
      /\ AfterClear["all_bit"] = "idle"
  BY DEF AfterClear
<1>4. \/ At(t, "timer_bit", c) /\ Goto(t, "scale", NoClient)
      \/ At(t, "off_bit", c) /\ Goto(t, "scale", NoClient)
      \/ At(t, "all_bit", c) /\ Goto(t, "idle", NoClient)
  BY <1>1, <1>2, <1>3
<1> QED BY <1>4 DEF DeactivateClient

-----------------------------------------------------------------------------
\* The types hold in every use of the calls.
LEMMA TypesNext == ASSUME Types, [Next]_vars PROVE Types'
<1> USE DEF Types, CallPoints, States, Active, InProgress, TimerStates
<1> SUFFICES ASSUME Next PROVE Types' BY DEF vars
<1>1. ASSUME NEW c \in Async, NEW t \in Atomic \cup ({c} \cap Sync),
             AsyncCall(t, c) PROVE Types'
  <2> c \in Clients /\ t \in Threads /\ t \in Callers BY Handles
  <2>1. CASE Activate(t, c)
    BY <2>1, Handles DEF Activate
  <2>2. CASE ActivateNow(t, c)
    BY <2>2, Handles DEF ActivateNow, TakeVote, StayAwake
  <2>3. CASE ActivateLater(t, c)
    BY <2>3, Handles DEF ActivateLater
  <2>4. CASE DeferredDeactivate(t, c)
    BY <2>4, Handles DEF DeferredDeactivate
  <2> QED BY <1>1, <2>1, <2>2, <2>3, <2>4 DEF AsyncCall
<1>2. ASSUME NEW c \in Sync, SyncCall(c, c) PROVE Types'
  <2> c \in Clients /\ c \in Threads BY Handles
  <2>1. CASE ActivateSync(c, c)
    BY <2>1, Handles DEF ActivateSync
  <2>2. CASE DeactivateSync(c, c)
    BY <2>2, Handles DEF DeactivateSync
  <2> QED BY <1>2, <2>1, <2>2 DEF SyncCall
<1>3. ASSUME NEW t \in Threads, Scale(t) PROVE Types'
  <2>1. CASE DoClkScaling(t)
    <3>1. plan' \in [Threads -> Plans]
      <4>1. CASE UNCHANGED plan BY <4>1
      <4>2. CASE ~UNCHANGED plan
        <5>1. plan' = [u \in Threads |->
                  IF u = t
                  THEN [active |-> {c \in Clients : state[c] \in Active},
                        latest |-> TRUE]
                  ELSE [active |-> plan[u].active,
                        latest |-> plan[u].latest /\ at[u] # "scale_set"]]
          BY <2>1, <4>2, Zenon DEF DoClkScaling
        <5>2. \A u \in Threads : plan[u].active \in SUBSET Clients
          BY DEF Plans
        <5>3. \A u \in Threads : (plan[u].latest /\ at[u] # "scale_set") \in BOOLEAN
          OBVIOUS
        <5>4. \A u \in Threads : plan'[u] \in Plans
          BY <5>1, <5>2, <5>3 DEF Plans
        <5> QED BY <5>1, <5>4
      <4> QED BY <4>1, <4>2
    <3> QED BY <2>1, <3>1 DEF DoClkScaling
  <2>2. CASE SetClockPlan(t)
    BY <2>2, Handles DEF SetClockPlan, Plans, Votes, NoPlan, LeaveThreshold
  <2> QED BY <1>3, <2>1, <2>2 DEF Scale
<1>4. ASSUME NEW t \in Threads, NEW c \in Clients, Continue(t, c) PROVE Types'
  <2>1. CASE Devote(t, c)
    <3>1. votes' \in [Clients -> Int] /\ awake' \subseteq Clients
      BY <2>1, DevoteCases DEF DropVote
    <3>2. cur' \in Votes
      <4>1. ResetIfGated BY <2>1, DevoteCases
      <4> QED BY <4>1 DEF ResetIfGated, NoVote, NoPlan, Votes, Plans
    <3> QED BY <2>1, <3>1, <3>2, DevoteCases, Handles, SMTT(30)
  <2>2. CASE DeactivateClient(t, c)
    BY <2>2, ClearCases, Handles
  <2>3. CASE ActivateClient(t, c)
    BY <2>3, Handles DEF ActivateClient
  <2>4. CASE ActivateSyncWait(t, c)
    BY <2>4, Handles DEF ActivateSyncWait
  <2>5. CASE ActivateSyncGo(t, c)
    BY <2>5, Handles DEF ActivateSyncGo, StayAwake
  <2>6. CASE ActivateSyncInc(t, c)
    BY <2>6, Handles DEF ActivateSyncInc, TakeVote
  <2>7. CASE ActivateSyncSet(t, c)
    BY <2>7, Handles DEF ActivateSyncSet, StayAwake
  <2>8. CASE DeactivateSyncCancel(t, c)
    BY <2>8, Handles DEF DeactivateSyncCancel, Cancel
  <2>9. CASE DeactivateSyncTest(t, c)
    BY <2>9, Handles DEF DeactivateSyncTest
  <2>10. CASE DeactivateSyncWait(t, c)
    BY <2>10, Handles DEF DeactivateSyncWait
  <2>11. CASE DeactivateSyncGo(t, c)
    BY <2>11, Handles DEF DeactivateSyncGo
  <2>12. CASE DeactivateSyncSet(t, c)
    BY <2>12, Handles DEF DeactivateSyncSet
  <2>13. CASE DeactivateSyncAgain(t, c)
    BY <2>13, Handles DEF DeactivateSyncAgain, Cancel
  <2> QED BY <1>4, <2>1, <2>2, <2>3, <2>4, <2>5, <2>6, <2>7, <2>8, <2>9, <2>10,
     <2>11, <2>12, <2>13 DEF Continue
<1>5. ASSUME NEW t \in Suspenders, NEW c \in Clients,
             \/ AllCancel(t, c) \/ AllTest(t, c) \/ AllWait(t, c) \/ AllGo(t, c) PROVE Types'
  <2> t \in Threads BY Handles
  <2>1. CASE AllCancel(t, c)
    BY <2>1, Handles DEF AllCancel, Cancel
  <2>2. CASE AllTest(t, c)
    BY <2>2, Handles DEF AllTest
  <2>3. CASE AllWait(t, c)
    BY <2>3, Handles DEF AllWait
  <2>4. CASE AllGo(t, c)
    <3>1. state' \in [Clients -> States] /\ run' \in [Suspenders -> BOOLEAN]
      BY <2>4, ZenonT(30) DEF AllGo
    <3>2. at' \in [Threads -> CallPoints] /\ of' \in [Threads -> Clients \cup {NoClient}]
      BY <2>4 DEF AllGo
    <3> QED BY <2>4, <3>1, <3>2 DEF AllGo
  <2> QED BY <1>5, <2>1, <2>2, <2>3, <2>4
<1>6. ASSUME NEW t \in Suspenders, DeactivateAll(t) \/ AllScale(t) PROVE Types'
  <2> t \in Threads BY Handles
  <2>1. CASE DeactivateAll(t)
    BY <2>1, Handles DEF DeactivateAll
  <2>2. CASE AllScale(t)
    BY <2>2, Handles DEF AllScale
  <2> QED BY <1>6, <2>1, <2>2
<1>7. ASSUME NEW c \in Clients, WorkActivate(c) \/ TimerFires(c) PROVE Types'
  <2> Wq \in Threads BY Handles
  <2>1. CASE WorkActivate(c)
    BY <2>1, Handles DEF WorkActivate
  <2>2. CASE TimerFires(c)
    BY <2>2, Handles DEF TimerFires
  <2> QED BY <1>7, <2>1, <2>2
<1>8. ASSUME NEW c \in Clients,
             \/ WorkInc(c) \/ WorkState(c) \/ WorkComplete(c) \/ TimerState(c) PROVE Types'
  <2> Wq \in Threads BY Handles
  <2>1. CASE WorkInc(c)
    BY <2>1, Handles DEF WorkInc, TakeVote, StayAwake
  <2>2. CASE WorkState(c)
    BY <2>2, Handles DEF WorkState
  <2>3. CASE WorkComplete(c)
    BY <2>3, Handles DEF WorkComplete
  <2>4. CASE TimerState(c)
    BY <2>4, Handles DEF TimerState
  <2> QED BY <1>8, <2>1, <2>2, <2>3, <2>4
<1>9. CASE ClockScalingFunc
  BY <1>9, Handles, Handles DEF ClockScalingFunc
<1>10. CASE OtherVote
  <2>1. cur' \in Votes BY <1>10 DEF OtherVote, ResetIfGated, NoVote, NoPlan, Votes, Plans
  <2> QED BY <1>10, <2>1 DEF OtherVote
<1> QED
  BY <1>1, <1>2, <1>3, <1>4, <1>5, <1>6, <1>7, <1>8, <1>9, <1>10
     DEF Next, Go, SuspendStep, Take, Work

-----------------------------------------------------------------------------
\* Who can be where: the driver of a Sync client in the synchronous calls, the
\* callers in ipa_pm_activate, the suspenders in the suspend loop and the
\* worker in the works; and only drivers with asynchronous calls queue works.
SyncPoints == {"sync_wait", "sync_go", "sync_inc", "sync_set", "sync_bit",
               "off_cancel", "off_test", "off_wait", "off_go", "off_dec",
               "off_set", "off_again", "off_bit"}

AllPoints == {"all_test", "all_wait", "all_go", "all_dec", "all_bit"}

WqPoints == {"work", "work_state", "work_done", "work_undo", "work_bit",
             "undo_dec", "timer", "timer_dec", "timer_bit"}

PlacedAt(t) ==
    /\ at[t] \in SyncPoints => t \in Sync /\ of[t] = t
    /\ at[t] = "async_bit" => t \in Callers /\ of[t] \in Async
    /\ at[t] \in AllPoints => t \in Suspenders
    /\ at[t] \in WqPoints => t = Wq /\ of[t] \in Async
    /\ at[t] \in {"idle", "scale", "scale_set"} => of[t] = NoClient

Placed ==
    /\ actq \subseteq Async /\ deactq \subseteq Async
    /\ \A t \in Threads : PlacedAt(t)

\* The threads are where they can be, in every use of the calls.
LEMMA PlacedNext == ASSUME Types, Placed, [Next]_vars PROVE Placed'
<1> USE DEF Placed, PlacedAt, SyncPoints, AllPoints, WqPoints
<1> SUFFICES ASSUME Next PROVE Placed' BY DEF vars
<1> at \in [Threads -> CallPoints] /\ of \in [Threads -> Clients \cup {NoClient}]
  BY DEF Types
<1>1. ASSUME NEW c \in Async, NEW t \in Atomic \cup ({c} \cap Sync),
             AsyncCall(t, c) PROVE Placed'
  <2> c \in Clients /\ t \in Threads /\ t \in Callers BY Handles
  <2>1. CASE Activate(t, c)
    BY <2>1, Handles DEF Activate
  <2>2. CASE ActivateNow(t, c)
    BY <2>2, Handles DEF ActivateNow
  <2>3. CASE ActivateLater(t, c)
    BY <2>3, Handles DEF ActivateLater
  <2>4. CASE DeferredDeactivate(t, c)
    BY <2>4, Handles DEF DeferredDeactivate
  <2> QED BY <1>1, <2>1, <2>2, <2>3, <2>4 DEF AsyncCall
<1>2. ASSUME NEW c \in Sync, SyncCall(c, c) PROVE Placed'
  <2> c \in Clients /\ c \in Threads BY Handles
  <2>1. CASE ActivateSync(c, c)
    BY <2>1, Handles DEF ActivateSync
  <2>2. CASE DeactivateSync(c, c)
    BY <2>2, Handles DEF DeactivateSync
  <2> QED BY <1>2, <2>1, <2>2 DEF SyncCall
<1>3. ASSUME NEW t \in Threads, Scale(t) PROVE Placed'
  <2>1. CASE DoClkScaling(t)
    BY <2>1, Handles DEF DoClkScaling
  <2>2. CASE SetClockPlan(t)
    BY <2>2, Handles DEF SetClockPlan
  <2> QED BY <1>3, <2>1, <2>2 DEF Scale
<1>4. ASSUME NEW t \in Threads, NEW c \in Clients, Continue(t, c) PROVE Placed'
  <2>1. CASE Devote(t, c)
    BY <2>1, DevoteCases, Handles
  <2>2. CASE DeactivateClient(t, c)
    BY <2>2, ClearCases, Handles
  <2>3. CASE ActivateClient(t, c)
    BY <2>3, Handles DEF ActivateClient
  <2>4. CASE ActivateSyncWait(t, c)
    BY <2>4, Handles DEF ActivateSyncWait
  <2>5. CASE ActivateSyncGo(t, c)
    BY <2>5, Handles DEF ActivateSyncGo
  <2>6. CASE ActivateSyncInc(t, c)
    BY <2>6, Handles DEF ActivateSyncInc
  <2>7. CASE ActivateSyncSet(t, c)
    BY <2>7, Handles DEF ActivateSyncSet
  <2>8. CASE DeactivateSyncCancel(t, c)
    BY <2>8, Handles DEF DeactivateSyncCancel, Cancel
  <2>9. CASE DeactivateSyncTest(t, c)
    BY <2>9, Handles DEF DeactivateSyncTest
  <2>10. CASE DeactivateSyncWait(t, c)
    BY <2>10, Handles DEF DeactivateSyncWait
  <2>11. CASE DeactivateSyncGo(t, c)
    BY <2>11, Handles DEF DeactivateSyncGo
  <2>12. CASE DeactivateSyncSet(t, c)
    BY <2>12, Handles DEF DeactivateSyncSet
  <2>13. CASE DeactivateSyncAgain(t, c)
    BY <2>13, Handles DEF DeactivateSyncAgain, Cancel
  <2> QED BY <1>4, <2>1, <2>2, <2>3, <2>4, <2>5, <2>6, <2>7, <2>8, <2>9, <2>10,
     <2>11, <2>12, <2>13 DEF Continue
<1>5. ASSUME NEW t \in Suspenders, NEW c \in Clients,
             \/ AllCancel(t, c) \/ AllTest(t, c) \/ AllWait(t, c) \/ AllGo(t, c) PROVE Placed'
  <2> t \in Threads BY Handles
  <2>1. CASE AllCancel(t, c)
    BY <2>1, Handles DEF AllCancel, Cancel
  <2>2. CASE AllTest(t, c)
    BY <2>2, Handles DEF AllTest
  <2>3. CASE AllWait(t, c)
    BY <2>3, Handles DEF AllWait
  <2>4. CASE AllGo(t, c)
    BY <2>4, Handles DEF AllGo
  <2> QED BY <1>5, <2>1, <2>2, <2>3, <2>4
<1>6. ASSUME NEW t \in Suspenders, DeactivateAll(t) \/ AllScale(t) PROVE Placed'
  <2> t \in Threads BY Handles
  <2>1. CASE DeactivateAll(t)
    BY <2>1, Handles DEF DeactivateAll
  <2>2. CASE AllScale(t)
    BY <2>2, Handles DEF AllScale
  <2> QED BY <1>6, <2>1, <2>2
<1>7. ASSUME NEW c \in Clients, WorkActivate(c) \/ TimerFires(c) PROVE Placed'
  <2> Wq \in Threads BY Handles
  <2>1. CASE WorkActivate(c)
    BY <2>1, Handles DEF WorkActivate
  <2>2. CASE TimerFires(c)
    BY <2>2, Handles DEF TimerFires
  <2> QED BY <1>7, <2>1, <2>2
<1>8. ASSUME NEW c \in Clients,
             \/ WorkInc(c) \/ WorkState(c) \/ WorkComplete(c) \/ TimerState(c) PROVE Placed'
  <2> Wq \in Threads BY Handles
  <2>1. CASE WorkInc(c)
    BY <2>1, Handles DEF WorkInc
  <2>2. CASE WorkState(c)
    BY <2>2, Handles DEF WorkState
  <2>3. CASE WorkComplete(c)
    BY <2>3, Handles DEF WorkComplete
  <2>4. CASE TimerState(c)
    BY <2>4, Handles DEF TimerState
  <2> QED BY <1>8, <2>1, <2>2, <2>3, <2>4
<1>9. CASE ClockScalingFunc
  BY <1>9, Handles, Handles DEF ClockScalingFunc
<1>10. CASE OtherVote
  BY <1>10, Handles, Handles DEF OtherVote
<1> QED
  BY <1>1, <1>2, <1>3, <1>4, <1>5, <1>6, <1>7, <1>8, <1>9, <1>10
     DEF Next, Go, SuspendStep, Take, Work

-----------------------------------------------------------------------------
(* How a step moves the drift of a client.                                 *)

Held == {"work_state", "work_undo", "undo_dec", "timer_dec", "all_dec",
         "sync_set"}

\* What a thread at a point adds to the drift of its client, and what the
\* state of the client takes off.
Weight(point) == IF point = "off_set" THEN 1
                 ELSE IF point \in Held THEN -1 ELSE 0

Worth(s) == IF s \in Active THEN 1 ELSE 0

LEMMA InsideFinite ==
    ASSUME NEW c, NEW points
    PROVE  /\ IsFiniteSet(Inside(c, points))
           /\ Cardinality(Inside(c, points)) \in Nat
<1>1. Inside(c, points) \in SUBSET Threads BY DEF Inside
<1> QED BY <1>1, ThreadsFinite, FS_Subset, FS_CardinalityType

\* Only the place of the thread that moves, the votes and the state count.
LEMMA DriftMoved ==
    ASSUME Types, Types', NEW t \in Threads,
           \A u \in Threads \ {t} : at'[u] = at[u] /\ of'[u] = of[u],
           NEW d \in Clients
    PROVE  Drift(d)' = Drift(d) + (votes'[d] - votes[d])
               + (IF of'[t] = d THEN Weight(at'[t]) ELSE 0)
               - (IF of[t] = d THEN Weight(at[t]) ELSE 0)
               + Worth(state[d]) - Worth(state'[d])
<1> DEFINE n == Cardinality(Inside(d, {"off_set"}))
           h == Cardinality(Inside(d, Held))
<1>1. n' = n + (IF of'[t] = d /\ at'[t] = "off_set" THEN 1 ELSE 0)
             - (IF of[t] = d /\ at[t] = "off_set" THEN 1 ELSE 0)
  <2> DEFINE I == Inside(d, {"off_set"})
  <2>1. IsFiniteSet(I) BY InsideFinite
  <2>2. I' \ {t} = I \ {t} BY DEF Inside
  <2>3. /\ t \in I <=> of[t] = d /\ at[t] = "off_set"
        /\ t \in I' <=> of'[t] = d /\ at'[t] = "off_set"
    BY DEF Inside
  <2>4. n = Cardinality(I) /\ n' = Cardinality(I') OBVIOUS
  <2> HIDE DEF I, n
  <2> QED BY <2>1, <2>2, <2>3, <2>4, CountMoved
<1>2. h' = h + (IF of'[t] = d /\ at'[t] \in Held THEN 1 ELSE 0)
             - (IF of[t] = d /\ at[t] \in Held THEN 1 ELSE 0)
  <2> DEFINE I == Inside(d, Held)
  <2>1. IsFiniteSet(I) BY InsideFinite
  <2>2. I' \ {t} = I \ {t} BY DEF Inside
  <2>3. /\ t \in I <=> of[t] = d /\ at[t] \in Held
        /\ t \in I' <=> of'[t] = d /\ at'[t] \in Held
    BY DEF Inside
  <2>4. h = Cardinality(I) /\ h' = Cardinality(I') OBVIOUS
  <2> HIDE DEF I, h
  <2> QED BY <2>1, <2>2, <2>3, <2>4, CountMoved
<1>3. Drift(d) = votes[d] + n - Worth(state[d]) - h BY DEF Drift, Worth, Held
<1>4. Drift(d)' = votes'[d] + n' - Worth(state'[d]) - h'
  BY DEF Drift, Worth, Held
<1>5. votes[d] \in Int /\ votes'[d] \in Int BY DEF Types
<1>6. n \in Nat /\ h \in Nat BY InsideFinite
<1>7. "off_set" \notin Held BY DEF Held
<1> HIDE DEF n, h
<1> QED BY <1>1, <1>2, <1>3, <1>4, <1>5, <1>6, <1>7 DEF Weight, Worth

LEMMA DriftInt == ASSUME Types, NEW d \in Clients PROVE Drift(d) \in Int
BY InsideFinite DEF Drift, Types

\* The steps in which DriftOnlyByStaleState lets the drift of a client change.
Excused(d) ==
    \/ d \in Sync /\ At(d, "off_set", d) /\ state[d] \notin Active
    \/ d \in Sync /\ At(d, "sync_set", d) /\ state[d] # "ACTIVATE_IN_PROGRESS"
    \/ At(Wq, "work_state", d) /\ state[d] \notin InProgress

\* Every other step keeps it: one case per action.
LEMMA DriftNext ==
    ASSUME Types, Types', Placed, [Next]_vars, NEW d \in Clients \ skip
    PROVE  Drift(d)' = Drift(d) \/ Excused(d)
<1> USE DEF Weight, Worth, Held, Active, TimerStates, InProgress
<1> DEFINE Goal == Drift(d)' = Drift(d) \/ Excused(d)
<1> d \in Clients /\ Drift(d) \in Int /\ votes[d] \in Int /\ votes'[d] \in Int
  BY DriftInt DEF Types
<1>0. CASE UNCHANGED vars
  BY <1>0, Handles, DriftMoved DEF vars
<1> SUFFICES ASSUME Next PROVE Goal BY <1>0
<1> /\ at \in [Threads -> CallPoints] /\ of \in [Threads -> Clients \cup {NoClient}]
    /\ state \in [Clients -> States] /\ votes \in [Clients -> Int]
  BY DEF Types
<1>1. ASSUME NEW c \in Async, NEW t \in Atomic \cup ({c} \cap Sync),
             AsyncCall(t, c) PROVE Goal
  <2> c \in Clients /\ t \in Threads /\ t \in Callers BY Handles
  <2>1. CASE Activate(t, c)
    <3>1. \A u \in Threads \ {t} : at'[u] = at[u] /\ of'[u] = of[u]
      BY <2>1 DEF Activate
    <3>2. Drift(d)' = Drift(d) + (votes'[d] - votes[d])
              + (IF of'[t] = d THEN Weight(at'[t]) ELSE 0)
              - (IF of[t] = d THEN Weight(at[t]) ELSE 0)
              + Worth(state[d]) - Worth(state'[d])
      BY <3>1, DriftMoved
    <3> QED BY <2>1, <3>2, Handles DEF Activate
  <2>2. CASE ActivateNow(t, c)
    <3>1. \A u \in Threads \ {t} : at'[u] = at[u] /\ of'[u] = of[u]
      BY <2>2 DEF ActivateNow
    <3>2. Drift(d)' = Drift(d) + (votes'[d] - votes[d])
              + (IF of'[t] = d THEN Weight(at'[t]) ELSE 0)
              - (IF of[t] = d THEN Weight(at[t]) ELSE 0)
              + Worth(state[d]) - Worth(state'[d])
      BY <3>1, DriftMoved
    <3>3. votes'[d] = votes[d] + (IF d = c THEN 1 ELSE 0)
      BY <2>2 DEF ActivateNow, TakeVote
    <3>4. state'[d] = IF d = c THEN "ACTIVATED" ELSE state[d]
      BY <2>2 DEF ActivateNow
    <3>5. d = c => state[d] = "DEACTIVATED" BY <2>2 DEF ActivateNow
    <3>6. at[t] = "idle" /\ at'[t] = "async_bit" BY <2>2 DEF ActivateNow
    <3> QED BY <3>2, <3>3, <3>4, <3>5, <3>6
  <2>3. CASE ActivateLater(t, c)
    <3>1. \A u \in Threads \ {t} : at'[u] = at[u] /\ of'[u] = of[u]
      BY <2>3 DEF ActivateLater
    <3>2. Drift(d)' = Drift(d) + (votes'[d] - votes[d])
              + (IF of'[t] = d THEN Weight(at'[t]) ELSE 0)
              - (IF of[t] = d THEN Weight(at[t]) ELSE 0)
              + Worth(state[d]) - Worth(state'[d])
      BY <3>1, DriftMoved
    <3> QED BY <2>3, <3>2, Handles DEF ActivateLater
  <2>4. CASE DeferredDeactivate(t, c)
    <3>1. \A u \in Threads \ {t} : at'[u] = at[u] /\ of'[u] = of[u]
      BY <2>4 DEF DeferredDeactivate
    <3>2. Drift(d)' = Drift(d) + (votes'[d] - votes[d])
              + (IF of'[t] = d THEN Weight(at'[t]) ELSE 0)
              - (IF of[t] = d THEN Weight(at[t]) ELSE 0)
              + Worth(state[d]) - Worth(state'[d])
      BY <3>1, DriftMoved
    <3> QED BY <2>4, <3>2, Handles DEF DeferredDeactivate
  <2> QED BY <1>1, <2>1, <2>2, <2>3, <2>4 DEF AsyncCall
<1>2. ASSUME NEW c \in Sync, SyncCall(c, c) PROVE Goal
  <2> c \in Clients /\ c \in Threads BY Handles
  <2>1. CASE ActivateSync(c, c)
    <3>1. \A u \in Threads \ {c} : at'[u] = at[u] /\ of'[u] = of[u]
      BY <2>1 DEF ActivateSync
    <3>2. Drift(d)' = Drift(d) + (votes'[d] - votes[d])
              + (IF of'[c] = d THEN Weight(at'[c]) ELSE 0)
              - (IF of[c] = d THEN Weight(at[c]) ELSE 0)
              + Worth(state[d]) - Worth(state'[d])
      BY <3>1, DriftMoved
    <3> QED BY <2>1, <3>2, Handles DEF ActivateSync
  <2>2. CASE DeactivateSync(c, c)
    <3>1. \A u \in Threads \ {c} : at'[u] = at[u] /\ of'[u] = of[u]
      BY <2>2 DEF DeactivateSync
    <3>2. Drift(d)' = Drift(d) + (votes'[d] - votes[d])
              + (IF of'[c] = d THEN Weight(at'[c]) ELSE 0)
              - (IF of[c] = d THEN Weight(at[c]) ELSE 0)
              + Worth(state[d]) - Worth(state'[d])
      BY <3>1, DriftMoved
    <3> QED BY <2>2, <3>2, Handles DEF DeactivateSync
  <2> QED BY <1>2, <2>1, <2>2 DEF SyncCall
<1>3. ASSUME NEW t \in Threads, Scale(t) PROVE Goal
  <2>1. CASE DoClkScaling(t)
    <3>1. \A u \in Threads \ {t} : at'[u] = at[u] /\ of'[u] = of[u]
      BY <2>1 DEF DoClkScaling
    <3>2. Drift(d)' = Drift(d) + (votes'[d] - votes[d])
              + (IF of'[t] = d THEN Weight(at'[t]) ELSE 0)
              - (IF of[t] = d THEN Weight(at[t]) ELSE 0)
              + Worth(state[d]) - Worth(state'[d])
      BY <3>1, DriftMoved
    <3> QED BY <2>1, <3>2, Handles DEF DoClkScaling
  <2>2. CASE SetClockPlan(t)
    <3>1. \A u \in Threads \ {t} : at'[u] = at[u] /\ of'[u] = of[u]
      BY <2>2 DEF SetClockPlan
    <3>2. Drift(d)' = Drift(d) + (votes'[d] - votes[d])
              + (IF of'[t] = d THEN Weight(at'[t]) ELSE 0)
              - (IF of[t] = d THEN Weight(at[t]) ELSE 0)
              + Worth(state[d]) - Worth(state'[d])
      BY <3>1, DriftMoved
    <3> QED BY <2>2, <3>2, Handles DEF SetClockPlan
  <2> QED BY <1>3, <2>1, <2>2 DEF Scale
<1>4. ASSUME NEW t \in Threads, NEW c \in Clients, Continue(t, c) PROVE Goal
  <2>1. CASE Devote(t, c)
    <3>1. \A u \in Threads \ {t} : at'[u] = at[u] /\ of'[u] = of[u]
      BY <2>1, DevoteCases
    <3>2. Drift(d)' = Drift(d) + (votes'[d] - votes[d])
              + (IF of'[t] = d THEN Weight(at'[t]) ELSE 0)
              - (IF of[t] = d THEN Weight(at[t]) ELSE 0)
              + Worth(state[d]) - Worth(state'[d])
      BY <3>1, DriftMoved
    <3> QED BY <2>1, <3>2, DevoteCases DEF DropVote
  <2>2. CASE DeactivateClient(t, c)
    <3>1. \A u \in Threads \ {t} : at'[u] = at[u] /\ of'[u] = of[u]
      BY <2>2, ClearCases
    <3>2. Drift(d)' = Drift(d) + (votes'[d] - votes[d])
              + (IF of'[t] = d THEN Weight(at'[t]) ELSE 0)
              - (IF of[t] = d THEN Weight(at[t]) ELSE 0)
              + Worth(state[d]) - Worth(state'[d])
      BY <3>1, DriftMoved
    <3> QED BY <2>2, <3>2, Handles, ClearCases
  <2>3. CASE ActivateClient(t, c)
    <3>1. \A u \in Threads \ {t} : at'[u] = at[u] /\ of'[u] = of[u]
      BY <2>3 DEF ActivateClient
    <3>2. Drift(d)' = Drift(d) + (votes'[d] - votes[d])
              + (IF of'[t] = d THEN Weight(at'[t]) ELSE 0)
              - (IF of[t] = d THEN Weight(at[t]) ELSE 0)
              + Worth(state[d]) - Worth(state'[d])
      BY <3>1, DriftMoved
    <3> QED BY <2>3, <3>2, Handles DEF ActivateClient
  <2>4. CASE ActivateSyncWait(t, c)
    <3>1. \A u \in Threads \ {t} : at'[u] = at[u] /\ of'[u] = of[u]
      BY <2>4 DEF ActivateSyncWait
    <3>2. Drift(d)' = Drift(d) + (votes'[d] - votes[d])
              + (IF of'[t] = d THEN Weight(at'[t]) ELSE 0)
              - (IF of[t] = d THEN Weight(at[t]) ELSE 0)
              + Worth(state[d]) - Worth(state'[d])
      BY <3>1, DriftMoved
    <3> QED BY <2>4, <3>2, Handles DEF ActivateSyncWait
  <2>5. CASE ActivateSyncGo(t, c)
    <3>1. \A u \in Threads \ {t} : at'[u] = at[u] /\ of'[u] = of[u]
      BY <2>5 DEF ActivateSyncGo
    <3>2. Drift(d)' = Drift(d) + (votes'[d] - votes[d])
              + (IF of'[t] = d THEN Weight(at'[t]) ELSE 0)
              - (IF of[t] = d THEN Weight(at[t]) ELSE 0)
              + Worth(state[d]) - Worth(state'[d])
      BY <3>1, DriftMoved
    <3> QED BY <2>5, <3>2, Handles DEF ActivateSyncGo
  <2>6. CASE ActivateSyncInc(t, c)
    <3>1. \A u \in Threads \ {t} : at'[u] = at[u] /\ of'[u] = of[u]
      BY <2>6 DEF ActivateSyncInc
    <3>2. Drift(d)' = Drift(d) + (votes'[d] - votes[d])
              + (IF of'[t] = d THEN Weight(at'[t]) ELSE 0)
              - (IF of[t] = d THEN Weight(at[t]) ELSE 0)
              + Worth(state[d]) - Worth(state'[d])
      BY <3>1, DriftMoved
    <3> QED BY <2>6, <3>2, Handles DEF ActivateSyncInc, TakeVote
  <2>7. CASE ActivateSyncSet(t, c)
    <3>1. \A u \in Threads \ {t} : at'[u] = at[u] /\ of'[u] = of[u]
      BY <2>7 DEF ActivateSyncSet
    <3>2. Drift(d)' = Drift(d) + (votes'[d] - votes[d])
              + (IF of'[t] = d THEN Weight(at'[t]) ELSE 0)
              - (IF of[t] = d THEN Weight(at[t]) ELSE 0)
              + Worth(state[d]) - Worth(state'[d])
      BY <3>1, DriftMoved
    <3> QED BY <2>7, <3>2, Handles DEF ActivateSyncSet, Excused, Placed, PlacedAt, SyncPoints
  <2>8. CASE DeactivateSyncCancel(t, c)
    <3>1. \A u \in Threads \ {t} : at'[u] = at[u] /\ of'[u] = of[u]
      BY <2>8 DEF DeactivateSyncCancel
    <3>2. Drift(d)' = Drift(d) + (votes'[d] - votes[d])
              + (IF of'[t] = d THEN Weight(at'[t]) ELSE 0)
              - (IF of[t] = d THEN Weight(at[t]) ELSE 0)
              + Worth(state[d]) - Worth(state'[d])
      BY <3>1, DriftMoved
    <3> QED BY <2>8, <3>2, Handles DEF DeactivateSyncCancel
  <2>9. CASE DeactivateSyncTest(t, c)
    <3>1. \A u \in Threads \ {t} : at'[u] = at[u] /\ of'[u] = of[u]
      BY <2>9 DEF DeactivateSyncTest
    <3>2. Drift(d)' = Drift(d) + (votes'[d] - votes[d])
              + (IF of'[t] = d THEN Weight(at'[t]) ELSE 0)
              - (IF of[t] = d THEN Weight(at[t]) ELSE 0)
              + Worth(state[d]) - Worth(state'[d])
      BY <3>1, DriftMoved
    <3> QED BY <2>9, <3>2, Handles DEF DeactivateSyncTest
  <2>10. CASE DeactivateSyncWait(t, c)
    <3>1. \A u \in Threads \ {t} : at'[u] = at[u] /\ of'[u] = of[u]
      BY <2>10 DEF DeactivateSyncWait
    <3>2. Drift(d)' = Drift(d) + (votes'[d] - votes[d])
              + (IF of'[t] = d THEN Weight(at'[t]) ELSE 0)
              - (IF of[t] = d THEN Weight(at[t]) ELSE 0)
              + Worth(state[d]) - Worth(state'[d])
      BY <3>1, DriftMoved
    <3> QED BY <2>10, <3>2, Handles DEF DeactivateSyncWait
  <2>11. CASE DeactivateSyncGo(t, c)
    <3>1. \A u \in Threads \ {t} : at'[u] = at[u] /\ of'[u] = of[u]
      BY <2>11 DEF DeactivateSyncGo
    <3>2. Drift(d)' = Drift(d) + (votes'[d] - votes[d])
              + (IF of'[t] = d THEN Weight(at'[t]) ELSE 0)
              - (IF of[t] = d THEN Weight(at[t]) ELSE 0)
              + Worth(state[d]) - Worth(state'[d])
      BY <3>1, DriftMoved
    <3> QED BY <2>11, <3>2, Handles DEF DeactivateSyncGo
  <2>12. CASE DeactivateSyncSet(t, c)
    <3>1. \A u \in Threads \ {t} : at'[u] = at[u] /\ of'[u] = of[u]
      BY <2>12 DEF DeactivateSyncSet
    <3>2. Drift(d)' = Drift(d) + (votes'[d] - votes[d])
              + (IF of'[t] = d THEN Weight(at'[t]) ELSE 0)
              - (IF of[t] = d THEN Weight(at[t]) ELSE 0)
              + Worth(state[d]) - Worth(state'[d])
      BY <3>1, DriftMoved
    <3> QED BY <2>12, <3>2, Handles DEF DeactivateSyncSet, Excused, Placed, PlacedAt, SyncPoints
  <2>13. CASE DeactivateSyncAgain(t, c)
    <3>1. \A u \in Threads \ {t} : at'[u] = at[u] /\ of'[u] = of[u]
      BY <2>13 DEF DeactivateSyncAgain
    <3>2. Drift(d)' = Drift(d) + (votes'[d] - votes[d])
              + (IF of'[t] = d THEN Weight(at'[t]) ELSE 0)
              - (IF of[t] = d THEN Weight(at[t]) ELSE 0)
              + Worth(state[d]) - Worth(state'[d])
      BY <3>1, DriftMoved
    <3> QED BY <2>13, <3>2, Handles DEF DeactivateSyncAgain
  <2> QED BY <1>4, <2>1, <2>2, <2>3, <2>4, <2>5, <2>6, <2>7, <2>8, <2>9, <2>10,
     <2>11, <2>12, <2>13 DEF Continue
<1>5. ASSUME NEW t \in Suspenders, NEW c \in Clients,
             \/ AllCancel(t, c) \/ AllTest(t, c) \/ AllWait(t, c) \/ AllGo(t, c) PROVE Goal
  <2> t \in Threads BY Handles
  <2>1. CASE AllCancel(t, c)
    <3>1. \A u \in Threads \ {t} : at'[u] = at[u] /\ of'[u] = of[u]
      BY <2>1 DEF AllCancel
    <3>2. Drift(d)' = Drift(d) + (votes'[d] - votes[d])
              + (IF of'[t] = d THEN Weight(at'[t]) ELSE 0)
              - (IF of[t] = d THEN Weight(at[t]) ELSE 0)
              + Worth(state[d]) - Worth(state'[d])
      BY <3>1, DriftMoved
    <3> QED BY <2>1, <3>2, Handles DEF AllCancel
  <2>2. CASE AllTest(t, c)
    <3>1. \A u \in Threads \ {t} : at'[u] = at[u] /\ of'[u] = of[u]
      BY <2>2 DEF AllTest
    <3>2. Drift(d)' = Drift(d) + (votes'[d] - votes[d])
              + (IF of'[t] = d THEN Weight(at'[t]) ELSE 0)
              - (IF of[t] = d THEN Weight(at[t]) ELSE 0)
              + Worth(state[d]) - Worth(state'[d])
      BY <3>1, DriftMoved
    <3> QED BY <2>2, <3>2, Handles DEF AllTest
  <2>3. CASE AllWait(t, c)
    <3>1. \A u \in Threads \ {t} : at'[u] = at[u] /\ of'[u] = of[u]
      BY <2>3 DEF AllWait
    <3>2. Drift(d)' = Drift(d) + (votes'[d] - votes[d])
              + (IF of'[t] = d THEN Weight(at'[t]) ELSE 0)
              - (IF of[t] = d THEN Weight(at[t]) ELSE 0)
              + Worth(state[d]) - Worth(state'[d])
      BY <3>1, DriftMoved
    <3> QED BY <2>3, <3>2, Handles DEF AllWait
  <2>4. CASE AllGo(t, c)
    <3>1. \A u \in Threads \ {t} : at'[u] = at[u] /\ of'[u] = of[u]
      BY <2>4 DEF AllGo
    <3>2. Drift(d)' = Drift(d) + (votes'[d] - votes[d])
              + (IF of'[t] = d THEN Weight(at'[t]) ELSE 0)
              - (IF of[t] = d THEN Weight(at[t]) ELSE 0)
              + Worth(state[d]) - Worth(state'[d])
      BY <3>1, DriftMoved
    <3> QED BY <2>4, <3>2, Handles DEF AllGo
  <2> QED BY <1>5, <2>1, <2>2, <2>3, <2>4
<1>6. ASSUME NEW t \in Suspenders, DeactivateAll(t) \/ AllScale(t) PROVE Goal
  <2> t \in Threads BY Handles
  <2>1. CASE DeactivateAll(t)
    <3>1. \A u \in Threads \ {t} : at'[u] = at[u] /\ of'[u] = of[u]
      BY <2>1 DEF DeactivateAll
    <3>2. Drift(d)' = Drift(d) + (votes'[d] - votes[d])
              + (IF of'[t] = d THEN Weight(at'[t]) ELSE 0)
              - (IF of[t] = d THEN Weight(at[t]) ELSE 0)
              + Worth(state[d]) - Worth(state'[d])
      BY <3>1, DriftMoved
    <3> QED BY <2>1, <3>2, Handles DEF DeactivateAll
  <2>2. CASE AllScale(t)
    <3>1. \A u \in Threads \ {t} : at'[u] = at[u] /\ of'[u] = of[u]
      BY <2>2 DEF AllScale
    <3>2. Drift(d)' = Drift(d) + (votes'[d] - votes[d])
              + (IF of'[t] = d THEN Weight(at'[t]) ELSE 0)
              - (IF of[t] = d THEN Weight(at[t]) ELSE 0)
              + Worth(state[d]) - Worth(state'[d])
      BY <3>1, DriftMoved
    <3> QED BY <2>2, <3>2, Handles DEF AllScale
  <2> QED BY <1>6, <2>1, <2>2
<1>7. ASSUME NEW c \in Clients, WorkActivate(c) \/ TimerFires(c) PROVE Goal
  <2> Wq \in Threads BY Handles
  <2>1. CASE WorkActivate(c)
    <3>1. \A u \in Threads \ {Wq} : at'[u] = at[u] /\ of'[u] = of[u]
      BY <2>1 DEF WorkActivate
    <3>2. Drift(d)' = Drift(d) + (votes'[d] - votes[d])
              + (IF of'[Wq] = d THEN Weight(at'[Wq]) ELSE 0)
              - (IF of[Wq] = d THEN Weight(at[Wq]) ELSE 0)
              + Worth(state[d]) - Worth(state'[d])
      BY <3>1, DriftMoved
    <3> QED BY <2>1, <3>2, Handles DEF WorkActivate
  <2>2. CASE TimerFires(c)
    <3>1. \A u \in Threads \ {Wq} : at'[u] = at[u] /\ of'[u] = of[u]
      BY <2>2 DEF TimerFires
    <3>2. Drift(d)' = Drift(d) + (votes'[d] - votes[d])
              + (IF of'[Wq] = d THEN Weight(at'[Wq]) ELSE 0)
              - (IF of[Wq] = d THEN Weight(at[Wq]) ELSE 0)
              + Worth(state[d]) - Worth(state'[d])
      BY <3>1, DriftMoved
    <3> QED BY <2>2, <3>2, Handles DEF TimerFires
  <2> QED BY <1>7, <2>1, <2>2
<1>8. ASSUME NEW c \in Clients,
             \/ WorkInc(c) \/ WorkState(c) \/ WorkComplete(c) \/ TimerState(c) PROVE Goal
  <2> Wq \in Threads BY Handles
  <2>1. CASE WorkInc(c)
    <3>1. \A u \in Threads \ {Wq} : at'[u] = at[u] /\ of'[u] = of[u]
      BY <2>1 DEF WorkInc
    <3>2. Drift(d)' = Drift(d) + (votes'[d] - votes[d])
              + (IF of'[Wq] = d THEN Weight(at'[Wq]) ELSE 0)
              - (IF of[Wq] = d THEN Weight(at[Wq]) ELSE 0)
              + Worth(state[d]) - Worth(state'[d])
      BY <3>1, DriftMoved
    <3> QED BY <2>1, <3>2, Handles DEF WorkInc, TakeVote
  <2>2. CASE WorkState(c)
    <3>1. \A u \in Threads \ {Wq} : at'[u] = at[u] /\ of'[u] = of[u]
      BY <2>2 DEF WorkState
    <3>2. Drift(d)' = Drift(d) + (votes'[d] - votes[d])
              + (IF of'[Wq] = d THEN Weight(at'[Wq]) ELSE 0)
              - (IF of[Wq] = d THEN Weight(at[Wq]) ELSE 0)
              + Worth(state[d]) - Worth(state'[d])
      BY <3>1, DriftMoved
    <3> QED BY <2>2, <3>2, Handles DEF WorkState, Excused, Placed, PlacedAt, SyncPoints
  <2>3. CASE WorkComplete(c)
    <3>1. \A u \in Threads \ {Wq} : at'[u] = at[u] /\ of'[u] = of[u]
      BY <2>3 DEF WorkComplete
    <3>2. Drift(d)' = Drift(d) + (votes'[d] - votes[d])
              + (IF of'[Wq] = d THEN Weight(at'[Wq]) ELSE 0)
              - (IF of[Wq] = d THEN Weight(at[Wq]) ELSE 0)
              + Worth(state[d]) - Worth(state'[d])
      BY <3>1, DriftMoved
    <3> QED BY <2>3, <3>2, Handles DEF WorkComplete
  <2>4. CASE TimerState(c)
    <3>1. \A u \in Threads \ {Wq} : at'[u] = at[u] /\ of'[u] = of[u]
      BY <2>4 DEF TimerState
    <3>2. Drift(d)' = Drift(d) + (votes'[d] - votes[d])
              + (IF of'[Wq] = d THEN Weight(at'[Wq]) ELSE 0)
              - (IF of[Wq] = d THEN Weight(at[Wq]) ELSE 0)
              + Worth(state[d]) - Worth(state'[d])
      BY <3>1, DriftMoved
    <3> QED BY <2>4, <3>2, Handles DEF TimerState
  <2> QED BY <1>8, <2>1, <2>2, <2>3, <2>4
<1>9. CASE ClockScalingFunc
  <2>1. \A u \in Threads \ {Wq} : at'[u] = at[u] /\ of'[u] = of[u]
    BY <1>9 DEF ClockScalingFunc
  <2>2. Drift(d)' = Drift(d) + (votes'[d] - votes[d])
            + (IF of'[Wq] = d THEN Weight(at'[Wq]) ELSE 0)
            - (IF of[Wq] = d THEN Weight(at[Wq]) ELSE 0)
            + Worth(state[d]) - Worth(state'[d])
    BY <2>1, Handles, DriftMoved
  <2> QED BY <1>9, <2>2, Handles DEF ClockScalingFunc
<1>10. CASE OtherVote
  BY <1>10, Handles, DriftMoved DEF OtherVote
<1> QED
  BY <1>1, <1>2, <1>3, <1>4, <1>5, <1>6, <1>7, <1>8, <1>9, <1>10
     DEF Next, Go, SuspendStep, Take, Work

LEMMA TypesInit == ASSUME Init PROVE Types /\ Placed
<1>1. cur \in Votes /\ plan \in [Threads -> Plans]
    BY DEF Init, NoVote, NoPlan, Votes, Plans
<1>2. /\ at \in [Threads -> CallPoints]
      /\ of \in [Threads -> Clients \cup {NoClient}]
      /\ state \in [Clients -> States] /\ votes \in [Clients -> Int]
      /\ todo \in [Suspenders -> SUBSET Clients]
      /\ run \in [Suspenders -> BOOLEAN]
    BY DEF Init, CallPoints, States
<1>3. Types BY <1>1, <1>2 DEF Init, Types
<1>4. Placed
    BY DEF Init, Placed, PlacedAt, SyncPoints, AllPoints, WqPoints
<1> QED BY <1>3, <1>4

\* They hold throughout.
LEMMA TypesHold == Spec => [](Types /\ Placed)
<1>1. Init => Types /\ Placed BY TypesInit
<1>2. Types /\ Placed /\ [Next]_vars => (Types /\ Placed)'
  BY TypesNext, PlacedNext
<1> QED BY <1>1, <1>2, PTL DEF Spec

\* The votes of a client go wrong only in a handler that sets its state
\* regardless of what it finds under the lock; in every use of the calls, with
\* any number of callers and suspenders.
THEOREM DriftIsStaleState == Spec => DriftOnlyByStaleState
<1>1. Types /\ Types' /\ Placed /\ [Next]_vars =>
        [\A c \in Clients \ skip : Drift(c)' # Drift(c) => Excused(c)]_vars
  BY DriftNext
<1>2. [\A c \in Clients \ skip : Drift(c)' # Drift(c) => Excused(c)]_vars =>
        [\A c \in Clients \ skip : Drift(c)' # Drift(c) =>
         \/ At(c, "off_set", c) /\ state[c] \notin Active
         \/ At(c, "sync_set", c) /\ state[c] # "ACTIVATE_IN_PROGRESS"
         \/ At(Wq, "work_state", c) /\ state[c] \notin InProgress]_vars
  BY DEF Excused
<1> QED BY <1>1, <1>2, TypesHold, PTL DEF Spec, DriftOnlyByStaleState

-----------------------------------------------------------------------------
\* The client of a driver that uses the synchronous calls only: nobody but the
\* driver changes it, so the state tells where the driver is.
SyncAt(c) ==
    /\ state[c] \in {"DEACTIVATED", "ACTIVATE_IN_PROGRESS", "ACTIVATED"}
    /\ state[c] = "ACTIVATE_IN_PROGRESS" <=> at[c] \in {"sync_inc", "sync_set"}
    /\ at[c] \in {"sync_bit", "off_dec", "off_set"} => state[c] = "ACTIVATED"
    /\ at[c] \in {"off_again", "off_bit"} => state[c] = "DEACTIVATED"
    /\ \A t \in Threads : of[t] = c => at[t] \notin {"all_dec", "all_bit"}

\* Its bit and its wakeup source follow the state but for the steps between.
SyncMarks(c) ==
    /\ c \in bits <=> \/ state[c] = "ACTIVATED" /\ at[c] # "sync_bit"
                      \/ at[c] \in {"off_again", "off_bit"}
    /\ c \in Apps \ skip =>
         (c \in awake <=> state[c] = "ACTIVATED" /\ at[c] # "off_set")

LEMMA SyncNext ==
    ASSUME Types, Placed, NEW d \in SyncOnly, SyncAt(d), SyncMarks(d),
           [Next]_vars
    PROVE  SyncAt(d)' /\ SyncMarks(d)'
<1> DEFINE Goal == SyncAt(d)' /\ SyncMarks(d)'
<1> USE DEF SyncAt, SyncMarks, SyncOnly, Placed, PlacedAt, SyncPoints,
            AllPoints, WqPoints, Active, InProgress, TimerStates
<1> SUFFICES ASSUME Next PROVE Goal BY DEF vars
<1> d \in Sync /\ d \in Clients /\ d \in Threads /\ d \notin Async BY Handles
<1> /\ at \in [Threads -> CallPoints] /\ of \in [Threads -> Clients \cup {NoClient}]
    /\ state \in [Clients -> States] /\ votes \in [Clients -> Int]
  BY DEF Types
<1>1. ASSUME NEW c \in Async, NEW t \in Atomic \cup ({c} \cap Sync),
             AsyncCall(t, c) PROVE Goal
  <2> c \in Clients /\ t \in Threads /\ t \in Callers BY Handles
  <2>1. CASE Activate(t, c)
    BY <2>1, Handles DEF Activate
  <2>2. CASE ActivateNow(t, c)
    BY <2>2, Handles DEF ActivateNow, TakeVote, StayAwake
  <2>3. CASE ActivateLater(t, c)
    BY <2>3, Handles DEF ActivateLater
  <2>4. CASE DeferredDeactivate(t, c)
    BY <2>4, Handles DEF DeferredDeactivate
  <2> QED BY <1>1, <2>1, <2>2, <2>3, <2>4 DEF AsyncCall
<1>2. ASSUME NEW c \in Sync, SyncCall(c, c) PROVE Goal
  <2> c \in Clients /\ c \in Threads BY Handles
  <2>1. CASE ActivateSync(c, c)
    BY <2>1, Handles DEF ActivateSync
  <2>2. CASE DeactivateSync(c, c)
    BY <2>2, Handles DEF DeactivateSync
  <2> QED BY <1>2, <2>1, <2>2 DEF SyncCall
<1>3. ASSUME NEW t \in Threads, Scale(t) PROVE Goal
  <2>1. CASE DoClkScaling(t)
    BY <2>1, Handles DEF DoClkScaling
  <2>2. CASE SetClockPlan(t)
    BY <2>2, Handles DEF SetClockPlan
  <2> QED BY <1>3, <2>1, <2>2 DEF Scale
<1>4. ASSUME NEW t \in Threads, NEW c \in Clients, Continue(t, c) PROVE Goal
  <2>1. CASE Devote(t, c)
    BY <2>1, DevoteCases, Handles DEF DropVote
  <2>2. CASE DeactivateClient(t, c)
    BY <2>2, ClearCases, Handles
  <2>3. CASE ActivateClient(t, c)
    BY <2>3, Handles DEF ActivateClient
  <2>4. CASE ActivateSyncWait(t, c)
    BY <2>4, Handles DEF ActivateSyncWait
  <2>5. CASE ActivateSyncGo(t, c)
    BY <2>5, Handles DEF ActivateSyncGo, StayAwake
  <2>6. CASE ActivateSyncInc(t, c)
    BY <2>6, Handles DEF ActivateSyncInc, TakeVote
  <2>7. CASE ActivateSyncSet(t, c)
    BY <2>7, Handles DEF ActivateSyncSet, StayAwake
  <2>8. CASE DeactivateSyncCancel(t, c)
    BY <2>8, Handles DEF DeactivateSyncCancel, Cancel
  <2>9. CASE DeactivateSyncTest(t, c)
    BY <2>9, Handles DEF DeactivateSyncTest
  <2>10. CASE DeactivateSyncWait(t, c)
    BY <2>10, Handles DEF DeactivateSyncWait
  <2>11. CASE DeactivateSyncGo(t, c)
    BY <2>11, Handles DEF DeactivateSyncGo
  <2>12. CASE DeactivateSyncSet(t, c)
    BY <2>12, Handles DEF DeactivateSyncSet
  <2>13. CASE DeactivateSyncAgain(t, c)
    BY <2>13, Handles DEF DeactivateSyncAgain, Cancel
  <2> QED BY <1>4, <2>1, <2>2, <2>3, <2>4, <2>5, <2>6, <2>7, <2>8, <2>9, <2>10,
     <2>11, <2>12, <2>13 DEF Continue
<1>5. ASSUME NEW t \in Suspenders, NEW c \in Clients,
             \/ AllCancel(t, c) \/ AllTest(t, c) \/ AllWait(t, c) \/ AllGo(t, c) PROVE Goal
  <2> t \in Threads BY Handles
  <2>1. CASE AllCancel(t, c)
    BY <2>1, Handles DEF AllCancel, Cancel
  <2>2. CASE AllTest(t, c)
    BY <2>2, Handles DEF AllTest
  <2>3. CASE AllWait(t, c)
    BY <2>3, Handles DEF AllWait
  <2>4. CASE AllGo(t, c)
    BY <2>4, Handles DEF AllGo
  <2> QED BY <1>5, <2>1, <2>2, <2>3, <2>4
<1>6. ASSUME NEW t \in Suspenders, DeactivateAll(t) \/ AllScale(t) PROVE Goal
  <2> t \in Threads BY Handles
  <2>1. CASE DeactivateAll(t)
    BY <2>1, Handles DEF DeactivateAll
  <2>2. CASE AllScale(t)
    BY <2>2, Handles DEF AllScale
  <2> QED BY <1>6, <2>1, <2>2
<1>7. ASSUME NEW c \in Clients, WorkActivate(c) \/ TimerFires(c) PROVE Goal
  <2> Wq \in Threads BY Handles
  <2>1. CASE WorkActivate(c)
    BY <2>1, Handles DEF WorkActivate
  <2>2. CASE TimerFires(c)
    BY <2>2, Handles DEF TimerFires
  <2> QED BY <1>7, <2>1, <2>2
<1>8. ASSUME NEW c \in Clients,
             \/ WorkInc(c) \/ WorkState(c) \/ WorkComplete(c) \/ TimerState(c) PROVE Goal
  <2> Wq \in Threads BY Handles
  <2>1. CASE WorkInc(c)
    BY <2>1, Handles DEF WorkInc, TakeVote, StayAwake
  <2>2. CASE WorkState(c)
    BY <2>2, Handles DEF WorkState
  <2>3. CASE WorkComplete(c)
    BY <2>3, Handles DEF WorkComplete
  <2>4. CASE TimerState(c)
    BY <2>4, Handles DEF TimerState
  <2> QED BY <1>8, <2>1, <2>2, <2>3, <2>4
<1>9. CASE ClockScalingFunc
  BY <1>9, Handles, Handles DEF ClockScalingFunc
<1>10. CASE OtherVote
  BY <1>10, Handles, Handles DEF OtherVote
<1> QED
  BY <1>1, <1>2, <1>3, <1>4, <1>5, <1>6, <1>7, <1>8, <1>9, <1>10
     DEF Next, Go, SuspendStep, Take, Work

LEMMA SyncHolds == Spec => [](\A c \in SyncOnly : SyncAt(c) /\ SyncMarks(c))
<1> DEFINE I == \A c \in SyncOnly : SyncAt(c) /\ SyncMarks(c)
<1>1. Init => I
  BY Handles DEF Init, SyncAt, SyncMarks, SyncOnly
<1>2. Types /\ Placed /\ I /\ [Next]_vars => I' BY SyncNext
<1> QED BY <1>1, <1>2, TypesHold, PTL DEF Spec

\* set_current_threshold finds the right clients in active_client_bitmask, at
\* rest and for the drivers that use the synchronous calls, whatever the other
\* clients and the suspends do.
THEOREM BitsAreCurrent == Spec => []BitsCurrent
<1>1. Types /\ (\A c \in SyncOnly : SyncAt(c) /\ SyncMarks(c)) => BitsCurrent
  <2> SUFFICES ASSUME Types, \A c \in SyncOnly : SyncAt(c) /\ SyncMarks(c), Quiet,
                      NEW c \in SyncOnly
               PROVE  c \in bits <=> c \in ActiveSet
    BY Handles DEF BitsCurrent
  <2>1. c \in Clients /\ at[c] = "idle" BY Handles DEF Quiet, SyncOnly
  <2> QED BY <2>1 DEF SyncAt, SyncMarks, ActiveSet, Active, TimerStates
<1> QED BY <1>1, TypesHold, SyncHolds, PTL

\* At rest the wakeup source of such a client is held iff the client is active.
THEOREM AwakeIffActive == Spec => []AwakeWhileActive
<1>1. Types /\ (\A c \in SyncOnly : SyncAt(c) /\ SyncMarks(c)) => AwakeWhileActive
  <2> SUFFICES ASSUME Types, \A c \in SyncOnly : SyncAt(c) /\ SyncMarks(c), Quiet,
                      NEW c \in (SyncOnly \cap Apps) \ skip
               PROVE  c \in awake <=> c \in ActiveSet
    BY DEF AwakeWhileActive
  <2>1. c \in Clients /\ at[c] = "idle" BY Handles DEF Quiet, SyncOnly
  <2> QED BY <2>1 DEF SyncAt, SyncMarks, ActiveSet, Active, TimerStates
<1> QED BY <1>1, TypesHold, SyncHolds, PTL

-----------------------------------------------------------------------------
\* The client of a driver that uses the asynchronous calls only: a change is
\* in progress from the queueing of the work to the step that ends it, and one
\* work at most is behind it.
AsyncAt(c) ==
    /\ c \in actq \/ At(Wq, "work", c) \/ At(Wq, "work_state", c)
         <=> state[c] \in InProgress
    /\ c \in actq => ~At(Wq, "work", c) /\ ~At(Wq, "work_state", c)

LEMMA AsyncNext ==
    ASSUME Types, Placed, NEW d \in Clients \ Sync, AsyncAt(d), [Next]_vars
    PROVE  AsyncAt(d)'
<1> USE DEF AsyncAt, Placed, PlacedAt, SyncPoints, AllPoints, WqPoints, Active,
            InProgress, TimerStates
<1> SUFFICES ASSUME Next PROVE AsyncAt(d)' BY DEF vars
<1> d \in Clients /\ d \notin Sync OBVIOUS
<1> /\ at \in [Threads -> CallPoints] /\ of \in [Threads -> Clients \cup {NoClient}]
    /\ state \in [Clients -> States] /\ votes \in [Clients -> Int]
  BY DEF Types
<1>1. ASSUME NEW c \in Async, NEW t \in Atomic \cup ({c} \cap Sync),
             AsyncCall(t, c) PROVE AsyncAt(d)'
  <2> c \in Clients /\ t \in Threads /\ t \in Callers BY Handles
  <2>1. CASE Activate(t, c)
    BY <2>1, Handles DEF Activate
  <2>2. CASE ActivateNow(t, c)
    BY <2>2, Handles DEF ActivateNow, TakeVote, StayAwake
  <2>3. CASE ActivateLater(t, c)
    BY <2>3, Handles DEF ActivateLater
  <2>4. CASE DeferredDeactivate(t, c)
    BY <2>4, Handles DEF DeferredDeactivate
  <2> QED BY <1>1, <2>1, <2>2, <2>3, <2>4 DEF AsyncCall
<1>2. ASSUME NEW c \in Sync, SyncCall(c, c) PROVE AsyncAt(d)'
  <2> c \in Clients /\ c \in Threads BY Handles
  <2>1. CASE ActivateSync(c, c)
    BY <2>1, Handles DEF ActivateSync
  <2>2. CASE DeactivateSync(c, c)
    BY <2>2, Handles DEF DeactivateSync
  <2> QED BY <1>2, <2>1, <2>2 DEF SyncCall
<1>3. ASSUME NEW t \in Threads, Scale(t) PROVE AsyncAt(d)'
  <2>1. CASE DoClkScaling(t)
    BY <2>1, Handles DEF DoClkScaling
  <2>2. CASE SetClockPlan(t)
    BY <2>2, Handles DEF SetClockPlan
  <2> QED BY <1>3, <2>1, <2>2 DEF Scale
<1>4. ASSUME NEW t \in Threads, NEW c \in Clients, Continue(t, c) PROVE AsyncAt(d)'
  <2>1. CASE Devote(t, c)
    BY <2>1, DevoteCases, Handles DEF DropVote
  <2>2. CASE DeactivateClient(t, c)
    BY <2>2, ClearCases, Handles
  <2>3. CASE ActivateClient(t, c)
    BY <2>3, Handles DEF ActivateClient
  <2>4. CASE ActivateSyncWait(t, c)
    BY <2>4, Handles DEF ActivateSyncWait
  <2>5. CASE ActivateSyncGo(t, c)
    BY <2>5, Handles DEF ActivateSyncGo, StayAwake
  <2>6. CASE ActivateSyncInc(t, c)
    BY <2>6, Handles DEF ActivateSyncInc, TakeVote
  <2>7. CASE ActivateSyncSet(t, c)
    BY <2>7, Handles DEF ActivateSyncSet, StayAwake
  <2>8. CASE DeactivateSyncCancel(t, c)
    BY <2>8, Handles DEF DeactivateSyncCancel, Cancel
  <2>9. CASE DeactivateSyncTest(t, c)
    BY <2>9, Handles DEF DeactivateSyncTest
  <2>10. CASE DeactivateSyncWait(t, c)
    BY <2>10, Handles DEF DeactivateSyncWait
  <2>11. CASE DeactivateSyncGo(t, c)
    BY <2>11, Handles DEF DeactivateSyncGo
  <2>12. CASE DeactivateSyncSet(t, c)
    BY <2>12, Handles DEF DeactivateSyncSet
  <2>13. CASE DeactivateSyncAgain(t, c)
    BY <2>13, Handles DEF DeactivateSyncAgain, Cancel
  <2> QED BY <1>4, <2>1, <2>2, <2>3, <2>4, <2>5, <2>6, <2>7, <2>8, <2>9, <2>10,
     <2>11, <2>12, <2>13 DEF Continue
<1>5. ASSUME NEW t \in Suspenders, NEW c \in Clients,
             \/ AllCancel(t, c) \/ AllTest(t, c) \/ AllWait(t, c) \/ AllGo(t, c) PROVE AsyncAt(d)'
  <2> t \in Threads BY Handles
  <2>1. CASE AllCancel(t, c)
    BY <2>1, Handles DEF AllCancel, Cancel
  <2>2. CASE AllTest(t, c)
    BY <2>2, Handles DEF AllTest
  <2>3. CASE AllWait(t, c)
    BY <2>3, Handles DEF AllWait
  <2>4. CASE AllGo(t, c)
    BY <2>4, Handles DEF AllGo
  <2> QED BY <1>5, <2>1, <2>2, <2>3, <2>4
<1>6. ASSUME NEW t \in Suspenders, DeactivateAll(t) \/ AllScale(t) PROVE AsyncAt(d)'
  <2> t \in Threads BY Handles
  <2>1. CASE DeactivateAll(t)
    BY <2>1, Handles DEF DeactivateAll
  <2>2. CASE AllScale(t)
    BY <2>2, Handles DEF AllScale
  <2> QED BY <1>6, <2>1, <2>2
<1>7. ASSUME NEW c \in Clients, WorkActivate(c) \/ TimerFires(c) PROVE AsyncAt(d)'
  <2> Wq \in Threads BY Handles
  <2>1. CASE WorkActivate(c)
    BY <2>1, Handles DEF WorkActivate
  <2>2. CASE TimerFires(c)
    BY <2>2, Handles DEF TimerFires
  <2> QED BY <1>7, <2>1, <2>2
<1>8. ASSUME NEW c \in Clients,
             \/ WorkInc(c) \/ WorkState(c) \/ WorkComplete(c) \/ TimerState(c) PROVE AsyncAt(d)'
  <2> Wq \in Threads BY Handles
  <2>1. CASE WorkInc(c)
    BY <2>1, Handles DEF WorkInc, TakeVote, StayAwake
  <2>2. CASE WorkState(c)
    BY <2>2, Handles DEF WorkState
  <2>3. CASE WorkComplete(c)
    BY <2>3, Handles DEF WorkComplete
  <2>4. CASE TimerState(c)
    BY <2>4, Handles DEF TimerState
  <2> QED BY <1>8, <2>1, <2>2, <2>3, <2>4
<1>9. CASE ClockScalingFunc
  BY <1>9, Handles, Handles DEF ClockScalingFunc
<1>10. CASE OtherVote
  BY <1>10, Handles, Handles DEF OtherVote
<1> QED
  BY <1>1, <1>2, <1>3, <1>4, <1>5, <1>6, <1>7, <1>8, <1>9, <1>10
     DEF Next, Go, SuspendStep, Take, Work

LEMMA AsyncHolds == Spec => [](\A c \in Clients \ Sync : AsyncAt(c))
<1> DEFINE I == \A c \in Clients \ Sync : AsyncAt(c)
<1>1. Init => I
  BY Handles DEF Init, AsyncAt, InProgress
<1>2. Types /\ Placed /\ I /\ [Next]_vars => I' BY AsyncNext
<1> QED BY <1>1, <1>2, TypesHold, PTL DEF Spec

\* With no suspend, a timer that is queued or has fired belongs to a timer
\* state, and there is one at most.
TimerAt(c) ==
    /\ c \in deactq \/ At(Wq, "timer", c) => state[c] \in TimerStates
    /\ c \in deactq => ~At(Wq, "timer", c)

LEMMA TimerNext ==
    ASSUME Suspenders = {}, Types, Placed, NEW d \in Clients, d \notin Sync \/ d \notin Async,
           TimerAt(d), [Next]_vars
    PROVE  TimerAt(d)'
<1> USE DEF TimerAt, Placed, PlacedAt, SyncPoints, AllPoints, WqPoints, Active,
            InProgress, TimerStates
<1> SUFFICES ASSUME Next PROVE TimerAt(d)' BY DEF vars
<1> /\ at \in [Threads -> CallPoints] /\ of \in [Threads -> Clients \cup {NoClient}]
    /\ state \in [Clients -> States] /\ votes \in [Clients -> Int]
  BY DEF Types
<1>1. ASSUME NEW c \in Async, NEW t \in Atomic \cup ({c} \cap Sync),
             AsyncCall(t, c) PROVE TimerAt(d)'
  <2> c \in Clients /\ t \in Threads /\ t \in Callers BY Handles
  <2>1. CASE Activate(t, c)
    BY <2>1, Handles DEF Activate
  <2>2. CASE ActivateNow(t, c)
    BY <2>2, Handles DEF ActivateNow, TakeVote, StayAwake
  <2>3. CASE ActivateLater(t, c)
    BY <2>3, Handles DEF ActivateLater
  <2>4. CASE DeferredDeactivate(t, c)
    BY <2>4, Handles DEF DeferredDeactivate
  <2> QED BY <1>1, <2>1, <2>2, <2>3, <2>4 DEF AsyncCall
<1>2. ASSUME NEW c \in Sync, SyncCall(c, c) PROVE TimerAt(d)'
  <2> c \in Clients /\ c \in Threads BY Handles
  <2>1. CASE ActivateSync(c, c)
    BY <2>1, Handles DEF ActivateSync
  <2>2. CASE DeactivateSync(c, c)
    BY <2>2, Handles DEF DeactivateSync
  <2> QED BY <1>2, <2>1, <2>2 DEF SyncCall
<1>3. ASSUME NEW t \in Threads, Scale(t) PROVE TimerAt(d)'
  <2>1. CASE DoClkScaling(t)
    BY <2>1, Handles DEF DoClkScaling
  <2>2. CASE SetClockPlan(t)
    BY <2>2, Handles DEF SetClockPlan
  <2> QED BY <1>3, <2>1, <2>2 DEF Scale
<1>4. ASSUME NEW t \in Threads, NEW c \in Clients, Continue(t, c) PROVE TimerAt(d)'
  <2>1. CASE Devote(t, c)
    BY <2>1, DevoteCases, Handles DEF DropVote
  <2>2. CASE DeactivateClient(t, c)
    BY <2>2, ClearCases, Handles
  <2>3. CASE ActivateClient(t, c)
    BY <2>3, Handles DEF ActivateClient
  <2>4. CASE ActivateSyncWait(t, c)
    BY <2>4, Handles DEF ActivateSyncWait
  <2>5. CASE ActivateSyncGo(t, c)
    BY <2>5, Handles DEF ActivateSyncGo, StayAwake
  <2>6. CASE ActivateSyncInc(t, c)
    BY <2>6, Handles DEF ActivateSyncInc, TakeVote
  <2>7. CASE ActivateSyncSet(t, c)
    BY <2>7, Handles DEF ActivateSyncSet, StayAwake
  <2>8. CASE DeactivateSyncCancel(t, c)
    BY <2>8, Handles DEF DeactivateSyncCancel, Cancel
  <2>9. CASE DeactivateSyncTest(t, c)
    BY <2>9, Handles DEF DeactivateSyncTest
  <2>10. CASE DeactivateSyncWait(t, c)
    BY <2>10, Handles DEF DeactivateSyncWait
  <2>11. CASE DeactivateSyncGo(t, c)
    BY <2>11, Handles DEF DeactivateSyncGo
  <2>12. CASE DeactivateSyncSet(t, c)
    BY <2>12, Handles DEF DeactivateSyncSet
  <2>13. CASE DeactivateSyncAgain(t, c)
    BY <2>13, Handles DEF DeactivateSyncAgain, Cancel
  <2> QED BY <1>4, <2>1, <2>2, <2>3, <2>4, <2>5, <2>6, <2>7, <2>8, <2>9, <2>10,
     <2>11, <2>12, <2>13 DEF Continue
<1>5. ASSUME NEW t \in Suspenders, NEW c \in Clients,
             \/ AllCancel(t, c) \/ AllTest(t, c) \/ AllWait(t, c) \/ AllGo(t, c) PROVE TimerAt(d)'
  <2> t \in Threads BY Handles
  <2>1. CASE AllCancel(t, c)
    BY <2>1, Handles DEF AllCancel, Cancel
  <2>2. CASE AllTest(t, c)
    BY <2>2, Handles DEF AllTest
  <2>3. CASE AllWait(t, c)
    BY <2>3, Handles DEF AllWait
  <2>4. CASE AllGo(t, c)
    BY <2>4, Handles DEF AllGo
  <2> QED BY <1>5, <2>1, <2>2, <2>3, <2>4
<1>6. ASSUME NEW t \in Suspenders, DeactivateAll(t) \/ AllScale(t) PROVE TimerAt(d)'
  <2> t \in Threads BY Handles
  <2>1. CASE DeactivateAll(t)
    BY <2>1, Handles DEF DeactivateAll
  <2>2. CASE AllScale(t)
    BY <2>2, Handles DEF AllScale
  <2> QED BY <1>6, <2>1, <2>2
<1>7. ASSUME NEW c \in Clients, WorkActivate(c) \/ TimerFires(c) PROVE TimerAt(d)'
  <2> Wq \in Threads BY Handles
  <2>1. CASE WorkActivate(c)
    BY <2>1, Handles DEF WorkActivate
  <2>2. CASE TimerFires(c)
    BY <2>2, Handles DEF TimerFires
  <2> QED BY <1>7, <2>1, <2>2
<1>8. ASSUME NEW c \in Clients,
             \/ WorkInc(c) \/ WorkState(c) \/ WorkComplete(c) \/ TimerState(c) PROVE TimerAt(d)'
  <2> Wq \in Threads BY Handles
  <2>1. CASE WorkInc(c)
    BY <2>1, Handles DEF WorkInc, TakeVote, StayAwake
  <2>2. CASE WorkState(c)
    BY <2>2, Handles DEF WorkState
  <2>3. CASE WorkComplete(c)
    BY <2>3, Handles DEF WorkComplete
  <2>4. CASE TimerState(c)
    BY <2>4, Handles DEF TimerState
  <2> QED BY <1>8, <2>1, <2>2, <2>3, <2>4
<1>9. CASE ClockScalingFunc
  BY <1>9, Handles, Handles DEF ClockScalingFunc
<1>10. CASE OtherVote
  BY <1>10, Handles, Handles DEF OtherVote
<1> QED
  BY <1>1, <1>2, <1>3, <1>4, <1>5, <1>6, <1>7, <1>8, <1>9, <1>10
     DEF Next, Go, SuspendStep, Take, Work

\* activate_work_func and delayed_deferred_deactivate_work_func never reach
\* their WARN_ON when each client has one kind of calls and nothing suspends.
THEOREM WorksExpected ==
    ASSUME Sync \cap Async = {}, Suspenders = {}
    PROVE  Spec => []NoUnexpectedState
<1> DEFINE I == \A c \in Clients : TimerAt(c)
<1>1. Init => I
  BY Handles DEF Init, TimerAt
<1>2. Types /\ Placed /\ I /\ [Next]_vars => I'
  <2> SUFFICES ASSUME Types, Placed, I, [Next]_vars, NEW c \in Clients
               PROVE  TimerAt(c)'
    OBVIOUS
  <2> QED BY TimerNext
<1>3. Placed /\ (\A c \in Clients \ Sync : AsyncAt(c)) /\ I => NoUnexpectedState
  <2> SUFFICES ASSUME Placed, \A c \in Clients \ Sync : AsyncAt(c), I,
                      NEW c \in Clients, of[Wq] = c,
                      at[Wq] \in {"work", "work_state", "timer"}
               PROVE  /\ at[Wq] # "timer" => state[c] \in InProgress
                      /\ at[Wq] = "timer" => state[c] \in TimerStates
    BY DEF NoUnexpectedState
  <2>1. c \in Clients \ Sync BY Handles DEF Placed, PlacedAt, WqPoints
  <2> QED BY <2>1 DEF AsyncAt, TimerAt
<1> QED BY <1>1, <1>2, <1>3, TypesHold, AsyncHolds, PTL DEF Spec

-----------------------------------------------------------------------------
\* The votes of the clients whose drivers use one kind of calls for them.
OneKind == Clients \ (Sync \cap Async)

Balanced == \A c \in OneKind \ skip : Drift(c) = 0

NoSkipVotes == \A c \in skip : votes[c] = 0

\* The handlers that set a state regardless find the one they expect.
LEMMA NeverExcused ==
    ASSUME Types, Placed, \A c \in SyncOnly : SyncAt(c),
           \A c \in Clients \ Sync : AsyncAt(c), NEW d \in OneKind
    PROVE  ~Excused(d)
<1>1. CASE d \in Sync
  <2> d \in SyncOnly /\ d \in Threads BY <1>1, Handles DEF OneKind, SyncOnly
  <2>1. ~(of[Wq] = d /\ at[Wq] = "work_state")
    BY Handles DEF Placed, PlacedAt, WqPoints, SyncOnly
  <2> QED BY <2>1 DEF SyncAt, Excused, Active
<1>2. CASE d \notin Sync
  <2> d \in Clients \ Sync BY <1>2 DEF OneKind
  <2>0. AsyncAt(d) OBVIOUS
  <2>1. At(Wq, "work_state", d) => state[d] \in InProgress BY <2>0 DEF AsyncAt
  <2> QED BY <1>2, <2>1 DEF Excused
<1> QED BY <1>1, <1>2


\* skip_clk_vote is fixed, and its clients have no vote.
LEMMA SkipNext ==
    ASSUME Types, NoSkipVotes, [Next]_vars
    PROVE  skip' = skip /\ NoSkipVotes'
<1> USE DEF NoSkipVotes
<1> DEFINE Goal == skip' = skip /\ NoSkipVotes'
<1> SUFFICES ASSUME Next PROVE Goal BY DEF vars
<1> /\ at \in [Threads -> CallPoints] /\ of \in [Threads -> Clients \cup {NoClient}]
    /\ state \in [Clients -> States] /\ votes \in [Clients -> Int]
  BY DEF Types
<1> skip \subseteq Clients BY Handles DEF Types
<1>1. ASSUME NEW c \in Async, NEW t \in Atomic \cup ({c} \cap Sync),
             AsyncCall(t, c) PROVE Goal
  <2> c \in Clients /\ t \in Threads /\ t \in Callers BY Handles
  <2>1. CASE Activate(t, c)
    BY <2>1 DEF Activate
  <2>2. CASE ActivateNow(t, c)
    BY <2>2 DEF ActivateNow, TakeVote, StayAwake
  <2>3. CASE ActivateLater(t, c)
    BY <2>3 DEF ActivateLater
  <2>4. CASE DeferredDeactivate(t, c)
    BY <2>4 DEF DeferredDeactivate
  <2> QED BY <1>1, <2>1, <2>2, <2>3, <2>4 DEF AsyncCall
<1>2. ASSUME NEW c \in Sync, SyncCall(c, c) PROVE Goal
  <2> c \in Clients /\ c \in Threads BY Handles
  <2>1. CASE ActivateSync(c, c)
    BY <2>1 DEF ActivateSync
  <2>2. CASE DeactivateSync(c, c)
    BY <2>2 DEF DeactivateSync
  <2> QED BY <1>2, <2>1, <2>2 DEF SyncCall
<1>3. ASSUME NEW t \in Threads, Scale(t) PROVE Goal
  <2>1. CASE DoClkScaling(t)
    BY <2>1 DEF DoClkScaling
  <2>2. CASE SetClockPlan(t)
    BY <2>2 DEF SetClockPlan
  <2> QED BY <1>3, <2>1, <2>2 DEF Scale
<1>4. ASSUME NEW t \in Threads, NEW c \in Clients, Continue(t, c) PROVE Goal
  <2>1. CASE Devote(t, c)
    <3>1. skip' = skip /\ DropVote(c) BY <2>1, DevoteCases
    <3> QED BY <3>1 DEF DropVote
  <2>2. CASE DeactivateClient(t, c)
    BY <2>2, ClearCases
  <2>3. CASE ActivateClient(t, c)
    BY <2>3 DEF ActivateClient
  <2>4. CASE ActivateSyncWait(t, c)
    BY <2>4 DEF ActivateSyncWait
  <2>5. CASE ActivateSyncGo(t, c)
    BY <2>5 DEF ActivateSyncGo, StayAwake
  <2>6. CASE ActivateSyncInc(t, c)
    BY <2>6 DEF ActivateSyncInc, TakeVote
  <2>7. CASE ActivateSyncSet(t, c)
    BY <2>7 DEF ActivateSyncSet, StayAwake
  <2>8. CASE DeactivateSyncCancel(t, c)
    BY <2>8 DEF DeactivateSyncCancel, Cancel
  <2>9. CASE DeactivateSyncTest(t, c)
    BY <2>9 DEF DeactivateSyncTest
  <2>10. CASE DeactivateSyncWait(t, c)
    BY <2>10 DEF DeactivateSyncWait
  <2>11. CASE DeactivateSyncGo(t, c)
    BY <2>11 DEF DeactivateSyncGo
  <2>12. CASE DeactivateSyncSet(t, c)
    BY <2>12 DEF DeactivateSyncSet
  <2>13. CASE DeactivateSyncAgain(t, c)
    BY <2>13 DEF DeactivateSyncAgain, Cancel
  <2> QED BY <1>4, <2>1, <2>2, <2>3, <2>4, <2>5, <2>6, <2>7, <2>8, <2>9, <2>10,
     <2>11, <2>12, <2>13 DEF Continue
<1>5. ASSUME NEW t \in Suspenders, NEW c \in Clients,
             \/ AllCancel(t, c) \/ AllTest(t, c) \/ AllWait(t, c) \/ AllGo(t, c) PROVE Goal
  <2> t \in Threads BY Handles
  <2>1. CASE AllCancel(t, c)
    BY <2>1 DEF AllCancel, Cancel
  <2>2. CASE AllTest(t, c)
    BY <2>2 DEF AllTest
  <2>3. CASE AllWait(t, c)
    BY <2>3 DEF AllWait
  <2>4. CASE AllGo(t, c)
    BY <2>4 DEF AllGo
  <2> QED BY <1>5, <2>1, <2>2, <2>3, <2>4
<1>6. ASSUME NEW t \in Suspenders, DeactivateAll(t) \/ AllScale(t) PROVE Goal
  <2> t \in Threads BY Handles
  <2>1. CASE DeactivateAll(t)
    BY <2>1 DEF DeactivateAll
  <2>2. CASE AllScale(t)
    BY <2>2 DEF AllScale
  <2> QED BY <1>6, <2>1, <2>2
<1>7. ASSUME NEW c \in Clients, WorkActivate(c) \/ TimerFires(c) PROVE Goal
  <2> Wq \in Threads BY Handles
  <2>1. CASE WorkActivate(c)
    BY <2>1 DEF WorkActivate
  <2>2. CASE TimerFires(c)
    BY <2>2 DEF TimerFires
  <2> QED BY <1>7, <2>1, <2>2
<1>8. ASSUME NEW c \in Clients,
             \/ WorkInc(c) \/ WorkState(c) \/ WorkComplete(c) \/ TimerState(c) PROVE Goal
  <2> Wq \in Threads BY Handles
  <2>1. CASE WorkInc(c)
    BY <2>1 DEF WorkInc, TakeVote, StayAwake
  <2>2. CASE WorkState(c)
    BY <2>2 DEF WorkState
  <2>3. CASE WorkComplete(c)
    BY <2>3 DEF WorkComplete
  <2>4. CASE TimerState(c)
    BY <2>4 DEF TimerState
  <2> QED BY <1>8, <2>1, <2>2, <2>3, <2>4
<1>9. CASE ClockScalingFunc
  BY <1>9, Handles DEF ClockScalingFunc
<1>10. CASE OtherVote
  BY <1>10, Handles DEF OtherVote
<1> QED
  BY <1>1, <1>2, <1>3, <1>4, <1>5, <1>6, <1>7, <1>8, <1>9, <1>10
     DEF Next, Go, SuspendStep, Take, Work

LEMMA BalanceHolds == Spec => [](Balanced /\ NoSkipVotes)
<1> DEFINE I == Balanced /\ NoSkipVotes
           S == \A c \in SyncOnly : SyncAt(c) /\ SyncMarks(c)
           A == \A c \in Clients \ Sync : AsyncAt(c)
<1>1. Init => I
  <2> SUFFICES ASSUME Init PROVE Balanced /\ NoSkipVotes OBVIOUS
  <2>1. NoSkipVotes BY Handles DEF Init, NoSkipVotes
  <2>2. ASSUME NEW c \in OneKind \ skip PROVE Drift(c) = 0
    <3>1. c \in Clients BY DEF OneKind
    <3>2. \A p : "idle" \notin p => Inside(c, p) = {} BY DEF Init, Inside
    <3>3. votes[c] = 0 /\ state[c] \notin Active
      BY <3>1 DEF Init, Active, TimerStates
    <3> QED BY <3>2, <3>3, FS_EmptySet DEF Drift
  <2> QED BY <2>1, <2>2 DEF Balanced
<1>2. Types /\ Types' /\ Placed /\ S /\ A /\ Balanced /\ NoSkipVotes
        /\ [Next]_vars => Balanced'
  <2> SUFFICES ASSUME Types, Types', Placed, S, A, Balanced, NoSkipVotes,
                      [Next]_vars,
                      NEW c \in OneKind \ skip'
               PROVE  Drift(c)' = 0
    BY DEF Balanced, OneKind
  <2>1. c \in OneKind \ skip /\ c \in Clients \ skip BY SkipNext DEF OneKind
  <2>2. ~Excused(c) BY <2>1, NeverExcused
  <2>3. Drift(c) = 0 BY <2>1 DEF Balanced
  <2> QED BY <2>1, <2>2, <2>3, DriftNext
<1>3. Types /\ NoSkipVotes /\ [Next]_vars => NoSkipVotes' BY SkipNext
<1> QED
  BY <1>1, <1>2, <1>3, TypesHold, SyncHolds, AsyncHolds, PTL DEF Spec

\* No vote is lost and none is dropped twice for a client whose driver uses one
\* kind of calls for it, through timers, undone activations and suspends.
THEOREM VotesBalance ==
    ASSUME Sync \cap Async = {}
    PROVE  Spec => []VoteBalance
<1>1. Balanced => VoteBalance BY DEF Balanced, VoteBalance, OneKind
<1> QED BY <1>1, BalanceHolds, PTL

\* The clients of synchronous drivers are as their calls left them.
SyncOK == \A c \in SyncOnly : SyncAt(c) /\ SyncMarks(c)

\* No client has votes below zero, and an active one that is not inside the
\* window of deactivate_sync has one.
LEMMA VotesNatural ==
    ASSUME Sync \cap Async = {}, Types, Placed, SyncOK, Balanced, NoSkipVotes,
           NEW c \in Clients
    PROVE  /\ votes[c] \in Nat
           /\ state[c] \in Active /\ c \notin skip
                /\ Inside(c, {"off_set"}) = {} => votes[c] >= 1
<1>1. CASE c \in skip BY <1>1 DEF NoSkipVotes
<1>2. CASE c \notin skip
  <2> DEFINE n == Cardinality(Inside(c, {"off_set"}))
             h == Cardinality(Inside(c, Held))
  <2>1. n \in Nat /\ h \in Nat BY InsideFinite
  <2>2. votes[c] + n - Worth(state[c]) - h = 0
    BY <1>2 DEF Balanced, OneKind, Drift, Worth, Held
  <2>3. votes[c] \in Int BY DEF Types
  <2>4. CASE Inside(c, {"off_set"}) = {}
    <3>1. n = 0 BY <2>4, FS_EmptySet
    <3> HIDE DEF n, h
    <3> QED BY <2>1, <2>2, <2>3, <2>4, <3>1 DEF Worth
  <2>5. CASE Inside(c, {"off_set"}) # {}
    <3>1. Inside(c, {"off_set"}) = {c} /\ c \in Sync
      BY <2>5, Handles DEF Inside, Placed, PlacedAt, SyncPoints
    <3>2. n = 1 BY <3>1, FS_Singleton
    <3>3. at[c] = "off_set" BY <3>1 DEF Inside
    <3>4. state[c] = "ACTIVATED" BY <3>1, <3>3, Handles DEF SyncOK, SyncAt, SyncOnly
    <3> HIDE DEF n, h
    <3> QED BY <2>1, <2>2, <2>3, <2>5, <3>2, <3>4 DEF Worth, Active
  <2> QED BY <2>4, <2>5
<1> QED BY <1>1, <1>2

\* And no client drops a vote that it does not have.
THEOREM TypeCorrect ==
    ASSUME Sync \cap Async = {}
    PROVE  Spec => []TypeOK
<1>1. Types /\ Placed /\ SyncOK /\ Balanced /\ NoSkipVotes => TypeOK
  BY VotesNatural DEF TypeOK
<1>2. Spec => []SyncOK BY SyncHolds DEF SyncOK
<1> QED BY <1>1, <1>2, TypesHold, BalanceHolds, PTL

-----------------------------------------------------------------------------
(* The clock plan.                                                         *)

\* A thread that is going to run do_clk_scaling for a change it has made, or
\* is about to make; run_algorithm stands for those of the suspend loop.
ScalePoints == {"async_bit", "sync_bit", "work_done", "work_bit", "timer_dec",
                "timer_bit", "off_set", "off_again", "off_bit", "scale"}

Heading(t) == at[t] \in ScalePoints \/ (t \in Suspenders /\ run[t])

\* Nobody is going to compute another plan for what has changed so far.
Settled == ~scaleq /\ \A t \in Threads : ~Heading(t)

\* A thread that is going to apply the latest plan.
Applies(t) == at[t] = "scale_set" /\ plan[t].latest

RunKept == \A t \in Suspenders : at[t] \in {"all_dec", "all_bit"} => run[t]

\* Then the plan that is going to be applied, or else the one that is set, is
\* the one of the active clients.
PlanOK ==
    Settled /\ ActiveSet \ skip # {} =>
        /\ \A t \in Threads : Applies(t) => plan[t].active = ActiveSet /\ thr = bits
        /\ (\A t \in Threads : ~Applies(t)) /\ cur.plan.latest =>
               cur.plan.active = ActiveSet /\ cur.bits = bits

\* And the clock is on, so that do_clk_scaling does not skip it.
OnWhenSettled == Settled /\ ActiveSet \ skip # {} => Clocked

\* An active client that votes keeps the clock on, unless it is on its way out
\* of deactivate_sync.
LEMMA OnIfSettled ==
    ASSUME Sync \cap Async = {}, Types, Placed, SyncOK, Balanced, NoSkipVotes
    PROVE  OnWhenSettled
<1> SUFFICES ASSUME Settled, NEW c \in ActiveSet \ skip PROVE Clocked
  BY DEF OnWhenSettled
<1>1. c \in Clients /\ state[c] \in Active BY DEF ActiveSet
<1>2. Inside(c, {"off_set"}) = {}
  BY DEF Settled, Heading, ScalePoints, Inside
<1>3. votes[c] >= 1 BY <1>1, <1>2, VotesNatural
<1>4. \A d \in Clients : votes[d] \in Nat BY VotesNatural
<1>5. VoteSum(votes) \in Nat /\ \A d \in Clients : VoteSum(votes) >= votes[d]
  <2>1. VoteSum(votes) = SumOver(votes, Clients) BY DEF VoteSum, SumOver
  <2> QED BY <1>4, <2>1, HandlesAssumption, SumOfNaturals
<1>6. VoteSum(votes) > 0 BY <1>1, <1>3, <1>4, <1>5
<1> QED BY <1>6 DEF Clocked

\* The plan is not touched, and neither is what it stands for.
Kept ==
    /\ ActiveSet' = ActiveSet
    /\ UNCHANGED <<skip, bits, cur, plan, thr>>
    /\ \A t \in Threads : at'[t] = "scale_set" <=> at[t] = "scale_set"
    /\ Settled' => Settled

\* Then it is still the one of the active clients.
LEMMA PlanFrame == ASSUME PlanOK, Kept PROVE PlanOK'
BY DEF PlanOK, Kept, Applies

\* cur_vote is reset only when the clock is gated, which is when nobody would
\* use a plan.
LEMMA StillOn ==
    ASSUME Types, PlanOK, OnWhenSettled', ResetIfGated, ActiveSet' = ActiveSet,
           UNCHANGED <<skip, bits, plan, thr>>,
           \A t \in Threads : at'[t] = "scale_set" <=> at[t] = "scale_set",
           Settled' => Settled
    PROVE  PlanOK'
<1>1. CASE Clocked'
  <2>1. cur' = cur BY <1>1 DEF ResetIfGated
  <2> QED BY <2>1, PlanFrame DEF Kept
<1>2. CASE ~Clocked'
  <2>1. ~(Settled' /\ ActiveSet' \ skip' # {}) BY <1>2 DEF OnWhenSettled
  <2> QED BY <2>1 DEF PlanOK
<1> QED BY <1>1, <1>2

\* A step that changes the active clients or their bits is made by a thread that
\* is heading for do_clk_scaling afterwards, and the thread that leaves it has
\* computed the plan.
LEMMA PlanNext ==
    ASSUME Types, Placed, RunKept, PlanOK, OnWhenSettled, OnWhenSettled', [Next]_vars
    PROVE  RunKept' /\ PlanOK'
<1> DEFINE Moved == RunKept' /\ (~Settled' \/ Kept)
           Goal == RunKept' /\ PlanOK'
<1>0. Moved => Goal
  <2>1. ~Settled' => PlanOK' BY DEF PlanOK
  <2> QED BY <2>1, PlanFrame
<1> SUFFICES ASSUME Next PROVE Goal
  BY DEF vars, RunKept, PlanOK, Settled, Heading, Applies, ActiveSet
<1> /\ at \in [Threads -> CallPoints] /\ of \in [Threads -> Clients \cup {NoClient}]
    /\ state \in [Clients -> States] /\ run \in [Suspenders -> BOOLEAN]
    /\ scaleq \in BOOLEAN
  BY DEF Types
<1> USE DEF RunKept, Kept, Settled, Heading, ScalePoints, ActiveSet,
            Placed, PlacedAt, SyncPoints, AllPoints, WqPoints,
            Active, InProgress, TimerStates
<1>1. ASSUME NEW c \in Async, NEW t \in Atomic \cup ({c} \cap Sync),
             AsyncCall(t, c) PROVE Moved
  <2> c \in Clients /\ t \in Threads /\ t \in Callers BY Handles
  <2>1. CASE Activate(t, c)
    BY <2>1, Handles DEF Activate
  <2>2. CASE ActivateNow(t, c)
    BY <2>2, Handles DEF ActivateNow, TakeVote, StayAwake
  <2>3. CASE ActivateLater(t, c)
    BY <2>3, Handles DEF ActivateLater
  <2>4. CASE DeferredDeactivate(t, c)
    BY <2>4, Handles DEF DeferredDeactivate
  <2> QED BY <1>1, <2>1, <2>2, <2>3, <2>4 DEF AsyncCall
<1>2. ASSUME NEW c \in Sync, SyncCall(c, c) PROVE Moved
  <2> c \in Clients /\ c \in Threads BY Handles
  <2>1. CASE ActivateSync(c, c)
    BY <2>1, Handles DEF ActivateSync
  <2>2. CASE DeactivateSync(c, c)
    BY <2>2, Handles DEF DeactivateSync
  <2> QED BY <1>2, <2>1, <2>2 DEF SyncCall
<1>3. ASSUME NEW t \in Threads, Scale(t) PROVE Goal
  <2>0. RunKept' BY <1>3, Handles DEF Scale, DoClkScaling, SetClockPlan
  <2>1. CASE DoClkScaling(t)
    <3>1. UNCHANGED <<skip, state, votes, other, bits, cur, scaleq, run>>
      BY <2>1 DEF DoClkScaling
    <3>2. ActiveSet' = ActiveSet BY <3>1
    <3>3. CASE ~Clocked
      <4>1. ~(Settled' /\ ActiveSet' \ skip' # {})
        BY <3>1, <3>3 DEF OnWhenSettled, Clocked
      <4> QED BY <2>0, <4>1 DEF PlanOK
    <3>4. CASE Clocked
      <4>1. plan' = [u \in Threads |->
                       IF u = t THEN [active |-> ActiveSet, latest |-> TRUE]
                       ELSE [active |-> plan[u].active,
                             latest |-> plan[u].latest /\ at[u] # "scale_set"]]
        BY <2>1, <3>4, Zenon DEF DoClkScaling, ActiveSet
      <4>2. thr' = bits /\ at' = [at EXCEPT ![t] = "scale_set"]
        BY <2>1, <3>4 DEF DoClkScaling
      <4>3. Applies(t)' /\ plan'[t].active = ActiveSet BY <4>1, <4>2 DEF Applies
      <4>4. ASSUME NEW u \in Threads, u # t PROVE ~Applies(u)'
        <5>1. plan'[u].latest = (plan[u].latest /\ at[u] # "scale_set")
          BY <4>1, <4>4
        <5> QED BY <4>2, <4>4, <5>1 DEF Applies
      <4> HIDE DEF ActiveSet
      <4> QED BY <2>0, <3>1, <3>2, <4>2, <4>3, <4>4 DEF PlanOK
    <3> QED BY <3>3, <3>4
  <2>2. CASE SetClockPlan(t)
    <3>1. /\ UNCHANGED <<skip, state, bits, scaleq, run>>
          /\ at[t] = "scale_set" /\ at' = [at EXCEPT ![t] = "idle"]
          /\ cur' = [plan |-> plan[t], bits |-> thr]
          /\ plan' = [plan EXCEPT ![t] = NoPlan]
      BY <2>2 DEF SetClockPlan
    <3>2. ActiveSet' = ActiveSet /\ (Settled' <=> Settled) BY <3>1
    <3>3. ASSUME NEW u \in Threads
          PROVE  Applies(u)' <=> u # t /\ Applies(u)
      BY <3>1, <3>3 DEF Applies
    <3>4. (\E u \in Threads \ {t} : Applies(u)) => thr' = thr
      BY <2>2 DEF SetClockPlan, LeaveThreshold, Applies
    <3>5. \A u \in Threads \ {t} : plan'[u] = plan[u] BY <3>1 DEF Types
    <3>6. cur'.plan = plan[t] /\ cur'.bits = thr BY <3>1
    <3>7. plan[t].latest => Applies(t) BY <3>1 DEF Applies
    <3> HIDE DEF ActiveSet, Settled
    <3>8. ASSUME Settled', ActiveSet' \ skip' # {}, NEW u \in Threads, Applies(u)'
          PROVE  plan'[u].active = ActiveSet' /\ thr' = bits'
      BY <3>1, <3>2, <3>3, <3>4, <3>5, <3>8 DEF PlanOK
    <3>9. ASSUME Settled', ActiveSet' \ skip' # {}, cur'.plan.latest
          PROVE  cur'.plan.active = ActiveSet' /\ cur'.bits = bits'
      BY <3>1, <3>2, <3>6, <3>7, <3>9 DEF PlanOK
    <3> QED BY <2>0, <3>8, <3>9 DEF PlanOK
  <2> QED BY <1>3, <2>1, <2>2 DEF Scale
<1>4. ASSUME NEW t \in Threads, NEW c \in Clients, Continue(t, c) PROVE Goal
  <2>1. CASE Devote(t, c)
    <3>1. /\ UNCHANGED <<skip, state, bits, plan, thr, scaleq, run>>
          /\ ResetIfGated
      BY <2>1, DevoteCases
    <3>2. RunKept' BY <2>1, DevoteCases, Handles
    <3>3. Settled' => Settled BY <2>1, DevoteCases, Handles
    <3>4. \A u \in Threads : at'[u] = "scale_set" <=> at[u] = "scale_set"
      BY <2>1, DevoteCases
    <3>5. ActiveSet' = ActiveSet BY <3>1
    <3> QED BY <1>0, <3>1, <3>2, <3>3, <3>4, <3>5, StillOn
  <2>2. ASSUME DeactivateClient(t, c) PROVE Moved
    BY <2>2, ClearCases, Handles
  <2>3. ASSUME ActivateClient(t, c) PROVE Moved
    BY <2>3, Handles DEF ActivateClient
  <2>4. ASSUME ActivateSyncWait(t, c) PROVE Moved
    BY <2>4, Handles DEF ActivateSyncWait
  <2>5. ASSUME ActivateSyncGo(t, c) PROVE Moved
    BY <2>5, Handles DEF ActivateSyncGo, StayAwake
  <2>6. ASSUME ActivateSyncInc(t, c) PROVE Moved
    BY <2>6, Handles DEF ActivateSyncInc, TakeVote
  <2>7. ASSUME ActivateSyncSet(t, c) PROVE Moved
    BY <2>7, Handles DEF ActivateSyncSet, StayAwake
  <2>8. ASSUME DeactivateSyncCancel(t, c) PROVE Moved
    BY <2>8, Handles DEF DeactivateSyncCancel, Cancel
  <2>9. ASSUME DeactivateSyncTest(t, c) PROVE Moved
    BY <2>9, Handles DEF DeactivateSyncTest
  <2>10. ASSUME DeactivateSyncWait(t, c) PROVE Moved
    BY <2>10, Handles DEF DeactivateSyncWait
  <2>11. ASSUME DeactivateSyncGo(t, c) PROVE Moved
    BY <2>11, Handles DEF DeactivateSyncGo
  <2>12. ASSUME DeactivateSyncSet(t, c) PROVE Moved
    BY <2>12, Handles DEF DeactivateSyncSet
  <2>13. ASSUME DeactivateSyncAgain(t, c) PROVE Moved
    BY <2>13, Handles DEF DeactivateSyncAgain, Cancel
  <2> QED BY <1>0, <1>4, <2>1, <2>2, <2>3, <2>4, <2>5, <2>6, <2>7, <2>8, <2>9, <2>10,
     <2>11, <2>12, <2>13 DEF Continue
<1>5. ASSUME NEW t \in Suspenders, NEW c \in Clients,
             \/ AllCancel(t, c) \/ AllTest(t, c) \/ AllWait(t, c) \/ AllGo(t, c) PROVE Moved
  <2> t \in Threads BY Handles
  <2>1. CASE AllCancel(t, c)
    BY <2>1, Handles DEF AllCancel, Cancel
  <2>2. CASE AllTest(t, c)
    BY <2>2, Handles DEF AllTest
  <2>3. CASE AllWait(t, c)
    BY <2>3, Handles DEF AllWait
  <2>4. CASE AllGo(t, c)
    BY <2>4, Handles DEF AllGo
  <2> QED BY <1>5, <2>1, <2>2, <2>3, <2>4
<1>6. ASSUME NEW t \in Suspenders, DeactivateAll(t) \/ AllScale(t) PROVE Moved
  <2> t \in Threads BY Handles
  <2>1. CASE DeactivateAll(t)
    BY <2>1, Handles DEF DeactivateAll
  <2>2. CASE AllScale(t)
    BY <2>2, Handles DEF AllScale
  <2> QED BY <1>6, <2>1, <2>2
<1>7. ASSUME NEW c \in Clients, WorkActivate(c) \/ TimerFires(c) PROVE Moved
  <2> Wq \in Threads BY Handles
  <2>1. CASE WorkActivate(c)
    BY <2>1, Handles DEF WorkActivate
  <2>2. CASE TimerFires(c)
    BY <2>2, Handles DEF TimerFires
  <2> QED BY <1>7, <2>1, <2>2
<1>8. ASSUME NEW c \in Clients,
             \/ WorkInc(c) \/ WorkState(c) \/ WorkComplete(c) \/ TimerState(c) PROVE Moved
  <2> Wq \in Threads BY Handles
  <2>1. CASE WorkInc(c)
    BY <2>1, Handles DEF WorkInc, TakeVote, StayAwake
  <2>2. CASE WorkState(c)
    BY <2>2, Handles DEF WorkState
  <2>3. CASE WorkComplete(c)
    BY <2>3, Handles DEF WorkComplete
  <2>4. CASE TimerState(c)
    BY <2>4, Handles DEF TimerState
  <2> QED BY <1>8, <2>1, <2>2, <2>3, <2>4
<1>9. ASSUME ClockScalingFunc PROVE Moved
  BY <1>9, Handles DEF ClockScalingFunc
<1>10. CASE OtherVote
  BY <1>10, <1>0, StillOn DEF OtherVote
<1> QED
  BY <1>0, <1>1, <1>2, <1>3, <1>4, <1>5, <1>6, <1>7, <1>8, <1>9, <1>10
     DEF Next, Go, SuspendStep, Take, Work

\* The clock plan in force at rest is the one of the active clients, by
\* throughput and by threshold, whatever interleaving of activations, timers,
\* suspends and plans led there, unless the application of a plan was overtaken.
THEOREM PlanIsCurrent ==
    ASSUME Sync \cap Async = {}
    PROVE  Spec => []PlanCurrent
<1> DEFINE I == RunKept /\ PlanOK
           B == Balanced /\ NoSkipVotes
           P == Types /\ Placed
<1>1. Init => I
  BY Handles DEF Init, RunKept, PlanOK, ActiveSet, Active, TimerStates
<1>2. P /\ SyncOK /\ B => OnWhenSettled BY OnIfSettled
<1>3. P /\ I /\ OnWhenSettled /\ OnWhenSettled' /\ [Next]_vars => I' BY PlanNext
<1>4. I => PlanCurrent
  BY DEF PlanOK, PlanCurrent, Quiet, Settled, Heading, ScalePoints, Applies
<1>5. Spec => []SyncOK BY SyncHolds DEF SyncOK
<1> QED BY <1>1, <1>2, <1>3, <1>4, <1>5, TypesHold, BalanceHolds, PTL DEF Spec

-----------------------------------------------------------------------------
\* The completion of a client is completed or going to be.
Completing(c) ==
    \/ c \in done \/ c \in actq
    \/ of[Wq] = c /\ at[Wq] \in {"work", "work_state", "work_done", "work_undo"}

\* A change in progress that is not the one of activate_sync (which completes
\* nothing), and a wait, have a completion to come, in every use of the calls;
\* the wait of a suspend only if no client is activated by activate_sync.
Woken(c) ==
    /\ state[c] \in InProgress =>
         Completing(c) \/ (c \in Sync /\ at[c] \in {"sync_inc", "sync_set"})
    /\ \A t \in Threads : of[t] = c =>
         /\ at[t] \in {"sync_wait", "off_wait"} => Completing(c)
         /\ at[t] = "all_wait" /\ Sync = {} => Completing(c)

LEMMA WokenNext ==
    ASSUME Types, Placed, NEW d \in Clients, Woken(d), [Next]_vars
    PROVE  Woken(d)'
<1> USE DEF Woken, Completing, Placed, PlacedAt, SyncPoints, AllPoints, WqPoints,
            Active, InProgress, TimerStates
<1> SUFFICES ASSUME Next PROVE Woken(d)' BY DEF vars
<1> /\ at \in [Threads -> CallPoints] /\ of \in [Threads -> Clients \cup {NoClient}]
    /\ state \in [Clients -> States] /\ votes \in [Clients -> Int]
  BY DEF Types
<1>1. ASSUME NEW c \in Async, NEW t \in Atomic \cup ({c} \cap Sync),
             AsyncCall(t, c) PROVE Woken(d)'
  <2> c \in Clients /\ t \in Threads /\ t \in Callers BY Handles
  <2>1. CASE Activate(t, c)
    BY <2>1, Handles DEF Activate
  <2>2. CASE ActivateNow(t, c)
    BY <2>2, Handles DEF ActivateNow, TakeVote, StayAwake
  <2>3. CASE ActivateLater(t, c)
    BY <2>3, Handles DEF ActivateLater
  <2>4. CASE DeferredDeactivate(t, c)
    BY <2>4, Handles DEF DeferredDeactivate
  <2> QED BY <1>1, <2>1, <2>2, <2>3, <2>4 DEF AsyncCall
<1>2. ASSUME NEW c \in Sync, SyncCall(c, c) PROVE Woken(d)'
  <2> c \in Clients /\ c \in Threads BY Handles
  <2>1. CASE ActivateSync(c, c)
    BY <2>1, Handles DEF ActivateSync
  <2>2. CASE DeactivateSync(c, c)
    BY <2>2, Handles DEF DeactivateSync
  <2> QED BY <1>2, <2>1, <2>2 DEF SyncCall
<1>3. ASSUME NEW t \in Threads, Scale(t) PROVE Woken(d)'
  <2>1. CASE DoClkScaling(t)
    BY <2>1, Handles DEF DoClkScaling
  <2>2. CASE SetClockPlan(t)
    BY <2>2, Handles DEF SetClockPlan
  <2> QED BY <1>3, <2>1, <2>2 DEF Scale
<1>4. ASSUME NEW t \in Threads, NEW c \in Clients, Continue(t, c) PROVE Woken(d)'
  <2>1. CASE Devote(t, c)
    BY <2>1, DevoteCases, Handles DEF DropVote
  <2>2. CASE DeactivateClient(t, c)
    BY <2>2, ClearCases, Handles
  <2>3. CASE ActivateClient(t, c)
    BY <2>3, Handles DEF ActivateClient
  <2>4. CASE ActivateSyncWait(t, c)
    BY <2>4, Handles DEF ActivateSyncWait
  <2>5. CASE ActivateSyncGo(t, c)
    BY <2>5, Handles DEF ActivateSyncGo, StayAwake
  <2>6. CASE ActivateSyncInc(t, c)
    BY <2>6, Handles DEF ActivateSyncInc, TakeVote
  <2>7. CASE ActivateSyncSet(t, c)
    BY <2>7, Handles DEF ActivateSyncSet, StayAwake
  <2>8. CASE DeactivateSyncCancel(t, c)
    BY <2>8, Handles DEF DeactivateSyncCancel, Cancel
  <2>9. CASE DeactivateSyncTest(t, c)
    BY <2>9, Handles DEF DeactivateSyncTest
  <2>10. CASE DeactivateSyncWait(t, c)
    BY <2>10, Handles DEF DeactivateSyncWait
  <2>11. CASE DeactivateSyncGo(t, c)
    BY <2>11, Handles DEF DeactivateSyncGo
  <2>12. CASE DeactivateSyncSet(t, c)
    BY <2>12, Handles DEF DeactivateSyncSet
  <2>13. CASE DeactivateSyncAgain(t, c)
    BY <2>13, Handles DEF DeactivateSyncAgain, Cancel
  <2> QED BY <1>4, <2>1, <2>2, <2>3, <2>4, <2>5, <2>6, <2>7, <2>8, <2>9, <2>10,
     <2>11, <2>12, <2>13 DEF Continue
<1>5. ASSUME NEW t \in Suspenders, NEW c \in Clients,
             \/ AllCancel(t, c) \/ AllTest(t, c) \/ AllWait(t, c) \/ AllGo(t, c) PROVE Woken(d)'
  <2> t \in Threads BY Handles
  <2>1. CASE AllCancel(t, c)
    BY <2>1, Handles DEF AllCancel, Cancel
  <2>2. CASE AllTest(t, c)
    BY <2>2, Handles DEF AllTest
  <2>3. CASE AllWait(t, c)
    BY <2>3, Handles DEF AllWait
  <2>4. CASE AllGo(t, c)
    BY <2>4, Handles DEF AllGo
  <2> QED BY <1>5, <2>1, <2>2, <2>3, <2>4
<1>6. ASSUME NEW t \in Suspenders, DeactivateAll(t) \/ AllScale(t) PROVE Woken(d)'
  <2> t \in Threads BY Handles
  <2>1. CASE DeactivateAll(t)
    BY <2>1, Handles DEF DeactivateAll
  <2>2. CASE AllScale(t)
    BY <2>2, Handles DEF AllScale
  <2> QED BY <1>6, <2>1, <2>2
<1>7. ASSUME NEW c \in Clients, WorkActivate(c) \/ TimerFires(c) PROVE Woken(d)'
  <2> Wq \in Threads BY Handles
  <2>1. CASE WorkActivate(c)
    BY <2>1, Handles DEF WorkActivate
  <2>2. CASE TimerFires(c)
    BY <2>2, Handles DEF TimerFires
  <2> QED BY <1>7, <2>1, <2>2
<1>8. ASSUME NEW c \in Clients,
             \/ WorkInc(c) \/ WorkState(c) \/ WorkComplete(c) \/ TimerState(c) PROVE Woken(d)'
  <2> Wq \in Threads BY Handles
  <2>1. CASE WorkInc(c)
    BY <2>1, Handles DEF WorkInc, TakeVote, StayAwake
  <2>2. CASE WorkState(c)
    BY <2>2, Handles DEF WorkState
  <2>3. CASE WorkComplete(c)
    BY <2>3, Handles DEF WorkComplete
  <2>4. CASE TimerState(c)
    BY <2>4, Handles DEF TimerState
  <2> QED BY <1>8, <2>1, <2>2, <2>3, <2>4
<1>9. CASE ClockScalingFunc
  BY <1>9, Handles, Handles DEF ClockScalingFunc
<1>10. CASE OtherVote
  BY <1>10, Handles, Handles DEF OtherVote
<1> QED
  BY <1>1, <1>2, <1>3, <1>4, <1>5, <1>6, <1>7, <1>8, <1>9, <1>10
     DEF Next, Go, SuspendStep, Take, Work

\* Whoever waits for a completion is woken up, mixed calls included, unless a
\* suspend meets a client that activate_sync is activating.
THEOREM WaitsEnd ==
    ASSUME Suspenders = {} \/ Sync = {}
    PROVE  Spec => []WaitersWoken
<1> DEFINE I == \A c \in Clients : Woken(c)
<1>1. Init => I
  BY Handles DEF Init, Woken, InProgress
<1>2. Types /\ Placed /\ I /\ [Next]_vars => I' BY WokenNext
<1>3. Placed /\ I => WaitersWoken
  <2> SUFFICES ASSUME Placed, I, NEW c \in Clients, NEW t \in Threads,
                      of[t] = c, at[t] \in {"sync_wait", "off_wait", "all_wait"}
               PROVE  \/ c \in done \/ c \in actq
                      \/ Inside(c, {"work", "work_state", "work_done",
                                    "work_undo"}) # {}
    BY DEF WaitersWoken, Inside
  <2>1. at[t] = "all_wait" => Sync = {} BY DEF Placed, PlacedAt, AllPoints
  <2>2. Completing(c) BY <2>1 DEF Woken
  <2> QED BY <2>2, Handles DEF Completing, Inside
<1> QED BY <1>1, <1>2, <1>3, TypesHold, PTL DEF Spec

=============================================================================
