------------------------------- MODULE IpaPm -------------------------------
(***************************************************************************)
(* The IPA power management clients of                                     *)
(* dataipa/drivers/platform/msm/ipa/ipa_v3/ipa_pm.c: each client has a     *)
(* state under its own state_lock, a completion, a wakeup source, a bit in *)
(* active_client_bitmask, a work that activates it and a delayed work that *)
(* deactivates it, both on the single-threaded workqueue ipa_pm_ctx->wq.   *)
(* Activating or deactivating a client ends in do_clk_scaling.             *)
(*                                                                         *)
(* The clock votes are those of ActiveClients, seen through what           *)
(* IPA_ACTIVE_CLIENTS_INC, _DEC and inc_no_block promise: votes are        *)
(* counted per client, and the non-blocking vote succeeds iff somebody     *)
(* holds one.                                                              *)
(*                                                                         *)
(* One step is what runs under one hold of a lock, or one call outside.    *)
(* The clients stay registered; ClkScaling has registration.               *)
(***************************************************************************)
EXTENDS Integers, FiniteSets, FiniteSetsExt

CONSTANTS
    Clients,     \* handles of the registered clients (ipa_pm_ctx->clients)
    Skip,        \* the clients that may be registered with skip_clk_vote
    Apps,        \* the clients of group IPA_PM_GROUP_APPS
    Async,       \* the clients whose drivers use ipa_pm_activate
    Sync,        \* the clients whose drivers use ipa_pm_activate_sync
    Atomic,      \* threads in atomic context: they only use the async calls
    Suspenders,  \* threads that run ipa3_ap_suspend
    Wq,          \* the worker of ipa_pm_ctx->wq
    NoClient,    \* "none"
    MaxVotes     \* bound: no call begins once a client is this far off 0 votes

\* The driver of a Sync client is a thread of its own, named by the handle:
\* its calls come one after the other.
Callers == Atomic \cup Sync
Threads == Callers \cup Suspenders \cup {Wq}

ASSUME HandlesAssumption ==
    /\ Clients \subseteq Nat /\ IsFiniteSet(Clients)
    /\ NoClient \notin Clients
    /\ Skip \subseteq Clients
    /\ Apps \subseteq Clients
    /\ Async \subseteq Clients
    /\ Sync \subseteq Clients
    /\ MaxVotes \in Nat

ASSUME PmThreadsAssumption ==
    /\ IsFiniteSet(Atomic) /\ IsFiniteSet(Suspenders)
    /\ Atomic \cap Sync = {}
    /\ Callers \cap Suspenders = {}
    /\ Wq \notin Callers \cup Suspenders

InProgress == {"ACTIVATE_IN_PROGRESS", "DEACTIVATE_IN_PROGRESS"}

TimerStates == {"ACTIVATED_PENDING_DEACTIVATION", "ACTIVATED_TIMER_SET",
                "ACTIVATED_PENDING_RESCHEDULE"}

Active == {"ACTIVATED"} \cup TimerStates

States == {"DEACTIVATED"} \cup InProgress \cup Active

\* What do_clk_scaling takes out of client_mutex: the throughput, here the
\* clients it found active; and, as history, whether it is still the latest.
Plans == [active : SUBSET Clients, latest : BOOLEAN]

NoPlan == [active |-> {}, latest |-> TRUE]

\* What clk_scaling.cur_vote was computed from: a throughput, and the bits
\* behind the threshold it was compared with.
Votes == [plan : Plans, bits : SUBSET Clients]

NoVote == [plan |-> NoPlan, bits |-> {}]

VARIABLES
    skip,    \* the clients registered with skip_clk_vote
    state,   \* client->state
    done,    \* clients whose completion is completed
    votes,   \* clock votes taken in the name of the client
    awake,   \* clients whose wlock is held
    bits,    \* active_client_bitmask
    thr,     \* clk_scaling.current_threshold: the bits it was chosen by, while
             \* a thread is going to read it, else {}
    actq,    \* clients whose activate_work is queued
    deactq,  \* clients whose deactivate_work is queued (timer included)
    scaleq,  \* clk_scaling.work is queued
    other,   \* somebody outside the PM holds a clock vote
    cur,     \* clk_scaling.cur_vote: what it was computed from
    at,      \* control point of every thread
    of,      \* the client a thread is dealing with
    plan,    \* the plan a thread has computed in do_clk_scaling
    todo,    \* handles ipa_pm_deactivate_all_deferred has still to visit
    run      \* its run_algorithm

vars == <<skip, state, done, votes, awake, bits, thr, actq, deactq,
          scaleq, other, cur, at, of, plan, todo, run>>

queues  == <<actq, deactq, scaleq>>
clock   == <<other, cur, plan, thr>>
threads == <<at, of>>
suspend == <<todo, run>>

Init ==
    /\ skip \in SUBSET Skip
    /\ state = [c \in Clients |-> "DEACTIVATED"]
    /\ done = {}
    /\ votes = [c \in Clients |-> 0]
    /\ awake = {}
    /\ bits = {}
    /\ thr = {}
    /\ actq = {}
    /\ deactq = {}
    /\ scaleq = FALSE
    /\ other \in BOOLEAN
    /\ cur = NoVote
    /\ at = [t \in Threads |-> "idle"]
    /\ of = [t \in Threads |-> NoClient]
    /\ plan = [t \in Threads |-> NoPlan]
    /\ todo = [t \in Suspenders |-> {}]
    /\ run = [t \in Suspenders |-> FALSE]

SetState(c, s) == state' = [state EXCEPT ![c] = s]

At(t, point, c) == at[t] = point /\ of[t] = c

Goto(t, point, c) ==
    /\ at' = [at EXCEPT ![t] = point]
    /\ of' = [of EXCEPT ![t] = c]

Step(t, from, to, c) == At(t, from, c) /\ Goto(t, to, c)

Return(t) == Goto(t, "idle", NoClient)

-----------------------------------------------------------------------------
(* The clock vote, the wakeup source, the bitmask and the clock plan.      *)

\* The clock votes of all clients.
VoteSum(v) == MapThenSumSet(LAMBDA c : v[c], Clients)

\* The condition of ipa3_inc_client_enable_clks_no_block, and of the clock
\* not being gated.
Clocked == other \/ VoteSum(votes) > 0

\* IPA_ACTIVE_CLIENTS_INC_SPECIAL, unless skip_clk_vote.
TakeVote(c) == votes' = IF c \in skip THEN votes
                        ELSE [votes EXCEPT ![c] = @ + 1]

\* IPA_ACTIVE_CLIENTS_DEC_SPECIAL and then __pm_relax, unless skip_clk_vote.
DropVote(c) ==
    IF c \in skip THEN UNCHANGED <<votes, awake>>
    ELSE /\ votes' = [votes EXCEPT ![c] = @ - 1]
         /\ awake' = awake \ ({c} \cap Apps)

StayAwake(c) == awake' = awake \cup ({c} \cap Apps)

\* ipa3_disable_clks resets cur_vote (ipa_pm_set_clock_index(0)).
ResetIfGated == cur' = IF Clocked' THEN cur ELSE NoVote

\* External: votes of the other users of the IPA clock come and go.
OtherVote ==
    /\ other' = ~other
    /\ UNCHANGED <<skip, state, done, votes, awake, bits, queues, threads,
                   plan, thr, suspend>>
    /\ ResetIfGated

\* The common tails of the handlers: drop the vote, ...
AfterDevote == [undo_dec |-> "idle", timer_dec |-> "timer_bit",
                off_dec |-> "off_set", all_dec |-> "all_bit"]

Devote(t, c) ==
    /\ \E p \in DOMAIN AfterDevote :
         /\ At(t, p, c)
         /\ IF AfterDevote[p] = "idle" THEN Return(t)
                                       ELSE Goto(t, AfterDevote[p], c)
    /\ DropVote(c)
    /\ UNCHANGED <<skip, state, done, bits, queues, other, plan, thr,
                   suspend>>
    /\ ResetIfGated

\* ... deactivate_client, ...
AfterClear == [timer_bit |-> "scale", off_bit |-> "scale", all_bit |-> "idle"]

\* Mutant: the bit stays.
DeactivateClientKeep(t, c) ==
    /\ \E p \in DOMAIN AfterClear :
         At(t, p, c) /\ Goto(t, AfterClear[p], NoClient)
    /\ UNCHANGED <<skip, state, done, votes, awake, bits, queues, clock,
                   suspend>>

DeactivateClient(t, c) ==
    /\ \E p \in DOMAIN AfterClear :
         At(t, p, c) /\ Goto(t, AfterClear[p], NoClient)
    /\ bits' = bits \ {c}
    /\ UNCHANGED <<skip, state, done, votes, awake, queues, clock, suspend>>

\* ... or activate_client, with clock scaling here or, after ipa_pm_activate,
\* on the workqueue, ...
ActivateClient(t, c) ==
    /\ \/ At(t, "async_bit", c) /\ scaleq' = TRUE /\ Return(t)
       \/ /\ At(t, "sync_bit", c) \/ At(t, "work_bit", c)
          /\ Goto(t, "scale", NoClient)
          /\ UNCHANGED scaleq
    /\ bits' = bits \cup {c}
    /\ UNCHANGED <<skip, state, done, votes, awake, actq, deactq, clock,
                   suspend>>

\* ... and do_clk_scaling: throughput and threshold are computed under
\* client_mutex (but not under any state_lock) ...
DoClkScaling(t) ==
    /\ at[t] = "scale"
    /\ \/ ~Clocked /\ Return(t) /\ UNCHANGED <<plan, thr>>
       \/ /\ Clocked
          /\ plan' = [u \in Threads |->
                        IF u = t
                        THEN [active |-> {c \in Clients : state[c] \in Active},
                              latest |-> TRUE]
                        ELSE [active |-> plan[u].active,
                              latest |-> plan[u].latest /\ at[u] # "scale_set"]]
          /\ thr' = bits
          /\ Goto(t, "scale_set", NoClient)
    /\ UNCHANGED <<skip, state, done, votes, awake, bits, queues, other, cur,
                   suspend>>

\* The threshold is read for the last time.
LeaveThreshold(t) ==
    thr' = IF \E u \in Threads \ {t} : at[u] = "scale_set" THEN thr ELSE {}

\* Mutant: a clock plan that is set is never lowered.
SetClockPlanUp(t) ==
    /\ at[t] = "scale_set"
    /\ cur' = IF plan[t].active \subseteq cur.plan.active THEN cur
              ELSE [plan |-> plan[t], bits |-> thr]
    /\ plan' = [plan EXCEPT ![t] = NoPlan]
    /\ LeaveThreshold(t)
    /\ Return(t)
    /\ UNCHANGED <<skip, state, done, votes, awake, bits, queues, other,
                   suspend>>

\* ... and compared and applied without it: the threshold may be the one of
\* another thread by then.
SetClockPlan(t) ==
    /\ at[t] = "scale_set"
    /\ cur' = [plan |-> plan[t], bits |-> thr]
    /\ plan' = [plan EXCEPT ![t] = NoPlan]
    /\ LeaveThreshold(t)
    /\ Return(t)
    /\ UNCHANGED <<skip, state, done, votes, awake, bits, queues, other,
                   suspend>>

-----------------------------------------------------------------------------
(* ipa_pm_activate: atomic, never waits.                                   *)

\* Mutant: forgets that a timer is running.
ActivateForgetTimer(t, c) ==
    /\ at[t] = "idle"
    /\ \/ state[c] \in InProgress /\ SetState(c, "ACTIVATE_IN_PROGRESS")
       \/ state[c] \in TimerStates /\ SetState(c, "ACTIVATED")
    /\ UNCHANGED <<skip, done, votes, awake, bits, queues, clock, threads,
                   suspend>>

\* The client is active or being activated.
Activate(t, c) ==
    /\ at[t] = "idle"
    /\ \/ state[c] \in InProgress /\ SetState(c, "ACTIVATE_IN_PROGRESS")
       \/ state[c] \in TimerStates /\ SetState(c, "ACTIVATED_TIMER_SET")
    /\ UNCHANGED <<skip, done, votes, awake, bits, queues, clock, threads,
                   suspend>>

\* "we got the clocks".
ActivateNow(t, c) ==
    /\ at[t] = "idle"
    /\ state[c] = "DEACTIVATED"
    /\ c \in skip \/ Clocked
    /\ TakeVote(c)
    /\ SetState(c, "ACTIVATED")
    /\ StayAwake(c)
    /\ Goto(t, "async_bit", c)
    /\ UNCHANGED <<skip, done, bits, queues, clock, suspend>>

\* Mutant: the work is not queued.
ActivateUnqueued(t, c) ==
    /\ at[t] = "idle"
    /\ state[c] = "DEACTIVATED"
    /\ c \notin skip /\ ~Clocked
    /\ SetState(c, "ACTIVATE_IN_PROGRESS")
    /\ done' = done \ {c}
    /\ UNCHANGED <<skip, votes, awake, bits, queues, clock, threads, suspend>>

\* The clocks are off: activate on the workqueue, return -EINPROGRESS.
ActivateLater(t, c) ==
    /\ at[t] = "idle"
    /\ state[c] = "DEACTIVATED"
    /\ c \notin skip /\ ~Clocked
    /\ SetState(c, "ACTIVATE_IN_PROGRESS")
    /\ done' = done \ {c}
    /\ actq' = actq \cup {c}
    /\ UNCHANGED <<skip, votes, awake, bits, deactq, scaleq, clock, threads,
                   suspend>>

-----------------------------------------------------------------------------
(* ipa_pm_activate_sync: waits for a change in progress, and for the vote. *)

ActivateSync(t, c) ==
    /\ at[t] = "idle"
    /\ Goto(t, IF state[c] \in InProgress THEN "sync_wait" ELSE "sync_go", c)
    /\ UNCHANGED <<skip, state, done, votes, awake, bits, queues, clock,
                   suspend>>

ActivateSyncWait(t, c) ==
    /\ Step(t, "sync_wait", "sync_go", c)
    /\ c \in done
    /\ UNCHANGED <<skip, state, done, votes, awake, bits, queues, clock,
                   suspend>>

\* The switch on the state; "Invalid State" (a new change in progress)
\* returns -EPERM.
ActivateSyncGo(t, c) ==
    /\ At(t, "sync_go", c)
    /\ \/ /\ state[c] = "DEACTIVATED" /\ c \notin skip
          /\ SetState(c, "ACTIVATE_IN_PROGRESS")
          /\ Goto(t, "sync_inc", c)
          /\ UNCHANGED awake
       \/ /\ state[c] = "DEACTIVATED" /\ c \in skip
          /\ SetState(c, "ACTIVATED")
          /\ StayAwake(c)
          /\ Goto(t, "sync_bit", c)
       \/ /\ state[c] \in TimerStates
          /\ SetState(c, "ACTIVATED_TIMER_SET")
          /\ Return(t)
          /\ UNCHANGED awake
       \/ /\ state[c] \in {"ACTIVATED"} \cup InProgress
          /\ Return(t)
          /\ UNCHANGED <<state, awake>>
    /\ UNCHANGED <<skip, done, votes, bits, queues, clock, suspend>>

\* IPA_ACTIVE_CLIENTS_INC_SPECIAL, outside the lock.
ActivateSyncInc(t, c) ==
    /\ Step(t, "sync_inc", "sync_set", c)
    /\ TakeVote(c)
    /\ UNCHANGED <<skip, state, done, awake, bits, queues, clock, suspend>>

\* Mutant: the wakeup source is not taken.
ActivateSyncSetAsleep(t, c) ==
    /\ Step(t, "sync_set", "sync_bit", c)
    /\ SetState(c, "ACTIVATED")
    /\ UNCHANGED <<skip, done, votes, awake, bits, queues, clock, suspend>>

\* Back under the lock the state is set whatever happened meanwhile.
ActivateSyncSet(t, c) ==
    /\ Step(t, "sync_set", "sync_bit", c)
    /\ SetState(c, "ACTIVATED")
    /\ StayAwake(c)
    /\ UNCHANGED <<skip, done, votes, bits, queues, clock, suspend>>

-----------------------------------------------------------------------------
(* ipa_pm_deferred_deactivate: atomic.                                     *)

DeferredDeactivate(t, c) ==
    /\ at[t] = "idle"
    /\ \/ /\ state[c] = "ACTIVATE_IN_PROGRESS"
          /\ SetState(c, "DEACTIVATE_IN_PROGRESS")
          /\ UNCHANGED deactq
       \/ /\ state[c] = "ACTIVATED"
          /\ SetState(c, "ACTIVATED_PENDING_DEACTIVATION")
          /\ deactq' = deactq \cup {c}
       \/ /\ state[c] \in {"ACTIVATED_TIMER_SET",
                           "ACTIVATED_PENDING_DEACTIVATION"}
          /\ SetState(c, "ACTIVATED_PENDING_RESCHEDULE")
          /\ UNCHANGED deactq
    /\ UNCHANGED <<skip, done, votes, awake, bits, actq, scaleq, clock,
                   threads,
                   suspend>>

-----------------------------------------------------------------------------
(* ipa_pm_deactivate_sync.                                                 *)

\* cancel_delayed_work_sync: a queued item is removed, a running one is
\* waited for; the worker is past the item only when it is done with it.
TimerPoints == {"timer", "timer_dec", "timer_bit"}

Cancel(c) ==
    /\ ~ (of[Wq] = c /\ at[Wq] \in TimerPoints)
    /\ deactq' = deactq \ {c}

DeactivateSync(t, c) ==
    /\ at[t] = "idle"
    /\ Goto(t, "off_cancel", c)
    /\ UNCHANGED <<skip, state, done, votes, awake, bits, queues, clock,
                   suspend>>

DeactivateSyncCancel(t, c) ==
    /\ Step(t, "off_cancel", "off_test", c)
    /\ Cancel(c)
    /\ UNCHANGED <<skip, state, done, votes, awake, bits, actq, scaleq, clock,
                   suspend>>

\* The state is read without the lock.
DeactivateSyncTest(t, c) ==
    /\ At(t, "off_test", c)
    /\ Goto(t, IF state[c] \in InProgress THEN "off_wait" ELSE "off_go", c)
    /\ UNCHANGED <<skip, state, done, votes, awake, bits, queues, clock,
                   suspend>>

DeactivateSyncWait(t, c) ==
    /\ Step(t, "off_wait", "off_go", c)
    /\ c \in done
    /\ UNCHANGED <<skip, state, done, votes, awake, bits, queues, clock,
                   suspend>>

\* Mutant: the vote of a deactivated client is dropped again.
DeactivateSyncAlways(t, c) ==
    /\ Step(t, "off_go", "off_dec", c)
    /\ UNCHANGED <<skip, state, done, votes, awake, bits, queues, clock,
                   suspend>>

\* The state is read under the lock and acted on after it.
DeactivateSyncGo(t, c) ==
    /\ At(t, "off_go", c)
    /\ IF state[c] = "DEACTIVATED" THEN Return(t) ELSE Goto(t, "off_dec", c)
    /\ UNCHANGED <<skip, state, done, votes, awake, bits, queues, clock,
                   suspend>>

DeactivateSyncSet(t, c) ==
    /\ Step(t, "off_set", "off_again", c)
    /\ SetState(c, "DEACTIVATED")
    /\ UNCHANGED <<skip, done, votes, awake, bits, queues, clock, suspend>>

\* "Check any delayed work queue scheduled".
DeactivateSyncAgain(t, c) ==
    /\ Step(t, "off_again", "off_bit", c)
    /\ Cancel(c)
    /\ UNCHANGED <<skip, state, done, votes, awake, bits, actq, scaleq, clock,
                   suspend>>

-----------------------------------------------------------------------------
(* ipa_pm_deactivate_all_deferred, called by ipa3_ap_suspend.              *)

DeactivateAll(t) ==
    /\ at[t] = "idle" /\ todo[t] = {} /\ ~run[t]
    /\ todo' = [todo EXCEPT ![t] = Clients]
    /\ UNCHANGED <<skip, state, done, votes, awake, bits, queues, clock,
                   threads, run>>

\* The clients are visited in the order of their handles.
AllCancel(t, c) ==
    /\ at[t] = "idle"
    /\ c \in todo[t] /\ \A d \in todo[t] : c <= d
    /\ Cancel(c)
    /\ todo' = [todo EXCEPT ![t] = @ \ {c}]
    /\ Goto(t, "all_test", c)
    /\ UNCHANGED <<skip, state, done, votes, awake, bits, actq, scaleq, clock,
                   run>>

\* Unlocked: a client in progress is waited for and skipped.
AllTest(t, c) ==
    /\ At(t, "all_test", c)
    /\ Goto(t, IF state[c] \in InProgress THEN "all_wait" ELSE "all_go", c)
    /\ UNCHANGED <<skip, state, done, votes, awake, bits, queues, clock,
                   suspend>>

AllWait(t, c) ==
    /\ At(t, "all_wait", c)
    /\ c \in done
    /\ Return(t)
    /\ UNCHANGED <<skip, state, done, votes, awake, bits, queues, clock,
                   suspend>>

\* Mutant: a client reactivated before its timer is left to the timer that
\* was cancelled.
AllGoTimerSet(t, c) ==
    /\ At(t, "all_go", c)
    /\ \/ /\ state[c] \in {"ACTIVATED_PENDING_DEACTIVATION",
                           "ACTIVATED_PENDING_RESCHEDULE"}
          /\ SetState(c, "DEACTIVATED")
          /\ run' = [run EXCEPT ![t] = TRUE]
          /\ Goto(t, "all_dec", c)
       \/ /\ state[c] \in {"ACTIVATED_TIMER_SET", "ACTIVATED", "DEACTIVATED"}
                          \cup InProgress
          /\ Return(t)
          /\ UNCHANGED <<state, run>>
    /\ UNCHANGED <<skip, done, votes, awake, bits, queues, clock, todo>>

AllGo(t, c) ==
    /\ At(t, "all_go", c)
    /\ \/ /\ state[c] = "ACTIVATED_TIMER_SET"
          /\ SetState(c, "ACTIVATED")
          /\ Return(t)
          /\ UNCHANGED run
       \/ /\ state[c] \in {"ACTIVATED_PENDING_DEACTIVATION",
                           "ACTIVATED_PENDING_RESCHEDULE"}
          /\ SetState(c, "DEACTIVATED")
          /\ run' = [run EXCEPT ![t] = TRUE]
          /\ Goto(t, "all_dec", c)
       \/ /\ state[c] \in {"ACTIVATED", "DEACTIVATED"} \cup InProgress
          /\ Return(t)
          /\ UNCHANGED <<state, run>>
    /\ UNCHANGED <<skip, done, votes, awake, bits, queues, clock, todo>>

AllScale(t) ==
    /\ at[t] = "idle" /\ todo[t] = {} /\ run[t]
    /\ run' = [run EXCEPT ![t] = FALSE]
    /\ Goto(t, "scale", NoClient)
    /\ UNCHANGED <<skip, state, done, votes, awake, bits, queues, clock, todo>>

-----------------------------------------------------------------------------
(* The works: activate_work_func, ...                                      *)

WorkActivate(c) ==
    /\ at[Wq] = "idle" /\ c \in actq
    /\ actq' = actq \ {c}
    /\ Goto(Wq, "work", c)
    /\ UNCHANGED <<skip, state, done, votes, awake, bits, deactq, scaleq,
                   clock, suspend>>

WorkInc(c) ==
    /\ Step(Wq, "work", "work_state", c)
    /\ TakeVote(c)
    /\ IF c \in skip THEN UNCHANGED awake ELSE StayAwake(c)
    /\ UNCHANGED <<skip, state, done, bits, queues, clock, suspend>>

\* Mutant: an undone activation keeps its vote.
WorkStateKeepVote(c) ==
    /\ \/ /\ state[c] = "ACTIVATE_IN_PROGRESS"
          /\ SetState(c, "ACTIVATED")
       \/ /\ state[c] = "DEACTIVATE_IN_PROGRESS"
          /\ SetState(c, "DEACTIVATED")
       \/ state[c] \notin InProgress /\ UNCHANGED state
    /\ Step(Wq, "work_state", "work_done", c)
    /\ UNCHANGED <<skip, done, votes, awake, bits, queues, clock, suspend>>

WorkState(c) ==
    /\ \/ /\ state[c] = "ACTIVATE_IN_PROGRESS"
          /\ SetState(c, "ACTIVATED")
          /\ Step(Wq, "work_state", "work_done", c)
       \/ /\ state[c] = "DEACTIVATE_IN_PROGRESS"
          /\ SetState(c, "DEACTIVATED")
          /\ Step(Wq, "work_state", "work_undo", c)
       \/ /\ state[c] \notin InProgress   \* "unexpected state": WARN_ON
          /\ UNCHANGED state
          /\ Step(Wq, "work_state", "work_done", c)
    /\ UNCHANGED <<skip, done, votes, awake, bits, queues, clock, suspend>>

\* Mutant: an undone activation wakes nobody up.
WorkCompleteActive(c) ==
    /\ \/ /\ Step(Wq, "work_done", "work_bit", c)
          /\ done' = done \cup {c}
       \/ Step(Wq, "work_undo", "undo_dec", c) /\ UNCHANGED done
    /\ UNCHANGED <<skip, state, votes, awake, bits, queues, clock, suspend>>

\* complete_all, after the lock is dropped.
WorkComplete(c) ==
    /\ done' = done \cup {c}
    /\ \/ Step(Wq, "work_done", "work_bit", c)
       \/ Step(Wq, "work_undo", "undo_dec", c)
    /\ UNCHANGED <<skip, state, votes, awake, bits, queues, clock, suspend>>

(* ... delayed_deferred_deactivate_work_func, ...                          *)

TimerFires(c) ==
    /\ at[Wq] = "idle" /\ c \in deactq
    /\ deactq' = deactq \ {c}
    /\ Goto(Wq, "timer", c)
    /\ UNCHANGED <<skip, state, done, votes, awake, bits, actq, scaleq, clock,
                   suspend>>

TimerState(c) ==
    /\ At(Wq, "timer", c)
    /\ \/ /\ state[c] = "ACTIVATED_TIMER_SET"
          /\ SetState(c, "ACTIVATED")
          /\ Return(Wq)
          /\ UNCHANGED deactq
       \/ /\ state[c] = "ACTIVATED_PENDING_RESCHEDULE"
          /\ SetState(c, "ACTIVATED_PENDING_DEACTIVATION")
          /\ deactq' = deactq \cup {c}
          /\ Return(Wq)
       \/ /\ state[c] = "ACTIVATED_PENDING_DEACTIVATION"
          /\ SetState(c, "DEACTIVATED")
          /\ Goto(Wq, "timer_dec", c)
          /\ UNCHANGED deactq
       \/ /\ state[c] \notin TimerStates   \* "unexpected state": WARN_ON
          /\ Return(Wq)
          /\ UNCHANGED <<state, deactq>>
    /\ UNCHANGED <<skip, done, votes, awake, bits, actq, scaleq, clock,
                   suspend>>

(* ... and clock_scaling_func.                                             *)

ClockScalingFunc ==
    /\ at[Wq] = "idle" /\ scaleq
    /\ scaleq' = FALSE
    /\ Goto(Wq, "scale", NoClient)
    /\ UNCHANGED <<skip, state, done, votes, awake, bits, actq, deactq, clock,
                   suspend>>

-----------------------------------------------------------------------------
\* The calls of ipa_pm_activate and ipa_pm_deferred_deactivate.
AsyncCall(t, c) ==
    /\ votes[c] \in -MaxVotes .. MaxVotes
    /\ \/ Activate(t, c) \/ ActivateNow(t, c) \/ ActivateLater(t, c)
       \/ DeferredDeactivate(t, c)

SyncCall(t, c) ==
    /\ votes[c] \in -MaxVotes .. MaxVotes
    /\ ActivateSync(t, c) \/ DeactivateSync(t, c)

Continue(t, c) ==
    \/ Devote(t, c) \/ DeactivateClient(t, c) \/ ActivateClient(t, c)
    \/ ActivateSyncWait(t, c) \/ ActivateSyncGo(t, c)
    \/ ActivateSyncInc(t, c) \/ ActivateSyncSet(t, c)
    \/ DeactivateSyncCancel(t, c) \/ DeactivateSyncTest(t, c)
    \/ DeactivateSyncWait(t, c) \/ DeactivateSyncGo(t, c)
    \/ DeactivateSyncSet(t, c) \/ DeactivateSyncAgain(t, c)

Scale(t) == DoClkScaling(t) \/ SetClockPlan(t)

\* A thread goes on with the call it is in.
Go(t) == Scale(t) \/ \E c \in Clients : Continue(t, c)

SuspendStep(t) ==
    \/ \E c \in Clients :
         AllCancel(t, c) \/ AllTest(t, c) \/ AllWait(t, c) \/ AllGo(t, c)
    \/ AllScale(t)

\* The worker takes an item ...
Take ==
    \/ \E c \in Clients : WorkActivate(c) \/ TimerFires(c)
    \/ ClockScalingFunc

\* ... and runs it.
Work ==
    \E c \in Clients :
        WorkInc(c) \/ WorkState(c) \/ WorkComplete(c) \/ TimerState(c)

Next ==
    \/ \E c \in Async : \E t \in Atomic \cup ({c} \cap Sync) : AsyncCall(t, c)
    \/ \E c \in Sync : SyncCall(c, c)
    \/ \E t \in Threads : Go(t)
    \/ \E t \in Suspenders : DeactivateAll(t) \/ SuspendStep(t)
    \/ Take \/ Work
    \/ OtherVote

Spec == Init /\ [][Next]_vars

\* A thread inside a call goes on, and so does the worker; the worker takes
\* its items in turn; a cancel that waits for a running item is woken when it
\* ends. Nothing makes a driver call, a suspend begin or another user vote.
Fairness ==
    /\ \A t \in Atomic : WF_vars(Go(t))
    /\ \A t \in Sync : SF_vars(Go(t))
    /\ \A t \in Suspenders : SF_vars(Go(t) \/ SuspendStep(t))
    /\ WF_vars(Go(Wq) \/ Work \/ Take)
    /\ \A c \in Clients : SF_vars(WorkActivate(c)) /\ SF_vars(TimerFires(c))

FairSpec == Spec /\ Fairness

-----------------------------------------------------------------------------
(* Properties.                                                             *)

CallPoints ==
    {"idle", "async_bit", "sync_wait", "sync_go", "sync_inc", "sync_set",
     "sync_bit", "off_cancel", "off_test", "off_wait", "off_go", "off_dec",
     "off_set", "off_again", "off_bit", "all_test", "all_wait", "all_go",
     "all_dec", "all_bit", "work", "work_state", "work_done", "work_undo",
     "work_bit", "undo_dec", "timer", "timer_dec", "timer_bit", "scale",
     "scale_set"}

\* The variables have the values the code can give them; votes may be any
\* integer here.
Types ==
    /\ skip \subseteq Skip
    /\ state \in [Clients -> States]
    /\ done \subseteq Clients
    /\ votes \in [Clients -> Int]
    /\ awake \subseteq Clients
    /\ bits \subseteq Clients
    /\ actq \subseteq Clients
    /\ deactq \subseteq Clients
    /\ scaleq \in BOOLEAN
    /\ other \in BOOLEAN
    /\ thr \subseteq Clients
    /\ cur \in Votes
    /\ at \in [Threads -> CallPoints]
    /\ of \in [Threads -> Clients \cup {NoClient}]
    /\ plan \in [Threads -> Plans]
    /\ todo \in [Suspenders -> SUBSET Clients]
    /\ run \in [Suspenders -> BOOLEAN]

\* Types; no client that has one API for itself drops a vote it does not have.
TypeOK == Types /\ \A c \in Clients : votes[c] >= 0

Inside(c, points) == {t \in Threads : of[t] = c /\ at[t] \in points}

\* How far a client's votes are from what its state and the calls
\* under way stand for.
Drift(c) ==
    votes[c] + Cardinality(Inside(c, {"off_set"}))
    - (IF state[c] \in Active THEN 1 ELSE 0)
    - Cardinality(Inside(c, {"work_state", "work_undo", "undo_dec",
                             "timer_dec", "all_dec", "sync_set"}))

\* A client holds one vote for an active state (until deactivate_sync has
\* dropped it), and one for each thread that has taken a vote its state does
\* not stand for yet, or still has to drop one it does not stand for any more:
\* no vote is dropped twice and none is forgotten.
VoteBalance == \A c \in Clients \ skip : Drift(c) = 0

\* The works never meet a state they do not expect (WARN_ON).
NoUnexpectedState ==
    \A c \in Clients :
        /\ At(Wq, "work", c) \/ At(Wq, "work_state", c)
               => state[c] \in InProgress
        /\ At(Wq, "timer", c) => state[c] \in TimerStates

\* A thread that waits for the completion of a client is woken up: the work
\* that completes it is queued or running.
WaitersWoken ==
    \A c \in Clients : Inside(c, {"sync_wait", "off_wait", "all_wait"}) # {} =>
        \/ c \in done
        \/ c \in actq
        \/ Inside(c, {"work", "work_state", "work_done", "work_undo"}) # {}

\* Every suspend returns: the waits and cancels of the loop end.
SuspendReturns ==
    \A t \in Suspenders : (at[t] # "idle" \/ todo[t] # {} \/ run[t]) ~>
                          (at[t] = "idle" /\ todo[t] = {} /\ ~run[t])

\* No client is stuck in a state that somebody else has to end: the timer
\* fires in each timer state, the work ends each change in progress.
NotStuck ==
    \A c \in Clients :
        /\ \A s \in TimerStates : (state[c] = s) ~> (state[c] # s)
        /\ (state[c] \in InProgress) ~> (state[c] \notin InProgress)

Quiet == /\ \A t \in Threads : at[t] = "idle"
         /\ actq = {}
         /\ ~scaleq
         /\ \A t \in Suspenders : todo[t] = {} /\ ~run[t]

ActiveSet == {c \in Clients : state[c] \in Active}

\* When everything is at rest, the clock plan is the one of the clients that
\* are active, by their throughput and by their bits, unless an application
\* of the plan was overtaken: throughput and threshold leave client_mutex
\* before they are used, and another thread has computed later ones.
PlanCurrent ==
    Quiet /\ ActiveSet \ skip # {} /\ cur.plan.latest =>
        cur.plan.active = ActiveSet /\ cur.bits = bits

\* The clients whose drivers use the synchronous calls only: their calls come
\* one after the other, and race with the other clients.
SyncOnly == Sync \ Async

\* "@wlock: wake source to prevent AP suspend": at rest, the APPS clients of
\* synchronous drivers that are active and vote for the clock hold their
\* wakeup source, and no other of them that votes does.
AwakeWhileActive ==
    Quiet => ((SyncOnly \cap Apps) \ skip) \cap awake =
             ((SyncOnly \cap Apps) \ skip) \cap ActiveSet

\* set_current_threshold decides by active_client_bitmask: at rest it tells
\* which clients of synchronous drivers are active.
BitsCurrent == Quiet => bits \cap SyncOnly = ActiveSet \cap SyncOnly

\* A driver that uses both kinds of calls for one client may lose a vote or
\* leave one behind, because a late complete_all lets deactivate_sync pass its
\* wait. The votes go wrong only in a handler that is back under the lock and
\* sets the state regardless of what it finds there: deactivate_sync meets a
\* client that is not active, activate_sync one that it did not leave so, or
\* the work one that it has nothing to end for. Every other step, the timer and
\* the undone activations included, keeps them as they are.
DriftOnlyByStaleState ==
    [][\A c \in Clients \ skip : Drift(c)' # Drift(c) =>
         \/ At(c, "off_set", c) /\ state[c] \notin Active
         \/ At(c, "sync_set", c) /\ state[c] # "ACTIVATE_IN_PROGRESS"
         \/ At(Wq, "work_state", c) /\ state[c] \notin InProgress]_vars
=============================================================================
