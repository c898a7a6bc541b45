--------------------------- MODULE ActiveClients ---------------------------
(***************************************************************************)
(* The IPA clock vote of dataipa/drivers/platform/msm/ipa/ipa_v3/ipa.c:    *)
(* ipa3_active_clients.cnt counts the votes that keep the IPA clocks on.   *)
(* A vote is taken with a lock-free fast path and, for the 0 -> 1 step,    *)
(* under active_clients.mutex; the 1 -> 0 step suspends the apps pipes and *)
(* gates the clocks, or hands the vote over to a work item of the          *)
(* single-threaded power_mgmt_wq (retry when the HW is busy, TAG process,  *)
(* non-blocking release, deferred interrupt).                              *)
(*                                                                         *)
(* One step of a thread is one atomic operation, one lock operation or one *)
(* access to the unprotected tag_process_before_gating flag.               *)
(***************************************************************************)
EXTENDS Naturals, FiniteSets

CONSTANTS
    Clients,      \* the threads that call INC/DEC of the active clients API
    Proxy,        \* the client that owns the vote taken at boot (PROXY_CLK_VOTE)
    WaClients,    \* the clients that run ipa3_enable_tx_suspend_wa
    Wq,           \* the worker of power_mgmt_wq
    Isr,          \* the IPA interrupt line
    NoThread,     \* "nobody", for the mutex
    CoalMapped,   \* whether a coalescing pipe is mapped
    TagMayFail    \* whether ipa3_tag_process may run out of memory

Threads == Clients \cup {Wq, Isr}

ASSUME ClientsAssumption ==
    /\ IsFiniteSet(Clients)
    /\ Proxy \in Clients
    /\ WaClients \subseteq Clients \ {Proxy}

ASSUME ThreadsAssumption ==
    /\ Wq # Isr
    /\ Wq \notin Clients
    /\ Isr \notin Clients
    /\ NoThread \notin Threads

ASSUME FlagsAssumption == CoalMapped \in BOOLEAN /\ TagMayFail \in BOOLEAN

\* The work items of power_mgmt_wq. A work item is queued at most once.
Items == {"dec",      \* ipa_dec_clients_disable_clks_on_wq_work
          "irqdec",   \* ipa_dec_clients_disable_clks_on_suspend_irq_wq_work
          "tag",      \* ipa3_tag_work
          "defer"}    \* ipa3_interrupt_defer_work

\* The work items that own a vote while they are queued.
VoteItems == {"dec", "irqdec", "tag"}

\* A work item is not a thread: both own votes.
ASSUME ItemsAssumption == Threads \cap Items = {}

\* Control states in which a thread holds active_clients.mutex.
CritStates ==
    {"inc_recheck", "inc_enable", "inc_resume", "inc_count", "inc_unlock",
     "dec_tag", "dec_sub", "dec_suspend", "dec_requeue", "dec_disable",
     "dec_unlock"}

\* Control states in which a thread owns one unit of cnt and does not use it
\* up before it takes the mutex or queues a work item: it has seen cnt = 1.
SlowStates ==
    {"coal_check", "coal_close", "coal_reset", "dec_lock", "dec_tag",
     "dec_sub", "dec_requeue", "nb_queue"}

\* Control states in which a thread owns one unit of cnt.
VoteStates ==
    {"held", "mark", "processed", "inc_unlock", "dec", "dec_fast", "nb_dec",
     "tag_post", "tag_clear", "tag_wait"} \cup SlowStates

States == {"idle", "inc", "inc_lock", "asserted", "irq_defer"}
              \cup CritStates \cup VoteStates

VARIABLES
    cnt,      \* ipa3_active_clients.cnt
    mutex,    \* owner of ipa3_active_clients.mutex
    tag,      \* tag_process_before_gating
    clk,      \* ipa_clk_vote: clocks and bus are on
    pipes,    \* the apps pipes are resumed
    pending,  \* queued work items of power_mgmt_wq
    irqStat,  \* an enabled bit of IPA_IRQ_STTS is set
    irqEdge,  \* the rising edge of the line is not handled yet
    pc,       \* control state of every thread
    dirty,    \* history: data was posted after the last TAG packet
    lost      \* history: votes dropped because a work item was queued already

vars == <<cnt, mutex, tag, clk, pipes, pending, irqStat, irqEdge, pc, dirty,
          lost>>

\* What the slow paths leave alone unless they say otherwise.
power == <<clk, pipes>>
irq   == <<irqStat, irqEdge>>
hist  == <<dirty, lost>>

\* queue_work of an item that is to release a vote: nothing happens when the
\* item is queued already, and its vote is released only once.
QueueVote(item) ==
    /\ pending' = pending \cup {item}
    /\ lost' = IF item \in pending THEN lost + 1 ELSE lost

Goto(p, from, to) == pc[p] = from /\ pc' = [pc EXCEPT ![p] = to]

Init ==
    /\ cnt = 1
    /\ mutex = NoThread
    /\ tag = FALSE
    /\ clk = TRUE
    /\ pipes = TRUE
    /\ pending = {}
    /\ irqStat = FALSE
    /\ irqEdge = FALSE
    /\ pc = [p \in Threads |-> IF p = Proxy THEN "held" ELSE "idle"]
    /\ dirty = FALSE
    /\ lost = 0

-----------------------------------------------------------------------------
(* ipa3_inc_client_enable_clks: a blocking vote.                           *)

\* The caller enters ipa3_inc_client_enable_clks.
IncCall(p) ==
    /\ p \in Clients
    /\ Goto(p, "idle", "inc")
    /\ UNCHANGED <<cnt, mutex, tag, power, pending, irq, hist>>

\* atomic_inc_not_zero outside the mutex.
IncFast(p) ==
    /\ \/ cnt > 0 /\ cnt' = cnt + 1 /\ Goto(p, "inc", "held")
       \/ cnt = 0 /\ cnt' = cnt /\ Goto(p, "inc", "inc_lock")
    /\ UNCHANGED <<mutex, tag, power, pending, irq, hist>>

IncLock(p) ==
    /\ mutex = NoThread
    /\ Goto(p, "inc_lock", "inc_recheck")
    /\ mutex' = p
    /\ UNCHANGED <<cnt, tag, power, pending, irq, hist>>

\* "somebody might voted to clocks meanwhile".
IncRecheck(p) ==
    /\ \/ cnt > 0 /\ cnt' = cnt + 1 /\ Goto(p, "inc_recheck", "inc_unlock")
       \/ cnt = 0 /\ cnt' = cnt /\ Goto(p, "inc_recheck", "inc_enable")
    /\ UNCHANGED <<mutex, tag, power, pending, irq, hist>>

\* ipa3_enable_clks: ipa_clk_vote is set last.
IncEnable(p) ==
    /\ Goto(p, "inc_enable", "inc_resume")
    /\ clk' = TRUE
    /\ UNCHANGED <<cnt, mutex, tag, pipes, pending, irq, hist>>

\* Mutant: the pipes stay suspended.
IncResumeSkipped(p) ==
    /\ Goto(p, "inc_resume", "inc_count")
    /\ UNCHANGED <<cnt, mutex, tag, power, pending, irq, hist>>

\* ipa3_suspend_apps_pipes(false).
IncResume(p) ==
    /\ Goto(p, "inc_resume", "inc_count")
    /\ pipes' = TRUE
    /\ UNCHANGED <<cnt, mutex, tag, clk, pending, irq, hist>>

IncCount(p) ==
    /\ Goto(p, "inc_count", "inc_unlock")
    /\ cnt' = cnt + 1
    /\ UNCHANGED <<mutex, tag, power, pending, irq, hist>>

IncUnlock(p) ==
    /\ Goto(p, "inc_unlock", "held")
    /\ mutex' = NoThread
    /\ UNCHANGED <<cnt, tag, power, pending, irq, hist>>

\* ipa3_inc_client_enable_clks_no_block; at cnt = 0 it returns -EPERM and
\* changes nothing.
IncNoBlock(p) ==
    /\ p \in Clients \ WaClients
    /\ cnt > 0
    /\ Goto(p, "idle", "held")
    /\ cnt' = cnt + 1
    /\ UNCHANGED <<mutex, tag, power, pending, irq, hist>>

-----------------------------------------------------------------------------
(* __ipa3_dec_client_disable_clks: a blocking release.                     *)

\* A client gives its vote back.
DecCall(p) ==
    /\ p \in Clients \ WaClients
    /\ Goto(p, "held", "dec")
    /\ UNCHANGED <<cnt, mutex, tag, power, pending, irq, hist>>

\* "trying to disable clocks with refcnt is 0": ipa_assert().
DecRead(p) ==
    /\ \/ cnt > 0 /\ Goto(p, "dec", "dec_fast")
       \/ cnt = 0 /\ Goto(p, "dec", "asserted")
    /\ UNCHANGED <<cnt, mutex, tag, power, pending, irq, hist>>

\* Mutant: the fast path counts down before it looks.
DecFastEager(p) ==
    /\ cnt' = cnt - 1
    /\ \/ cnt # 1 /\ Goto(p, "dec_fast", "idle")
       \/ cnt = 1 /\ Goto(p, "dec_fast", "coal_check")
    /\ UNCHANGED <<mutex, tag, power, pending, irq, hist>>

\* atomic_add_unless(cnt, -1, 1).
DecFast(p) ==
    /\ \/ cnt # 1 /\ cnt' = cnt - 1 /\ Goto(p, "dec_fast", "idle")
       \/ cnt = 1 /\ cnt' = cnt /\ Goto(p, "dec_fast", "coal_check")
    /\ UNCHANGED <<mutex, tag, power, pending, irq, hist>>

CoalCheck(p) ==
    /\ \/ cnt = 1 /\ ~tag /\ Goto(p, "coal_check", "coal_close")
       \/ (cnt # 1 \/ tag) /\ Goto(p, "coal_check", "dec_lock")
    /\ UNCHANGED <<cnt, mutex, tag, power, pending, irq, hist>>

\* ipa3_force_close_coal ends in ipa3_send, which requests a TAG process.
ForceCloseCoal == tag' = (tag \/ CoalMapped)

CoalClose(p) ==
    /\ Goto(p, "coal_close", "coal_reset")
    /\ ForceCloseCoal
    /\ UNCHANGED <<cnt, mutex, power, pending, irq, hist>>

CoalReset(p) ==
    /\ Goto(p, "coal_reset", "dec_lock")
    /\ tag' = FALSE
    /\ UNCHANGED <<cnt, mutex, power, pending, irq, hist>>

DecLock(p) ==
    /\ mutex = NoThread
    /\ Goto(p, "dec_lock", "dec_tag")
    /\ mutex' = p
    /\ UNCHANGED <<cnt, tag, power, pending, irq, hist>>

\* Mutant: the vote is handed over to the TAG process and dropped here, too.
DecTagTwice(p) ==
    /\ \/ /\ cnt = 1 /\ tag
          /\ tag' = FALSE
          /\ QueueVote("tag")
       \/ (cnt # 1 \/ ~tag) /\ UNCHANGED <<tag, pending, lost>>
    /\ Goto(p, "dec_tag", "dec_sub")
    /\ UNCHANGED <<cnt, mutex, power, irq, dirty>>

\* The last vote is handed over to the TAG process when one is requested.
DecTag(p) ==
    /\ \/ /\ cnt = 1 /\ tag
          /\ tag' = FALSE
          /\ QueueVote("tag")
          /\ Goto(p, "dec_tag", "dec_unlock")
       \/ /\ cnt # 1 \/ ~tag
          /\ Goto(p, "dec_tag", "dec_sub")
          /\ UNCHANGED <<tag, pending, lost>>
    /\ UNCHANGED <<cnt, mutex, power, irq, dirty>>

\* Mutant: gates without a look at what is left.
DecSubBlind(p) ==
    /\ cnt' = cnt - 1
    /\ Goto(p, "dec_sub", "dec_suspend")
    /\ UNCHANGED <<mutex, tag, power, pending, irq, hist>>

\* "a different context might increase the clock reference meanwhile".
DecSub(p) ==
    /\ cnt' = cnt - 1
    /\ \/ cnt' > 0 /\ Goto(p, "dec_sub", "dec_unlock")
       \/ cnt' = 0 /\ Goto(p, "dec_sub", "dec_suspend")
    /\ UNCHANGED <<mutex, tag, power, pending, irq, hist>>

\* ipa3_suspend_apps_pipes(true) succeeded.
DecSuspend(p) ==
    /\ Goto(p, "dec_suspend", "dec_disable")
    /\ ForceCloseCoal
    /\ pipes' = FALSE
    /\ UNCHANGED <<cnt, mutex, clk, pending, irq, hist>>

\* Mutant: the retry item gets no vote.
DecBusyUncounted(p) ==
    /\ Goto(p, "dec_suspend", "dec_requeue")
    /\ ForceCloseCoal
    /\ UNCHANGED <<cnt, mutex, power, pending, irq, hist>>

\* ipa3_suspend_apps_pipes(true) found the HW busy and resumed the pipes.
DecBusy(p) ==
    /\ Goto(p, "dec_suspend", "dec_requeue")
    /\ ForceCloseCoal
    /\ cnt' = cnt + 1
    /\ UNCHANGED <<mutex, power, pending, irq, hist>>

\* Mutant: the retry is not queued.
DecNoRetry(p) ==
    /\ Goto(p, "dec_requeue", "dec_unlock")
    /\ UNCHANGED <<cnt, mutex, tag, power, pending, irq, hist>>

\* queue_delayed_work(..., IPA_SUSPEND_BUSY_TIMEOUT).
DecRequeue(p) ==
    /\ Goto(p, "dec_requeue", "dec_unlock")
    /\ QueueVote("dec")
    /\ UNCHANGED <<cnt, mutex, tag, power, irq, dirty>>

\* ipa3_disable_clks.
DecDisable(p) ==
    /\ Goto(p, "dec_disable", "dec_unlock")
    /\ clk' = FALSE
    /\ UNCHANGED <<cnt, mutex, tag, pipes, pending, irq, hist>>

DecUnlock(p) ==
    /\ Goto(p, "dec_unlock", "idle")
    /\ mutex' = NoThread
    /\ UNCHANGED <<cnt, tag, power, pending, irq, hist>>

-----------------------------------------------------------------------------
(* ipa3_dec_client_disable_clks_no_block: a release in atomic context.     *)

DecNoBlockCall(p) ==
    /\ p \in Clients \ WaClients
    /\ Goto(p, "held", "nb_dec")
    /\ UNCHANGED <<cnt, mutex, tag, power, pending, irq, hist>>

\* Mutant: every non-blocking release goes to the workqueue.
DecNoBlockSlow(p) ==
    /\ Goto(p, "nb_dec", "nb_queue")
    /\ UNCHANGED <<cnt, mutex, tag, power, pending, irq, hist>>

DecNoBlock(p) ==
    /\ \/ cnt # 1 /\ cnt' = cnt - 1 /\ Goto(p, "nb_dec", "idle")
       \/ cnt = 1 /\ cnt' = cnt /\ Goto(p, "nb_dec", "nb_queue")
    /\ UNCHANGED <<mutex, tag, power, pending, irq, hist>>

DecNoBlockQueue(p) ==
    /\ Goto(p, "nb_queue", "idle")
    /\ QueueVote("dec")
    /\ UNCHANGED <<cnt, mutex, tag, power, irq, dirty>>

-----------------------------------------------------------------------------
(* ipa3_send of a client that holds a vote, and the TAG process.           *)

\* The descriptors are given to the HW ...
Post(p) ==
    /\ p \in Clients \ WaClients
    /\ Goto(p, "held", "mark")
    /\ dirty' = TRUE
    /\ UNCHANGED <<cnt, mutex, tag, power, pending, irq, lost>>

\* ... and then "make sure TAG process is sent before clocks are gated".
Mark(p) ==
    /\ Goto(p, "mark", "held")
    /\ tag' = TRUE
    /\ UNCHANGED <<cnt, mutex, power, pending, irq, hist>>

\* ipa3_tag_process posts the TAG packet behind all earlier data; ipa3_send
\* marks the flag like any other send.
TagPost ==
    /\ Goto(Wq, "tag_post", "tag_clear")
    /\ dirty' = FALSE
    /\ tag' = TRUE
    /\ UNCHANGED <<cnt, mutex, power, pending, irq, lost>>

\* Out of memory: logged, and the vote is released all the same.
TagFail ==
    /\ TagMayFail
    /\ Goto(Wq, "tag_post", "dec")
    /\ UNCHANGED <<cnt, mutex, tag, power, pending, irq, hist>>

TagClear ==
    /\ Goto(Wq, "tag_clear", "tag_wait")
    /\ tag' = FALSE
    /\ UNCHANGED <<cnt, mutex, power, pending, irq, hist>>

\* The TAG response, or its timeout; then IPA_ACTIVE_CLIENTS_DEC_SPECIAL.
TagDone ==
    /\ Goto(Wq, "tag_wait", "dec")
    /\ UNCHANGED <<cnt, mutex, tag, power, pending, irq, hist>>

-----------------------------------------------------------------------------
(* The interrupt line, ipa3_isr and ipa3_interrupt_defer.                  *)

\* External: the HW sets a status bit; the line is edge triggered.
IrqRaise ==
    /\ ~irqStat
    /\ irqStat' = TRUE
    /\ irqEdge' = TRUE
    /\ UNCHANGED <<cnt, mutex, tag, power, pending, pc, hist>>

\* "defer interrupt handling in case IPA is not clocked on".
IsrEnter ==
    /\ irqEdge
    /\ irqEdge' = FALSE
    /\ \/ cnt > 0 /\ cnt' = cnt + 1 /\ Goto(Isr, "idle", "held")
       \/ cnt = 0 /\ cnt' = cnt /\ Goto(Isr, "idle", "irq_defer")
    /\ UNCHANGED <<mutex, tag, power, pending, irqStat, hist>>

\* Mutant: an interrupt with the clocks off is dropped.
IsrDrop ==
    /\ Goto(Isr, "irq_defer", "idle")
    /\ UNCHANGED <<cnt, mutex, tag, power, pending, irq, hist>>

IsrDefer ==
    /\ Goto(Isr, "irq_defer", "idle")
    /\ pending' = pending \cup {"defer"}
    /\ UNCHANGED <<cnt, mutex, tag, power, irq, hist>>

\* ipa3_process_interrupts reads and clears the status with a vote held.
ProcessInterrupts(p) ==
    /\ p \in WaClients \cup {Wq, Isr}
    /\ Goto(p, "held", "processed")
    /\ irqStat' = FALSE
    /\ UNCHANGED <<cnt, mutex, tag, power, pending, irqEdge, hist>>

\* The end of ipa3_isr and of ipa3_enable_tx_suspend_wa.
IrqDone(p) ==
    /\ \/ p = Isr /\ Goto(p, "processed", "nb_dec")
       \/ p \in WaClients /\ Goto(p, "processed", "dec")
    /\ UNCHANGED <<cnt, mutex, tag, power, pending, irq, hist>>

\* ipa3_dec_client_disable_clks_delay_wq: if the item is queued already the
\* release is only logged as failed.
DeferRelease ==
    /\ Goto(Wq, "processed", "idle")
    /\ QueueVote("irqdec")
    /\ UNCHANGED <<cnt, mutex, tag, power, irq, dirty>>

-----------------------------------------------------------------------------
(* power_mgmt_wq takes the next item.                                      *)

Entry(item) == CASE item = "tag"   -> "tag_post"
                 [] item = "defer" -> "inc"
                 [] OTHER          -> "dec"

WqRun(item) ==
    /\ item \in pending
    /\ Goto(Wq, "idle", Entry(item))
    /\ pending' = pending \ {item}
    /\ UNCHANGED <<cnt, mutex, tag, power, irq, hist>>

-----------------------------------------------------------------------------
\* The steps of a thread inside a call it has begun, but for the outcome of
\* ipa3_suspend_apps_pipes(true), which is up to the HW.
Run(p) ==
    \/ IncFast(p) \/ IncRecheck(p) \/ IncEnable(p) \/ IncResume(p)
    \/ IncCount(p) \/ IncUnlock(p)
    \/ DecRead(p) \/ DecFast(p) \/ CoalCheck(p) \/ CoalClose(p)
    \/ CoalReset(p) \/ DecTag(p) \/ DecSub(p) \/ DecRequeue(p)
    \/ DecDisable(p) \/ DecUnlock(p)
    \/ DecNoBlock(p) \/ DecNoBlockQueue(p)
    \/ Mark(p) \/ ProcessInterrupts(p) \/ IrqDone(p)

Lock(p) == IncLock(p) \/ DecLock(p)

\* What a client decides to do.
Call(p) ==
    \/ IncCall(p) \/ IncNoBlock(p) \/ Post(p)
    \/ DecCall(p) \/ DecNoBlockCall(p)

WqStep ==
    \/ \E item \in Items : WqRun(item)
    \/ TagPost \/ TagFail \/ TagClear \/ TagDone
    \/ DeferRelease

IsrStep == IsrEnter \/ IsrDefer

Next ==
    \/ \E p \in Threads :
         Call(p) \/ Run(p) \/ Lock(p) \/ DecSuspend(p) \/ DecBusy(p)
    \/ WqStep
    \/ IsrStep
    \/ IrqRaise

\* Threads keep running once they are inside a call; a mutex is handed over
\* to its waiters; the HW is not busy each time it is asked; a queued
\* interrupt item gets its turn. Nothing makes a client vote, send or release.
Fairness ==
    /\ \A p \in Threads :
         WF_vars(Run(p)) /\ SF_vars(Lock(p)) /\ SF_vars(DecSuspend(p))
    /\ WF_vars(WqStep) /\ SF_vars(WqRun("defer"))
    /\ WF_vars(IsrStep)

Spec == Init /\ [][Next]_vars

FairSpec == Spec /\ Fairness

-----------------------------------------------------------------------------
(* Properties.                                                             *)

Voters == {p \in Threads : pc[p] \in VoteStates}

Owed == pending \cap VoteItems

\* Types; cnt never falls below 0, as an atomic_t could.
TypeOK ==
    /\ cnt \in Nat
    /\ mutex \in Threads \cup {NoThread}
    /\ tag \in BOOLEAN
    /\ clk \in BOOLEAN
    /\ pipes \in BOOLEAN
    /\ pending \subseteq Items
    /\ irqStat \in BOOLEAN
    /\ irqEdge \in BOOLEAN
    /\ pc \in [Threads -> States]
    /\ dirty \in BOOLEAN
    /\ lost \in Nat

\* Every unit of cnt is owned by exactly one thread or queued work item, or
\* was dropped by a work item that was queued already.
Balance ==
    cnt = Cardinality(Voters) + Cardinality(Owed) + lost

\* A thread that owns a vote runs with clocks on and pipes resumed: the
\* gating by one thread never overtakes the vote of another.
VoteKeepsClocks == Voters # {} => clk /\ pipes

\* No release, by a caller or by the worker for a queued item, finds the
\* reference count at 0: the ipa_assert of __ipa3_dec_client_disable_clks
\* never fires, whatever the retries and the hand-overs to the TAG work.
NoAssert == \A p \in Threads : pc[p] # "asserted"

\* Only the delayed release of a deferred interrupt can drop a vote: the
\* retry item and the TAG item are never queued twice, although a thread
\* decides to queue them before it owns the mutex.
LossOnlyByDefer == [][lost' # lost => pc[Wq] = "processed"]_vars

(* The rest of the inductive invariant behind the properties above.        *)

\* A thread is in the critical section iff it owns the mutex.
MutexOwned == \A p \in Threads : pc[p] \in CritStates <=> mutex = p

\* Clocks and pipes are switched only at cnt = 0, which nobody leaves
\* without the mutex.
ZeroStates == {"inc_enable", "inc_resume", "inc_count", "dec_suspend",
               "dec_disable"}

SwitchedAtZero == \A p \in Threads : pc[p] \in ZeroStates => cnt = 0

\* What is on between the steps of switching.
PowerOn ==
    /\ cnt > 0 => clk /\ pipes
    /\ \A p \in Threads :
         /\ pc[p] = "inc_resume" => clk
         /\ pc[p] \in {"inc_count", "dec_suspend"} => clk /\ pipes

\* A thread on the slow path of a release saw its vote to be the only one:
\* there is one such thread at most, and none while the item that inherits
\* the last vote is queued.
OneSlowPath ==
    /\ \A p, q \in Threads :
         pc[p] \in SlowStates /\ pc[q] \in SlowStates => p = q
    /\ \A p \in Threads :
         pc[p] \in SlowStates => pending \cap {"dec", "tag"} = {}
    /\ ~ {"dec", "tag"} \subseteq pending

IInv == /\ TypeOK
        /\ Balance
        /\ NoAssert
        /\ MutexOwned
        /\ SwitchedAtZero
        /\ PowerOn
        /\ OneSlowPath

Quiet == /\ \A p \in Clients : pc[p] = "idle"
         /\ ~irqStat

\* Once the clients have released their votes and no interrupt comes, the
\* clocks are gated in the end, over retries, TAG work and deferred releases.
EventuallyGated == <>[]Quiet => <>[](~clk)

\* An interrupt is served even if it arrives while the clocks are gated or
\* are being gated.
IrqServed == irqStat ~> ~irqStat

\* The refinement: the count, the mutex and the work items implement the
\* votes of ClockVote, with the threads and the queued items as owners. No
\* vote is given on a clock that is off or going off, none is in two hands,
\* and a hand-over to a work item leaves no gap in which the clock may stop.
CV == INSTANCE ClockVote WITH
          Owner <- Threads \cup VoteItems,
          owners <- Voters \cup Owed,
          on <- clk /\ pipes

ImplementsClockVote == CV!Spec

(* A statement of the source that the code does not keep.                  *)

\* "make sure TAG process is sent before clocks are gated" (ipa_dp.c): the
\* clocks are never gated with data posted after the last TAG packet.
TagBeforeGating == ~clk => ~dirty
=============================================================================
