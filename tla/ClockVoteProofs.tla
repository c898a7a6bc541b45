-------------------------- MODULE ClockVoteProofs --------------------------
(***************************************************************************)
(* ActiveClients implements ClockVote, for any number of clients: every    *)
(* step of a thread is a step of the votes or leaves them alone. The       *)
(* inductive invariant of ActiveClientsProofs says that clocks and pipes   *)
(* are on wherever a vote is given, and that nobody has one where they are *)
(* switched off.                                                           *)
(***************************************************************************)
EXTENDS ActiveClientsProofs

\* The owners of the refinement mapping, and the clock they vote for.
VoteOwners == Voters \cup Owed

ClockOn == clk /\ pipes

\* The same step, seen by the abstract specification.
VoteStep == [CV!Next]_(CV!vote)

USE DEF ClockOn, Goto, power, irq, hist

\* A thread is no work item: no owner is counted twice.
LEMMA OwnersApart ==
    /\ Threads \cap VoteItems = {}
    /\ Owed \subseteq VoteItems
    /\ Voters \subseteq Threads
BY ItemsAssumption DEF Items, VoteItems, Owed, Voters

\* Where somebody owns a vote the clock is on.
LEMMA OwnerClocked == ASSUME IInv, VoteOwners # {} PROVE ClockOn
<1>1. cnt # 0 BY NoVoter DEF IInv, VoteOwners
<1> QED BY <1>1 DEF IInv, TypeOK, PowerOn

\* A step that leaves owners and clock alone is a stutter.
LEMMA StepStutters ==
    ASSUME Voters' = Voters, Owed' = Owed, ClockOn' = ClockOn
    PROVE  VoteStep
BY DEF VoteStep, CV!vote

\* A thread that is given a vote on a running clock takes the step Vote.
LEMMA StepVotes ==
    ASSUME TypeOK, ClockOn, ClockOn', Owed' = Owed,
           NEW p \in Threads, NEW from, NEW to, Goto(p, from, to),
           from \notin VoteStates, to \in VoteStates
    PROVE  VoteStep
<1>1. Voters' = Voters \cup {p} /\ p \notin Voters BY DEF Voters, TypeOK
<1>2. p \notin Voters \cup Owed BY <1>1, OwnersApart
<1>3. p \in Threads \cup VoteItems OBVIOUS
<1>4. (Voters \cup Owed)' = (Voters \cup Owed) \cup {p} BY <1>1
<1> QED BY <1>2, <1>3, <1>4 DEF VoteStep, CV!Next, CV!Vote

\* A thread that gives its vote back takes the step Release.
LEMMA StepReleases ==
    ASSUME TypeOK, ClockOn' = ClockOn, Owed' = Owed,
           NEW p \in Threads, NEW from, NEW to, Goto(p, from, to),
           from \in VoteStates, to \notin VoteStates
    PROVE  VoteStep
<1>1. Voters' = Voters \ {p} /\ p \in Voters BY DEF Voters, TypeOK
<1>2. p \notin Owed BY OwnersApart
<1>3. (Voters \cup Owed)' = (Voters \cup Owed) \ {p} BY <1>1, <1>2
<1> QED BY <1>1, <1>3 DEF VoteStep, CV!Next, CV!Release

\* A thread that queues an item to release its vote hands the vote over; if
\* the item is queued already, the vote is released.
LEMMA StepQueues ==
    ASSUME TypeOK, ClockOn' = ClockOn, NEW item \in VoteItems, QueueVote(item),
           NEW p \in Threads, NEW from, NEW to, Goto(p, from, to),
           from \in VoteStates, to \notin VoteStates
    PROVE  VoteStep
<1>1. Voters' = Voters \ {p} /\ p \in Voters BY DEF Voters, TypeOK
<1>2. p \notin Owed /\ item \notin Voters BY OwnersApart
<1>3. Owed' = Owed \cup {item} BY DEF Owed, QueueVote
<1>4. CASE item \in Owed
  <2>1. (Voters \cup Owed)' = (Voters \cup Owed) \ {p} BY <1>1, <1>2, <1>3, <1>4
  <2> QED BY <1>1, <2>1 DEF VoteStep, CV!Next, CV!Release
<1>5. CASE item \notin Owed
  <2>1. (Voters \cup Owed)' = ((Voters \cup Owed) \ {p}) \cup {item}
    BY <1>1, <1>2, <1>3
  <2>2. item \in (Threads \cup VoteItems) \ (Voters \cup Owed) BY <1>2, <1>5
  <2> QED BY <1>1, <2>1, <2>2 DEF VoteStep, CV!Next, CV!HandOver
<1> QED BY <1>4, <1>5

\* The worker that starts an item takes the vote of the item over.
LEMMA StepStarts ==
    ASSUME TypeOK, ClockOn' = ClockOn, NEW item \in Owed,
           pending' = pending \ {item},
           NEW from, NEW to, Goto(Wq, from, to),
           from \notin VoteStates, to \in VoteStates
    PROVE  VoteStep
<1> Wq \in Threads BY DEF Threads
<1>1. Voters' = Voters \cup {Wq} /\ Wq \notin Voters BY DEF Voters, TypeOK
<1>2. Wq \notin Owed /\ item \notin Voters BY OwnersApart
<1>3. Owed' = Owed \ {item} BY DEF Owed
<1>4. (Voters \cup Owed)' = ((Voters \cup Owed) \ {item}) \cup {Wq}
  BY <1>1, <1>2, <1>3
<1>5. Wq \in (Threads \cup VoteItems) \ (Voters \cup Owed) BY <1>1, <1>2
<1> QED BY <1>4, <1>5 DEF VoteStep, CV!Next, CV!HandOver

\* The clock is switched off, or on, while nobody owns a vote.
LEMMA StepSwitches ==
    ASSUME Voters' = Voters, Owed' = Owed, VoteOwners = {} \/ ClockOn',
           TypeOK, TypeOK'
    PROVE  VoteStep
<1>1. CASE ClockOn' = ClockOn BY <1>1, StepStutters
<1>2. CASE ClockOn /\ ~ClockOn'
  BY <1>2 DEF VoteStep, CV!Next, CV!Disable, VoteOwners
<1>3. CASE ~ClockOn /\ ClockOn'
  BY <1>3 DEF VoteStep, CV!Next, CV!Enable
<1> QED BY <1>1, <1>2, <1>3

-----------------------------------------------------------------------------
\* Every step of the threads is a step of the votes, or a stutter: one case per
\* action, under what it does to the votes.
LEMMA VoteNext == ASSUME IInv, IInv', [Next]_vars PROVE VoteStep
<1> USE DEF VoteStates, SlowStates
<1> TypeOK /\ TypeOK' BY DEF IInv
<1>0. CASE UNCHANGED vars
  <2>1. Voters' = Voters /\ Owed' = Owed /\ ClockOn' = ClockOn
    BY <1>0 DEF vars, Voters, Owed
  <2> QED BY <2>1, StepStutters
<1> SUFFICES ASSUME Next PROVE VoteStep BY <1>0
<1>1. ASSUME NEW p \in Threads, Call(p) PROVE VoteStep
  <2>1. CASE IncCall(p)
    BY <2>1, VotersKept, StepStutters DEF IncCall, Owed
  <2>2. CASE IncNoBlock(p)
    <3>1. ClockOn BY <2>2 DEF IncNoBlock, IInv, PowerOn
    <3> QED BY <2>2, <3>1, StepVotes DEF IncNoBlock, Owed
  <2>3. CASE Post(p)
    BY <2>3, VotersKept, StepStutters DEF Post, Owed
  <2>4. CASE DecCall(p)
    BY <2>4, VotersKept, StepStutters DEF DecCall, Owed
  <2>5. CASE DecNoBlockCall(p)
    BY <2>5, VotersKept, StepStutters DEF DecNoBlockCall, Owed
  <2> QED BY <1>1, <2>1, <2>2, <2>3, <2>4, <2>5 DEF Call
<1>2. ASSUME NEW p \in Threads, Run(p) PROVE VoteStep
  <2>1. CASE IncFast(p)
    <3>1. CASE cnt > 0
      <4>1. ClockOn BY <3>1 DEF IInv, PowerOn
      <4>2. Goto(p, "inc", "held") BY <2>1, <3>1 DEF IncFast
      <4> QED BY <2>1, <4>1, <4>2, StepVotes DEF IncFast, Owed
    <3>2. CASE ~(cnt > 0)
      <4>1. Goto(p, "inc", "inc_lock") BY <2>1, <3>2 DEF IncFast
      <4> QED BY <2>1, <4>1, VotersKept, StepStutters DEF IncFast, Owed
    <3> QED BY <3>1, <3>2
  <2>2. CASE IncRecheck(p)
    <3>1. CASE cnt > 0
      <4>1. ClockOn BY <3>1 DEF IInv, PowerOn
      <4>2. Goto(p, "inc_recheck", "inc_unlock") BY <2>2, <3>1 DEF IncRecheck
      <4> QED BY <2>2, <4>1, <4>2, StepVotes DEF IncRecheck, Owed
    <3>2. CASE ~(cnt > 0)
      <4>1. Goto(p, "inc_recheck", "inc_enable") BY <2>2, <3>2 DEF IncRecheck
      <4> QED BY <2>2, <4>1, VotersKept, StepStutters DEF IncRecheck, Owed
    <3> QED BY <3>1, <3>2
  <2>3. CASE IncEnable(p)
    <3>1. VoteOwners = {}
      BY <2>3, NoVoter DEF IncEnable, IInv, SwitchedAtZero, ZeroStates, VoteOwners
    <3> QED BY <2>3, <3>1, VotersKept, StepSwitches DEF IncEnable, Owed
  <2>4. CASE IncResume(p)
    <3>1. VoteOwners = {}
      BY <2>4, NoVoter DEF IncResume, IInv, SwitchedAtZero, ZeroStates, VoteOwners
    <3> QED BY <2>4, <3>1, VotersKept, StepSwitches DEF IncResume, Owed
  <2>5. CASE IncCount(p)
    <3>1. ClockOn BY <2>5 DEF IncCount, IInv, PowerOn
    <3> QED BY <2>5, <3>1, StepVotes DEF IncCount, Owed
  <2>6. CASE IncUnlock(p)
    BY <2>6, VotersKept, StepStutters DEF IncUnlock, Owed
  <2>7. CASE DecRead(p)
    <3>1. cnt > 0 BY <2>7, VoterCounted DEF DecRead, IInv, TypeOK
    <3>2. Goto(p, "dec", "dec_fast") BY <2>7, <3>1 DEF DecRead
    <3> QED BY <2>7, <3>2, VotersKept, StepStutters DEF DecRead, Owed
  <2>8. CASE DecFast(p)
    <3>1. CASE cnt = 1
      <4>1. Goto(p, "dec_fast", "coal_check") BY <2>8, <3>1 DEF DecFast
      <4> QED BY <2>8, <4>1, VotersKept, StepStutters DEF DecFast, Owed
    <3>2. CASE ~(cnt = 1)
      <4>1. Goto(p, "dec_fast", "idle") BY <2>8, <3>2 DEF DecFast
      <4> QED BY <2>8, <4>1, StepReleases DEF DecFast, Owed
    <3> QED BY <3>1, <3>2
  <2>9. CASE CoalCheck(p)
    <3>1. Goto(p, "coal_check", "coal_close") \/ Goto(p, "coal_check", "dec_lock")
      BY <2>9 DEF CoalCheck
    <3>2. Voters' = Voters BY <3>1, VotersKept
    <3> QED BY <2>9, <3>2, StepStutters DEF CoalCheck, Owed
  <2>10. CASE CoalClose(p)
    BY <2>10, VotersKept, StepStutters DEF CoalClose, Owed
  <2>11. CASE CoalReset(p)
    BY <2>11, VotersKept, StepStutters DEF CoalReset, Owed
  <2>12. CASE DecTag(p)
    <3>1. CASE cnt = 1 /\ tag
      <4>1. Goto(p, "dec_tag", "dec_unlock") /\ QueueVote("tag")
        BY <2>12, <3>1 DEF DecTag
      <4> QED BY <2>12, <4>1, StepQueues DEF DecTag, VoteItems
    <3>2. CASE ~(cnt = 1 /\ tag)
      <4>1. Goto(p, "dec_tag", "dec_sub") /\ UNCHANGED pending
        BY <2>12, <3>2 DEF DecTag
      <4> QED BY <2>12, <4>1, VotersKept, StepStutters DEF DecTag, Owed
    <3> QED BY <3>1, <3>2
  <2>13. CASE DecSub(p)
    <3>1. Goto(p, "dec_sub", "dec_unlock") \/ Goto(p, "dec_sub", "dec_suspend")
      BY <2>13 DEF DecSub
    <3>2. UNCHANGED <<clk, pipes>> /\ Owed' = Owed BY <2>13 DEF DecSub, Owed
    <3> QED BY <3>1, <3>2, StepReleases
  <2>14. CASE DecRequeue(p)
    BY <2>14, StepQueues DEF DecRequeue, VoteItems
  <2>15. CASE DecDisable(p)
    <3>1. VoteOwners = {}
      BY <2>15, NoVoter DEF DecDisable, IInv, SwitchedAtZero, ZeroStates, VoteOwners
    <3> QED BY <2>15, <3>1, VotersKept, StepSwitches DEF DecDisable, Owed
  <2>16. CASE DecUnlock(p)
    BY <2>16, VotersKept, StepStutters DEF DecUnlock, Owed
  <2>17. CASE DecNoBlock(p)
    <3>1. CASE cnt = 1
      <4>1. Goto(p, "nb_dec", "nb_queue") BY <2>17, <3>1 DEF DecNoBlock
      <4> QED BY <2>17, <4>1, VotersKept, StepStutters DEF DecNoBlock, Owed
    <3>2. CASE ~(cnt = 1)
      <4>1. Goto(p, "nb_dec", "idle") BY <2>17, <3>2 DEF DecNoBlock
      <4> QED BY <2>17, <4>1, StepReleases DEF DecNoBlock, Owed
    <3> QED BY <3>1, <3>2
  <2>18. CASE DecNoBlockQueue(p)
    BY <2>18, StepQueues DEF DecNoBlockQueue, VoteItems
  <2>19. CASE Mark(p)
    BY <2>19, VotersKept, StepStutters DEF Mark, Owed
  <2>20. CASE ProcessInterrupts(p)
    BY <2>20, VotersKept, StepStutters DEF ProcessInterrupts, Owed
  <2>21. CASE IrqDone(p)
    <3>1. Goto(p, "processed", "nb_dec") \/ Goto(p, "processed", "dec")
      BY <2>21 DEF IrqDone
    <3>2. Voters' = Voters BY <3>1, VotersKept
    <3> QED BY <2>21, <3>2, StepStutters DEF IrqDone, Owed
  <2> QED BY <1>2, <2>1, <2>2, <2>3, <2>4, <2>5, <2>6, <2>7, <2>8, <2>9,
     <2>10, <2>11, <2>12, <2>13, <2>14, <2>15, <2>16, <2>17, <2>18, <2>19,
     <2>20, <2>21 DEF Run
<1>3. ASSUME NEW p \in Threads, Lock(p) PROVE VoteStep
  <2>1. CASE IncLock(p)
    BY <2>1, VotersKept, StepStutters DEF IncLock, Owed
  <2>2. CASE DecLock(p)
    BY <2>2, VotersKept, StepStutters DEF DecLock, Owed
  <2> QED BY <1>3, <2>1, <2>2 DEF Lock
<1>4. ASSUME NEW p \in Threads, DecSuspend(p) PROVE VoteStep
  <2>1. VoteOwners = {}
    BY <1>4, NoVoter DEF DecSuspend, IInv, SwitchedAtZero, ZeroStates, VoteOwners
  <2> QED BY <1>4, <2>1, VotersKept, StepSwitches DEF DecSuspend, Owed
<1>5. ASSUME NEW p \in Threads, DecBusy(p) PROVE VoteStep
  <2>1. ClockOn BY <1>5 DEF DecBusy, IInv, PowerOn
  <2> QED BY <1>5, <2>1, StepVotes DEF DecBusy, Owed
<1>6. CASE WqStep
  <2> Wq \in Threads BY DEF Threads
  <2>1. ASSUME NEW item \in Items, WqRun(item) PROVE VoteStep
    <3>1. CASE item \in VoteItems
      <4>1. item \in Owed BY <2>1, <3>1 DEF WqRun, Owed
      <4>2. Entry(item) \in VoteStates BY <3>1 DEF Entry, VoteItems
      <4> QED BY <2>1, <4>1, <4>2, StepStarts DEF WqRun
    <3>2. CASE item \notin VoteItems
      <4>1. item = "defer" BY <3>2 DEF Items, VoteItems
      <4>2. Entry(item) = "inc" BY <4>1 DEF Entry
      <4>3. Owed' = Owed BY <2>1, <3>2 DEF WqRun, Owed
      <4> QED BY <2>1, <4>2, <4>3, VotersKept, StepStutters DEF WqRun
    <3> QED BY <3>1, <3>2
  <2>2. CASE TagPost
    BY <2>2, VotersKept, StepStutters DEF TagPost, Owed
  <2>3. CASE TagFail
    BY <2>3, VotersKept, StepStutters DEF TagFail, Owed
  <2>4. CASE TagClear
    BY <2>4, VotersKept, StepStutters DEF TagClear, Owed
  <2>5. CASE TagDone
    BY <2>5, VotersKept, StepStutters DEF TagDone, Owed
  <2>6. CASE DeferRelease
    BY <2>6, StepQueues DEF DeferRelease, VoteItems
  <2> QED BY <1>6, <2>1, <2>2, <2>3, <2>4, <2>5, <2>6 DEF WqStep
<1>7. CASE IsrStep
  <2> Isr \in Threads BY DEF Threads
  <2>1. CASE IsrEnter
    <3>1. CASE cnt > 0
      <4>1. ClockOn BY <3>1 DEF IInv, PowerOn
      <4>2. Goto(Isr, "idle", "held") BY <2>1, <3>1 DEF IsrEnter
      <4> QED BY <2>1, <4>1, <4>2, StepVotes DEF IsrEnter, Owed
    <3>2. CASE ~(cnt > 0)
      <4>1. Goto(Isr, "idle", "irq_defer") BY <2>1, <3>2 DEF IsrEnter
      <4> QED BY <2>1, <4>1, VotersKept, StepStutters DEF IsrEnter, Owed
    <3> QED BY <3>1, <3>2
  <2>2. CASE IsrDefer
    <3>1. Owed' = Owed BY <2>2 DEF IsrDefer, Owed, VoteItems
    <3> QED BY <2>2, <3>1, VotersKept, StepStutters DEF IsrDefer
  <2> QED BY <1>7, <2>1, <2>2 DEF IsrStep
<1>8. CASE IrqRaise
  BY <1>8, StepStutters DEF IrqRaise, Voters, Owed
<1> QED BY <1>1, <1>2, <1>3, <1>4, <1>5, <1>6, <1>7, <1>8 DEF Next

\* The count, the mutex and the work items of ActiveClients implement the votes
\* of ClockVote: at boot one owner votes for a running clock, and every step
\* from a state that satisfies the invariant is one of the votes or a stutter.
THEOREM Refinement == Spec => ImplementsClockVote
<1>1. Init => CV!Init
  BY OwnersApart DEF Init, CV!Init
<1>2. IInv /\ IInv' /\ [Next]_vars => [CV!Next]_(CV!vote)
  BY VoteNext DEF VoteStep
<1> QED BY <1>1, <1>2, Invariance, PTL DEF Spec, ImplementsClockVote, CV!Spec
=============================================================================
