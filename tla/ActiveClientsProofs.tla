------------------------ MODULE ActiveClientsProofs ------------------------
(***************************************************************************)
(* Proofs about ActiveClients for any number of clients: the inductive     *)
(* invariant IInv, and what follows from it.                               *)
(***************************************************************************)
EXTENDS ActiveClients, FiniteSetTheorems, TLAPS

USE DEF Goto, power, irq, hist

\* The owners of votes are finitely many, so that Balance counts them.
LEMMA CountsFinite ==
    ASSUME TypeOK
    PROVE  /\ IsFiniteSet(Voters) /\ Cardinality(Voters) \in Nat
           /\ IsFiniteSet(Owed) /\ Cardinality(Owed) \in Nat
<1>1. IsFiniteSet(Threads)
  BY ClientsAssumption, FS_AddElement, Threads = (Clients \cup {Wq}) \cup {Isr}
     DEF Threads
<1>2. IsFiniteSet({"dec"}) BY FS_Singleton
<1>3. IsFiniteSet({"dec"} \cup {"irqdec"}) BY <1>2, FS_AddElement
<1>4. IsFiniteSet(({"dec"} \cup {"irqdec"}) \cup {"tag"}) BY <1>3, FS_AddElement
<1>5. VoteItems = ({"dec"} \cup {"irqdec"}) \cup {"tag"} BY DEF VoteItems
<1>6. IsFiniteSet(VoteItems) BY <1>4, <1>5
<1>7. Voters \in SUBSET Threads /\ Owed \in SUBSET VoteItems
  BY DEF Voters, Owed
<1> QED BY <1>1, <1>6, <1>7, FS_Subset, FS_CardinalityType

\* A thread that takes a vote adds one voter.
LEMMA VoterGained ==
    ASSUME TypeOK, NEW p \in Threads, NEW from, NEW to, Goto(p, from, to),
           from \notin VoteStates, to \in VoteStates
    PROVE  Cardinality(Voters') = Cardinality(Voters) + 1
<1>1. Voters' = Voters \cup {p} /\ p \notin Voters BY DEF Voters, TypeOK
<1> QED BY <1>1, CountsFinite, FS_AddElement

\* A thread that drops its vote or hands it over removes one voter.
LEMMA VoterLost ==
    ASSUME TypeOK, NEW p \in Threads, NEW from, NEW to, Goto(p, from, to),
           from \in VoteStates, to \notin VoteStates
    PROVE  Cardinality(Voters') = Cardinality(Voters) - 1
<1>1. Voters' = Voters \ {p} /\ p \in Voters BY DEF Voters, TypeOK
<1> QED BY <1>1, CountsFinite, FS_RemoveElement

\* Any other step of a thread keeps the set of voters.
LEMMA VotersKept ==
    ASSUME TypeOK, NEW p \in Threads, NEW from, NEW to, Goto(p, from, to),
           from \in VoteStates <=> to \in VoteStates
    PROVE  Voters' = Voters
BY DEF Voters, TypeOK

\* Queueing a releasing item accounts for exactly one vote, owed or lost.
LEMMA OwedQueued ==
    ASSUME TypeOK, NEW item \in VoteItems, QueueVote(item)
    PROVE  /\ Cardinality(Owed') \in Nat
           /\ lost' \in Nat
           /\ Cardinality(Owed') + lost' = Cardinality(Owed) + lost + 1
<1>1. Owed' = Owed \cup {item} BY DEF Owed, QueueVote
<1>2. item \in Owed <=> item \in pending BY DEF Owed
<1>3. Cardinality(Owed') = IF item \in Owed THEN Cardinality(Owed)
                                            ELSE Cardinality(Owed) + 1
  BY <1>1, CountsFinite, FS_AddElement
<1> QED BY <1>2, <1>3, CountsFinite DEF QueueVote, TypeOK

\* The worker takes the vote of an item that it starts.
LEMMA OwedTaken ==
    ASSUME TypeOK, NEW item \in Owed, pending' = pending \ {item}
    PROVE  Cardinality(Owed') = Cardinality(Owed) - 1
<1>1. Owed' = Owed \ {item} BY DEF Owed
<1> QED BY <1>1, CountsFinite, FS_RemoveElement

\* A thread that owns a vote is counted in cnt.
LEMMA VoterCounted ==
    ASSUME TypeOK, Balance, NEW p \in Threads, pc[p] \in VoteStates
    PROVE  cnt >= 1
<1>1. p \in Voters BY DEF Voters
<1>2. Cardinality(Voters) # 0 BY <1>1, CountsFinite, FS_EmptySet
<1> QED BY <1>2, CountsFinite DEF Balance, TypeOK

\* At cnt = 1 a thread that owns a vote is the only owner.
LEMMA OnlyVoter ==
    ASSUME TypeOK, Balance, cnt = 1, NEW p \in Threads, pc[p] \in VoteStates
    PROVE  Voters = {p} /\ Owed = {}
<1>1. p \in Voters BY DEF Voters
<1>2. Cardinality(Voters) # 0 BY <1>1, CountsFinite, FS_EmptySet
<1>3. Cardinality(Voters) = 1 /\ Cardinality(Owed) = 0
  BY <1>2, CountsFinite DEF Balance, TypeOK
<1> QED BY <1>1, <1>3, CountsFinite, FS_Singleton, FS_EmptySet

\* At cnt = 0 nobody owns a vote.
LEMMA NoVoter ==
    ASSUME TypeOK, Balance, cnt = 0
    PROVE  Voters = {} /\ Owed = {}
<1>1. Cardinality(Voters) = 0 /\ Cardinality(Owed) = 0
  BY CountsFinite DEF Balance, TypeOK
<1> QED BY <1>1, CountsFinite, FS_EmptySet

-----------------------------------------------------------------------------
\* One step per action; only a release needs more than the types: its vote is
\* counted, so that cnt does not fall below 0.
LEMMA TypeNext == ASSUME TypeOK, Balance, [Next]_vars PROVE TypeOK'
<1> USE DEF States, CritStates, VoteStates, SlowStates
<1> SUFFICES ASSUME Next PROVE TypeOK'
  BY DEF TypeOK, vars
<1>1. ASSUME NEW p \in Threads, Call(p) PROVE TypeOK'
  <2>1. CASE IncCall(p) \/ Post(p) BY <2>1 DEF IncCall, Post, TypeOK
  <2>2. CASE IncNoBlock(p) BY <2>2 DEF IncNoBlock, TypeOK
  <2>3. CASE DecCall(p) \/ DecNoBlockCall(p)
    BY <2>3 DEF DecCall, DecNoBlockCall, TypeOK
  <2> QED BY <1>1, <2>1, <2>2, <2>3 DEF Call
<1>2. ASSUME NEW p \in Threads, Run(p) PROVE TypeOK'
  <2>1. CASE DecFast(p) \/ DecSub(p) \/ DecNoBlock(p)
    <3>1. cnt >= 1 BY <2>1, VoterCounted DEF DecFast, DecSub, DecNoBlock
    <3>2. cnt - 1 \in Nat BY <3>1 DEF TypeOK
    <3>3. CASE DecFast(p) BY <3>2, <3>3 DEF DecFast, TypeOK
    <3>4. CASE DecSub(p) BY <3>2, <3>4 DEF DecSub, TypeOK
    <3>5. CASE DecNoBlock(p) BY <3>2, <3>5 DEF DecNoBlock, TypeOK
    <3> QED BY <2>1, <3>3, <3>4, <3>5
  <2>2. CASE DecRequeue(p) \/ DecNoBlockQueue(p)
    <3>0. QueueVote("dec") BY <2>2 DEF DecRequeue, DecNoBlockQueue
    <3>1. pending' \subseteq Items /\ lost' \in Nat
      BY <3>0 DEF QueueVote, Items, TypeOK
    <3> QED BY <2>2, <3>1 DEF DecRequeue, DecNoBlockQueue, TypeOK
  <2>6. CASE DecTag(p)
    <3>1. pc' \in [Threads -> States] BY <2>6 DEF DecTag, TypeOK
    <3>2. pending' \subseteq Items BY <2>6 DEF DecTag, QueueVote, Items, TypeOK
    <3>3. lost' \in Nat BY <2>6 DEF DecTag, QueueVote, TypeOK
    <3>4. tag' \in BOOLEAN BY <2>6 DEF DecTag, TypeOK
    <3>5. UNCHANGED <<cnt, mutex, clk, pipes, irqStat, irqEdge, dirty>>
      BY <2>6 DEF DecTag
    <3> QED BY <3>1, <3>2, <3>3, <3>4, <3>5 DEF TypeOK
  <2>3. CASE \/ IncFast(p) \/ IncRecheck(p) \/ IncEnable(p) \/ IncResume(p)
             \/ IncCount(p) \/ IncUnlock(p)
    <3>1. CASE IncFast(p) \/ IncRecheck(p)
      BY <3>1 DEF IncFast, IncRecheck, TypeOK
    <3>2. CASE IncEnable(p) \/ IncResume(p)
      BY <3>2 DEF IncEnable, IncResume, TypeOK
    <3>3. CASE IncCount(p) \/ IncUnlock(p)
      BY <3>3 DEF IncCount, IncUnlock, TypeOK
    <3> QED BY <2>3, <3>1, <3>2, <3>3
  <2>4. CASE \/ DecRead(p) \/ CoalCheck(p) \/ CoalClose(p) \/ CoalReset(p)
             \/ DecDisable(p) \/ DecUnlock(p)
    BY <2>4, FlagsAssumption DEF DecRead, CoalCheck, CoalClose, CoalReset,
            DecDisable, DecUnlock, ForceCloseCoal, TypeOK
  <2>5. CASE Mark(p) \/ ProcessInterrupts(p) \/ IrqDone(p)
    BY <2>5 DEF Mark, ProcessInterrupts, IrqDone, TypeOK
  <2> QED BY <1>2, <2>1, <2>2, <2>3, <2>4, <2>5, <2>6 DEF Run
<1>3. ASSUME NEW p \in Threads, Lock(p) PROVE TypeOK'
  <2>1. CASE IncLock(p) BY <2>1 DEF IncLock, TypeOK
  <2>2. CASE DecLock(p) BY <2>2 DEF DecLock, TypeOK
  <2> QED BY <1>3, <2>1, <2>2 DEF Lock
<1>4. ASSUME NEW p \in Threads, DecSuspend(p) \/ DecBusy(p) PROVE TypeOK'
  <2>1. tag' \in BOOLEAN
    BY <1>4, FlagsAssumption DEF DecSuspend, DecBusy, ForceCloseCoal
  <2>2. CASE DecSuspend(p) BY <2>1, <2>2 DEF DecSuspend, TypeOK
  <2>3. CASE DecBusy(p) BY <2>1, <2>3 DEF DecBusy, TypeOK
  <2> QED BY <1>4, <2>2, <2>3
<1>5. CASE WqStep
  <2>1. ASSUME NEW item \in Items, WqRun(item) PROVE TypeOK'
    <3>1. Entry(item) \in States BY DEF Entry
    <3> QED BY <2>1, <3>1 DEF WqRun, TypeOK
  <2>2. CASE TagPost \/ TagFail \/ TagClear \/ TagDone
    BY <2>2 DEF TagPost, TagFail, TagClear, TagDone, TypeOK
  <2>3. CASE DeferRelease
    BY <2>3 DEF DeferRelease, QueueVote, Items, Threads, TypeOK
  <2> QED BY <1>5, <2>1, <2>2, <2>3 DEF WqStep
<1>6. CASE IsrStep
  <2>1. CASE IsrEnter
    <3>1. Isr \in Threads BY DEF Threads
    <3>2. cnt' \in Nat /\ pc' \in [Threads -> States]
      BY <2>1, <3>1 DEF IsrEnter, TypeOK
    <3> QED BY <2>1, <3>2 DEF IsrEnter, TypeOK
  <2>2. CASE IsrDefer BY <2>2 DEF IsrDefer, Items, Threads, TypeOK
  <2> QED BY <1>6, <2>1, <2>2 DEF IsrStep
<1>7. CASE IrqRaise
  BY <1>7 DEF IrqRaise, TypeOK
<1> QED BY <1>1, <1>2, <1>3, <1>4, <1>5, <1>6, <1>7 DEF Next

-----------------------------------------------------------------------------
\* Each action moves one vote at most, and cnt moves with it.
LEMMA BalanceNext ==
    ASSUME IInv, [Next]_vars PROVE Balance'
<1> HIDE DEF Goto
<1> TypeOK /\ Balance /\ SwitchedAtZero BY DEF IInv
<1> USE DEF VoteStates, SlowStates
<1>0. TypeOK' BY TypeNext
<1>a. ASSUME Voters' = Voters, UNCHANGED <<cnt, pending, lost>> PROVE Balance'
  BY <1>a DEF Balance, Owed
<1>b. ASSUME Cardinality(Voters') = Cardinality(Voters) + 1,
             cnt' = cnt + 1, UNCHANGED <<pending, lost>>
      PROVE  Balance'
  BY <1>b, CountsFinite DEF Balance, Owed, TypeOK
<1>c. ASSUME Cardinality(Voters') = Cardinality(Voters) - 1,
             cnt' = cnt - 1, UNCHANGED <<pending, lost>>
      PROVE  Balance'
  BY <1>c, CountsFinite DEF Balance, Owed, TypeOK
<1>d. ASSUME Cardinality(Voters') = Cardinality(Voters) - 1,
             NEW item \in VoteItems, QueueVote(item), cnt' = cnt
      PROVE  Balance'
  BY <1>d, CountsFinite, OwedQueued DEF Balance, TypeOK
<1> SUFFICES ASSUME Next PROVE Balance'
  BY <1>a DEF vars, Voters
<1>1. ASSUME NEW p \in Threads, Call(p) PROVE Balance'
  <2>1. CASE IncCall(p) BY <1>a, <2>1, VotersKept DEF IncCall
  <2>2. CASE IncNoBlock(p) BY <1>b, <2>2, VoterGained DEF IncNoBlock
  <2>3. CASE Post(p) BY <1>a, <2>3, VotersKept DEF Post
  <2>4. CASE DecCall(p) BY <1>a, <2>4, VotersKept DEF DecCall
  <2>5. CASE DecNoBlockCall(p) BY <1>a, <2>5, VotersKept DEF DecNoBlockCall
  <2> QED BY <1>1, <2>1, <2>2, <2>3, <2>4, <2>5 DEF Call
<1>2. ASSUME NEW p \in Threads, Run(p) PROVE Balance'
  <2>1. CASE IncFast(p)
    BY <1>a, <1>b, <2>1, VotersKept, VoterGained DEF IncFast
  <2>2. CASE IncRecheck(p)
    BY <1>a, <1>b, <2>2, VotersKept, VoterGained DEF IncRecheck
  <2>3. CASE IncEnable(p) BY <1>a, <2>3, VotersKept DEF IncEnable
  <2>4. CASE IncResume(p) BY <1>a, <2>4, VotersKept DEF IncResume
  <2>5. CASE IncCount(p) BY <1>b, <2>5, VoterGained DEF IncCount
  <2>6. CASE IncUnlock(p) BY <1>a, <2>6, VotersKept DEF IncUnlock
  <2>7. CASE DecRead(p)
    <3>1. cnt > 0
      BY <2>7, VoterCounted DEF DecRead, Goto, TypeOK
    <3> QED BY <1>a, <2>7, <3>1, VotersKept DEF DecRead, TypeOK
  <2>8. CASE DecFast(p)
    BY <1>a, <1>c, <2>8, VotersKept, VoterLost DEF DecFast
  <2>9. CASE CoalCheck(p) BY <1>a, <2>9, VotersKept DEF CoalCheck
  <2>10. CASE CoalClose(p) BY <1>a, <2>10, VotersKept DEF CoalClose
  <2>11. CASE CoalReset(p) BY <1>a, <2>11, VotersKept DEF CoalReset
  <2>12. CASE DecTag(p)
    BY <1>a, <1>d, <2>12, VotersKept, VoterLost DEF DecTag, VoteItems
  <2>13. CASE DecSub(p) BY <1>c, <2>13, VoterLost DEF DecSub
  <2>14. CASE DecRequeue(p)
    BY <1>d, <2>14, VoterLost DEF DecRequeue, VoteItems
  <2>15. CASE DecDisable(p) BY <1>a, <2>15, VotersKept DEF DecDisable
  <2>16. CASE DecUnlock(p) BY <1>a, <2>16, VotersKept DEF DecUnlock
  <2>17. CASE DecNoBlock(p)
    BY <1>a, <1>c, <2>17, VotersKept, VoterLost DEF DecNoBlock
  <2>18. CASE DecNoBlockQueue(p)
    BY <1>d, <2>18, VoterLost DEF DecNoBlockQueue, VoteItems
  <2>19. CASE Mark(p) BY <1>a, <2>19, VotersKept DEF Mark
  <2>20. CASE ProcessInterrupts(p)
    BY <1>a, <2>20, VotersKept DEF ProcessInterrupts
  <2>21. CASE IrqDone(p) BY <1>a, <2>21, VotersKept DEF IrqDone
  <2> QED BY <1>2, <2>1, <2>2, <2>3, <2>4, <2>5, <2>6, <2>7, <2>8, <2>9,
             <2>10, <2>11, <2>12, <2>13, <2>14, <2>15, <2>16, <2>17, <2>18,
             <2>19, <2>20, <2>21 DEF Run
<1>3. ASSUME NEW p \in Threads, Lock(p) PROVE Balance'
  BY <1>a, <1>3, VotersKept DEF Lock, IncLock, DecLock
<1>4. ASSUME NEW p \in Threads, DecSuspend(p) \/ DecBusy(p) PROVE Balance'
  <2>1. CASE DecSuspend(p) BY <1>a, <2>1, VotersKept DEF DecSuspend
  <2>2. CASE DecBusy(p) BY <1>b, <2>2, VoterGained DEF DecBusy
  <2> QED BY <1>4, <2>1, <2>2
<1>5. CASE WqStep
  <2> Wq \in Threads BY DEF Threads
  <2>1. ASSUME NEW item \in Items, WqRun(item) PROVE Balance'
    <3>1. CASE item = "defer"
      <4>1. Owed' = Owed BY <2>1, <3>1 DEF WqRun, Owed, VoteItems
      <4>2. Voters' = Voters
        BY <2>1, <3>1, VotersKept DEF WqRun, Entry
      <4> QED BY <2>1, <4>1, <4>2 DEF WqRun, Balance
    <3>2. CASE item # "defer"
      <4>1. item \in Owed BY <2>1, <3>2 DEF WqRun, Owed, VoteItems, Items
      <4>2. Cardinality(Owed') = Cardinality(Owed) - 1
        BY <2>1, <4>1, OwedTaken DEF WqRun
      <4>3. Entry(item) \in VoteStates BY <3>2 DEF Entry
      <4>4. Cardinality(Voters') = Cardinality(Voters) + 1
        BY <2>1, <4>3, VoterGained DEF WqRun
      <4> QED BY <2>1, <4>2, <4>4, CountsFinite DEF WqRun, Balance, TypeOK
    <3> QED BY <3>1, <3>2
  <2>2. CASE TagPost BY <1>a, <2>2, VotersKept DEF TagPost
  <2>3. CASE TagFail BY <1>a, <2>3, VotersKept DEF TagFail
  <2>4. CASE TagClear BY <1>a, <2>4, VotersKept DEF TagClear
  <2>5. CASE TagDone BY <1>a, <2>5, VotersKept DEF TagDone
  <2>6. CASE DeferRelease
    BY <1>d, <2>6, VoterLost DEF DeferRelease, VoteItems
  <2> QED BY <1>5, <2>1, <2>2, <2>3, <2>4, <2>5, <2>6 DEF WqStep
<1>6. CASE IsrStep
  <2> Isr \in Threads BY DEF Threads
  <2>1. CASE IsrEnter
    BY <1>a, <1>b, <2>1, VotersKept, VoterGained DEF IsrEnter
  <2>2. CASE IsrDefer
    <3>1. Voters' = Voters BY <2>2, VotersKept DEF IsrDefer
    <3>2. Owed' = Owed BY <2>2 DEF IsrDefer, Owed, VoteItems
    <3> QED BY <2>2, <3>1, <3>2 DEF IsrDefer, Balance
  <2> QED BY <1>6, <2>1, <2>2 DEF IsrStep
<1>7. CASE IrqRaise BY <1>a, <1>7 DEF IrqRaise, Voters
<1> QED BY <1>1, <1>2, <1>3, <1>4, <1>5, <1>6, <1>7 DEF Next

-----------------------------------------------------------------------------
\* The mutex is taken and given back where the control says so.
LEMMA MutexNext ==
    ASSUME TypeOK, MutexOwned, [Next]_vars PROVE MutexOwned'
<1> USE DEF CritStates
<1> SUFFICES ASSUME Next PROVE MutexOwned'
  BY DEF vars, MutexOwned
<1>1. ASSUME NEW p \in Threads, Call(p) PROVE MutexOwned'
  <2>1. CASE IncCall(p)
    BY <2>1, ThreadsAssumption DEF IncCall, MutexOwned, TypeOK
  <2>2. CASE IncNoBlock(p)
    BY <2>2, ThreadsAssumption DEF IncNoBlock, MutexOwned, TypeOK
  <2>3. CASE Post(p) BY <2>3, ThreadsAssumption DEF Post, MutexOwned, TypeOK
  <2>4. CASE DecCall(p)
    BY <2>4, ThreadsAssumption DEF DecCall, MutexOwned, TypeOK
  <2>5. CASE DecNoBlockCall(p)
    BY <2>5, ThreadsAssumption DEF DecNoBlockCall, MutexOwned, TypeOK
  <2> QED BY <1>1, <2>1, <2>2, <2>3, <2>4, <2>5 DEF Call
<1>2. ASSUME NEW p \in Threads, Run(p) PROVE MutexOwned'
  <2>1. CASE IncFast(p)
    BY <2>1, ThreadsAssumption DEF IncFast, MutexOwned, TypeOK
  <2>2. CASE IncRecheck(p)
    BY <2>2, ThreadsAssumption DEF IncRecheck, MutexOwned, TypeOK
  <2>3. CASE IncEnable(p)
    BY <2>3, ThreadsAssumption DEF IncEnable, MutexOwned, TypeOK
  <2>4. CASE IncResume(p)
    BY <2>4, ThreadsAssumption DEF IncResume, MutexOwned, TypeOK
  <2>5. CASE IncCount(p)
    BY <2>5, ThreadsAssumption DEF IncCount, MutexOwned, TypeOK
  <2>6. CASE IncUnlock(p)
    BY <2>6, ThreadsAssumption DEF IncUnlock, MutexOwned, TypeOK
  <2>7. CASE DecRead(p)
    BY <2>7, ThreadsAssumption DEF DecRead, MutexOwned, TypeOK
  <2>8. CASE DecFast(p)
    BY <2>8, ThreadsAssumption DEF DecFast, MutexOwned, TypeOK
  <2>9. CASE CoalCheck(p)
    BY <2>9, ThreadsAssumption DEF CoalCheck, MutexOwned, TypeOK
  <2>10. CASE CoalClose(p)
    BY <2>10, ThreadsAssumption DEF CoalClose, MutexOwned, TypeOK
  <2>11. CASE CoalReset(p)
    BY <2>11, ThreadsAssumption DEF CoalReset, MutexOwned, TypeOK
  <2>12. CASE DecTag(p)
    BY <2>12, ThreadsAssumption DEF DecTag, MutexOwned, TypeOK
  <2>13. CASE DecSub(p)
    BY <2>13, ThreadsAssumption DEF DecSub, MutexOwned, TypeOK
  <2>14. CASE DecRequeue(p)
    BY <2>14, ThreadsAssumption DEF DecRequeue, MutexOwned, TypeOK
  <2>15. CASE DecDisable(p)
    BY <2>15, ThreadsAssumption DEF DecDisable, MutexOwned, TypeOK
  <2>16. CASE DecUnlock(p)
    BY <2>16, ThreadsAssumption DEF DecUnlock, MutexOwned, TypeOK
  <2>17. CASE DecNoBlock(p)
    BY <2>17, ThreadsAssumption DEF DecNoBlock, MutexOwned, TypeOK
  <2>18. CASE DecNoBlockQueue(p)
    BY <2>18, ThreadsAssumption DEF DecNoBlockQueue, MutexOwned, TypeOK
  <2>19. CASE Mark(p) BY <2>19, ThreadsAssumption DEF Mark, MutexOwned, TypeOK
  <2>20. CASE ProcessInterrupts(p)
    BY <2>20, ThreadsAssumption DEF ProcessInterrupts, MutexOwned, TypeOK
  <2>21. CASE IrqDone(p)
    BY <2>21, ThreadsAssumption DEF IrqDone, MutexOwned, TypeOK
  <2> QED BY <1>2, <2>1, <2>2, <2>3, <2>4, <2>5, <2>6, <2>7, <2>8, <2>9,
     <2>10, <2>11, <2>12, <2>13, <2>14, <2>15, <2>16, <2>17, <2>18, <2>19,
     <2>20, <2>21 DEF Run
<1>3. ASSUME NEW p \in Threads, Lock(p) PROVE MutexOwned'
  <2>1. CASE IncLock(p)
    BY <2>1, ThreadsAssumption DEF IncLock, MutexOwned, TypeOK
  <2>2. CASE DecLock(p)
    BY <2>2, ThreadsAssumption DEF DecLock, MutexOwned, TypeOK
  <2> QED BY <1>3, <2>1, <2>2 DEF Lock
<1>4. ASSUME NEW p \in Threads, DecSuspend(p) \/ DecBusy(p) PROVE MutexOwned'
  <2>1. CASE DecSuspend(p)
    BY <2>1, ThreadsAssumption DEF DecSuspend, MutexOwned, TypeOK
  <2>2. CASE DecBusy(p)
    BY <2>2, ThreadsAssumption DEF DecBusy, MutexOwned, TypeOK
  <2> QED BY <1>4, <2>1, <2>2
<1>5. CASE WqStep
  <2> Wq \in Threads BY DEF Threads
  <2>1. ASSUME NEW item \in Items, WqRun(item) PROVE MutexOwned'
    BY <2>1, ThreadsAssumption DEF WqRun, Entry, MutexOwned, TypeOK
  <2>2. CASE TagPost
    BY <2>2, ThreadsAssumption DEF TagPost, MutexOwned, TypeOK
  <2>3. CASE TagFail
    BY <2>3, ThreadsAssumption DEF TagFail, MutexOwned, TypeOK
  <2>4. CASE TagClear
    BY <2>4, ThreadsAssumption DEF TagClear, MutexOwned, TypeOK
  <2>5. CASE TagDone
    BY <2>5, ThreadsAssumption DEF TagDone, MutexOwned, TypeOK
  <2>6. CASE DeferRelease
    BY <2>6, ThreadsAssumption DEF DeferRelease, MutexOwned, TypeOK
  <2> QED BY <1>5, <2>1, <2>2, <2>3, <2>4, <2>5, <2>6 DEF WqStep
<1>6. CASE IsrStep
  <2> Isr \in Threads BY DEF Threads
  <2>1. CASE IsrEnter
    BY <2>1, ThreadsAssumption DEF IsrEnter, MutexOwned, TypeOK
  <2>2. CASE IsrDefer
    BY <2>2, ThreadsAssumption DEF IsrDefer, MutexOwned, TypeOK
  <2> QED BY <1>6, <2>1, <2>2 DEF IsrStep
<1>7. CASE IrqRaise
  BY <1>7, ThreadsAssumption DEF IrqRaise, MutexOwned, TypeOK
<1> QED BY <1>1, <1>2, <1>3, <1>4, <1>5, <1>6, <1>7 DEF Next

-----------------------------------------------------------------------------
\* cnt = 0 is left only by the owner of the mutex.
LEMMA ZeroNext ==
    ASSUME TypeOK, Balance, MutexOwned, SwitchedAtZero, [Next]_vars
    PROVE  SwitchedAtZero'
<1> USE DEF ZeroStates
<1> SUFFICES ASSUME Next PROVE SwitchedAtZero'
  BY DEF vars, SwitchedAtZero
<1>1. ASSUME NEW p \in Threads, Call(p) PROVE SwitchedAtZero'
  <2>1. CASE IncCall(p) BY <2>1 DEF IncCall, SwitchedAtZero, TypeOK
  <2>2. CASE IncNoBlock(p) BY <2>2 DEF IncNoBlock, SwitchedAtZero, TypeOK
  <2>3. CASE Post(p) BY <2>3 DEF Post, SwitchedAtZero, TypeOK
  <2>4. CASE DecCall(p) BY <2>4 DEF DecCall, SwitchedAtZero, TypeOK
  <2>5. CASE DecNoBlockCall(p)
    BY <2>5 DEF DecNoBlockCall, SwitchedAtZero, TypeOK
  <2> QED BY <1>1, <2>1, <2>2, <2>3, <2>4, <2>5 DEF Call
<1>2. ASSUME NEW p \in Threads, Run(p) PROVE SwitchedAtZero'
  <2>1. CASE IncFast(p) BY <2>1 DEF IncFast, SwitchedAtZero, TypeOK
  <2>2. CASE IncRecheck(p) BY <2>2 DEF IncRecheck, SwitchedAtZero, TypeOK
  <2>3. CASE IncEnable(p) BY <2>3 DEF IncEnable, SwitchedAtZero, TypeOK
  <2>4. CASE IncResume(p) BY <2>4 DEF IncResume, SwitchedAtZero, TypeOK
  <2>5. CASE IncCount(p)
    BY <2>5 DEF IncCount, SwitchedAtZero, TypeOK, MutexOwned, CritStates
  <2>6. CASE IncUnlock(p) BY <2>6 DEF IncUnlock, SwitchedAtZero, TypeOK
  <2>7. CASE DecRead(p)
    BY <2>7, VoterCounted DEF DecRead, SwitchedAtZero, TypeOK,
       VoteStates, SlowStates
  <2>8. CASE DecFast(p)
    BY <2>8, VoterCounted DEF DecFast, SwitchedAtZero, TypeOK,
       VoteStates, SlowStates
  <2>9. CASE CoalCheck(p) BY <2>9 DEF CoalCheck, SwitchedAtZero, TypeOK
  <2>10. CASE CoalClose(p) BY <2>10 DEF CoalClose, SwitchedAtZero, TypeOK
  <2>11. CASE CoalReset(p) BY <2>11 DEF CoalReset, SwitchedAtZero, TypeOK
  <2>12. CASE DecTag(p) BY <2>12 DEF DecTag, SwitchedAtZero, TypeOK
  <2>13. CASE DecSub(p)
    BY <2>13, VoterCounted DEF DecSub, SwitchedAtZero, TypeOK,
       VoteStates, SlowStates
  <2>14. CASE DecRequeue(p) BY <2>14 DEF DecRequeue, SwitchedAtZero, TypeOK
  <2>15. CASE DecDisable(p) BY <2>15 DEF DecDisable, SwitchedAtZero, TypeOK
  <2>16. CASE DecUnlock(p) BY <2>16 DEF DecUnlock, SwitchedAtZero, TypeOK
  <2>17. CASE DecNoBlock(p)
    BY <2>17, VoterCounted DEF DecNoBlock, SwitchedAtZero, TypeOK,
       VoteStates, SlowStates
  <2>18. CASE DecNoBlockQueue(p)
    BY <2>18 DEF DecNoBlockQueue, SwitchedAtZero, TypeOK
  <2>19. CASE Mark(p) BY <2>19 DEF Mark, SwitchedAtZero, TypeOK
  <2>20. CASE ProcessInterrupts(p)
    BY <2>20 DEF ProcessInterrupts, SwitchedAtZero, TypeOK
  <2>21. CASE IrqDone(p) BY <2>21 DEF IrqDone, SwitchedAtZero, TypeOK
  <2> QED BY <1>2, <2>1, <2>2, <2>3, <2>4, <2>5, <2>6, <2>7, <2>8, <2>9,
     <2>10, <2>11, <2>12, <2>13, <2>14, <2>15, <2>16, <2>17, <2>18, <2>19,
     <2>20, <2>21 DEF Run
<1>3. ASSUME NEW p \in Threads, Lock(p) PROVE SwitchedAtZero'
  <2>1. CASE IncLock(p) BY <2>1 DEF IncLock, SwitchedAtZero, TypeOK
  <2>2. CASE DecLock(p) BY <2>2 DEF DecLock, SwitchedAtZero, TypeOK
  <2> QED BY <1>3, <2>1, <2>2 DEF Lock
<1>4. ASSUME NEW p \in Threads, DecSuspend(p) \/ DecBusy(p) PROVE SwitchedAtZero'
  <2>1. CASE DecSuspend(p) BY <2>1 DEF DecSuspend, SwitchedAtZero, TypeOK
  <2>2. CASE DecBusy(p)
    BY <2>2 DEF DecBusy, SwitchedAtZero, TypeOK, MutexOwned, CritStates
  <2> QED BY <1>4, <2>1, <2>2
<1>5. CASE WqStep
  <2> Wq \in Threads BY DEF Threads
  <2>1. ASSUME NEW item \in Items, WqRun(item) PROVE SwitchedAtZero'
    BY <2>1 DEF WqRun, Entry, SwitchedAtZero, TypeOK
  <2>2. CASE TagPost BY <2>2 DEF TagPost, SwitchedAtZero, TypeOK
  <2>3. CASE TagFail BY <2>3 DEF TagFail, SwitchedAtZero, TypeOK
  <2>4. CASE TagClear BY <2>4 DEF TagClear, SwitchedAtZero, TypeOK
  <2>5. CASE TagDone BY <2>5 DEF TagDone, SwitchedAtZero, TypeOK
  <2>6. CASE DeferRelease BY <2>6 DEF DeferRelease, SwitchedAtZero, TypeOK
  <2> QED BY <1>5, <2>1, <2>2, <2>3, <2>4, <2>5, <2>6 DEF WqStep
<1>6. CASE IsrStep
  <2> Isr \in Threads BY DEF Threads
  <2>1. CASE IsrEnter BY <2>1 DEF IsrEnter, SwitchedAtZero, TypeOK
  <2>2. CASE IsrDefer BY <2>2 DEF IsrDefer, SwitchedAtZero, TypeOK
  <2> QED BY <1>6, <2>1, <2>2 DEF IsrStep
<1>7. CASE IrqRaise BY <1>7 DEF IrqRaise, SwitchedAtZero, TypeOK
<1> QED BY <1>1, <1>2, <1>3, <1>4, <1>5, <1>6, <1>7 DEF Next

-----------------------------------------------------------------------------
\* Clocks and pipes are on when the count leaves 0 and off only at 0.
LEMMA PowerNext ==
    ASSUME TypeOK, Balance, MutexOwned, SwitchedAtZero, PowerOn, [Next]_vars
    PROVE  PowerOn'
<1> SUFFICES ASSUME Next PROVE PowerOn'
  BY DEF vars, PowerOn
<1>1. ASSUME NEW p \in Threads, Call(p) PROVE PowerOn'
  <2>1. CASE IncCall(p) BY <2>1 DEF IncCall, PowerOn, TypeOK
  <2>2. CASE IncNoBlock(p) BY <2>2 DEF IncNoBlock, PowerOn, TypeOK
  <2>3. CASE Post(p) BY <2>3 DEF Post, PowerOn, TypeOK
  <2>4. CASE DecCall(p) BY <2>4 DEF DecCall, PowerOn, TypeOK
  <2>5. CASE DecNoBlockCall(p) BY <2>5 DEF DecNoBlockCall, PowerOn, TypeOK
  <2> QED BY <1>1, <2>1, <2>2, <2>3, <2>4, <2>5 DEF Call
<1>2. ASSUME NEW p \in Threads, Run(p) PROVE PowerOn'
  <2>1. CASE IncFast(p) BY <2>1 DEF IncFast, PowerOn, TypeOK
  <2>2. CASE IncRecheck(p) BY <2>2 DEF IncRecheck, PowerOn, TypeOK
  <2>3. CASE IncEnable(p) BY <2>3 DEF IncEnable, PowerOn, TypeOK
  <2>4. CASE IncResume(p) BY <2>4 DEF IncResume, PowerOn, TypeOK
  <2>5. CASE IncCount(p) BY <2>5 DEF IncCount, PowerOn, TypeOK
  <2>6. CASE IncUnlock(p) BY <2>6 DEF IncUnlock, PowerOn, TypeOK
  <2>7. CASE DecRead(p)
    BY <2>7, VoterCounted DEF DecRead, PowerOn, TypeOK, VoteStates,
       SlowStates
  <2>8. CASE DecFast(p)
    BY <2>8, VoterCounted DEF DecFast, PowerOn, TypeOK, VoteStates,
       SlowStates
  <2>9. CASE CoalCheck(p) BY <2>9 DEF CoalCheck, PowerOn, TypeOK
  <2>10. CASE CoalClose(p) BY <2>10 DEF CoalClose, PowerOn, TypeOK
  <2>11. CASE CoalReset(p) BY <2>11 DEF CoalReset, PowerOn, TypeOK
  <2>12. CASE DecTag(p) BY <2>12 DEF DecTag, PowerOn, TypeOK
  <2>13. CASE DecSub(p)
    BY <2>13, VoterCounted DEF DecSub, PowerOn, TypeOK, VoteStates,
       SlowStates
  <2>14. CASE DecRequeue(p) BY <2>14 DEF DecRequeue, PowerOn, TypeOK
  <2>15. CASE DecDisable(p)
    BY <2>15 DEF DecDisable, PowerOn, TypeOK, SwitchedAtZero, ZeroStates,
       MutexOwned, CritStates
  <2>16. CASE DecUnlock(p) BY <2>16 DEF DecUnlock, PowerOn, TypeOK
  <2>17. CASE DecNoBlock(p)
    BY <2>17, VoterCounted DEF DecNoBlock, PowerOn, TypeOK, VoteStates,
       SlowStates
  <2>18. CASE DecNoBlockQueue(p) BY <2>18 DEF DecNoBlockQueue, PowerOn, TypeOK
  <2>19. CASE Mark(p) BY <2>19 DEF Mark, PowerOn, TypeOK
  <2>20. CASE ProcessInterrupts(p)
    BY <2>20 DEF ProcessInterrupts, PowerOn, TypeOK
  <2>21. CASE IrqDone(p) BY <2>21 DEF IrqDone, PowerOn, TypeOK
  <2> QED BY <1>2, <2>1, <2>2, <2>3, <2>4, <2>5, <2>6, <2>7, <2>8, <2>9,
     <2>10, <2>11, <2>12, <2>13, <2>14, <2>15, <2>16, <2>17, <2>18, <2>19,
     <2>20, <2>21 DEF Run
<1>3. ASSUME NEW p \in Threads, Lock(p) PROVE PowerOn'
  <2>1. CASE IncLock(p) BY <2>1 DEF IncLock, PowerOn, TypeOK
  <2>2. CASE DecLock(p) BY <2>2 DEF DecLock, PowerOn, TypeOK
  <2> QED BY <1>3, <2>1, <2>2 DEF Lock
<1>4. ASSUME NEW p \in Threads, DecSuspend(p) \/ DecBusy(p) PROVE PowerOn'
  <2>1. CASE DecSuspend(p)
    BY <2>1 DEF DecSuspend, PowerOn, TypeOK, SwitchedAtZero, ZeroStates,
       MutexOwned, CritStates
  <2>2. CASE DecBusy(p) BY <2>2 DEF DecBusy, PowerOn, TypeOK
  <2> QED BY <1>4, <2>1, <2>2
<1>5. CASE WqStep
  <2> Wq \in Threads BY DEF Threads
  <2>1. ASSUME NEW item \in Items, WqRun(item) PROVE PowerOn'
    BY <2>1 DEF WqRun, Entry, PowerOn, TypeOK
  <2>2. CASE TagPost BY <2>2 DEF TagPost, PowerOn, TypeOK
  <2>3. CASE TagFail BY <2>3 DEF TagFail, PowerOn, TypeOK
  <2>4. CASE TagClear BY <2>4 DEF TagClear, PowerOn, TypeOK
  <2>5. CASE TagDone BY <2>5 DEF TagDone, PowerOn, TypeOK
  <2>6. CASE DeferRelease BY <2>6 DEF DeferRelease, PowerOn, TypeOK
  <2> QED BY <1>5, <2>1, <2>2, <2>3, <2>4, <2>5, <2>6 DEF WqStep
<1>6. CASE IsrStep
  <2> Isr \in Threads BY DEF Threads
  <2>1. CASE IsrEnter BY <2>1 DEF IsrEnter, PowerOn, TypeOK
  <2>2. CASE IsrDefer BY <2>2 DEF IsrDefer, PowerOn, TypeOK
  <2> QED BY <1>6, <2>1, <2>2 DEF IsrStep
<1>7. CASE IrqRaise BY <1>7 DEF IrqRaise, PowerOn, TypeOK
<1> QED BY <1>1, <1>2, <1>3, <1>4, <1>5, <1>6, <1>7 DEF Next

-----------------------------------------------------------------------------
\* A release is begun only by the owner of a vote, so that it finds cnt > 0.
LEMMA AssertNext ==
    ASSUME TypeOK, Balance, NoAssert, [Next]_vars PROVE NoAssert'
<1> SUFFICES ASSUME Next PROVE NoAssert'
  BY DEF vars, NoAssert
<1>1. ASSUME NEW p \in Threads, Call(p) PROVE NoAssert'
  <2>1. CASE IncCall(p) BY <2>1 DEF IncCall, NoAssert, TypeOK
  <2>2. CASE IncNoBlock(p) BY <2>2 DEF IncNoBlock, NoAssert, TypeOK
  <2>3. CASE Post(p) BY <2>3 DEF Post, NoAssert, TypeOK
  <2>4. CASE DecCall(p) BY <2>4 DEF DecCall, NoAssert, TypeOK
  <2>5. CASE DecNoBlockCall(p) BY <2>5 DEF DecNoBlockCall, NoAssert, TypeOK
  <2> QED BY <1>1, <2>1, <2>2, <2>3, <2>4, <2>5 DEF Call
<1>2. ASSUME NEW p \in Threads, Run(p) PROVE NoAssert'
  <2>1. CASE IncFast(p) BY <2>1 DEF IncFast, NoAssert, TypeOK
  <2>2. CASE IncRecheck(p) BY <2>2 DEF IncRecheck, NoAssert, TypeOK
  <2>3. CASE IncEnable(p) BY <2>3 DEF IncEnable, NoAssert, TypeOK
  <2>4. CASE IncResume(p) BY <2>4 DEF IncResume, NoAssert, TypeOK
  <2>5. CASE IncCount(p) BY <2>5 DEF IncCount, NoAssert, TypeOK
  <2>6. CASE IncUnlock(p) BY <2>6 DEF IncUnlock, NoAssert, TypeOK
  <2>7. CASE DecRead(p)
    BY <2>7, VoterCounted DEF DecRead, NoAssert, TypeOK, VoteStates,
       SlowStates
  <2>8. CASE DecFast(p) BY <2>8 DEF DecFast, NoAssert, TypeOK
  <2>9. CASE CoalCheck(p) BY <2>9 DEF CoalCheck, NoAssert, TypeOK
  <2>10. CASE CoalClose(p) BY <2>10 DEF CoalClose, NoAssert, TypeOK
  <2>11. CASE CoalReset(p) BY <2>11 DEF CoalReset, NoAssert, TypeOK
  <2>12. CASE DecTag(p) BY <2>12 DEF DecTag, NoAssert, TypeOK
  <2>13. CASE DecSub(p) BY <2>13 DEF DecSub, NoAssert, TypeOK
  <2>14. CASE DecRequeue(p) BY <2>14 DEF DecRequeue, NoAssert, TypeOK
  <2>15. CASE DecDisable(p) BY <2>15 DEF DecDisable, NoAssert, TypeOK
  <2>16. CASE DecUnlock(p) BY <2>16 DEF DecUnlock, NoAssert, TypeOK
  <2>17. CASE DecNoBlock(p) BY <2>17 DEF DecNoBlock, NoAssert, TypeOK
  <2>18. CASE DecNoBlockQueue(p)
    BY <2>18 DEF DecNoBlockQueue, NoAssert, TypeOK
  <2>19. CASE Mark(p) BY <2>19 DEF Mark, NoAssert, TypeOK
  <2>20. CASE ProcessInterrupts(p)
    BY <2>20 DEF ProcessInterrupts, NoAssert, TypeOK
  <2>21. CASE IrqDone(p) BY <2>21 DEF IrqDone, NoAssert, TypeOK
  <2> QED BY <1>2, <2>1, <2>2, <2>3, <2>4, <2>5, <2>6, <2>7, <2>8, <2>9,
     <2>10, <2>11, <2>12, <2>13, <2>14, <2>15, <2>16, <2>17, <2>18, <2>19,
     <2>20, <2>21 DEF Run
<1>3. ASSUME NEW p \in Threads, Lock(p) PROVE NoAssert'
  <2>1. CASE IncLock(p) BY <2>1 DEF IncLock, NoAssert, TypeOK
  <2>2. CASE DecLock(p) BY <2>2 DEF DecLock, NoAssert, TypeOK
  <2> QED BY <1>3, <2>1, <2>2 DEF Lock
<1>4. ASSUME NEW p \in Threads, DecSuspend(p) \/ DecBusy(p) PROVE NoAssert'
  <2>1. CASE DecSuspend(p) BY <2>1 DEF DecSuspend, NoAssert, TypeOK
  <2>2. CASE DecBusy(p) BY <2>2 DEF DecBusy, NoAssert, TypeOK
  <2> QED BY <1>4, <2>1, <2>2
<1>5. CASE WqStep
  <2> Wq \in Threads BY DEF Threads
  <2>1. ASSUME NEW item \in Items, WqRun(item) PROVE NoAssert'
    BY <2>1 DEF WqRun, Entry, NoAssert, TypeOK
  <2>2. CASE TagPost BY <2>2 DEF TagPost, NoAssert, TypeOK
  <2>3. CASE TagFail BY <2>3 DEF TagFail, NoAssert, TypeOK
  <2>4. CASE TagClear BY <2>4 DEF TagClear, NoAssert, TypeOK
  <2>5. CASE TagDone BY <2>5 DEF TagDone, NoAssert, TypeOK
  <2>6. CASE DeferRelease BY <2>6 DEF DeferRelease, NoAssert, TypeOK
  <2> QED BY <1>5, <2>1, <2>2, <2>3, <2>4, <2>5, <2>6 DEF WqStep
<1>6. CASE IsrStep
  <2> Isr \in Threads BY DEF Threads
  <2>1. CASE IsrEnter BY <2>1 DEF IsrEnter, NoAssert, TypeOK
  <2>2. CASE IsrDefer BY <2>2 DEF IsrDefer, NoAssert, TypeOK
  <2> QED BY <1>6, <2>1, <2>2 DEF IsrStep
<1>7. CASE IrqRaise BY <1>7 DEF IrqRaise, NoAssert, TypeOK
<1> QED BY <1>1, <1>2, <1>3, <1>4, <1>5, <1>6, <1>7 DEF Next

-----------------------------------------------------------------------------
\* The slow path is entered by the only owner of a vote; until it ends, any
\* other owner finds cnt > 1 and stays on the fast path.
LEMMA SlowPathNext ==
    ASSUME TypeOK, Balance, SwitchedAtZero, OneSlowPath, [Next]_vars
    PROVE  OneSlowPath'
<1> USE DEF SlowStates
<1> SUFFICES ASSUME Next PROVE OneSlowPath'
  BY DEF vars, OneSlowPath
<1>1. ASSUME NEW p \in Threads, Call(p) PROVE OneSlowPath'
  <2>1. CASE IncCall(p) BY <2>1 DEF IncCall, OneSlowPath, TypeOK
  <2>2. CASE IncNoBlock(p) BY <2>2 DEF IncNoBlock, OneSlowPath, TypeOK
  <2>3. CASE Post(p) BY <2>3 DEF Post, OneSlowPath, TypeOK
  <2>4. CASE DecCall(p) BY <2>4 DEF DecCall, OneSlowPath, TypeOK
  <2>5. CASE DecNoBlockCall(p) BY <2>5 DEF DecNoBlockCall, OneSlowPath, TypeOK
  <2> QED BY <1>1, <2>1, <2>2, <2>3, <2>4, <2>5 DEF Call
<1>2. ASSUME NEW p \in Threads, Run(p) PROVE OneSlowPath'
  <2>1. CASE IncFast(p) BY <2>1 DEF IncFast, OneSlowPath, TypeOK
  <2>2. CASE IncRecheck(p) BY <2>2 DEF IncRecheck, OneSlowPath, TypeOK
  <2>3. CASE IncEnable(p) BY <2>3 DEF IncEnable, OneSlowPath, TypeOK
  <2>4. CASE IncResume(p) BY <2>4 DEF IncResume, OneSlowPath, TypeOK
  <2>5. CASE IncCount(p) BY <2>5 DEF IncCount, OneSlowPath, TypeOK
  <2>6. CASE IncUnlock(p) BY <2>6 DEF IncUnlock, OneSlowPath, TypeOK
  <2>7. CASE DecRead(p) BY <2>7 DEF DecRead, OneSlowPath, TypeOK
  <2>8. CASE DecFast(p)
    <3>1. cnt = 1 => Voters = {p} /\ Owed = {}
      BY <2>8, OnlyVoter DEF DecFast, VoteStates
    <3>2. cnt = 1 => /\ \A q \in Threads : pc[q] \in SlowStates => q = p
                     /\ pending \cap {"dec", "tag"} = {}
      BY <3>1 DEF Voters, VoteStates, Owed, VoteItems
    <3> QED BY <2>8, <3>2 DEF DecFast, OneSlowPath, TypeOK
  <2>9. CASE CoalCheck(p) BY <2>9 DEF CoalCheck, OneSlowPath, TypeOK
  <2>10. CASE CoalClose(p) BY <2>10 DEF CoalClose, OneSlowPath, TypeOK
  <2>11. CASE CoalReset(p) BY <2>11 DEF CoalReset, OneSlowPath, TypeOK
  <2>12. CASE DecTag(p) BY <2>12 DEF DecTag, OneSlowPath, TypeOK, QueueVote
  <2>13. CASE DecSub(p) BY <2>13 DEF DecSub, OneSlowPath, TypeOK
  <2>14. CASE DecRequeue(p)
    BY <2>14 DEF DecRequeue, OneSlowPath, TypeOK, QueueVote
  <2>15. CASE DecDisable(p) BY <2>15 DEF DecDisable, OneSlowPath, TypeOK
  <2>16. CASE DecUnlock(p) BY <2>16 DEF DecUnlock, OneSlowPath, TypeOK
  <2>17. CASE DecNoBlock(p)
    <3>1. cnt = 1 => Voters = {p} /\ Owed = {}
      BY <2>17, OnlyVoter DEF DecNoBlock, VoteStates
    <3>2. cnt = 1 => /\ \A q \in Threads : pc[q] \in SlowStates => q = p
                     /\ pending \cap {"dec", "tag"} = {}
      BY <3>1 DEF Voters, VoteStates, Owed, VoteItems
    <3> QED BY <2>17, <3>2 DEF DecNoBlock, OneSlowPath, TypeOK
  <2>18. CASE DecNoBlockQueue(p)
    BY <2>18 DEF DecNoBlockQueue, OneSlowPath, TypeOK, QueueVote
  <2>19. CASE Mark(p) BY <2>19 DEF Mark, OneSlowPath, TypeOK
  <2>20. CASE ProcessInterrupts(p)
    BY <2>20 DEF ProcessInterrupts, OneSlowPath, TypeOK
  <2>21. CASE IrqDone(p) BY <2>21 DEF IrqDone, OneSlowPath, TypeOK
  <2> QED BY <1>2, <2>1, <2>2, <2>3, <2>4, <2>5, <2>6, <2>7, <2>8, <2>9,
     <2>10, <2>11, <2>12, <2>13, <2>14, <2>15, <2>16, <2>17, <2>18, <2>19,
     <2>20, <2>21 DEF Run
<1>3. ASSUME NEW p \in Threads, Lock(p) PROVE OneSlowPath'
  <2>1. CASE IncLock(p) BY <2>1 DEF IncLock, OneSlowPath, TypeOK
  <2>2. CASE DecLock(p) BY <2>2 DEF DecLock, OneSlowPath, TypeOK
  <2> QED BY <1>3, <2>1, <2>2 DEF Lock
<1>4. ASSUME NEW p \in Threads, DecSuspend(p) \/ DecBusy(p) PROVE OneSlowPath'
  <2>1. CASE DecSuspend(p) BY <2>1 DEF DecSuspend, OneSlowPath, TypeOK
  <2>2. CASE DecBusy(p)
    <3>1. Voters = {} /\ Owed = {}
      BY <2>2, NoVoter DEF DecBusy, SwitchedAtZero, ZeroStates
    <3>2. /\ \A q \in Threads : pc[q] \notin SlowStates
          /\ pending \cap {"dec", "tag"} = {}
      BY <3>1 DEF Voters, VoteStates, Owed, VoteItems
    <3> QED BY <2>2, <3>2 DEF DecBusy, OneSlowPath, TypeOK
  <2> QED BY <1>4, <2>1, <2>2
<1>5. CASE WqStep
  <2> Wq \in Threads BY DEF Threads
  <2>1. ASSUME NEW item \in Items, WqRun(item) PROVE OneSlowPath'
    BY <2>1 DEF WqRun, Entry, OneSlowPath, TypeOK
  <2>2. CASE TagPost BY <2>2 DEF TagPost, OneSlowPath, TypeOK
  <2>3. CASE TagFail BY <2>3 DEF TagFail, OneSlowPath, TypeOK
  <2>4. CASE TagClear BY <2>4 DEF TagClear, OneSlowPath, TypeOK
  <2>5. CASE TagDone BY <2>5 DEF TagDone, OneSlowPath, TypeOK
  <2>6. CASE DeferRelease
    BY <2>6 DEF DeferRelease, OneSlowPath, TypeOK, QueueVote
  <2> QED BY <1>5, <2>1, <2>2, <2>3, <2>4, <2>5, <2>6 DEF WqStep
<1>6. CASE IsrStep
  <2> Isr \in Threads BY DEF Threads
  <2>1. CASE IsrEnter BY <2>1 DEF IsrEnter, OneSlowPath, TypeOK
  <2>2. CASE IsrDefer BY <2>2 DEF IsrDefer, OneSlowPath, TypeOK
  <2> QED BY <1>6, <2>1, <2>2 DEF IsrStep
<1>7. CASE IrqRaise BY <1>7 DEF IrqRaise, OneSlowPath, TypeOK
<1> QED BY <1>1, <1>2, <1>3, <1>4, <1>5, <1>6, <1>7 DEF Next

-----------------------------------------------------------------------------
\* The invariant holds at boot, where the proxy client owns the only vote.
LEMMA InitIInv == Init => IInv
<1> SUFFICES ASSUME Init PROVE IInv
  OBVIOUS
<1> USE DEF Init
<1>1. TypeOK
  BY ClientsAssumption DEF TypeOK, States, VoteStates, Threads
<1>2. Voters = {Proxy} /\ Owed = {}
  BY ClientsAssumption DEF Voters, Owed, VoteStates, SlowStates, Threads
<1>3. Cardinality(Voters) = 1 /\ Cardinality(Owed) = 0
  BY <1>2, FS_Singleton, FS_EmptySet
<1>8. Balance BY <1>3 DEF Balance
<1>4. NoAssert BY DEF NoAssert
<1>5. MutexOwned BY ThreadsAssumption DEF MutexOwned, CritStates
<1>6. SwitchedAtZero /\ PowerOn BY DEF SwitchedAtZero, PowerOn, ZeroStates
<1>7. OneSlowPath BY DEF OneSlowPath, SlowStates
<1> QED BY <1>1, <1>4, <1>5, <1>6, <1>7, <1>8 DEF IInv

\* Every step keeps the inductive invariant.
LEMMA NextIInv == IInv /\ [Next]_vars => IInv'
BY TypeNext, BalanceNext, AssertNext, MutexNext, ZeroNext, PowerNext,
   SlowPathNext DEF IInv

\* IInv is an invariant of the active clients, for any set of clients.
THEOREM Invariance == Spec => []IInv
BY InitIInv, NextIInv, PTL DEF Spec

\* The variables have their types; cnt stays a natural number although the
\* releases decrement it without the mutex.
THEOREM TypeCorrect == Spec => []TypeOK
<1>1. IInv => TypeOK BY DEF IInv
<1> QED BY <1>1, Invariance, PTL

\* Every unit of ipa3_active_clients.cnt has exactly one owner.
THEOREM VotesBalance == Spec => []Balance
<1>1. IInv => Balance BY DEF IInv
<1> QED BY <1>1, Invariance, PTL

\* No release finds the reference count at 0 (the ipa_assert of
\* __ipa3_dec_client_disable_clks is unreachable).
THEOREM NeverAsserts == Spec => []NoAssert
<1>1. IInv => NoAssert BY DEF IInv
<1> QED BY <1>1, Invariance, PTL

\* The owner of a vote runs with clocks on and pipes resumed.
THEOREM ClocksKept == Spec => []VoteKeepsClocks
<1>1. ASSUME IInv, Voters # {} PROVE clk /\ pipes
  <2>1. PICK p \in Threads : pc[p] \in VoteStates BY <1>1 DEF Voters
  <2>2. cnt >= 1 BY <1>1, <2>1, VoterCounted DEF IInv
  <2> QED BY <1>1, <2>2 DEF IInv, PowerOn, TypeOK
<1>2. IInv => VoteKeepsClocks BY <1>1 DEF VoteKeepsClocks
<1> QED BY <1>2, Invariance, PTL

\* Only the delayed release of a deferred interrupt can find its work item
\* queued and drop the vote.
LEMMA LossNext ==
    ASSUME IInv, [Next]_vars PROVE [lost' # lost => pc[Wq] = "processed"]_vars
<1> SUFFICES ASSUME Next PROVE lost' # lost => pc[Wq] = "processed"
  BY DEF vars
<1> TypeOK /\ OneSlowPath BY DEF IInv
<1>1. ASSUME NEW p \in Threads, Call(p) PROVE lost' # lost => pc[Wq] = "processed"
  <2>1. CASE IncCall(p) BY <2>1 DEF IncCall, TypeOK
  <2>2. CASE IncNoBlock(p) BY <2>2 DEF IncNoBlock, TypeOK
  <2>3. CASE Post(p) BY <2>3 DEF Post, TypeOK
  <2>4. CASE DecCall(p) BY <2>4 DEF DecCall, TypeOK
  <2>5. CASE DecNoBlockCall(p) BY <2>5 DEF DecNoBlockCall, TypeOK
  <2> QED BY <1>1, <2>1, <2>2, <2>3, <2>4, <2>5 DEF Call
<1>2. ASSUME NEW p \in Threads, Run(p) PROVE lost' # lost => pc[Wq] = "processed"
  <2>1. CASE IncFast(p) BY <2>1 DEF IncFast, TypeOK
  <2>2. CASE IncRecheck(p) BY <2>2 DEF IncRecheck, TypeOK
  <2>3. CASE IncEnable(p) BY <2>3 DEF IncEnable, TypeOK
  <2>4. CASE IncResume(p) BY <2>4 DEF IncResume, TypeOK
  <2>5. CASE IncCount(p) BY <2>5 DEF IncCount, TypeOK
  <2>6. CASE IncUnlock(p) BY <2>6 DEF IncUnlock, TypeOK
  <2>7. CASE DecRead(p) BY <2>7 DEF DecRead, TypeOK
  <2>8. CASE DecFast(p) BY <2>8 DEF DecFast, TypeOK
  <2>9. CASE CoalCheck(p) BY <2>9 DEF CoalCheck, TypeOK
  <2>10. CASE CoalClose(p) BY <2>10 DEF CoalClose, TypeOK
  <2>11. CASE CoalReset(p) BY <2>11 DEF CoalReset, TypeOK
  <2>12. CASE DecTag(p)
    BY <2>12 DEF DecTag, TypeOK, QueueVote, OneSlowPath, SlowStates
  <2>13. CASE DecSub(p) BY <2>13 DEF DecSub, TypeOK
  <2>14. CASE DecRequeue(p)
    BY <2>14 DEF DecRequeue, TypeOK, QueueVote, OneSlowPath, SlowStates
  <2>15. CASE DecDisable(p) BY <2>15 DEF DecDisable, TypeOK
  <2>16. CASE DecUnlock(p) BY <2>16 DEF DecUnlock, TypeOK
  <2>17. CASE DecNoBlock(p) BY <2>17 DEF DecNoBlock, TypeOK
  <2>18. CASE DecNoBlockQueue(p)
    BY <2>18 DEF DecNoBlockQueue, TypeOK, QueueVote, OneSlowPath,
       SlowStates
  <2>19. CASE Mark(p) BY <2>19 DEF Mark, TypeOK
  <2>20. CASE ProcessInterrupts(p) BY <2>20 DEF ProcessInterrupts, TypeOK
  <2>21. CASE IrqDone(p) BY <2>21 DEF IrqDone, TypeOK
  <2> QED BY <1>2, <2>1, <2>2, <2>3, <2>4, <2>5, <2>6, <2>7, <2>8, <2>9,
     <2>10, <2>11, <2>12, <2>13, <2>14, <2>15, <2>16, <2>17, <2>18, <2>19,
     <2>20, <2>21 DEF Run
<1>3. ASSUME NEW p \in Threads, Lock(p) PROVE lost' # lost => pc[Wq] = "processed"
  <2>1. CASE IncLock(p) BY <2>1 DEF IncLock, TypeOK
  <2>2. CASE DecLock(p) BY <2>2 DEF DecLock, TypeOK
  <2> QED BY <1>3, <2>1, <2>2 DEF Lock
<1>4. ASSUME NEW p \in Threads, DecSuspend(p) \/ DecBusy(p) PROVE lost' # lost => pc[Wq] = "processed"
  <2>1. CASE DecSuspend(p) BY <2>1 DEF DecSuspend, TypeOK
  <2>2. CASE DecBusy(p) BY <2>2 DEF DecBusy, TypeOK
  <2> QED BY <1>4, <2>1, <2>2
<1>5. CASE WqStep
  <2> Wq \in Threads BY DEF Threads
  <2>1. ASSUME NEW item \in Items, WqRun(item) PROVE lost' # lost => pc[Wq] = "processed"
    BY <2>1 DEF WqRun, Entry, TypeOK
  <2>2. CASE TagPost BY <2>2 DEF TagPost, TypeOK
  <2>3. CASE TagFail BY <2>3 DEF TagFail, TypeOK
  <2>4. CASE TagClear BY <2>4 DEF TagClear, TypeOK
  <2>5. CASE TagDone BY <2>5 DEF TagDone, TypeOK
  <2>6. CASE DeferRelease BY <2>6 DEF DeferRelease, TypeOK
  <2> QED BY <1>5, <2>1, <2>2, <2>3, <2>4, <2>5, <2>6 DEF WqStep
<1>6. CASE IsrStep
  <2> Isr \in Threads BY DEF Threads
  <2>1. CASE IsrEnter BY <2>1 DEF IsrEnter, TypeOK
  <2>2. CASE IsrDefer BY <2>2 DEF IsrDefer, TypeOK
  <2> QED BY <1>6, <2>1, <2>2 DEF IsrStep
<1>7. CASE IrqRaise BY <1>7 DEF IrqRaise, TypeOK
<1> QED BY <1>1, <1>2, <1>3, <1>4, <1>5, <1>6, <1>7 DEF Next

\* The retry item and the TAG item are never queued twice.
THEOREM LossIsDeferred == Spec => LossOnlyByDefer
<1>1. IInv /\ [Next]_vars => [lost' # lost => pc[Wq] = "processed"]_vars
  BY LossNext
<1> QED BY <1>1, Invariance, PTL DEF Spec, LossOnlyByDefer
=============================================================================
