------------------------------ MODULE RxPipes ------------------------------
(***************************************************************************)
(* The receive path of the IPA pipes of the apps processor, and the        *)
(* suspension of these pipes when the last clock vote is released:         *)
(* ipa3_suspend_apps_pipes (ipa_utils.c), the switch between interrupt and *)
(* polling mode (ipa_dp.c) and the GSI interrupt below it (gsi.c).         *)
(*                                                                         *)
(* A consumer pipe has a channel and an event ring; a coalescing pipe      *)
(* shares the ring of its default pipe. In callback mode the ring          *)
(* interrupts (IEOB) and the handler, under the ring's lock, switches it   *)
(* to polling mode and schedules a poller; the poller empties the ring and *)
(* switches it back. The suspension stops the channels one by one, puts    *)
(* the rings into polling mode, and undoes what it did when a ring is not  *)
(* empty. It runs under active_clients.mutex at a count of 0, but the      *)
(* interrupt handler does not take that mutex.                             *)
(*                                                                         *)
(* The votes are those of ClockVote. GSI 3.0 and IPA 4.0 or later.         *)
(***************************************************************************)
EXTENDS Naturals

CONSTANTS
    Configs,   \* the sets of pipes that may be set up (ep->valid)
    Versions,  \* the HW versions: "v4" (before IPA 5.0), "v5"
    MaxPolls   \* bound: no ring interrupts with this many polls of it under way

Consumers == {"WAN_COAL", "WAN", "LAN_COAL", "LAN", "ODL", "LL", "LLD"}
Producers == {"LAN_PROD", "LL_PROD", "LLD_PROD", "WAN_PROD"}
Pipes == Consumers \cup Producers

\* The event rings, by the pipe they are named after.
Ring == [p \in Consumers |-> CASE p = "WAN_COAL" -> "WAN"
                               [] p = "LAN_COAL" -> "LAN"
                               [] OTHER -> p]

Rings == {Ring[p] : p \in Consumers \cap UNION Configs}

ASSUME ConfigsAssumption ==
    /\ Configs \subseteq SUBSET Pipes
    /\ Versions \subseteq {"v4", "v5"}
    /\ MaxPolls \in Nat \ {0}

VARIABLES
    hw, valid,   \* the HW version, the pipes that are set up
    chan,        \* the channels that are started
    mode,        \* the rings in polling mode (poll_mode)
    data,        \* the rings with an event that is not processed
    ieob,        \* the rings whose IEOB status bit is set
    polling,     \* the rings whose curr_polling_state is 1
    work,        \* the rings whose sys->work is queued
    napi,        \* control point of the poller of a ring
    isr,         \* the ring and the control point of the interrupt handler
    coal,        \* coalescing is stopped (coal_stopped)
    holb,        \* HOL blocking of the ODL pipe is enabled
    clk,         \* the IPA is clocked (ipa_clk_vote)
    votes,       \* votes of the rings' polls, of the retry item, of others
    seq          \* what the thread in ipa3_suspend_apps_pipes has still to do

vars == <<hw, valid, chan, mode, data, ieob, polling, work, napi, isr, coal,
          holb, clk, votes, seq>>

hwVars == <<hw, valid>>
power  == <<chan, coal, holb, clk, seq>>

Voters == Rings \cup {"retry", "others"}

Idle == [doing |-> "idle", who |-> "none", todo |-> {}, at |-> "chan"]

NoIsr == [ring |-> "none", at |-> "idle"]

Init ==
    /\ hw \in Versions
    /\ valid \in Configs
    /\ chan = valid
    /\ mode = {} /\ data = {} /\ ieob = {} /\ polling = {} /\ work = {}
    /\ napi = [r \in Rings |-> "idle"]
    /\ isr = NoIsr
    /\ coal = FALSE
    /\ holb = TRUE
    /\ clk = TRUE
    /\ votes = [v \in Voters |-> IF v = "others" THEN 1 ELSE 0]
    /\ seq = Idle

\* The condition of ipa3_inc_client_enable_clks_no_block.
Counted == \E v \in Voters : votes[v] > 0

AddVote(v) == votes' = [votes EXCEPT ![v] = @ + 1]

\* gsi_config_channel_mode: to polling masks and clears the interrupt, to
\* callback unmasks it; nothing happens in the mode that is asked for.
ConfigPoll(r) ==
    /\ mode' = mode \cup {r}
    /\ ieob' = IF r \in mode THEN ieob ELSE ieob \ {r}

ConfigCallback(r) == mode' = mode \ {r} /\ UNCHANGED ieob

\* The handler holds ring.slock from its first look at the ring to its last.
Locked(r) == isr.ring = r /\ isr.at # "enter"

-----------------------------------------------------------------------------
(* The HW (external).                                                      *)

\* A packet arrives in a started channel.
Arrive(r) ==
    /\ clk
    /\ \E p \in chan \cap Consumers : Ring[p] = r
    /\ data' = data \cup {r}
    /\ ieob' = ieob \cup {r}
    /\ UNCHANGED <<hwVars, mode, polling, work, napi, isr, power, votes>>

\* "In resume after starting the channel will receive the IEOB interrupt".
StartChannel(p) ==
    /\ chan' = chan \cup {p}
    /\ ieob' = IF p \in Consumers THEN ieob \cup ({Ring[p]} \cap data) ELSE ieob

-----------------------------------------------------------------------------
(* gsi_isr, gsi_handle_ieob and ipa_gsi_irq_rx_notify_cb.                  *)

IsrStep(from, to) ==
    /\ isr.at = from
    /\ isr' = IF to = "idle" THEN NoIsr ELSE [isr EXCEPT !.at = to]

\* The unmasked status bits are read and cleared.
IsrEnter(r) ==
    /\ isr = NoIsr
    /\ clk
    /\ r \in ieob \ mode
    /\ votes[r] < MaxPolls
    /\ ieob' = ieob \ {r}
    /\ isr' = [ring |-> r, at |-> "enter"]
    /\ UNCHANGED <<hwVars, mode, data, polling, work, napi, power, votes>>

\* One turn of the loop over the events of the ring; check_channel_polling.
IsrLoop ==
    /\ isr.at \in {"enter", "loop"}
    /\ IsrStep(isr.at, IF isr.ring \in data \ mode THEN "notify" ELSE "idle")
    /\ UNCHANGED <<hwVars, mode, data, ieob, polling, work, napi, power, votes>>

\* The event is left in the ring ("process all data in polling context").
IsrNotify ==
    /\ IsrStep("notify", IF isr.ring \in polling THEN "loop" ELSE "mode")
    /\ UNCHANGED <<hwVars, mode, data, ieob, polling, work, napi, power, votes>>

IsrMode ==
    /\ IsrStep("mode", "set")
    /\ ConfigPoll(isr.ring)
    /\ UNCHANGED <<hwVars, data, polling, work, napi, power, votes>>

IsrSet ==
    /\ IsrStep("set", "schedule")
    /\ polling' = polling \cup {isr.ring}
    /\ UNCHANGED <<hwVars, mode, data, ieob, work, napi, power, votes>>

\* Mutant: with the clocks going off nobody is scheduled.
IsrScheduleNoWork ==
    /\ IsrStep("schedule", "loop")
    /\ IF Counted THEN AddVote(isr.ring) /\ napi' = [napi EXCEPT ![isr.ring] = "poll"]
                  ELSE UNCHANGED <<votes, napi>>
    /\ UNCHANGED <<hwVars, mode, data, ieob, polling, work, power>>

\* Mutant: the poller is scheduled without its clock vote.
IsrScheduleUnvoted ==
    /\ IsrStep("schedule", "loop")
    /\ napi' = [napi EXCEPT ![isr.ring] = "poll"]
    /\ UNCHANGED <<hwVars, mode, data, ieob, polling, work, power, votes>>

\* __ipa_gsi_irq_rx_scedule_poll: the poller at once if the count is not 0,
\* else through the work, which can wait for the mutex.
IsrSchedule ==
    /\ IsrStep("schedule", "loop")
    /\ \/ /\ Counted
          /\ AddVote(isr.ring)
          /\ napi' = [napi EXCEPT ![isr.ring] = "poll"]
          /\ UNCHANGED work
       \/ /\ ~Counted
          /\ work' = work \cup {isr.ring}
          /\ UNCHANGED <<votes, napi>>
    /\ UNCHANGED <<hwVars, mode, data, ieob, polling, power>>

-----------------------------------------------------------------------------
(* ipa3_rx_poll and ipa3_rx_switch_to_intr_mode.                           *)

NapiStep(r, from, to) == napi[r] = from /\ napi' = [napi EXCEPT ![r] = to]

\* gsi_poll_n_channel takes the lock of the ring.
PollData(r) ==
    /\ napi[r] = "poll" /\ r \in data
    /\ ~Locked(r)
    /\ data' = data \ {r}
    /\ UNCHANGED <<hwVars, mode, ieob, polling, work, napi, isr, power, votes>>

PollEmpty(r) ==
    /\ ~Locked(r) /\ r \notin data
    /\ NapiStep(r, "poll", "drained")
    /\ UNCHANGED <<hwVars, mode, data, ieob, polling, work, isr, power, votes>>

PollReset(r) ==
    /\ NapiStep(r, "drained", "complete")
    /\ polling' = polling \ {r}
    /\ UNCHANGED <<hwVars, mode, data, ieob, work, isr, power, votes>>

PollCallback(r) ==
    /\ NapiStep(r, "complete", "idle")
    /\ ConfigCallback(r)
    /\ UNCHANGED <<hwVars, data, polling, work, isr, power, votes>>

-----------------------------------------------------------------------------
(* The clock votes, and the beginning of a suspension or a resumption.     *)

\* The place of an entry in ipa3_suspend_apps_pipes, and in its undo chain.
SuspendOrder ==
    [WAN_COAL |-> 1, WAN |-> 2, LAN_COAL |-> 3, LAN |-> 4, start_coal |-> 5,
     ODL |-> 6, holb |-> 7, LL |-> 8, LLD |-> 9, check |-> 10, LAN_PROD |-> 11,
     LL_PROD |-> 12, LLD_PROD |-> 13, WAN_PROD |-> 14]

UndoOrder ==
    [LLD |-> 1, LL |-> 2, ODL |-> 3, LAN |-> 4, LAN_COAL |-> 5, WAN_COAL |-> 6,
     WAN |-> 7]

Entries == Pipes \cup {"start_coal", "holb", "check"}

ResumeEntries == Entries \ {"start_coal", "check"}

\* A pipe that is not set up is passed over; so is the HOLB of ODL without it.
Needed(e) == CASE e \in Pipes -> e \in valid
               [] e = "holb" -> "ODL" \in valid
               [] e = "check" -> "WAN_COAL" \in valid
               [] OTHER -> TRUE

Begin(what, who, entries) ==
    seq' = [doing |-> what, who |-> who, todo |-> {e \in entries : Needed(e)},
            at |-> "chan"]

\* The blocking vote is counted; the work of a ring then runs its poller.
TakeVote(v) ==
    /\ AddVote(v)
    /\ work' = work \ {v}
    /\ napi' = IF v \in Rings THEN [napi EXCEPT ![v] = "poll"] ELSE napi

\* __ipa3_dec_client_disable_clks: the last vote begins the suspension, with
\* the coalescing stopped first. The poll of a ring releases its vote in
\* atomic context: the last one goes to the retry item.
Release(v) ==
    /\ votes[v] > 0
    /\ v \in Rings => votes[v] > (IF napi[v] = "idle" THEN 0 ELSE 1)
    /\ LET left == [votes EXCEPT ![v] = @ - 1]
           last == \A u \in Voters : left[u] = 0
       IN IF ~last \/ v \in Rings
          THEN /\ votes' = IF last THEN [left EXCEPT !["retry"] = 1] ELSE left
               /\ UNCHANGED <<coal, seq>>
          ELSE /\ seq.doing = "idle"
               /\ votes' = left
               /\ coal' = TRUE
               /\ Begin("suspend", v, Entries)
    /\ UNCHANGED <<hwVars, chan, mode, data, ieob, polling, work, napi, isr,
                   holb, clk>>

\* A blocking vote, of the queued work of a ring or of anybody else: with the
\* clocks off it switches them on and resumes the pipes first.
Vote(v) ==
    /\ seq.doing = "idle"
    /\ \/ v \in work \/ (v = "others" /\ votes[v] = 0)
    /\ \/ /\ clk
          /\ TakeVote(v)
          /\ UNCHANGED <<clk, seq>>
       \/ /\ ~clk
          /\ clk' = TRUE
          /\ Begin("resume", v, ResumeEntries)
          /\ UNCHANGED <<votes, work, napi>>
    /\ UNCHANGED <<hwVars, chan, mode, data, ieob, polling, isr, coal, holb>>

-----------------------------------------------------------------------------
(* ipa3_suspend_apps_pipes and _ipa_suspend_resume_pipe.                   *)

Doing(what) == seq.doing \in what /\ seq.todo # {}

\* The entry whose turn it is.
Entry ==
    LET place == IF seq.doing = "undo" THEN UndoOrder ELSE SuspendOrder
    IN CHOOSE e \in seq.todo : \A x \in seq.todo : place[e] <= place[x]

Turn(at) == seq' = [seq EXCEPT !.at = at]

NextEntry == seq' = [seq EXCEPT !.todo = @ \ {Entry}, !.at = "chan"]

\* "Apps prod pipes use common event ring so cannot configure mode", and a
\* default pipe leaves the mode to its coalescing pipe.
ConfiguresMode(p) ==
    /\ p \in Consumers
    /\ p = "WAN" => "WAN_COAL" \notin valid
    /\ p = "LAN" => "LAN_COAL" \notin valid

AfterChan(p) == IF ConfiguresMode(p) THEN Turn("mode") ELSE NextEntry

\* The part of the undo chain that begins at a pipe.
ChainFrom(p) == {e \in Consumers : UndoOrder[p] <= UndoOrder[e]}

\* Mutant: the chain leaves out the pipe it begins at.
UndoFromNext(p) == ChainFrom(p) \ {p}

\* Mutant: the first label starts both pipes of the ring.
UndoFromBoth(p) == IF p = "WAN" THEN {"WAN_COAL", "WAN"} ELSE ChainFrom(p)

\* The undo chain begins at the label that belongs to the pipe; the first pipe
\* has a label of its own.
UndoFrom(p) ==
    CASE p = "WAN_COAL" -> {"WAN_COAL"}
      [] p = "WAN" -> {"WAN_COAL", "WAN"}
      [] OTHER -> ChainFrom(p)

Undo(p) ==
    /\ Begin("undo", seq.who, UndoFrom(p))
    /\ coal' = FALSE

\* __ipa3_stop_gsi_channel.
StopPipe ==
    /\ Doing({"suspend"}) /\ Entry \in Pipes /\ seq.at = "chan"
    /\ chan' = chan \ {Entry}
    /\ AfterChan(Entry)
    /\ UNCHANGED <<hwVars, mode, data, ieob, polling, work, napi, isr, coal,
                   holb, clk, votes>>

PollPipe ==
    /\ Doing({"suspend"}) /\ seq.at = "mode"
    /\ ConfigPoll(Ring[Entry])
    /\ Turn("quiet")
    /\ UNCHANGED <<hwVars, chan, data, polling, work, napi, isr, coal, holb,
                   clk, votes>>

\* Mutant: what is_quite answers is not looked at.
QuietPipeIgnored ==
    /\ Doing({"suspend"}) /\ seq.at = "quiet"
    /\ ~Locked(Ring[Entry])
    /\ NextEntry
    /\ UNCHANGED <<hwVars, chan, mode, data, ieob, polling, work, napi, isr, coal,
                   holb, clk, votes>>

\* ipa3_gsi_channel_is_quite, which takes the lock of the ring: -EAGAIN if
\* there is an event in it.
QuietPipe ==
    /\ Doing({"suspend"}) /\ seq.at = "quiet"
    /\ ~Locked(Ring[Entry])
    /\ IF Ring[Entry] \in data THEN Undo(Entry) ELSE NextEntry /\ UNCHANGED coal
    /\ UNCHANGED <<hwVars, chan, mode, data, ieob, polling, work, napi, isr,
                   holb, clk, votes>>

StartCoalescing ==
    /\ Doing({"suspend"}) /\ Entry = "start_coal"
    /\ coal' = FALSE
    /\ NextEntry
    /\ UNCHANGED <<hwVars, chan, mode, data, ieob, polling, work, napi, isr,
                   holb, clk, votes>>

WriteHolb ==
    /\ Doing({"suspend", "resume"}) /\ Entry = "holb"
    /\ holb' = (seq.doing = "resume")
    /\ NextEntry
    /\ UNCHANGED <<hwVars, chan, mode, data, ieob, polling, work, napi, isr,
                   coal, clk, votes>>

\* An open frame of the coalescing, or a pending suspend interrupt: what the
\* HW answers is its choice. Before IPA 5.0 a pending interrupt jumps past
\* the low latency data pipe.
CheckHw ==
    /\ Doing({"suspend"}) /\ Entry = "check"
    /\ \/ NextEntry /\ UNCHANGED coal
       \/ Undo("LLD")
       \/ hw = "v4" /\ Undo("LL")
    /\ UNCHANGED <<hwVars, chan, mode, data, ieob, polling, work, napi, isr,
                   holb, clk, votes>>

\* gsi_start_channel, by a resumption or by the undo chain.
StartPipe ==
    /\ Doing({"undo", "resume"}) /\ Entry \in Pipes /\ seq.at = "chan"
    /\ StartChannel(Entry)
    /\ AfterChan(Entry)
    /\ UNCHANGED <<hwVars, mode, data, polling, work, napi, isr, coal, holb,
                   clk, votes>>

\* Mutant: callback mode whether or not somebody is polling.
CallbackPipeAlways ==
    /\ Doing({"undo", "resume"}) /\ seq.at = "mode"
    /\ Turn("callback")
    /\ UNCHANGED <<hwVars, chan, mode, data, ieob, polling, work, napi, isr,
                   coal, holb, clk, votes>>

\* curr_polling_state is read ...
CallbackPipe ==
    /\ Doing({"undo", "resume"}) /\ seq.at = "mode"
    /\ IF Ring[Entry] \in polling THEN NextEntry ELSE Turn("callback")
    /\ UNCHANGED <<hwVars, chan, mode, data, ieob, polling, work, napi, isr,
                   coal, holb, clk, votes>>

\* ... and then the mode is configured.
CallbackConfig ==
    /\ Doing({"undo", "resume"}) /\ seq.at = "callback"
    /\ ConfigCallback(Ring[Entry])
    /\ NextEntry
    /\ UNCHANGED <<hwVars, chan, data, polling, work, napi, isr, coal, holb,
                   clk, votes>>

\* The end: clocks off, or the vote back and a retry queued, or the vote of
\* the thread that resumed the pipes.
Finish ==
    /\ seq.doing # "idle" /\ seq.todo = {}
    /\ seq' = Idle
    /\ clk' = (seq.doing # "suspend")
    /\ CASE seq.doing = "suspend" -> UNCHANGED votes
         [] seq.doing = "undo" -> AddVote("retry")
         [] seq.doing = "resume" -> TakeVote(seq.who)
    /\ seq.doing # "resume" => UNCHANGED <<work, napi>>
    /\ UNCHANGED <<hwVars, chan, mode, data, ieob, polling, isr, coal, holb>>

-----------------------------------------------------------------------------
Isr == IsrLoop \/ IsrNotify \/ IsrMode \/ IsrSet \/ IsrSchedule

Poll(r) == PollData(r) \/ PollEmpty(r) \/ PollReset(r) \/ PollCallback(r)

Suspend ==
    \/ StopPipe \/ PollPipe \/ QuietPipe \/ StartCoalescing \/ WriteHolb
    \/ CheckHw \/ StartPipe \/ CallbackPipe \/ CallbackConfig \/ Finish

Next ==
    \/ \E r \in Rings : Arrive(r) \/ IsrEnter(r) \/ Poll(r)
    \/ Isr
    \/ \E v \in Voters : Release(v) \/ Vote(v)
    \/ Suspend

Spec == Init /\ [][Next]_vars

\* The interrupt handler serves every ring whose status bit it reads; pollers
\* and works run when they are scheduled, to their end; the thread that
\* suspends or resumes runs on; mutex and spin locks are fair. The handler is
\* not for ever slower than a suspension and its retry, which wait: it gets to
\* an event it was interrupted for.
Fairness ==
    /\ WF_vars(Isr)
    /\ \A r \in Rings : /\ SF_vars(IsrEnter(r))
                        /\ SF_vars(IsrLoop /\ isr.ring = r /\ r \in data \ mode)
                        /\ SF_vars(Poll(r))
                        /\ WF_vars(Release(r))
                        /\ SF_vars(Vote(r))
    /\ SF_vars(Suspend)

FairSpec == Spec /\ Fairness

-----------------------------------------------------------------------------
(* Properties.                                                             *)

\* The variables have the values the code can give them, and the poller of a
\* ring that runs has its clock vote ("it is guaranteed we already have clock
\* here", ipa_dp.c).
TypeOK ==
    /\ hw \in Versions /\ valid \in Configs /\ chan \subseteq valid
    /\ {mode, data, ieob, polling, work} \subseteq SUBSET Rings
    /\ napi \in [Rings -> {"idle", "poll", "drained", "complete"}]
    /\ isr \in [ring : Rings, at : {"enter", "loop", "notify", "mode", "set", "schedule"}]
               \cup {NoIsr}
    /\ {coal, holb, clk} \subseteq BOOLEAN
    /\ votes \in [Voters -> Nat]
    /\ seq.doing \in {"idle", "suspend", "undo", "resume"}
    /\ \A r \in Rings : napi[r] # "idle" => clk /\ votes[r] > 0

\* A ring that is marked as polling is in polling mode: else the interrupt
\* handler, which leaves the events to the poller, would find the same event
\* again and again, under the ring's lock and with interrupts off, and the
\* poller could never take it. The suspension and its undo chain reconfigure
\* the mode concurrently with the handler and the poller (the race of the
\* comment above gsi_start_channel in _ipa_suspend_resume_pipe).
PollingMasked == polling \subseteq mode

\* Data that waits in a ring is noticed: with the clocks on and no suspension
\* under way, either the interrupt of the ring is pending and unmasked, or the
\* handler is looking at it, or a poller or a work is scheduled for it.
DataNoticed ==
    clk /\ seq = Idle =>
        \A r \in data : \/ r \in ieob \ mode
                        \/ isr.ring = r
                        \/ napi[r] # "idle"
                        \/ r \in work

\* A suspension that failed has restarted every pipe it stopped, and the
\* coalescing: with the clocks on, the channels run. The exception is the low
\* latency data pipe before IPA 5.0, which the jump to undo_qmap_cons after
\* it was stopped leaves behind.
SuspensionUndone ==
    clk /\ seq = Idle =>
        /\ valid \ chan \subseteq (IF hw = "v4" THEN {"LLD"} ELSE {})
        /\ ~coal

\* gsi_start_channel is called for stopped channels only; for a running one it
\* fails and _ipa_suspend_resume_pipe asserts. So no chain of labels starts
\* what the suspension had not stopped yet, nor anything twice.
StartsStopped ==
    [][ \A p \in Pipes : StartPipe /\ Entry = p => p \notin chan ]_vars

\* The clocks go off with no poller running, and with no event in a ring whose
\* own pipe was found quiet (an event in the ring of a coalescing pipe may
\* still come from its default pipe, which is not looked at after its stop).
QuietWhenOff ==
    ~clk => \A r \in Rings : /\ napi[r] = "idle"
                             /\ r \in data => r \in {"WAN", "LAN"}

\* Data in a ring is polled at last, or the clocks go off with it in the ring.
DataPolled == \A r \in Rings : (clk /\ r \in data) ~> (~clk \/ r \notin data)
=============================================================================
