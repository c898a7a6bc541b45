--------------------------- MODULE RxPipesProofs ---------------------------
(***************************************************************************)
(* Proofs about RxPipes for every set of configurations of the pipes, both *)
(* HW versions and any number of polls.                                    *)
(***************************************************************************)
EXTENDS RxPipes, FiniteLemmas

-----------------------------------------------------------------------------
(* The inductive invariant.                                                *)

\* The pipe whose suspension configures the mode of its ring.
Configurer(p) == p \in valid /\ ConfiguresMode(p)

AtEntry(p) == seq.at # "chan" /\ p = Entry

\* The suspension has stopped the pipe, and nothing has started it again.
Stopped(p) ==
    /\ p \in valid
    /\ \/ seq.doing = "suspend" /\ (p \notin seq.todo \/ AtEntry(p))
       \/ seq.doing \in {"undo", "resume"} /\ p \in seq.todo /\ ~AtEntry(p)
       \/ ~clk

\* The pipe was found quiet, or the undo chain has not come past it yet.
Parked(p) ==
    /\ Configurer(p)
    /\ \/ seq.doing = "suspend" /\ p \notin seq.todo
       \/ seq.doing \in {"undo", "resume"} /\ p \in seq.todo
       \/ ~clk

\* The low latency data pipe, left behind by the jump past it.
LeftBehind(p) == p = "LLD" /\ hw = "v4" /\ p \notin chan /\ p \notin data

\* An entry of the sequence will start a pipe of the ring.
WillStart(r) ==
    /\ seq.doing \in {"undo", "resume"}
    /\ \E p \in Consumers \ chan : p \in seq.todo /\ Ring[p] = r

\* The suspension is about to look into the ring.
WillLook(r) == seq.doing = "suspend" /\ seq.at = "quiet" /\ r = Ring[Entry]

Types ==
    /\ hw \in Versions /\ valid \in Configs /\ chan \in SUBSET valid
    /\ mode \in SUBSET Rings /\ data \in SUBSET Rings /\ ieob \in SUBSET Rings
    /\ polling \in SUBSET Rings /\ work \in SUBSET Rings
    /\ napi \in [Rings -> {"idle", "poll", "drained", "complete"}]
    /\ isr \in [ring : Rings, at : {"enter", "loop", "notify", "mode", "set", "schedule"}]
               \cup {NoIsr}
    /\ coal \in BOOLEAN /\ holb \in BOOLEAN /\ clk \in BOOLEAN
    /\ votes \in [Voters -> Nat]
    /\ data \subseteq {Ring[p] : p \in Consumers \cap valid}

\* The thread in ipa3_suspend_apps_pipes.
SeqTypes ==
    /\ seq \in [doing : {"idle", "suspend", "undo", "resume"},
                who : Voters \cup {"none"}, todo : SUBSET Entries,
                at : {"chan", "mode", "quiet", "callback"}]
    /\ seq.doing = "idle" => seq = Idle
    /\ seq.doing = "undo" => seq.todo \subseteq Consumers
    /\ seq.doing = "resume" => /\ seq.who \in Voters
                               /\ seq.who \in Rings => seq.who \in work
    /\ \A e \in seq.todo : Needed(e)
    /\ seq.doing = "suspend" =>
         \A e \in Entries, x \in seq.todo :
            Needed(e) /\ SuspendOrder[x] <= SuspendOrder[e] => e \in seq.todo
    /\ seq.at # "chan" => seq.todo # {} /\ Configurer(Entry)
    /\ seq.at = "quiet" => seq.doing = "suspend" /\ Ring[Entry] \in mode
    /\ seq.at = "callback" => /\ seq.doing \in {"undo", "resume"}
                              /\ Ring[Entry] \notin polling

\* The sequence runs at a count of 0, with the clocks on.
Unvoted ==
    /\ ~clk => seq.doing = "idle"
    /\ ~clk \/ seq.doing # "idle" => \A v \in Voters : votes[v] = 0
    /\ \A r \in Rings : napi[r] # "idle" => clk /\ votes[r] > 0

\* The poller, the work and the polling state of a ring.
Pollers ==
    \A r \in Rings :
        /\ napi[r] \in {"poll", "drained"} => r \in polling /\ r \notin work
        /\ napi[r] = "complete" => r \in mode /\ r \notin polling /\ r \notin work
        /\ r \in work => r \in polling /\ r \in data /\ napi[r] = "idle"
        /\ r \in polling =>
             /\ r \in mode
             /\ \/ r \in work \/ napi[r] \in {"poll", "drained"}
                \/ isr.ring = r /\ isr.at = "schedule"

\* What the interrupt handler knows of its ring.
Handler ==
    isr # NoIsr =>
        LET r == isr.ring
        IN /\ isr.at # "loop" => r \notin work /\ napi[r] = "idle"
           /\ isr.at = "loop" => r \in work \/ napi[r] = "poll"
           /\ isr.at \notin {"schedule", "loop"} => r \notin polling
           /\ isr.at = "schedule" => r \in polling
           /\ isr.at \in {"notify", "mode", "set", "schedule"} => r \in data
           /\ isr.at = "set" => r \in mode

Channels ==
    \A p \in valid :
        /\ Stopped(p) => p \notin chan
        /\ p \in chan \/ Stopped(p) \/ LeftBehind(p)

Coalescing ==
    coal => seq.doing = "suspend" /\ "start_coal" \in seq.todo

\* The ring of a parked pipe is masked, and an event in it is not forgotten.
Parking ==
    \A p \in Consumers : Parked(p) =>
        /\ Ring[p] \in mode
        /\ ~Locked(Ring[p])
        /\ Ring[p] \in data => Ring[p] \in ieob \cup work \/ WillStart(Ring[p])

\* The ring of a pipe that has it alone is empty once it was found quiet.
Quiet ==
    \A p \in {"ODL", "LL", "LLD"} \cap valid :
        (seq.doing = "suspend" /\ p \notin seq.todo) \/ ~clk => p \notin data

\* Why a ring is in polling mode.
Masked ==
    \A r \in mode :
        \/ r \in polling
        \/ napi[r] = "complete"
        \/ isr.ring = r /\ isr.at = "set"
        \/ WillLook(r)
        \/ \E p \in Consumers : Ring[p] = r /\ (Parked(p) \/ LeftBehind(p))

\* Who takes care of an event.
Noticed ==
    \A r \in data :
        \/ r \in ieob
        \/ isr.ring = r
        \/ napi[r] = "poll"
        \/ r \in work
        \/ WillLook(r)
        \/ WillStart(r)

IInv ==
    /\ Types /\ SeqTypes /\ Unvoted /\ Pollers /\ Handler /\ Channels
    /\ Coalescing /\ Parking /\ Quiet /\ Masked /\ Noticed

-----------------------------------------------------------------------------
(* The pipes, their rings and the order of the sequence.                   *)

LEMMA RingFacts ==
    /\ \A p \in Consumers : Ring[p] = IF p = "WAN_COAL" THEN "WAN"
                                      ELSE IF p = "LAN_COAL" THEN "LAN" ELSE p
    /\ Rings \subseteq {"WAN", "LAN", "ODL", "LL", "LLD"}
    /\ "none" \notin Rings
<1>1. \A p \in Consumers : Ring[p] = IF p = "WAN_COAL" THEN "WAN"
                                     ELSE IF p = "LAN_COAL" THEN "LAN" ELSE p
  BY DEF Ring, Consumers
<1>2. Rings \subseteq {"WAN", "LAN", "ODL", "LL", "LLD"}
  BY <1>1 DEF Rings, Consumers
<1> QED BY <1>1, <1>2

LEMMA RingOfValid ==
    ASSUME NEW c \in Configs, NEW p \in Consumers, p \in c
    PROVE  Ring[p] \in Rings
BY DEF Rings

\* A ring is configured by one pipe.
LEMMA OneConfigurer ==
    ASSUME NEW p \in Consumers, NEW q \in Consumers,
           Configurer(p), Configurer(q), Ring[p] = Ring[q]
    PROVE  p = q
BY RingFacts DEF Configurer, ConfiguresMode, Consumers

\* The rings of the pipes that have one for themselves.
LEMMA OwnRing ==
    ASSUME NEW p \in {"ODL", "LL", "LLD"}
    PROVE  /\ p \in Consumers /\ Ring[p] = p
           /\ p \in valid => Configurer(p)
           /\ \A q \in Consumers : Ring[q] = p => q = p
BY RingFacts DEF Configurer, ConfiguresMode, Consumers

LEMMA Orders ==
    /\ \A e \in Entries : SuspendOrder[e] \in Nat
    /\ \A e \in Consumers : UndoOrder[e] \in Nat
    /\ \A e, x \in Entries : SuspendOrder[e] = SuspendOrder[x] => e = x
    /\ Consumers \subseteq Pipes /\ Pipes \subseteq Entries
    /\ Producers \cap Consumers = {}
<1>1. \A e \in Entries : SuspendOrder[e] \in Nat
  BY DEF Entries, Pipes, Consumers, Producers, SuspendOrder
<1>2. \A e \in Consumers : UndoOrder[e] \in Nat
  BY DEF Consumers, UndoOrder
<1>3. \A e, x \in Entries : SuspendOrder[e] = SuspendOrder[x] => e = x
  BY DEF Entries, Pipes, Consumers, Producers, SuspendOrder
<1>4. Consumers \subseteq Pipes /\ Pipes \subseteq Entries
      /\ Producers \cap Consumers = {}
  BY DEF Entries, Pipes, Consumers, Producers
<1> QED BY <1>1, <1>2, <1>3, <1>4

\* The entry whose turn it is is one of those still to do, and the first.
LEMMA EntryFirst ==
    ASSUME seq.todo \in SUBSET Entries, seq.todo # {},
           seq.doing = "undo" => seq.todo \subseteq Consumers
    PROVE  /\ Entry \in seq.todo
           /\ seq.doing # "undo" =>
                \A x \in seq.todo : SuspendOrder[Entry] <= SuspendOrder[x]
<1> DEFINE place == IF seq.doing = "undo" THEN UndoOrder ELSE SuspendOrder
           places == {place[e] : e \in seq.todo}
<1>1. \A e \in seq.todo : place[e] \in Nat BY Orders
<1>2. places \in SUBSET Nat /\ places # {} BY <1>1
<1>3. PICK n \in places : \A m \in places : n <= m
  <2> HIDE DEF places
  <2> QED BY <1>2, LeastElement
<1>4. \E e \in seq.todo : \A x \in seq.todo : place[e] <= place[x] BY <1>3
<1>5. Entry = CHOOSE e \in seq.todo : \A x \in seq.todo : place[e] <= place[x]
  BY DEF Entry
<1>6. Entry \in seq.todo /\ \A x \in seq.todo : place[Entry] <= place[x]
  <2> HIDE DEF place
  <2> QED BY <1>4, <1>5
<1> QED BY <1>6

\* The chain begins with what the suspension has stopped up to a pipe.
LEMMA UndoExact ==
    /\ \A p \in Consumers : Configurer(p) =>
         \A q \in Consumers \cap valid :
            q \in UndoFrom(p) <=> SuspendOrder[q] <= SuspendOrder[p]
    /\ UndoFrom("LLD") = Consumers
    /\ UndoFrom("LL") = Consumers \ {"LLD"}
    /\ \A p \in Consumers : UndoFrom(p) \subseteq Consumers
<1>1. ASSUME NEW p \in Consumers, Configurer(p), NEW q \in Consumers \cap valid
      PROVE  q \in UndoFrom(p) <=> SuspendOrder[q] <= SuspendOrder[p]
  <2> USE DEF SuspendOrder, UndoOrder, UndoFrom, ChainFrom, Consumers
  <2>1. CASE p = "WAN_COAL" BY <2>1
  <2>2. CASE p = "WAN" BY <1>1, <2>2 DEF Configurer, ConfiguresMode
  <2>3. CASE p = "LAN_COAL" BY <2>3
  <2>4. CASE p = "LAN" BY <1>1, <2>4 DEF Configurer, ConfiguresMode
  <2>5. CASE p = "ODL" BY <2>5
  <2>6. CASE p = "LL" BY <2>6
  <2>7. CASE p = "LLD" BY <2>7
  <2> QED BY <2>1, <2>2, <2>3, <2>4, <2>5, <2>6, <2>7
<1>2. UndoFrom("LLD") = Consumers
  BY DEF UndoOrder, UndoFrom, ChainFrom, Consumers
<1>3. UndoFrom("LL") = Consumers \ {"LLD"}
  BY DEF UndoOrder, UndoFrom, ChainFrom, Consumers
<1>4. \A p \in Consumers : UndoFrom(p) \subseteq Consumers
  BY DEF UndoFrom, ChainFrom, Consumers
<1> QED BY <1>1, <1>2, <1>3, <1>4

\* The handler, on a ring or idle.
LEMMA IsrFacts ==
    ASSUME isr \in [ring : Rings, at : {"enter", "loop", "notify", "mode", "set", "schedule"}]
                   \cup {NoIsr}
    PROVE  /\ isr = NoIsr <=> isr.at = "idle"
           /\ isr = NoIsr <=> isr.ring = "none"
           /\ isr # NoIsr => isr.ring \in Rings
BY RingFacts DEF NoIsr

-----------------------------------------------------------------------------
(* Steps of the handler and of the pollers leave the sequence alone.       *)

still == <<hw, valid, chan, clk, seq>>

LEMMA Still ==
    ASSUME UNCHANGED still
    PROVE  /\ UNCHANGED <<hw, valid, chan, clk, seq>>
           /\ Entry' = Entry
           /\ \A p : /\ Configurer(p)' <=> Configurer(p)
                     /\ Stopped(p)' <=> Stopped(p)
                     /\ Parked(p)' <=> Parked(p)
                     /\ Needed(p)' <=> Needed(p)
           /\ \A r : /\ WillStart(r)' <=> WillStart(r)
                     /\ WillLook(r)' <=> WillLook(r)
<1>1. UNCHANGED <<hw, valid, chan, clk, seq>> BY DEF still
<1>2. Entry' = Entry BY <1>1 DEF Entry
<1>3. \A p : Configurer(p)' <=> Configurer(p)
  BY <1>1 DEF Configurer, ConfiguresMode
<1>4. \A p : Needed(p)' <=> Needed(p) BY <1>1 DEF Needed
<1>5. \A p : Stopped(p)' <=> Stopped(p) BY <1>1, <1>2 DEF Stopped, AtEntry
<1>6. \A p : Parked(p)' <=> Parked(p) BY <1>1, <1>3 DEF Parked
<1>7. \A r : WillStart(r)' <=> WillStart(r) BY <1>1 DEF WillStart
<1>8. \A r : WillLook(r)' <=> WillLook(r) BY <1>1, <1>2 DEF WillLook
<1> QED BY <1>1, <1>2, <1>3, <1>4, <1>5, <1>6, <1>7, <1>8

-----------------------------------------------------------------------------
(* The interrupt handler, and the packets that arrive.                     *)

LEMMA ArriveStep ==
    ASSUME IInv, NEW r \in Rings, Arrive(r)
    PROVE  IInv'
<1>0. /\ Types /\ SeqTypes /\ Unvoted /\ Pollers /\ Handler /\ Channels
      /\ Coalescing /\ Parking /\ Quiet /\ Masked /\ Noticed
  BY DEF IInv
<1>a. UNCHANGED still BY DEF Arrive, power, hwVars, still
<1>b. /\ UNCHANGED <<hw, valid, chan, clk, seq>>
      /\ Entry' = Entry
      /\ \A p : /\ Configurer(p)' <=> Configurer(p)
                /\ Stopped(p)' <=> Stopped(p)
                /\ Parked(p)' <=> Parked(p)
                /\ Needed(p)' <=> Needed(p)
      /\ \A q : /\ WillStart(q)' <=> WillStart(q)
                /\ WillLook(q)' <=> WillLook(q)
  BY <1>a, Still
<1>c. /\ isr = NoIsr <=> isr.at = "idle"
      /\ isr = NoIsr <=> isr.ring = "none"
      /\ isr # NoIsr => isr.ring \in Rings
  BY <1>0, IsrFacts DEF Types
<1> USE DEF Arrive, power, hwVars
<1>1. Types' BY <1>0, <1>b, <1>c, RingFacts DEF Types, NoIsr
<1>2. SeqTypes' BY <1>0, <1>1, <1>b, <1>c DEF SeqTypes, Idle
<1>3. Unvoted' BY <1>0, <1>b, <1>c DEF Unvoted, Types
<1>4. Pollers' BY <1>0, <1>b, <1>c DEF Pollers, Types, Handler
<1>5. Handler' BY <1>0, <1>1, <1>b, <1>c DEF Handler, Types, Pollers, NoIsr
<1>6. /\ Channels'
      /\ \A p : LeftBehind(p) => LeftBehind(p)'
      /\ r \in {"ODL", "LL", "LLD"} => r \in chan
  <2>1. r \in {"ODL", "LL", "LLD"} => r \in chan BY OwnRing
  <2>2. \A p : LeftBehind(p) => LeftBehind(p)' BY <1>b, <2>1 DEF LeftBehind
  <2> QED BY <1>0, <1>b, <2>1, <2>2 DEF Channels
<1>7. Coalescing' BY <1>0, <1>b DEF Coalescing
<1>8. Parking' BY <1>0, <1>b, <1>c DEF Parking, Locked, Types, NoIsr
<1>9. Quiet'
  <2>1. ASSUME NEW p \in {"ODL", "LL", "LLD"} \cap valid, p = r
        PROVE  ~(seq.doing = "suspend" /\ p \notin seq.todo)
    <3>1. p \in chan BY <1>6, <2>1
    <3> QED BY <1>0, <3>1 DEF Channels, Stopped
  <2> QED BY <1>0, <1>b, <2>1 DEF Quiet
<1>10. Masked' BY <1>0, <1>6, <1>b, <1>c DEF Masked, Types, NoIsr
<1>11. Noticed' BY <1>0, <1>b, <1>c DEF Noticed, Types, NoIsr
<1> QED
  BY <1>1, <1>2, <1>3, <1>4, <1>5, <1>6, <1>7, <1>8, <1>9, <1>10, <1>11 DEF IInv

LEMMA IsrEnterStep ==
    ASSUME IInv, NEW r \in Rings, IsrEnter(r)
    PROVE  IInv'
<1>0. /\ Types /\ SeqTypes /\ Unvoted /\ Pollers /\ Handler /\ Channels
      /\ Coalescing /\ Parking /\ Quiet /\ Masked /\ Noticed
  BY DEF IInv
<1>a. UNCHANGED still BY DEF IsrEnter, power, hwVars, still
<1>b. /\ UNCHANGED <<hw, valid, chan, clk, seq>>
      /\ Entry' = Entry
      /\ \A p : /\ Configurer(p)' <=> Configurer(p)
                /\ Stopped(p)' <=> Stopped(p)
                /\ Parked(p)' <=> Parked(p)
                /\ Needed(p)' <=> Needed(p)
      /\ \A q : /\ WillStart(q)' <=> WillStart(q)
                /\ WillLook(q)' <=> WillLook(q)
  BY <1>a, Still
<1>c. /\ isr = NoIsr <=> isr.at = "idle"
      /\ isr = NoIsr <=> isr.ring = "none"
      /\ isr # NoIsr => isr.ring \in Rings
  BY <1>0, IsrFacts DEF Types
<1> USE DEF IsrEnter, power, hwVars
<1>1. Types' BY <1>0, <1>b, <1>c, RingFacts DEF Types, NoIsr
<1>2. SeqTypes' BY <1>0, <1>1, <1>b, <1>c DEF SeqTypes, Idle
<1>3. Unvoted' BY <1>0, <1>b, <1>c DEF Unvoted, Types
<1>4. Pollers' BY <1>0, <1>b, <1>c DEF Pollers, Types, Handler
<1>5. Handler' BY <1>0, <1>1, <1>b, <1>c DEF Handler, Types, Pollers, NoIsr
<1>6. Channels' BY <1>0, <1>b DEF Channels, LeftBehind
<1>7. Coalescing' BY <1>0, <1>b DEF Coalescing
<1>8. Parking' BY <1>0, <1>b, <1>c DEF Parking, Locked, Types, NoIsr
<1>9. Quiet' BY <1>0, <1>b DEF Quiet
<1>10. Masked' BY <1>0, <1>b, <1>c DEF Masked, LeftBehind, Types, NoIsr
<1>11. Noticed'
  <2>1. isr'.ring = r BY DEF NoIsr
  <2>2. \A q \in Rings : isr.ring # q BY <1>c, RingFacts
  <2> QED BY <1>0, <1>b, <2>1, <2>2 DEF Noticed, Types
<1> QED
  BY <1>1, <1>2, <1>3, <1>4, <1>5, <1>6, <1>7, <1>8, <1>9, <1>10, <1>11 DEF IInv

LEMMA IsrLoopStep ==
    ASSUME IInv, IsrLoop
    PROVE  IInv'
<1>0. /\ Types /\ SeqTypes /\ Unvoted /\ Pollers /\ Handler /\ Channels
      /\ Coalescing /\ Parking /\ Quiet /\ Masked /\ Noticed
  BY DEF IInv
<1>a. UNCHANGED still BY DEF IsrLoop, IsrStep, power, hwVars, still
<1>b. /\ UNCHANGED <<hw, valid, chan, clk, seq>>
      /\ Entry' = Entry
      /\ \A p : /\ Configurer(p)' <=> Configurer(p)
                /\ Stopped(p)' <=> Stopped(p)
                /\ Parked(p)' <=> Parked(p)
                /\ Needed(p)' <=> Needed(p)
      /\ \A q : /\ WillStart(q)' <=> WillStart(q)
                /\ WillLook(q)' <=> WillLook(q)
  BY <1>a, Still
<1>c. /\ isr = NoIsr <=> isr.at = "idle"
      /\ isr = NoIsr <=> isr.ring = "none"
      /\ isr # NoIsr => isr.ring \in Rings
  BY <1>0, IsrFacts DEF Types
<1> USE DEF IsrLoop, IsrStep, power, hwVars
<1>1. Types' BY <1>0, <1>b, <1>c, RingFacts DEF Types, NoIsr
<1>2. SeqTypes' BY <1>0, <1>1, <1>b, <1>c DEF SeqTypes, Idle
<1>3. Unvoted' BY <1>0, <1>b, <1>c DEF Unvoted, Types
<1>4. Pollers' BY <1>0, <1>b, <1>c DEF Pollers, Types, Handler
<1>5. Handler' BY <1>0, <1>1, <1>b, <1>c DEF Handler, Types, Pollers, NoIsr
<1>6. Channels' BY <1>0, <1>b DEF Channels, LeftBehind
<1>7. Coalescing' BY <1>0, <1>b DEF Coalescing
<1>8. Parking'
  <2>1. \A p \in Consumers : Parked(p) => ~Locked(Ring[p])'
    <3> SUFFICES ASSUME NEW p \in Consumers, Parked(p), isr'.ring = Ring[p],
                        isr'.at # "enter"
                 PROVE  FALSE
      BY DEF Locked
    <3>1. Ring[p] \in mode BY <1>0 DEF Parking
    <3>2. Ring[p] \in Rings BY <1>0, <3>1 DEF Types
    <3>3. isr' # NoIsr BY <3>2, RingFacts DEF NoIsr
    <3>4. isr.ring \in data \ mode /\ isr'.ring = isr.ring
      BY <1>c, <3>3 
    <3> QED BY <3>1, <3>4
  <2> QED BY <1>0, <1>b, <2>1 DEF Parking
<1>9. Quiet' BY <1>0, <1>b DEF Quiet
<1>10. Masked' BY <1>0, <1>b, <1>c DEF Masked, LeftBehind, Types, NoIsr
<1>11. Noticed'
  <2> SUFFICES ASSUME NEW r \in data, isr' = NoIsr, isr.ring = r,
                      r \notin ieob, napi[r] # "poll", r \notin work,
                      ~WillLook(r), ~WillStart(r)
               PROVE  FALSE
    BY <1>0, <1>b, <1>c DEF Noticed, Types, NoIsr
  <2>1. r \in Rings BY <1>0 DEF Types
  <2>2. isr # NoIsr BY <1>c, <2>1, RingFacts DEF NoIsr
  <2>3. isr.at = "enter" /\ napi[r] = "idle" /\ r \notin polling
    BY <1>0, <2>2 DEF Handler
  <2>4. r \in mode BY <2>3 DEF NoIsr
  <2>5. PICK p \in Consumers : Ring[p] = r /\ (Parked(p) \/ LeftBehind(p))
    BY <1>0, <2>3, <2>4 DEF Masked
  <2>6. ~LeftBehind(p) BY <2>5, OwnRing DEF LeftBehind
  <2> QED BY <1>0, <2>5, <2>6 DEF Parking
<1> QED
  BY <1>1, <1>2, <1>3, <1>4, <1>5, <1>6, <1>7, <1>8, <1>9, <1>10, <1>11 DEF IInv

LEMMA IsrNotifyStep ==
    ASSUME IInv, IsrNotify
    PROVE  IInv'
<1>0. /\ Types /\ SeqTypes /\ Unvoted /\ Pollers /\ Handler /\ Channels
      /\ Coalescing /\ Parking /\ Quiet /\ Masked /\ Noticed
  BY DEF IInv
<1>a. UNCHANGED still BY DEF IsrNotify, IsrStep, power, hwVars, still
<1>b. /\ UNCHANGED <<hw, valid, chan, clk, seq>>
      /\ Entry' = Entry
      /\ \A p : /\ Configurer(p)' <=> Configurer(p)
                /\ Stopped(p)' <=> Stopped(p)
                /\ Parked(p)' <=> Parked(p)
                /\ Needed(p)' <=> Needed(p)
      /\ \A q : /\ WillStart(q)' <=> WillStart(q)
                /\ WillLook(q)' <=> WillLook(q)
  BY <1>a, Still
<1>c. /\ isr = NoIsr <=> isr.at = "idle"
      /\ isr = NoIsr <=> isr.ring = "none"
      /\ isr # NoIsr => isr.ring \in Rings
  BY <1>0, IsrFacts DEF Types
<1> USE DEF IsrNotify, IsrStep, power, hwVars
<1>1. Types' BY <1>0, <1>b, <1>c, RingFacts DEF Types, NoIsr
<1>2. SeqTypes' BY <1>0, <1>1, <1>b, <1>c DEF SeqTypes, Idle
<1>3. Unvoted' BY <1>0, <1>b, <1>c DEF Unvoted, Types
<1>4. Pollers' BY <1>0, <1>b, <1>c DEF Pollers, Types, Handler
<1>5. Handler' BY <1>0, <1>1, <1>b, <1>c DEF Handler, Types, Pollers, NoIsr
<1>6. Channels' BY <1>0, <1>b DEF Channels, LeftBehind
<1>7. Coalescing' BY <1>0, <1>b DEF Coalescing
<1>8. Parking' BY <1>0, <1>b, <1>c DEF Parking, Locked, Types, NoIsr
<1>9. Quiet' BY <1>0, <1>b DEF Quiet
<1>10. Masked' BY <1>0, <1>b, <1>c DEF Masked, LeftBehind, Types, NoIsr
<1>11. Noticed' BY <1>0, <1>b, <1>c DEF Noticed, Types, NoIsr
<1> QED
  BY <1>1, <1>2, <1>3, <1>4, <1>5, <1>6, <1>7, <1>8, <1>9, <1>10, <1>11 DEF IInv

LEMMA IsrModeStep ==
    ASSUME IInv, IsrMode
    PROVE  IInv'
<1>0. /\ Types /\ SeqTypes /\ Unvoted /\ Pollers /\ Handler /\ Channels
      /\ Coalescing /\ Parking /\ Quiet /\ Masked /\ Noticed
  BY DEF IInv
<1>a. UNCHANGED still BY DEF IsrMode, IsrStep, ConfigPoll, power, hwVars, still
<1>b. /\ UNCHANGED <<hw, valid, chan, clk, seq>>
      /\ Entry' = Entry
      /\ \A p : /\ Configurer(p)' <=> Configurer(p)
                /\ Stopped(p)' <=> Stopped(p)
                /\ Parked(p)' <=> Parked(p)
                /\ Needed(p)' <=> Needed(p)
      /\ \A q : /\ WillStart(q)' <=> WillStart(q)
                /\ WillLook(q)' <=> WillLook(q)
  BY <1>a, Still
<1>c. /\ isr = NoIsr <=> isr.at = "idle"
      /\ isr = NoIsr <=> isr.ring = "none"
      /\ isr # NoIsr => isr.ring \in Rings
  BY <1>0, IsrFacts DEF Types
<1> USE DEF IsrMode, IsrStep, ConfigPoll, power, hwVars
<1>1. Types' BY <1>0, <1>b, <1>c, RingFacts DEF Types, NoIsr
<1>2. SeqTypes' BY <1>0, <1>1, <1>b, <1>c DEF SeqTypes, Idle
<1>3. Unvoted' BY <1>0, <1>b, <1>c DEF Unvoted, Types
<1>4. Pollers' BY <1>0, <1>b, <1>c DEF Pollers, Types, Handler
<1>5. Handler' BY <1>0, <1>1, <1>b, <1>c DEF Handler, Types, Pollers, NoIsr
<1>6. Channels' BY <1>0, <1>b DEF Channels, LeftBehind
<1>7. Coalescing' BY <1>0, <1>b DEF Coalescing
<1>8. Parking' BY <1>0, <1>b, <1>c DEF Parking, Locked, Types, NoIsr
<1>9. Quiet' BY <1>0, <1>b DEF Quiet
<1>10. Masked' BY <1>0, <1>b, <1>c DEF Masked, LeftBehind, Types, NoIsr
<1>11. Noticed' BY <1>0, <1>b, <1>c DEF Noticed, Types, NoIsr
<1> QED
  BY <1>1, <1>2, <1>3, <1>4, <1>5, <1>6, <1>7, <1>8, <1>9, <1>10, <1>11 DEF IInv

LEMMA IsrSetStep ==
    ASSUME IInv, IsrSet
    PROVE  IInv'
<1>0. /\ Types /\ SeqTypes /\ Unvoted /\ Pollers /\ Handler /\ Channels
      /\ Coalescing /\ Parking /\ Quiet /\ Masked /\ Noticed
  BY DEF IInv
<1>a. UNCHANGED still BY DEF IsrSet, IsrStep, power, hwVars, still
<1>b. /\ UNCHANGED <<hw, valid, chan, clk, seq>>
      /\ Entry' = Entry
      /\ \A p : /\ Configurer(p)' <=> Configurer(p)
                /\ Stopped(p)' <=> Stopped(p)
                /\ Parked(p)' <=> Parked(p)
                /\ Needed(p)' <=> Needed(p)
      /\ \A q : /\ WillStart(q)' <=> WillStart(q)
                /\ WillLook(q)' <=> WillLook(q)
  BY <1>a, Still
<1>c. /\ isr = NoIsr <=> isr.at = "idle"
      /\ isr = NoIsr <=> isr.ring = "none"
      /\ isr # NoIsr => isr.ring \in Rings
  BY <1>0, IsrFacts DEF Types
<1> USE DEF IsrSet, IsrStep, power, hwVars
<1>1. Types' BY <1>0, <1>b, <1>c, RingFacts DEF Types, NoIsr
<1>2. SeqTypes'
  <2>1. ASSUME seq.at = "callback" PROVE Ring[Entry] # isr.ring
    <3>1. /\ seq.doing \in {"undo", "resume"} /\ Configurer(Entry)
          /\ seq.todo \in SUBSET Entries /\ seq.todo # {}
          /\ seq.doing = "undo" => seq.todo \subseteq Consumers
      BY <1>0, <2>1 DEF SeqTypes
    <3>2. Entry \in seq.todo BY <3>1, EntryFirst
    <3>3. Parked(Entry) /\ Entry \in Consumers
      BY <3>1, <3>2 DEF Parked, Configurer, ConfiguresMode
    <3> QED BY <1>0, <3>3 DEF Parking, Locked
  <2> QED BY <1>0, <1>1, <1>b, <1>c, <2>1 DEF SeqTypes, Idle
<1>3. Unvoted' BY <1>0, <1>b, <1>c DEF Unvoted, Types
<1>4. Pollers' BY <1>0, <1>b, <1>c DEF Pollers, Types, Handler
<1>5. Handler' BY <1>0, <1>1, <1>b, <1>c DEF Handler, Types, Pollers, NoIsr
<1>6. Channels' BY <1>0, <1>b DEF Channels, LeftBehind
<1>7. Coalescing' BY <1>0, <1>b DEF Coalescing
<1>8. Parking' BY <1>0, <1>b, <1>c DEF Parking, Locked, Types, NoIsr
<1>9. Quiet' BY <1>0, <1>b DEF Quiet
<1>10. Masked' BY <1>0, <1>b, <1>c DEF Masked, LeftBehind, Types, NoIsr
<1>11. Noticed' BY <1>0, <1>b, <1>c DEF Noticed, Types, NoIsr
<1> QED
  BY <1>1, <1>2, <1>3, <1>4, <1>5, <1>6, <1>7, <1>8, <1>9, <1>10, <1>11 DEF IInv

LEMMA IsrScheduleStep ==
    ASSUME IInv, IsrSchedule
    PROVE  IInv'
<1>0. /\ Types /\ SeqTypes /\ Unvoted /\ Pollers /\ Handler /\ Channels
      /\ Coalescing /\ Parking /\ Quiet /\ Masked /\ Noticed
  BY DEF IInv
<1>a. UNCHANGED still BY DEF IsrSchedule, IsrStep, AddVote, power, hwVars, still
<1>b. /\ UNCHANGED <<hw, valid, chan, clk, seq>>
      /\ Entry' = Entry
      /\ \A p : /\ Configurer(p)' <=> Configurer(p)
                /\ Stopped(p)' <=> Stopped(p)
                /\ Parked(p)' <=> Parked(p)
                /\ Needed(p)' <=> Needed(p)
      /\ \A q : /\ WillStart(q)' <=> WillStart(q)
                /\ WillLook(q)' <=> WillLook(q)
  BY <1>a, Still
<1>c. /\ isr = NoIsr <=> isr.at = "idle"
      /\ isr = NoIsr <=> isr.ring = "none"
      /\ isr # NoIsr => isr.ring \in Rings
  BY <1>0, IsrFacts DEF Types
<1> USE DEF IsrSchedule, IsrStep, AddVote, power, hwVars
<1>1. Types' BY <1>0, <1>b, <1>c, RingFacts DEF Types, NoIsr
<1>2. SeqTypes' BY <1>0, <1>1, <1>b, <1>c DEF SeqTypes, Idle
<1>3. Unvoted'
  <2>1. isr.ring \in Rings /\ isr.ring \in Voters BY <1>c DEF Voters
  <2>2. CASE Counted /\ AddVote(isr.ring) /\ napi' = [napi EXCEPT ![isr.ring] = "poll"]
    <3>1. clk /\ seq.doing = "idle" BY <1>0, <2>2 DEF Unvoted, Counted, Types
    <3>2. votes \in [Voters -> Nat] /\ Rings \subseteq Voters
      BY <1>0 DEF Types, Voters
    <3> QED BY <1>0, <1>b, <2>1, <2>2, <3>1, <3>2 DEF Unvoted, Types
  <2>3. CASE UNCHANGED <<votes, napi>> BY <1>0, <1>b, <2>3 DEF Unvoted
  <2> QED BY <2>2, <2>3
<1>4. Pollers' BY <1>0, <1>b, <1>c DEF Pollers, Types, Handler
<1>5. Handler' BY <1>0, <1>1, <1>b, <1>c DEF Handler, Types, Pollers, NoIsr
<1>6. Channels' BY <1>0, <1>b DEF Channels, LeftBehind
<1>7. Coalescing' BY <1>0, <1>b DEF Coalescing
<1>8. Parking' BY <1>0, <1>b, <1>c DEF Parking, Locked, Types, NoIsr
<1>9. Quiet' BY <1>0, <1>b DEF Quiet
<1>10. Masked'
  <2>1. /\ isr.ring \in polling /\ napi[isr.ring] = "idle" /\ isr.ring \in Rings
        /\ mode \subseteq Rings
    BY <1>0, <1>c DEF Handler, Types
  <2>2. \A r \in mode : napi[r] = "complete" => napi'[r] = "complete"
    BY <1>0, <2>1 DEF Types
  <2> QED BY <1>0, <1>b, <1>c, <2>1, <2>2 DEF Masked, LeftBehind
<1>11. Noticed' BY <1>0, <1>b, <1>c DEF Noticed, Types, NoIsr
<1> QED
  BY <1>1, <1>2, <1>3, <1>4, <1>5, <1>6, <1>7, <1>8, <1>9, <1>10, <1>11 DEF IInv

-----------------------------------------------------------------------------
(* The pollers.                                                            *)

LEMMA PollDataStep ==
    ASSUME IInv, NEW r \in Rings, PollData(r)
    PROVE  IInv'
<1>0. /\ Types /\ SeqTypes /\ Unvoted /\ Pollers /\ Handler /\ Channels
      /\ Coalescing /\ Parking /\ Quiet /\ Masked /\ Noticed
  BY DEF IInv
<1>a. UNCHANGED still BY DEF PollData, power, hwVars, still
<1>b. /\ UNCHANGED <<hw, valid, chan, clk, seq>>
      /\ Entry' = Entry
      /\ \A p : /\ Configurer(p)' <=> Configurer(p)
                /\ Stopped(p)' <=> Stopped(p)
                /\ Parked(p)' <=> Parked(p)
                /\ Needed(p)' <=> Needed(p)
      /\ \A q : /\ WillStart(q)' <=> WillStart(q)
                /\ WillLook(q)' <=> WillLook(q)
  BY <1>a, Still
<1>c. /\ isr = NoIsr <=> isr.at = "idle"
      /\ isr = NoIsr <=> isr.ring = "none"
      /\ isr # NoIsr => isr.ring \in Rings
  BY <1>0, IsrFacts DEF Types
<1> USE DEF PollData, power, hwVars
<1>1. Types' BY <1>0, <1>b, <1>c, RingFacts DEF Types, NoIsr
<1>2. SeqTypes' BY <1>0, <1>1, <1>b, <1>c DEF SeqTypes, Idle
<1>3. Unvoted' BY <1>0, <1>b, <1>c DEF Unvoted, Types
<1>4. Pollers' BY <1>0, <1>b, <1>c DEF Pollers, Types, Handler
<1>5. Handler' BY <1>0, <1>1, <1>b, <1>c DEF Handler, Types, Pollers, NoIsr
<1>6. Channels' BY <1>0, <1>b DEF Channels, LeftBehind
<1>7. Coalescing' BY <1>0, <1>b DEF Coalescing
<1>8. Parking' BY <1>0, <1>b, <1>c DEF Parking, Locked, Types, NoIsr
<1>9. Quiet' BY <1>0, <1>b DEF Quiet
<1>10. Masked' BY <1>0, <1>b, <1>c DEF Masked, LeftBehind, Types, NoIsr
<1>11. Noticed' BY <1>0, <1>b, <1>c DEF Noticed, Types, NoIsr
<1> QED
  BY <1>1, <1>2, <1>3, <1>4, <1>5, <1>6, <1>7, <1>8, <1>9, <1>10, <1>11 DEF IInv

LEMMA PollEmptyStep ==
    ASSUME IInv, NEW r \in Rings, PollEmpty(r)
    PROVE  IInv'
<1>0. /\ Types /\ SeqTypes /\ Unvoted /\ Pollers /\ Handler /\ Channels
      /\ Coalescing /\ Parking /\ Quiet /\ Masked /\ Noticed
  BY DEF IInv
<1>a. UNCHANGED still BY DEF PollEmpty, NapiStep, power, hwVars, still
<1>b. /\ UNCHANGED <<hw, valid, chan, clk, seq>>
      /\ Entry' = Entry
      /\ \A p : /\ Configurer(p)' <=> Configurer(p)
                /\ Stopped(p)' <=> Stopped(p)
                /\ Parked(p)' <=> Parked(p)
                /\ Needed(p)' <=> Needed(p)
      /\ \A q : /\ WillStart(q)' <=> WillStart(q)
                /\ WillLook(q)' <=> WillLook(q)
  BY <1>a, Still
<1>c. /\ isr = NoIsr <=> isr.at = "idle"
      /\ isr = NoIsr <=> isr.ring = "none"
      /\ isr # NoIsr => isr.ring \in Rings
  BY <1>0, IsrFacts DEF Types
<1> USE DEF PollEmpty, NapiStep, power, hwVars
<1>1. Types' BY <1>0, <1>b, <1>c, RingFacts DEF Types, NoIsr
<1>2. SeqTypes' BY <1>0, <1>1, <1>b, <1>c DEF SeqTypes, Idle
<1>3. Unvoted' BY <1>0, <1>b, <1>c DEF Unvoted, Types
<1>4. Pollers' BY <1>0, <1>b, <1>c DEF Pollers, Types, Handler
<1>5. Handler' BY <1>0, <1>1, <1>b, <1>c DEF Handler, Types, Pollers, NoIsr, Locked
<1>6. Channels' BY <1>0, <1>b DEF Channels, LeftBehind
<1>7. Coalescing' BY <1>0, <1>b DEF Coalescing
<1>8. Parking' BY <1>0, <1>b, <1>c DEF Parking, Locked, Types, NoIsr
<1>9. Quiet' BY <1>0, <1>b DEF Quiet
<1>10. Masked' BY <1>0, <1>b, <1>c DEF Masked, LeftBehind, Types, NoIsr
<1>11. Noticed' BY <1>0, <1>b, <1>c DEF Noticed, Types, NoIsr
<1> QED
  BY <1>1, <1>2, <1>3, <1>4, <1>5, <1>6, <1>7, <1>8, <1>9, <1>10, <1>11 DEF IInv

LEMMA PollResetStep ==
    ASSUME IInv, NEW r \in Rings, PollReset(r)
    PROVE  IInv'
<1>0. /\ Types /\ SeqTypes /\ Unvoted /\ Pollers /\ Handler /\ Channels
      /\ Coalescing /\ Parking /\ Quiet /\ Masked /\ Noticed
  BY DEF IInv
<1>a. UNCHANGED still BY DEF PollReset, NapiStep, power, hwVars, still
<1>b. /\ UNCHANGED <<hw, valid, chan, clk, seq>>
      /\ Entry' = Entry
      /\ \A p : /\ Configurer(p)' <=> Configurer(p)
                /\ Stopped(p)' <=> Stopped(p)
                /\ Parked(p)' <=> Parked(p)
                /\ Needed(p)' <=> Needed(p)
      /\ \A q : /\ WillStart(q)' <=> WillStart(q)
                /\ WillLook(q)' <=> WillLook(q)
  BY <1>a, Still
<1>c. /\ isr = NoIsr <=> isr.at = "idle"
      /\ isr = NoIsr <=> isr.ring = "none"
      /\ isr # NoIsr => isr.ring \in Rings
  BY <1>0, IsrFacts DEF Types
<1> USE DEF PollReset, NapiStep, power, hwVars
<1>1. Types' BY <1>0, <1>b, <1>c, RingFacts DEF Types, NoIsr
<1>2. SeqTypes' BY <1>0, <1>1, <1>b, <1>c DEF SeqTypes, Idle
<1>3. Unvoted' BY <1>0, <1>b, <1>c DEF Unvoted, Types
<1>4. Pollers' BY <1>0, <1>b, <1>c DEF Pollers, Types, Handler
<1>5. Handler' BY <1>0, <1>1, <1>b, <1>c DEF Handler, Types, Pollers, NoIsr
<1>6. Channels' BY <1>0, <1>b DEF Channels, LeftBehind
<1>7. Coalescing' BY <1>0, <1>b DEF Coalescing
<1>8. Parking' BY <1>0, <1>b, <1>c DEF Parking, Locked, Types, NoIsr
<1>9. Quiet' BY <1>0, <1>b DEF Quiet
<1>10. Masked' BY <1>0, <1>b, <1>c DEF Masked, LeftBehind, Types, NoIsr
<1>11. Noticed' BY <1>0, <1>b, <1>c DEF Noticed, Types, NoIsr
<1> QED
  BY <1>1, <1>2, <1>3, <1>4, <1>5, <1>6, <1>7, <1>8, <1>9, <1>10, <1>11 DEF IInv

LEMMA PollCallbackStep ==
    ASSUME IInv, NEW r \in Rings, PollCallback(r)
    PROVE  IInv'
<1>0. /\ Types /\ SeqTypes /\ Unvoted /\ Pollers /\ Handler /\ Channels
      /\ Coalescing /\ Parking /\ Quiet /\ Masked /\ Noticed
  BY DEF IInv
<1>a. UNCHANGED still BY DEF PollCallback, NapiStep, ConfigCallback, power, hwVars, still
<1>b. /\ UNCHANGED <<hw, valid, chan, clk, seq>>
      /\ Entry' = Entry
      /\ \A p : /\ Configurer(p)' <=> Configurer(p)
                /\ Stopped(p)' <=> Stopped(p)
                /\ Parked(p)' <=> Parked(p)
                /\ Needed(p)' <=> Needed(p)
      /\ \A q : /\ WillStart(q)' <=> WillStart(q)
                /\ WillLook(q)' <=> WillLook(q)
  BY <1>a, Still
<1>c. /\ isr = NoIsr <=> isr.at = "idle"
      /\ isr = NoIsr <=> isr.ring = "none"
      /\ isr # NoIsr => isr.ring \in Rings
  BY <1>0, IsrFacts DEF Types
<1> USE DEF PollCallback, NapiStep, ConfigCallback, power, hwVars
<1>1. Types' BY <1>0, <1>b, <1>c, RingFacts DEF Types, NoIsr
<1>2. SeqTypes' /\ seq.doing = "idle" /\ clk
  <2>1. seq.doing = "idle" /\ clk
    <3>1. r \in Voters /\ votes[r] > 0 /\ votes[r] \in Nat /\ clk
      BY <1>0 DEF Unvoted, Types, Voters
    <3> QED BY <1>0, <3>1 DEF Unvoted
  <2> QED BY <1>0, <1>1, <1>b, <1>c, <2>1 DEF SeqTypes, Idle
<1>3. Unvoted' BY <1>0, <1>b, <1>c DEF Unvoted, Types
<1>4. Pollers' BY <1>0, <1>b, <1>c DEF Pollers, Types, Handler
<1>5. Handler' BY <1>0, <1>1, <1>b, <1>c DEF Handler, Types, Pollers, NoIsr
<1>6. Channels' BY <1>0, <1>b DEF Channels, LeftBehind
<1>7. Coalescing' BY <1>0, <1>b DEF Coalescing
<1>8. Parking' BY <1>0, <1>2, <1>b, <1>c DEF Parking, Parked
<1>9. Quiet' BY <1>0, <1>b DEF Quiet
<1>10. Masked' BY <1>0, <1>b, <1>c DEF Masked, LeftBehind, Types, NoIsr
<1>11. Noticed' BY <1>0, <1>b, <1>c DEF Noticed, Types, NoIsr
<1> QED
  BY <1>1, <1>2, <1>3, <1>4, <1>5, <1>6, <1>7, <1>8, <1>9, <1>10, <1>11 DEF IInv

-----------------------------------------------------------------------------
(* The thread in the sequence: it goes on to the next entry, or it goes on *)
(* with the entry it has.                                                  *)

\* A thread that has something to do has a first entry.
LEMMA EntryFacts ==
    ASSUME SeqTypes, seq.todo # {}
    PROVE  /\ Entry \in seq.todo /\ Entry \in Entries /\ Needed(Entry)
           /\ seq.doing # "idle"
           /\ seq.doing # "undo" =>
                \A x \in seq.todo : SuspendOrder[Entry] <= SuspendOrder[x]
           /\ Entry \in Pipes => Entry \in valid
           /\ seq.at # "chan" => Entry \in Consumers /\ Configurer(Entry)
<1>1. /\ seq.todo \in SUBSET Entries
      /\ seq.doing = "undo" => seq.todo \subseteq Consumers
  BY DEF SeqTypes
<1>2. /\ Entry \in seq.todo
      /\ seq.doing # "undo" =>
           \A x \in seq.todo : SuspendOrder[Entry] <= SuspendOrder[x]
  BY <1>1, EntryFirst
<1>3. Entry \in Entries /\ Needed(Entry) BY <1>1, <1>2 DEF SeqTypes
<1>4. seq.doing # "idle" BY DEF SeqTypes, Idle
<1>5. Entry \in Pipes => Entry \in valid
  BY <1>3 DEF Needed, Pipes, Consumers, Producers
<1>6. seq.at # "chan" => Entry \in Consumers /\ Configurer(Entry)
  BY DEF SeqTypes, Configurer, ConfiguresMode
<1> QED BY <1>2, <1>3, <1>4, <1>5, <1>6

LEMMA Advance ==
    ASSUME SeqTypes, seq.todo # {}, NextEntry, UNCHANGED <<hw, valid, clk, work>>
    PROVE  /\ seq'.doing = seq.doing /\ seq'.who = seq.who /\ seq'.at = "chan"
           /\ seq'.todo = seq.todo \ {Entry}
           /\ SeqTypes'
           /\ \A p : Configurer(p)' <=> Configurer(p)
           /\ \A r : ~WillLook(r)'
           /\ seq.doing = "suspend" =>
                \A p : /\ Stopped(p)' <=> Stopped(p) \/ (p = Entry /\ p \in valid)
                       /\ Parked(p)' <=> Parked(p) \/ (p = Entry /\ Configurer(p))
           /\ seq.doing # "suspend" /\ clk =>
                \A p : /\ Stopped(p)' <=> Stopped(p) /\ p # Entry
                       /\ Parked(p)' <=> Parked(p) /\ p # Entry
<1>0. seq \in [doing : {"idle", "suspend", "undo", "resume"},
               who : Voters \cup {"none"}, todo : SUBSET Entries,
               at : {"chan", "mode", "quiet", "callback"}]
  BY DEF SeqTypes
<1>1. /\ seq'.doing = seq.doing /\ seq'.who = seq.who /\ seq'.at = "chan"
      /\ seq'.todo = seq.todo \ {Entry}
      /\ seq' \in [doing : {"idle", "suspend", "undo", "resume"},
                   who : Voters \cup {"none"}, todo : SUBSET Entries,
                   at : {"chan", "mode", "quiet", "callback"}]
  BY <1>0 DEF NextEntry
<1>2. /\ Entry \in seq.todo /\ Entry \in Entries
      /\ seq.doing # "idle"
      /\ seq.doing # "undo" =>
           \A x \in seq.todo : SuspendOrder[Entry] <= SuspendOrder[x]
  BY EntryFacts
<1>3. /\ \A p : Configurer(p)' <=> Configurer(p)
      /\ \A e : Needed(e)' <=> Needed(e)
  BY DEF Configurer, ConfiguresMode, Needed
<1>4. ASSUME seq.doing = "suspend", NEW e \in Entries, NEW x \in seq.todo \ {Entry},
             Needed(e), SuspendOrder[x] <= SuspendOrder[e]
      PROVE  e \in seq.todo \ {Entry}
  <2>1. e \in seq.todo BY <1>4 DEF SeqTypes
  <2>2. SuspendOrder[Entry] <= SuspendOrder[x] /\ x \in Entries
    BY <1>0, <1>2, <1>4
  <2>3. ASSUME e = Entry PROVE SuspendOrder[x] = SuspendOrder[Entry]
    BY <1>2, <1>4, <2>2, <2>3, Orders
  <2>4. e # Entry BY <1>2, <1>4, <2>2, <2>3, Orders
  <2> QED BY <2>1, <2>4
<1>5. SeqTypes'
  <2>1. seq'.doing = "undo" => seq'.todo \subseteq Consumers BY <1>1 DEF SeqTypes
  <2>2. seq'.doing = "resume" => /\ seq'.who \in Voters
                                 /\ seq'.who \in Rings => seq'.who \in work'
    BY <1>1 DEF SeqTypes
  <2>3. \A e \in seq'.todo : Needed(e)' BY <1>1, <1>3 DEF SeqTypes
  <2>4. seq'.doing = "suspend" =>
          \A e \in Entries, x \in seq'.todo :
            Needed(e)' /\ SuspendOrder[x] <= SuspendOrder[e] => e \in seq'.todo
    BY <1>1, <1>3, <1>4
  <2> QED BY <1>1, <1>2, <2>1, <2>2, <2>3, <2>4 DEF SeqTypes
<1>6. \A r : ~WillLook(r)' BY <1>1 DEF WillLook
<1>7. \A p : ~AtEntry(p)' BY <1>1 DEF AtEntry
<1>8. ASSUME seq.doing = "suspend", NEW p
      PROVE  /\ Stopped(p)' <=> Stopped(p) \/ (p = Entry /\ p \in valid)
             /\ Parked(p)' <=> Parked(p) \/ (p = Entry /\ Configurer(p))
  <2>1. Stopped(p)' <=> Stopped(p) \/ (p = Entry /\ p \in valid)
    BY <1>1, <1>7, <1>8 DEF Stopped, AtEntry
  <2>2. Parked(p)' <=> Parked(p) \/ (p = Entry /\ Configurer(p))
    BY <1>1, <1>3, <1>8 DEF Parked
  <2> QED BY <2>1, <2>2
<1>9. ASSUME seq.doing # "suspend", clk, NEW p
      PROVE  /\ Stopped(p)' <=> Stopped(p) /\ p # Entry
             /\ Parked(p)' <=> Parked(p) /\ p # Entry
  <2>1. Stopped(p)' <=> Stopped(p) /\ p # Entry
    BY <1>1, <1>7, <1>9 DEF Stopped, AtEntry
  <2>2. Parked(p)' <=> Parked(p) /\ p # Entry
    BY <1>1, <1>3, <1>9 DEF Parked
  <2> QED BY <2>1, <2>2
<1> QED BY <1>1, <1>3, <1>5, <1>6, <1>8, <1>9

\* What SeqTypes says apart from the control point within an entry.
LEMMA Turned ==
    ASSUME SeqTypes, seq.todo # {}, NEW at \in {"mode", "quiet", "callback"},
           Turn(at), Configurer(Entry), UNCHANGED <<hw, valid, clk, work>>,
           at = "quiet" => seq.doing = "suspend" /\ Ring[Entry] \in mode',
           at = "callback" => /\ seq.doing \in {"undo", "resume"}
                              /\ Ring[Entry] \notin polling'
    PROVE  /\ seq'.doing = seq.doing /\ seq'.who = seq.who /\ seq'.at = at
           /\ seq'.todo = seq.todo
           /\ Entry' = Entry
           /\ SeqTypes'
           /\ \A p : Configurer(p)' <=> Configurer(p)
           /\ \A p : Parked(p)' <=> Parked(p)
           /\ \A r : WillLook(r)' <=> at = "quiet" /\ r = Ring[Entry]
           /\ seq.doing = "suspend" =>
                \A p : Stopped(p)' <=> Stopped(p) \/ p = Entry
           /\ seq.doing # "suspend" /\ clk =>
                \A p : Stopped(p)' <=> Stopped(p) /\ p # Entry
<1>0. seq \in [doing : {"idle", "suspend", "undo", "resume"},
               who : Voters \cup {"none"}, todo : SUBSET Entries,
               at : {"chan", "mode", "quiet", "callback"}]
  BY DEF SeqTypes
<1>1. /\ seq'.doing = seq.doing /\ seq'.who = seq.who /\ seq'.at = at
      /\ seq'.todo = seq.todo
      /\ seq' \in [doing : {"idle", "suspend", "undo", "resume"},
                   who : Voters \cup {"none"}, todo : SUBSET Entries,
                   at : {"chan", "mode", "quiet", "callback"}]
  BY <1>0 DEF Turn
<1>2. Entry' = Entry BY <1>1 DEF Entry
<1>3. /\ \A p : Configurer(p)' <=> Configurer(p)
      /\ \A e : Needed(e)' <=> Needed(e)
  BY DEF Configurer, ConfiguresMode, Needed
<1>4. seq.doing # "idle" /\ Entry \in seq.todo BY EntryFacts
<1>5. SeqTypes'
  <2>1. /\ seq'.doing = "undo" => seq'.todo \subseteq Consumers
        /\ seq'.doing = "resume" => /\ seq'.who \in Voters
                                    /\ seq'.who \in Rings => seq'.who \in work'
    BY <1>1 DEF SeqTypes
  <2>2. \A e \in seq'.todo : Needed(e)' BY <1>1, <1>3 DEF SeqTypes
  <2>3. seq'.doing = "suspend" =>
          \A e \in Entries, x \in seq'.todo :
            Needed(e)' /\ SuspendOrder[x] <= SuspendOrder[e] => e \in seq'.todo
    BY <1>1, <1>3 DEF SeqTypes
  <2> QED BY <1>1, <1>2, <1>3, <1>4, <2>1, <2>2, <2>3 DEF SeqTypes
<1>6. \A p : Parked(p)' <=> Parked(p) BY <1>1, <1>3 DEF Parked
<1>7. \A r : WillLook(r)' <=> at = "quiet" /\ r = Ring[Entry]
  BY <1>1, <1>2 DEF WillLook
<1>8. Entry \in valid BY DEF Configurer
<1>9. \A p : AtEntry(p)' <=> p = Entry BY <1>1, <1>2 DEF AtEntry
<1>10. seq.doing = "suspend" => \A p : Stopped(p)' <=> Stopped(p) \/ p = Entry
  BY <1>1, <1>8, <1>9 DEF Stopped, AtEntry
<1>11. seq.doing # "suspend" /\ clk =>
         \A p : Stopped(p)' <=> Stopped(p) /\ p # Entry
  BY <1>1, <1>8, <1>9 DEF Stopped, AtEntry
<1> QED BY <1>1, <1>2, <1>3, <1>5, <1>6, <1>7, <1>10, <1>11

-----------------------------------------------------------------------------
(* The steps of a suspension.                                              *)

LEMMA StopPipeStep ==
    ASSUME IInv, StopPipe
    PROVE  IInv'
<1>0. /\ Types /\ SeqTypes /\ Unvoted /\ Pollers /\ Handler /\ Channels
      /\ Coalescing /\ Parking /\ Quiet /\ Masked /\ Noticed
  BY DEF IInv
<1>a. /\ seq.doing = "suspend" /\ seq.todo # {} /\ seq.at = "chan" /\ clk
      /\ Entry \in Pipes /\ Entry \in valid /\ chan' = chan \ {Entry}
      /\ UNCHANGED <<hw, valid, mode, data, ieob, polling, work, napi, isr,
                     coal, holb, clk, votes>>
  BY <1>0, EntryFacts DEF StopPipe, Doing, hwVars, Unvoted
<1>b. /\ SeqTypes' /\ seq'.doing = "suspend"
      /\ \A p : Stopped(p)' <=> Stopped(p) \/ p = Entry
      /\ \A p : Parked(p)' <=> Parked(p)
      /\ \A r : ~WillLook(r)'
      /\ \A e : e \in seq'.todo <=> e \in seq.todo /\ (e # Entry \/ Configurer(e))
  <2>1. CASE ConfiguresMode(Entry)
    <3>1. Turn("mode") /\ Configurer(Entry)
      BY <1>a, <2>1 DEF StopPipe, AfterChan, Configurer
    <3> QED BY <1>0, <1>a, <3>1, Turned
  <2>2. CASE ~ConfiguresMode(Entry)
    <3>1. NextEntry /\ ~Configurer(Entry)
      BY <1>a, <2>2 DEF StopPipe, AfterChan, Configurer
    <3> QED BY <1>0, <1>a, <3>1, Advance
  <2> QED BY <2>1, <2>2
<1>c. /\ \A r : ~WillLook(r) /\ ~WillStart(r) /\ ~WillStart(r)'
      /\ \A p : LeftBehind(p) => LeftBehind(p)'
  BY <1>a, <1>b DEF WillLook, WillStart, LeftBehind
<1>1. Types' BY <1>0, <1>a DEF Types
<1>2. SeqTypes' BY <1>b
<1>3. Unvoted' BY <1>0, <1>a, <1>b DEF Unvoted
<1>4. Pollers' BY <1>0, <1>a, <1>b DEF Pollers
<1>5. Handler' BY <1>0, <1>a, <1>b DEF Handler

<1>6. Channels' BY <1>0, <1>a, <1>b, <1>c DEF Channels
<1>7. Coalescing'
  <2>1. Entry # "start_coal" BY <1>a DEF Pipes, Consumers, Producers
  <2> QED BY <1>0, <1>a, <1>b, <2>1 DEF Coalescing
<1>8. Parking' BY <1>0, <1>a, <1>b, <1>c DEF Parking, Locked
<1>9. Quiet'
  <2>1. \A p \in {"ODL", "LL", "LLD"} \cap valid : Configurer(p) BY OwnRing
  <2> QED BY <1>0, <1>a, <1>b, <2>1 DEF Quiet
<1>10. Masked' BY <1>0, <1>a, <1>b, <1>c DEF Masked
<1>11. Noticed' BY <1>0, <1>a, <1>b, <1>c DEF Noticed
<1> QED
  BY <1>1, <1>2, <1>3, <1>4, <1>5, <1>6, <1>7, <1>8, <1>9, <1>10, <1>11 DEF IInv

LEMMA PollPipeStep ==
    ASSUME IInv, PollPipe
    PROVE  IInv'
<1>0. /\ Types /\ SeqTypes /\ Unvoted /\ Pollers /\ Handler /\ Channels
      /\ Coalescing /\ Parking /\ Quiet /\ Masked /\ Noticed
  BY DEF IInv
<1>a. /\ seq.doing = "suspend" /\ seq.todo # {} /\ seq.at = "mode" /\ clk
      /\ Entry \in Consumers /\ Configurer(Entry) /\ Entry \in seq.todo
      /\ mode' = mode \cup {Ring[Entry]} /\ Turn("quiet")
      /\ ieob' = ieob \/ ieob' = ieob \ {Ring[Entry]}
      /\ UNCHANGED <<hw, valid, chan, data, polling, work, napi, isr,
                     coal, holb, clk, votes>>
  BY <1>0, EntryFacts DEF PollPipe, ConfigPoll, Doing, hwVars, Unvoted
<1>b. /\ SeqTypes' /\ seq'.doing = "suspend" /\ seq'.todo = seq.todo
      /\ \A p : Stopped(p)' <=> Stopped(p) \/ p = Entry
      /\ \A p : Parked(p)' <=> Parked(p)
      /\ \A r : WillLook(r)' <=> r = Ring[Entry]
  BY <1>0, <1>a, Turned
<1>c. /\ \A r : ~WillLook(r) /\ ~WillStart(r) /\ ~WillStart(r)'
      /\ \A p : LeftBehind(p) => LeftBehind(p)'
      /\ Stopped(Entry)
  <2>1. Entry \in valid BY <1>a DEF Configurer
  <2> QED BY <1>a, <1>b, <2>1 DEF WillLook, WillStart, LeftBehind, Stopped, AtEntry
<1>d. Ring[Entry] \in Rings
  <2>1. Entry \in valid /\ valid \in Configs BY <1>0, <1>a DEF Configurer, Types
  <2> QED BY <1>a, <2>1, RingOfValid
<1>1. Types' BY <1>0, <1>a, <1>d DEF Types
<1>2. SeqTypes' BY <1>b
<1>3. Unvoted' BY <1>0, <1>a, <1>b DEF Unvoted
<1>4. Pollers' BY <1>0, <1>a, <1>b DEF Pollers
<1>5. Handler' BY <1>0, <1>a, <1>b DEF Handler

<1>6. Channels' BY <1>0, <1>a, <1>b, <1>c DEF Channels
<1>7. Coalescing' BY <1>0, <1>a, <1>b DEF Coalescing
<1>8. Parking'
  <2>1. ASSUME NEW p \in Consumers, Parked(p) PROVE Ring[p] # Ring[Entry]
    <3>1. Configurer(p) /\ p # Entry BY <1>a, <2>1 DEF Parked
    <3> QED BY <1>a, <3>1, OneConfigurer
  <2> QED BY <1>0, <1>a, <1>b, <1>c, <2>1 DEF Parking, Locked
<1>9. Quiet' BY <1>0, <1>a, <1>b DEF Quiet
<1>10. Masked' BY <1>0, <1>a, <1>b, <1>c DEF Masked
<1>11. Noticed' BY <1>0, <1>a, <1>b, <1>c DEF Noticed
<1> QED
  BY <1>1, <1>2, <1>3, <1>4, <1>5, <1>6, <1>7, <1>8, <1>9, <1>10, <1>11 DEF IInv

LEMMA StartCoalescingStep ==
    ASSUME IInv, StartCoalescing
    PROVE  IInv'
<1>0. /\ Types /\ SeqTypes /\ Unvoted /\ Pollers /\ Handler /\ Channels
      /\ Coalescing /\ Parking /\ Quiet /\ Masked /\ Noticed
  BY DEF IInv
<1>a. /\ seq.doing \in {"suspend"} /\ seq.todo # {} /\ clk
      /\ Entry = "start_coal" /\ NextEntry
      /\ UNCHANGED <<hw, valid, chan, mode, data, ieob, polling, work, napi, isr,
                     holb, clk, votes>>
  BY <1>0 DEF StartCoalescing, Doing, hwVars, Unvoted
<1>b. coal' = FALSE /\ holb' = holb
  BY <1>0 DEF StartCoalescing, Types
<1>c. Entry \notin valid /\ Entry \notin Consumers
  <2>1. valid \subseteq Pipes BY <1>0, ConfigsAssumption DEF Types
  <2> QED BY <1>a, <2>1 DEF Pipes, Consumers, Producers
<1>d. /\ SeqTypes' /\ seq'.doing = seq.doing /\ seq'.todo = seq.todo \ {Entry}
      /\ \A p : Stopped(p)' <=> Stopped(p)
      /\ \A p : Parked(p)' <=> Parked(p)
      /\ \A r : ~WillLook(r)'
  <2>1. \A p : Stopped(p) => p # Entry BY <1>c DEF Stopped
  <2>2. \A p : Configurer(p) => p # Entry BY <1>c DEF Configurer
  <2>3. \A p : Parked(p) => p # Entry BY <2>2 DEF Parked
  <2> QED BY <1>0, <1>a, <1>c, <2>1, <2>2, <2>3, Advance
<1>e. /\ \A r : WillStart(r)' <=> WillStart(r)
      /\ \A r : ~WillLook(r)
      /\ \A p : LeftBehind(p) <=> LeftBehind(p)'
  <2>1. seq.at = "chan" BY <1>0, <1>a, <1>c, EntryFacts
  <2> QED BY <1>a, <1>c, <1>d, <2>1 DEF WillStart, WillLook, LeftBehind
<1>1. Types' BY <1>0, <1>a, <1>b DEF Types
<1>2. SeqTypes' BY <1>d
<1>3. Unvoted' BY <1>0, <1>a, <1>d DEF Unvoted
<1>4. Pollers' BY <1>0, <1>a DEF Pollers
<1>5. Handler' BY <1>0, <1>a DEF Handler
<1>6. Channels' BY <1>0, <1>a, <1>d, <1>e DEF Channels
<1>7. Coalescing' BY <1>0, <1>a, <1>b, <1>d DEF Coalescing
<1>8. Parking' BY <1>0, <1>a, <1>d, <1>e DEF Parking, Locked
<1>9. Quiet' BY <1>0, <1>a, <1>c, <1>d DEF Quiet
<1>10. Masked' BY <1>0, <1>a, <1>d, <1>e DEF Masked
<1>11. Noticed' BY <1>0, <1>a, <1>d, <1>e DEF Noticed
<1> QED
  BY <1>1, <1>2, <1>3, <1>4, <1>5, <1>6, <1>7, <1>8, <1>9, <1>10, <1>11 DEF IInv

LEMMA WriteHolbStep ==
    ASSUME IInv, WriteHolb
    PROVE  IInv'
<1>0. /\ Types /\ SeqTypes /\ Unvoted /\ Pollers /\ Handler /\ Channels
      /\ Coalescing /\ Parking /\ Quiet /\ Masked /\ Noticed
  BY DEF IInv
<1>a. /\ seq.doing \in {"suspend", "resume"} /\ seq.todo # {} /\ clk
      /\ Entry = "holb" /\ NextEntry
      /\ UNCHANGED <<hw, valid, chan, mode, data, ieob, polling, work, napi, isr,
                     coal, clk, votes>>
  BY <1>0 DEF WriteHolb, Doing, hwVars, Unvoted
<1>b. coal' = coal /\ holb' \in BOOLEAN
  BY <1>0 DEF WriteHolb, Types
<1>c. Entry \notin valid /\ Entry \notin Consumers
  <2>1. valid \subseteq Pipes BY <1>0, ConfigsAssumption DEF Types
  <2> QED BY <1>a, <2>1 DEF Pipes, Consumers, Producers
<1>d. /\ SeqTypes' /\ seq'.doing = seq.doing /\ seq'.todo = seq.todo \ {Entry}
      /\ \A p : Stopped(p)' <=> Stopped(p)
      /\ \A p : Parked(p)' <=> Parked(p)
      /\ \A r : ~WillLook(r)'
  <2>1. \A p : Stopped(p) => p # Entry BY <1>c DEF Stopped
  <2>2. \A p : Configurer(p) => p # Entry BY <1>c DEF Configurer
  <2>3. \A p : Parked(p) => p # Entry BY <2>2 DEF Parked
  <2> QED BY <1>0, <1>a, <1>c, <2>1, <2>2, <2>3, Advance
<1>e. /\ \A r : WillStart(r)' <=> WillStart(r)
      /\ \A r : ~WillLook(r)
      /\ \A p : LeftBehind(p) <=> LeftBehind(p)'
  <2>1. seq.at = "chan" BY <1>0, <1>a, <1>c, EntryFacts
  <2> QED BY <1>a, <1>c, <1>d, <2>1 DEF WillStart, WillLook, LeftBehind
<1>1. Types' BY <1>0, <1>a, <1>b DEF Types
<1>2. SeqTypes' BY <1>d
<1>3. Unvoted' BY <1>0, <1>a, <1>d DEF Unvoted
<1>4. Pollers' BY <1>0, <1>a DEF Pollers
<1>5. Handler' BY <1>0, <1>a DEF Handler
<1>6. Channels' BY <1>0, <1>a, <1>d, <1>e DEF Channels
<1>7. Coalescing' BY <1>0, <1>a, <1>b, <1>d DEF Coalescing
<1>8. Parking' BY <1>0, <1>a, <1>d, <1>e DEF Parking, Locked
<1>9. Quiet' BY <1>0, <1>a, <1>c, <1>d DEF Quiet
<1>10. Masked' BY <1>0, <1>a, <1>d, <1>e DEF Masked
<1>11. Noticed' BY <1>0, <1>a, <1>d, <1>e DEF Noticed
<1> QED
  BY <1>1, <1>2, <1>3, <1>4, <1>5, <1>6, <1>7, <1>8, <1>9, <1>10, <1>11 DEF IInv

-----------------------------------------------------------------------------
(* The undo chain: what the suspension has done so far is what the chain   *)
(* of labels has to undo.                                                  *)

\* The pipes before the entry whose turn it is are stopped.
LEMMA StoppedSoFar ==
    ASSUME Types, SeqTypes, seq.doing = "suspend", seq.todo # {},
           NEW p \in valid, p # Entry
    PROVE  /\ p \in Entries
           /\ p \notin seq.todo <=> SuspendOrder[p] < SuspendOrder[Entry]
<1>1. p \in Pipes BY ConfigsAssumption DEF Types
<1>2. p \in Entries /\ Needed(p)
  BY <1>1 DEF Entries, Needed, Pipes, Consumers, Producers
<1>3. /\ Entry \in seq.todo /\ Entry \in Entries
      /\ \A x \in seq.todo : SuspendOrder[Entry] <= SuspendOrder[x]
  BY EntryFacts
<1>4. SuspendOrder[p] \in Nat /\ SuspendOrder[Entry] \in Nat BY <1>2, <1>3, Orders
<1>5. SuspendOrder[Entry] <= SuspendOrder[p] => p \in seq.todo
  BY <1>2, <1>3 DEF SeqTypes
<1> QED BY <1>2, <1>3, <1>4, <1>5

\* The chain that begins at a label, as a set.
LEMMA UndoBegun ==
    ASSUME Types, SeqTypes, NEW p \in Consumers, Undo(p), clk,
           UNCHANGED <<hw, valid, clk>>
    PROVE  /\ SeqTypes' /\ seq'.doing = "undo" /\ seq'.at = "chan" /\ coal' = FALSE
           /\ seq'.todo = UndoFrom(p) \cap valid
           /\ \A q : Configurer(q)' <=> Configurer(q)
           /\ \A q : Stopped(q)' <=> q \in UndoFrom(p) \cap valid
           /\ \A q : Parked(q)' <=> Configurer(q) /\ q \in UndoFrom(p)
           /\ \A r : ~WillLook(r)'
<1>1. /\ seq' = [doing |-> "undo", who |-> seq.who,
                 todo |-> {e \in UndoFrom(p) : Needed(e)}, at |-> "chan"]
      /\ coal' = FALSE
  BY DEF Undo, Begin
<1>2. UndoFrom(p) \subseteq Consumers BY UndoExact
<1>3. \A e \in Consumers : Needed(e) <=> e \in valid
  BY DEF Needed, Pipes, Consumers, Producers
<1>4. /\ seq'.doing = "undo" /\ seq'.at = "chan" /\ seq'.who = seq.who
      /\ seq'.todo = UndoFrom(p) \cap valid
  BY <1>1, <1>2, <1>3
<1>5. /\ \A q : Configurer(q)' <=> Configurer(q)
      /\ \A e : Needed(e)' <=> Needed(e)
  BY DEF Configurer, ConfiguresMode, Needed
<1>6. SeqTypes'
  <2>1. seq.who \in Voters \cup {"none"} BY DEF SeqTypes
  <2>2. seq'.todo \subseteq Consumers /\ seq'.todo \in SUBSET Entries
    BY <1>2, <1>4, Orders
  <2>3. seq' \in [doing : {"idle", "suspend", "undo", "resume"},
                  who : Voters \cup {"none"}, todo : SUBSET Entries,
                  at : {"chan", "mode", "quiet", "callback"}]
    BY <1>1, <2>1, <2>2, <1>4
  <2>4. \A e \in seq'.todo : Needed(e)' BY <1>2, <1>3, <1>4, <1>5
  <2> QED BY <1>4, <2>2, <2>3, <2>4 DEF SeqTypes
<1>7. \A q : ~AtEntry(q)' BY <1>4 DEF AtEntry
<1>8. \A q : Stopped(q)' <=> q \in UndoFrom(p) \cap valid
  BY <1>4, <1>7 DEF Stopped
<1>9. \A q : Parked(q)' <=> Configurer(q) /\ q \in UndoFrom(p)
  <2>1. \A q : Configurer(q) => q \in valid BY DEF Configurer
  <2> QED BY <1>4, <1>5, <2>1 DEF Parked
<1>10. \A r : ~WillLook(r)' BY <1>4 DEF WillLook
<1> QED BY <1>1, <1>4, <1>5, <1>6, <1>8, <1>9, <1>10

LEMMA QuietPipeStep ==
    ASSUME IInv, QuietPipe
    PROVE  IInv'
<1>0. /\ Types /\ SeqTypes /\ Unvoted /\ Pollers /\ Handler /\ Channels
      /\ Coalescing /\ Parking /\ Quiet /\ Masked /\ Noticed
  BY DEF IInv
<1>a. /\ seq.doing = "suspend" /\ seq.todo # {} /\ seq.at = "quiet" /\ clk
      /\ Entry \in Consumers /\ Configurer(Entry) /\ Entry \in seq.todo
      /\ Entry \in valid /\ Ring[Entry] \in mode /\ ~Locked(Ring[Entry])
      /\ UNCHANGED <<hw, valid, chan, mode, data, ieob, polling, work, napi, isr,
                     holb, clk, votes>>
  BY <1>0, EntryFacts DEF QuietPipe, Doing, hwVars, Unvoted, SeqTypes, Configurer
<1>b. /\ SeqTypes' /\ seq'.doing \in {"suspend", "undo"}
      /\ coal' \in BOOLEAN /\ Coalescing'
      /\ \A p : Stopped(p)' <=> Stopped(p)
      /\ \A p : Parked(p)' <=> Parked(p) \/ p = Entry
      /\ \A r : ~WillLook(r)'
      /\ seq'.doing = "suspend" =>
            seq'.todo = seq.todo \ {Entry} /\ Ring[Entry] \notin data
      /\ seq'.doing = "undo" => \A r : r = Ring[Entry] => WillStart(r)'
  <2>0. Stopped(Entry) /\ Entry # "start_coal"
    BY <1>a DEF Stopped, AtEntry, Consumers
  <2>1. CASE Ring[Entry] \notin data /\ NextEntry /\ coal' = coal
    <3>1. /\ SeqTypes' /\ seq'.doing = "suspend" /\ seq'.todo = seq.todo \ {Entry}
          /\ \A r : ~WillLook(r)'
          /\ \A p : /\ Stopped(p)' <=> Stopped(p) \/ (p = Entry /\ p \in valid)
                    /\ Parked(p)' <=> Parked(p) \/ (p = Entry /\ Configurer(p))
      BY <1>0, <1>a, <2>1, Advance
    <3>2. coal' \in BOOLEAN /\ Coalescing'
      BY <1>0, <1>a, <2>0, <2>1, <3>1 DEF Coalescing, Types
    <3> QED BY <1>a, <2>0, <2>1, <3>1, <3>2
  <2>2. CASE Undo(Entry)
    <3>1. /\ SeqTypes' /\ seq'.doing = "undo" /\ coal' = FALSE
          /\ seq'.todo = UndoFrom(Entry) \cap valid
          /\ \A p : Stopped(p)' <=> p \in UndoFrom(Entry) \cap valid
          /\ \A p : Parked(p)' <=> Configurer(p) /\ p \in UndoFrom(Entry)
          /\ \A r : ~WillLook(r)'
      BY <1>0, <1>a, <2>2, UndoBegun
    <3>2. /\ \A p \in Consumers \cap valid :
                p \in UndoFrom(Entry) <=> SuspendOrder[p] <= SuspendOrder[Entry]
          /\ UndoFrom(Entry) \subseteq Consumers
      BY <1>a, UndoExact
    <3>3. ASSUME NEW p \in valid
          PROVE  p \in UndoFrom(Entry) <=> p \notin seq.todo \/ p = Entry
      <4>1. CASE p = Entry BY <1>a, <3>2, <4>1, Orders
      <4>2. CASE p # Entry
        <5>1. /\ p \in Entries
              /\ p \notin seq.todo <=> SuspendOrder[p] < SuspendOrder[Entry]
          BY <1>0, <1>a, <4>2, StoppedSoFar
        <5>2. /\ SuspendOrder[p] \in Nat /\ SuspendOrder[Entry] \in Nat
              /\ SuspendOrder[p] # SuspendOrder[Entry]
          BY <1>a, <4>2, <5>1, Orders
        <5>3. CASE p \in Consumers BY <3>2, <4>2, <5>1, <5>2, <5>3
        <5>4. CASE p \notin Consumers
          <6>1. p \in Pipes BY <1>0, ConfigsAssumption DEF Types
          <6>2. SuspendOrder[Entry] < SuspendOrder[p]
            BY <1>a, <5>4, <6>1 DEF Pipes, Consumers, Producers, SuspendOrder
          <6> QED BY <3>2, <4>2, <5>1, <5>2, <5>4, <6>2
        <5> QED BY <5>3, <5>4
      <4> QED BY <4>1, <4>2
    <3>4. \A p : Stopped(p)' <=> Stopped(p)
      BY <1>a, <3>1, <3>3 DEF Stopped, AtEntry
    <3>5. \A p : Parked(p)' <=> Parked(p) \/ p = Entry
      BY <1>a, <3>1, <3>3 DEF Parked, Configurer
    <3>6. \A r : r = Ring[Entry] => WillStart(r)'
      <4>1. Entry \in UndoFrom(Entry) \cap valid BY <1>a, <3>3
      <4>2. Entry \notin chan BY <1>0, <1>a, <2>0 DEF Channels
      <4> QED BY <1>a, <3>1, <4>1, <4>2 DEF WillStart
    <3> QED BY <3>1, <3>4, <3>5, <3>6 DEF Coalescing
  <2> QED BY <1>a, <2>1, <2>2 DEF QuietPipe
<1>c. /\ \A r : ~WillStart(r)
      /\ \A r : WillLook(r) => r = Ring[Entry]
      /\ \A p : LeftBehind(p) <=> LeftBehind(p)'
  BY <1>a DEF WillLook, WillStart, LeftBehind
<1>1. Types' BY <1>0, <1>a, <1>b DEF Types
<1>2. SeqTypes' BY <1>b
<1>3. Unvoted' BY <1>0, <1>a, <1>b DEF Unvoted
<1>4. Pollers' BY <1>0, <1>a, <1>b DEF Pollers
<1>5. Handler' BY <1>0, <1>a, <1>b DEF Handler

<1>6. Channels' BY <1>0, <1>a, <1>b, <1>c DEF Channels
<1>7. Coalescing' BY <1>b
<1>8. Parking' BY <1>0, <1>a, <1>b, <1>c DEF Parking, Locked
<1>9. Quiet'
  <2>1. \A p \in {"ODL", "LL", "LLD"} : Ring[p] = p BY OwnRing
  <2> QED BY <1>0, <1>a, <1>b, <2>1 DEF Quiet
<1>10. Masked' BY <1>0, <1>a, <1>b, <1>c DEF Masked
<1>11. Noticed' BY <1>0, <1>a, <1>b, <1>c DEF Noticed
<1> QED
  BY <1>1, <1>2, <1>3, <1>4, <1>5, <1>6, <1>7, <1>8, <1>9, <1>10, <1>11 DEF IInv

LEMMA CheckHwStep ==
    ASSUME IInv, CheckHw
    PROVE  IInv'
<1>0. /\ Types /\ SeqTypes /\ Unvoted /\ Pollers /\ Handler /\ Channels
      /\ Coalescing /\ Parking /\ Quiet /\ Masked /\ Noticed
  BY DEF IInv
<1>a. /\ seq.doing = "suspend" /\ seq.todo # {} /\ clk /\ Entry = "check"
      /\ UNCHANGED <<hw, valid, chan, mode, data, ieob, polling, work, napi, isr,
                     holb, clk, votes>>
  BY <1>0 DEF CheckHw, Doing, hwVars, Unvoted
<1>b. Entry \notin valid /\ Entry \notin Consumers
  <2>1. valid \subseteq Pipes BY <1>0, ConfigsAssumption DEF Types
  <2> QED BY <1>a, <2>1 DEF Pipes, Consumers, Producers
<1>c. seq.at = "chan" BY <1>0, <1>a, <1>b, EntryFacts
<1>d. \A p \in valid : p \notin seq.todo <=> p \in Consumers
  <2> SUFFICES ASSUME NEW p \in valid PROVE p \notin seq.todo <=> p \in Consumers
    OBVIOUS
  <2>1. p \notin seq.todo <=> SuspendOrder[p] < SuspendOrder[Entry]
    BY <1>0, <1>a, <1>b, StoppedSoFar
  <2>2. p \in Pipes BY <1>0, ConfigsAssumption DEF Types
  <2> QED BY <1>a, <2>1, <2>2 DEF Pipes, Consumers, Producers, SuspendOrder
<1>e. /\ \A p : Stopped(p) <=> p \in Consumers \cap valid
      /\ \A p : Parked(p) <=> Configurer(p)
  <2>1. \A p : Configurer(p) => p \in Consumers \cap valid
    BY DEF Configurer, ConfiguresMode
  <2> QED BY <1>a, <1>c, <1>d, <2>1 DEF Stopped, AtEntry, Parked
<1>f. /\ SeqTypes' /\ seq'.doing \in {"suspend", "undo"}
      /\ coal' \in BOOLEAN /\ Coalescing'
      /\ \A r : ~WillLook(r)'
      /\ seq'.doing = "suspend" => seq'.todo = seq.todo \ {Entry}
      /\ \A p : Stopped(p)' => Stopped(p)
      /\ \A p : Stopped(p) => Stopped(p)' \/ (p = "LLD" /\ hw = "v4")
      /\ \A p : Parked(p)' => Parked(p)
      /\ \A p : Parked(p) => Parked(p)' \/ (p = "LLD" /\ hw = "v4")
  <2>1. CASE NextEntry /\ coal' = coal
    <3>1. /\ SeqTypes' /\ seq'.doing = "suspend" /\ seq'.todo = seq.todo \ {Entry}
          /\ \A r : ~WillLook(r)'
          /\ \A p : /\ Stopped(p)' <=> Stopped(p) \/ (p = Entry /\ p \in valid)
                    /\ Parked(p)' <=> Parked(p) \/ (p = Entry /\ Configurer(p))
      BY <1>0, <1>a, <2>1, Advance
    <3>2. coal' \in BOOLEAN /\ Coalescing'
      BY <1>0, <1>a, <2>1, <3>1 DEF Coalescing, Types
    <3>3. ~Configurer(Entry) BY <1>b DEF Configurer
    <3> QED BY <1>b, <3>1, <3>2, <3>3
  <2>2. CASE Undo("LLD")
    <3>1. "LLD" \in Consumers BY DEF Consumers
    <3>2. /\ SeqTypes' /\ seq'.doing = "undo" /\ coal' = FALSE
          /\ \A p : Stopped(p)' <=> p \in Consumers \cap valid
          /\ \A p : Parked(p)' <=> Configurer(p) /\ p \in Consumers
          /\ \A r : ~WillLook(r)'
      BY <1>0, <1>a, <2>2, <3>1, UndoBegun, UndoExact
    <3>3. \A p : Configurer(p) => p \in Consumers BY DEF Configurer, ConfiguresMode
    <3> QED BY <1>e, <3>2, <3>3 DEF Coalescing
  <2>3. CASE hw = "v4" /\ Undo("LL")
    <3>1. "LL" \in Consumers BY DEF Consumers
    <3>2. /\ SeqTypes' /\ seq'.doing = "undo" /\ coal' = FALSE
          /\ \A p : Stopped(p)' <=> p \in (Consumers \ {"LLD"}) \cap valid
          /\ \A p : Parked(p)' <=> Configurer(p) /\ p \in Consumers \ {"LLD"}
          /\ \A r : ~WillLook(r)'
      BY <1>0, <1>a, <2>3, <3>1, UndoBegun, UndoExact
    <3>3. \A p : Configurer(p) => p \in Consumers BY DEF Configurer, ConfiguresMode
    <3> QED BY <1>e, <2>3, <3>2, <3>3 DEF Coalescing
  <2> QED BY <2>1, <2>2, <2>3 DEF CheckHw
<1>g. /\ \A r : ~WillLook(r) /\ ~WillStart(r)
      /\ \A p : LeftBehind(p) <=> LeftBehind(p)'
      /\ \A p : Stopped(p) /\ p = "LLD" /\ hw = "v4" => LeftBehind(p)
  <2>1. ASSUME NEW p, Stopped(p), p = "LLD", hw = "v4" PROVE LeftBehind(p)
    <3>1. p \in valid /\ p \notin seq.todo BY <1>d, <1>e, <2>1
    <3>2. p \notin data BY <1>0, <1>a, <2>1, <3>1 DEF Quiet
    <3>3. p \notin chan BY <1>0, <2>1, <3>1 DEF Channels
    <3> QED BY <2>1, <3>2, <3>3 DEF LeftBehind
  <2> QED BY <1>a, <1>c, <2>1 DEF WillLook, WillStart, LeftBehind
<1>1. Types' BY <1>0, <1>a, <1>f DEF Types
<1>2. SeqTypes' BY <1>f
<1>3. Unvoted' BY <1>0, <1>a, <1>f DEF Unvoted
<1>4. Pollers' BY <1>0, <1>a DEF Pollers
<1>5. Handler' BY <1>0, <1>a DEF Handler
<1>6. Channels' BY <1>0, <1>a, <1>f, <1>g DEF Channels
<1>7. Coalescing' BY <1>f
<1>8. Parking' BY <1>0, <1>a, <1>f, <1>g DEF Parking, Locked
<1>9. Quiet' BY <1>0, <1>a, <1>b, <1>f DEF Quiet
<1>10. Masked'
  <2>1. \A p : Parked(p) => Stopped(p)
    BY <1>e DEF Configurer, ConfiguresMode
  <2> QED BY <1>0, <1>a, <1>f, <1>g, <2>1 DEF Masked
<1>11. Noticed' BY <1>0, <1>a, <1>f, <1>g DEF Noticed
<1> QED
  BY <1>1, <1>2, <1>3, <1>4, <1>5, <1>6, <1>7, <1>8, <1>9, <1>10, <1>11 DEF IInv

-----------------------------------------------------------------------------
(* The steps of the undo chain and of a resumption.                        *)

LEMMA StartPipeStep ==
    ASSUME IInv, StartPipe
    PROVE  IInv'
<1>0. /\ Types /\ SeqTypes /\ Unvoted /\ Pollers /\ Handler /\ Channels
      /\ Coalescing /\ Parking /\ Quiet /\ Masked /\ Noticed
  BY DEF IInv
<1>a. /\ seq.doing \in {"undo", "resume"} /\ seq.todo # {} /\ seq.at = "chan" /\ clk
      /\ Entry \in Pipes /\ Entry \in valid /\ Entry \in seq.todo
      /\ chan' = chan \cup {Entry} /\ AfterChan(Entry)
      /\ ieob' = IF Entry \in Consumers THEN ieob \cup ({Ring[Entry]} \cap data)
                                        ELSE ieob
      /\ UNCHANGED <<hw, valid, mode, data, polling, work, napi, isr, coal,
                     holb, clk, votes>>
  BY <1>0, EntryFacts DEF StartPipe, StartChannel, Doing, hwVars, Unvoted
<1>b. /\ SeqTypes' /\ seq'.doing = seq.doing
      /\ \A p : Stopped(p)' <=> Stopped(p) /\ p # Entry
      /\ \A p : Parked(p)' <=> Parked(p)
      /\ \A r : ~WillLook(r)'
      /\ \A e : e \in seq.todo /\ e # Entry => e \in seq'.todo
  <2>1. CASE ConfiguresMode(Entry)
    <3>1. Turn("mode") /\ Configurer(Entry)
      BY <1>a, <2>1 DEF AfterChan, Configurer
    <3> QED BY <1>0, <1>a, <3>1, Turned
  <2>2. CASE ~ConfiguresMode(Entry)
    <3>1. NextEntry /\ ~Configurer(Entry)
      BY <1>a, <2>2 DEF AfterChan, Configurer
    <3>2. ~Parked(Entry) BY <3>1 DEF Parked
    <3> QED BY <1>0, <1>a, <3>1, <3>2, Advance
  <2> QED BY <2>1, <2>2
<1>c. /\ \A r : ~WillLook(r)
      /\ \A r \in data : WillStart(r) => WillStart(r)' \/ r \in ieob'
      /\ \A p : LeftBehind(p) => LeftBehind(p)' \/ Parked(p)
  <2>1. \A r : ~WillLook(r) BY <1>a DEF WillLook
  <2>2. ASSUME NEW r \in data, WillStart(r) PROVE WillStart(r)' \/ r \in ieob'
    <3>1. PICK p \in Consumers \ chan : p \in seq.todo /\ Ring[p] = r
      BY <2>2 DEF WillStart
    <3>2. CASE p = Entry BY <1>a, <3>1, <3>2
    <3>3. CASE p # Entry BY <1>a, <1>b, <3>1, <3>3 DEF WillStart
    <3> QED BY <3>2, <3>3
  <2>3. ASSUME NEW p, LeftBehind(p) PROVE LeftBehind(p)' \/ Parked(p)
    <3>1. CASE p # Entry BY <1>a, <2>3, <3>1 DEF LeftBehind
    <3>2. CASE p = Entry
      <4>1. Configurer(p) BY <1>a, <2>3, <3>2, OwnRing DEF LeftBehind
      <4> QED BY <1>a, <3>2, <4>1 DEF Parked
    <3> QED BY <3>1, <3>2
  <2> QED BY <2>1, <2>2, <2>3
<1>d. Stopped(Entry) BY <1>a DEF Stopped, AtEntry
<1>1. Types'
  <2>1. data \subseteq Rings BY <1>0 DEF Types
  <2>2. ieob' \in SUBSET Rings BY <1>0, <1>a, <2>1 DEF Types
  <2> QED BY <1>0, <1>a, <2>2 DEF Types
<1>2. SeqTypes' BY <1>b
<1>3. Unvoted' BY <1>0, <1>a, <1>b DEF Unvoted
<1>4. Pollers' BY <1>0, <1>a, <1>b DEF Pollers
<1>5. Handler' BY <1>0, <1>a, <1>b DEF Handler

<1>6. Channels'
  <2>1. \A p : LeftBehind(p) /\ p # Entry => LeftBehind(p)' BY <1>a DEF LeftBehind
  <2> QED BY <1>0, <1>a, <1>b, <2>1 DEF Channels
<1>7. Coalescing' BY <1>0, <1>a DEF Coalescing
<1>8. Parking'
  <2>1. ieob \subseteq ieob' BY <1>a
  <2> QED BY <1>0, <1>a, <1>b, <1>c, <2>1 DEF Parking, Locked
<1>9. Quiet' BY <1>0, <1>a, <1>b DEF Quiet
<1>10. Masked' BY <1>0, <1>a, <1>b, <1>c DEF Masked
<1>11. Noticed'
  <2>1. ieob \subseteq ieob' BY <1>a
  <2> QED BY <1>0, <1>a, <1>b, <1>c, <2>1 DEF Noticed
<1> QED
  BY <1>1, <1>2, <1>3, <1>4, <1>5, <1>6, <1>7, <1>8, <1>9, <1>10, <1>11 DEF IInv

LEMMA CallbackPipeStep ==
    ASSUME IInv, CallbackPipe
    PROVE  IInv'
<1>0. /\ Types /\ SeqTypes /\ Unvoted /\ Pollers /\ Handler /\ Channels
      /\ Coalescing /\ Parking /\ Quiet /\ Masked /\ Noticed
  BY DEF IInv
<1>a. /\ seq.doing \in {"undo", "resume"} /\ seq.todo # {} /\ seq.at = "mode" /\ clk
      /\ Entry \in Consumers /\ Configurer(Entry) /\ Entry \in seq.todo
      /\ UNCHANGED <<hw, valid, chan, mode, data, ieob, polling, work, napi, isr,
                     coal, holb, clk, votes>>
  BY <1>0, EntryFacts DEF CallbackPipe, Doing, hwVars, Unvoted
<1>b. /\ ~Stopped(Entry) /\ \A r : ~WillLook(r)
      /\ \A p : LeftBehind(p) <=> LeftBehind(p)'
      /\ Entry \in chan \/ LeftBehind(Entry)
  <2>1. ~Stopped(Entry) BY <1>a DEF Stopped, AtEntry
  <2>2. Entry \in valid BY <1>a DEF Configurer
  <2> QED BY <1>0, <1>a, <2>1, <2>2 DEF WillLook, LeftBehind, Channels
<1>c. /\ SeqTypes' /\ seq'.doing = seq.doing
      /\ \A p : Stopped(p)' <=> Stopped(p)
      /\ \A p : Parked(p)' => Parked(p)
      /\ \A p : Parked(p) => Parked(p)' \/ (p = Entry /\ Ring[Entry] \in polling)
      /\ \A r : ~WillLook(r)'
      /\ \A e : e \in seq.todo /\ e # Entry => e \in seq'.todo
  <2>1. CASE Ring[Entry] \in polling /\ NextEntry
    BY <1>0, <1>a, <1>b, <2>1, Advance
  <2>2. CASE Ring[Entry] \notin polling /\ Turn("callback")
    BY <1>0, <1>a, <1>b, <2>2, Turned
  <2> QED BY <2>1, <2>2 DEF CallbackPipe
<1>d. \A r \in data : WillStart(r) => WillStart(r)'
  <2> SUFFICES ASSUME NEW r \in data, WillStart(r) PROVE WillStart(r)'
    OBVIOUS
  <2>1. PICK p \in Consumers \ chan : p \in seq.todo /\ Ring[p] = r
    BY DEF WillStart
  <2>2. p # Entry BY <1>b, <2>1, OwnRing DEF LeftBehind
  <2> QED BY <1>a, <1>c, <2>1, <2>2 DEF WillStart
<1>1. Types' BY <1>0, <1>a DEF Types
<1>2. SeqTypes' BY <1>c
<1>3. Unvoted' BY <1>0, <1>a, <1>c DEF Unvoted
<1>4. Pollers' BY <1>0, <1>a DEF Pollers
<1>5. Handler' BY <1>0, <1>a DEF Handler
<1>6. Channels' BY <1>0, <1>a, <1>b, <1>c DEF Channels
<1>7. Coalescing' BY <1>0, <1>a DEF Coalescing
<1>8. Parking' BY <1>0, <1>a, <1>c, <1>d DEF Parking, Locked
<1>9. Quiet' BY <1>0, <1>a, <1>c DEF Quiet
<1>10. Masked' BY <1>0, <1>a, <1>b, <1>c DEF Masked
<1>11. Noticed' BY <1>0, <1>a, <1>b, <1>c, <1>d DEF Noticed
<1> QED
  BY <1>1, <1>2, <1>3, <1>4, <1>5, <1>6, <1>7, <1>8, <1>9, <1>10, <1>11 DEF IInv

LEMMA CallbackConfigStep ==
    ASSUME IInv, CallbackConfig
    PROVE  IInv'
<1>0. /\ Types /\ SeqTypes /\ Unvoted /\ Pollers /\ Handler /\ Channels
      /\ Coalescing /\ Parking /\ Quiet /\ Masked /\ Noticed
  BY DEF IInv
<1>a. /\ seq.doing \in {"undo", "resume"} /\ seq.todo # {} /\ seq.at = "callback"
      /\ Entry \in Consumers /\ Configurer(Entry) /\ Entry \in seq.todo
      /\ Ring[Entry] \notin polling /\ clk /\ mode' = mode \ {Ring[Entry]} /\ NextEntry
      /\ UNCHANGED <<hw, valid, chan, data, ieob, polling, work, napi, isr,
                     coal, holb, clk, votes>>
  BY <1>0, EntryFacts
     DEF CallbackConfig, ConfigCallback, Doing, hwVars, Unvoted, SeqTypes
<1>b. /\ ~Stopped(Entry) /\ Parked(Entry) /\ \A r : ~WillLook(r)
      /\ \A p : LeftBehind(p) <=> LeftBehind(p)'
      /\ Entry \in chan \/ LeftBehind(Entry)
  <2>1. ~Stopped(Entry) /\ Parked(Entry) BY <1>a DEF Stopped, AtEntry, Parked
  <2>2. Entry \in valid BY <1>a DEF Configurer
  <2> QED BY <1>0, <1>a, <2>1, <2>2 DEF WillLook, LeftBehind, Channels
<1>c. /\ SeqTypes' /\ seq'.doing = seq.doing /\ seq'.todo = seq.todo \ {Entry}
      /\ \A p : Stopped(p)' <=> Stopped(p)
      /\ \A p : Parked(p)' <=> Parked(p) /\ p # Entry
      /\ \A r : ~WillLook(r)'
  BY <1>0, <1>a, <1>b, Advance
<1>d. \A r \in data : WillStart(r) => WillStart(r)'
  <2> SUFFICES ASSUME NEW r \in data, WillStart(r) PROVE WillStart(r)'
    OBVIOUS
  <2>1. PICK p \in Consumers \ chan : p \in seq.todo /\ Ring[p] = r
    BY DEF WillStart
  <2>2. p # Entry BY <1>b, <2>1, OwnRing DEF LeftBehind
  <2> QED BY <1>a, <1>c, <2>1, <2>2 DEF WillStart
<1>e. /\ ~Locked(Ring[Entry])
      /\ \A p \in Consumers : Parked(p) /\ p # Entry => Ring[p] # Ring[Entry]
  <2>1. \A p \in Consumers : Parked(p) => Configurer(p) BY DEF Parked
  <2> QED BY <1>0, <1>a, <1>b, <2>1, OneConfigurer DEF Parking
<1>f. \A r \in Rings : napi[r] = "idle"
  <2>1. \A r \in Rings : r \in Voters /\ votes[r] \in Nat BY <1>0 DEF Types, Voters
  <2> QED BY <1>0, <1>a, <2>1 DEF Unvoted
<1>1. Types' BY <1>0, <1>a DEF Types
<1>2. SeqTypes' BY <1>c
<1>3. Unvoted' BY <1>0, <1>a, <1>c DEF Unvoted
<1>4. Pollers' BY <1>0, <1>a, <1>f DEF Pollers
<1>5. Handler' BY <1>0, <1>a, <1>e DEF Handler, Locked
<1>6. Channels' BY <1>0, <1>a, <1>b, <1>c DEF Channels
<1>7. Coalescing' BY <1>0, <1>a DEF Coalescing
<1>8. Parking' BY <1>0, <1>a, <1>c, <1>d, <1>e DEF Parking, Locked
<1>9. Quiet' BY <1>0, <1>a, <1>c DEF Quiet
<1>10. Masked' BY <1>0, <1>a, <1>b, <1>c DEF Masked
<1>11. Noticed' BY <1>0, <1>a, <1>b, <1>c, <1>d DEF Noticed
<1> QED
  BY <1>1, <1>2, <1>3, <1>4, <1>5, <1>6, <1>7, <1>8, <1>9, <1>10, <1>11 DEF IInv

-----------------------------------------------------------------------------
(* The votes: the beginning and the end of the sequence.                   *)

LEMMA VoterNames ==
    /\ Rings \subseteq Voters /\ "retry" \in Voters /\ "others" \in Voters
    /\ "retry" \notin Rings /\ "others" \notin Rings
BY RingFacts DEF Voters

\* With no sequence under way and the clocks on, nothing is stopped.
LEMMA NothingStopped ==
    ASSUME clk, seq.doing = "idle" \/ seq.todo = {}, seq.doing # "suspend"
    PROVE  \A p : ~Stopped(p) /\ ~Parked(p) /\ ~WillLook(p) /\ ~WillStart(p)
BY DEF Stopped, Parked, WillLook, WillStart

\* The vote of a queued work is the vote of its poller.
LEMMA VoteTaken ==
    ASSUME Types, Pollers, Handler, NEW v \in Voters, TakeVote(v),
           v \in Rings => v \in work, UNCHANGED <<isr, data, polling, mode>>
    PROVE  /\ votes' \in [Voters -> Nat]
           /\ napi' \in [Rings -> {"idle", "poll", "drained", "complete"}]
           /\ work' \in SUBSET Rings
           /\ \A r \in Rings : napi[r] # "idle" /\ votes[r] > 0 => votes'[r] > 0
           /\ \A r \in Rings : napi'[r] # napi[r] => votes'[r] > 0 /\ napi'[r] = "poll"
           /\ \A r \in work : r \in work' \/ napi'[r] = "poll"
           /\ \A r \in Rings : napi[r] # "idle" => napi'[r] = napi[r]
           /\ Pollers' /\ Handler'
<1>1. /\ votes' = [votes EXCEPT ![v] = @ + 1] /\ work' = work \ {v}
      /\ napi' = IF v \in Rings THEN [napi EXCEPT ![v] = "poll"] ELSE napi
      /\ votes \in [Voters -> Nat]
      /\ napi \in [Rings -> {"idle", "poll", "drained", "complete"}]
      /\ work \in SUBSET Rings
  BY DEF TakeVote, AddVote, Types
<1>2. /\ votes' \in [Voters -> Nat]
      /\ napi' \in [Rings -> {"idle", "poll", "drained", "complete"}]
      /\ work' \in SUBSET Rings
  BY <1>1
<1>3. v \in Rings => napi[v] = "idle" /\ v \in polling /\ v \in data BY DEF Pollers
<1>4. /\ \A r \in Rings : napi[r] # "idle" /\ votes[r] > 0 => votes'[r] > 0
      /\ \A r \in Rings : napi'[r] # napi[r] => votes'[r] > 0 /\ napi'[r] = "poll"
  BY <1>1, VoterNames
<1>5. /\ \A r \in work : r \in work' \/ napi'[r] = "poll"
      /\ \A r \in Rings : napi[r] # "idle" => napi'[r] = napi[r]
  BY <1>1, <1>3
<1>6. Pollers' BY <1>1, <1>3 DEF Pollers
<1>7. Handler'
  <2>1. isr # NoIsr => isr.ring \in Rings BY IsrFacts DEF Types
  <2> QED BY <1>1, <1>3, <2>1 DEF Handler
<1> QED BY <1>2, <1>4, <1>5, <1>6, <1>7

LEMMA FinishStep ==
    ASSUME IInv, Finish
    PROVE  IInv'
<1>0. /\ Types /\ SeqTypes /\ Unvoted /\ Pollers /\ Handler /\ Channels
      /\ Coalescing /\ Parking /\ Quiet /\ Masked /\ Noticed
  BY DEF IInv
<1>a. /\ seq.doing # "idle" /\ seq.todo = {} /\ seq' = Idle
      /\ clk' = (seq.doing # "suspend") /\ clk
      /\ UNCHANGED <<hw, valid, chan, mode, data, ieob, polling, isr, coal, holb>>
  BY <1>0 DEF Finish, hwVars, Unvoted
<1>b. /\ seq.at = "chan" /\ ~coal
      /\ \A v \in Voters : votes[v] = 0 /\ votes[v] \in Nat
      /\ \A r \in Rings : napi[r] = "idle"
      /\ seq.doing \in {"suspend", "undo", "resume"}
  <2>1. \A v \in Voters : votes[v] = 0 /\ votes[v] \in Nat
    BY <1>0, <1>a DEF Unvoted, Types
  <2>2. \A r \in Rings : napi[r] = "idle" BY <1>0, <2>1, VoterNames DEF Unvoted
  <2> QED BY <1>0, <1>a, <2>1, <2>2 DEF SeqTypes, Coalescing, Types
<1>c. /\ seq'.doing = "idle" /\ seq'.todo = {} /\ seq'.at = "chan"
      /\ \A r : ~WillLook(r) /\ ~WillStart(r) /\ ~WillLook(r)' /\ ~WillStart(r)'
      /\ \A p : LeftBehind(p) <=> LeftBehind(p)'
      /\ \A p : Configurer(p)' <=> Configurer(p)
  BY <1>a, <1>b
     DEF Idle, WillLook, WillStart, LeftBehind, Configurer, ConfiguresMode
<1>d. \A p : (Stopped(p)' <=> Stopped(p)) /\ (Parked(p)' <=> Parked(p))
  <2>1. \A p : ~AtEntry(p) /\ ~AtEntry(p)' BY <1>b, <1>c DEF AtEntry
  <2> QED BY <1>a, <1>b, <1>c, <2>1 DEF Stopped, Parked
<1>e. /\ votes' \in [Voters -> Nat]
      /\ napi' \in [Rings -> {"idle", "poll", "drained", "complete"}]
      /\ work' \in SUBSET Rings
      /\ \A r \in work : r \in work' \/ napi'[r] = "poll"
      /\ \A r \in Rings : napi'[r] # "idle" => votes'[r] > 0 /\ clk'
      /\ ~clk' => UNCHANGED <<votes, napi, work>>
      /\ Pollers' /\ Handler'
  <2>1. CASE seq.doing = "suspend"
    <3>1. UNCHANGED <<votes, work, napi>> BY <2>1 DEF Finish
    <3>2. Pollers' BY <1>0, <1>a, <3>1 DEF Pollers
    <3>3. Handler' BY <1>0, <1>a, <3>1 DEF Handler
    <3> QED BY <1>0, <1>b, <3>1, <3>2, <3>3 DEF Types
  <2>2. CASE seq.doing = "undo"
    <3>1. AddVote("retry") /\ UNCHANGED <<work, napi>> BY <2>2 DEF Finish
    <3>2. votes' \in [Voters -> Nat] BY <1>0, <3>1, VoterNames DEF AddVote, Types
    <3>3. Pollers' BY <1>0, <1>a, <3>1 DEF Pollers
    <3>4. Handler' BY <1>0, <1>a, <3>1 DEF Handler
    <3> QED BY <1>0, <1>a, <1>b, <2>2, <3>1, <3>2, <3>3, <3>4 DEF Types
  <2>3. CASE seq.doing = "resume"
    <3>1. /\ TakeVote(seq.who) /\ seq.who \in Voters
          /\ seq.who \in Rings => seq.who \in work
      BY <1>0, <2>3 DEF Finish, SeqTypes
    <3> QED BY <1>0, <1>a, <1>b, <2>3, <3>1, VoteTaken
  <2> QED BY <1>b, <2>1, <2>2, <2>3
<1>1. Types' BY <1>0, <1>a, <1>e DEF Types
<1>2. SeqTypes' BY <1>a, <1>c DEF SeqTypes, Idle, Entries
<1>3. Unvoted' BY <1>a, <1>b, <1>c, <1>e DEF Unvoted
<1>4. Pollers' BY <1>e
<1>5. Handler' BY <1>e
<1>6. Channels' BY <1>0, <1>a, <1>c, <1>d DEF Channels
<1>7. Coalescing' BY <1>a, <1>b DEF Coalescing
<1>8. Parking'
  <2>1. ASSUME NEW p, Parked(p) PROVE ~clk'
    BY <1>a, <1>b, <2>1, NothingStopped
  <2> QED BY <1>0, <1>a, <1>c, <1>d, <1>e, <2>1 DEF Parking, Locked
<1>9. Quiet' BY <1>0, <1>a, <1>b, <1>c DEF Quiet
<1>10. Masked'
  <2>1. \A r \in mode : napi[r] = "idle" BY <1>0, <1>b DEF Types
  <2> QED BY <1>0, <1>a, <1>c, <1>d, <2>1 DEF Masked
<1>11. Noticed'
  <2>1. \A r \in data : napi[r] = "idle" BY <1>0, <1>b DEF Types
  <2> QED BY <1>0, <1>a, <1>c, <1>e, <2>1 DEF Noticed
<1> QED
  BY <1>1, <1>2, <1>3, <1>4, <1>5, <1>6, <1>7, <1>8, <1>9, <1>10, <1>11 DEF IInv

LEMMA ReleaseStep ==
    ASSUME IInv, NEW v \in Voters, Release(v)
    PROVE  IInv'
<1>0. /\ Types /\ SeqTypes /\ Unvoted /\ Pollers /\ Handler /\ Channels
      /\ Coalescing /\ Parking /\ Quiet /\ Masked /\ Noticed
  BY DEF IInv
<1> DEFINE left == [votes EXCEPT ![v] = @ - 1]
           last == \A u \in Voters : left[u] = 0
<1>a. /\ votes[v] > 0 /\ votes \in [Voters -> Nat] /\ left \in [Voters -> Nat]
      /\ \A u \in Voters : left[u] = IF u = v THEN votes[v] - 1 ELSE votes[u]
      /\ \A r \in Rings : napi[r] # "idle" => left[r] > 0
      /\ UNCHANGED <<hw, valid, chan, mode, data, ieob, polling, work, napi, isr,
                     holb, clk>>
  <2>1. /\ votes[v] > 0 /\ votes \in [Voters -> Nat]
        /\ v \in Rings => votes[v] > (IF napi[v] = "idle" THEN 0 ELSE 1)
        /\ UNCHANGED <<hw, valid, chan, mode, data, ieob, polling, work, napi, isr,
                       holb, clk>>
    BY <1>0 DEF Release, hwVars, Types
  <2>2. /\ left \in [Voters -> Nat]
        /\ \A u \in Voters : left[u] = IF u = v THEN votes[v] - 1 ELSE votes[u]
    BY <2>1
  <2>3. \A r \in Rings : napi[r] # "idle" => votes[r] > 0 BY <1>0 DEF Unvoted
  <2>4. \A r \in Rings : napi[r] # "idle" => left[r] > 0
    BY <2>1, <2>2, <2>3, VoterNames
  <2> QED BY <2>1, <2>2, <2>4
<1>b. clk /\ seq.doing = "idle" /\ seq = Idle
  <2>1. votes[v] # 0 BY <1>a
  <2> QED BY <1>0, <2>1 DEF Unvoted, Types, SeqTypes
<1>c. \A p : ~Stopped(p) /\ ~Parked(p) /\ ~WillLook(p) /\ ~WillStart(p)
  BY <1>b, NothingStopped
<1>d. /\ votes' \in [Voters -> Nat] /\ coal' \in BOOLEAN
      /\ \A r \in Rings : napi'[r] # "idle" => votes'[r] > 0
      /\ seq'.doing # "idle" => \A u \in Voters : votes'[u] = 0
      /\ SeqTypes' /\ Coalescing'
      /\ \A p : ~Stopped(p)' /\ ~Parked(p)' /\ ~WillLook(p)' /\ ~WillStart(p)'
      /\ \A p \in valid : seq'.doing = "suspend" => p \in seq'.todo
  <2>1. CASE /\ votes' = IF last THEN [left EXCEPT !["retry"] = 1] ELSE left
             /\ UNCHANGED <<coal, seq>>
    <3> HIDE DEF left, last
    <3>1. votes' \in [Voters -> Nat] BY <1>a, <2>1, VoterNames
    <3>2. \A r \in Rings : napi[r] # "idle" => ~last
      BY <1>a, VoterNames DEF last
    <3>3. \A r \in Rings : napi'[r] # "idle" => votes'[r] > 0 BY <1>a, <2>1, <3>2
    <3>4. UNCHANGED still BY <1>a, <2>1 DEF still
    <3>5. /\ Entry' = Entry
          /\ \A p : /\ Configurer(p)' <=> Configurer(p)
                    /\ Stopped(p)' <=> Stopped(p)
                    /\ Parked(p)' <=> Parked(p)
                    /\ Needed(p)' <=> Needed(p)
          /\ \A q : /\ WillStart(q)' <=> WillStart(q)
                    /\ WillLook(q)' <=> WillLook(q)
      BY <3>4, Still
    <3>6. SeqTypes' BY <1>0, <1>a, <2>1, <3>5 DEF SeqTypes, Idle
    <3>7. Coalescing' /\ coal' \in BOOLEAN BY <1>0, <2>1 DEF Coalescing, Types
    <3> QED BY <1>b, <1>c, <2>1, <3>1, <3>3, <3>5, <3>6, <3>7
  <2>2. CASE last /\ votes' = left /\ coal' = TRUE /\ Begin("suspend", v, Entries)
    <3>1. seq' = [doing |-> "suspend", who |-> v,
                  todo |-> {e \in Entries : Needed(e)}, at |-> "chan"]
      BY <2>2 DEF Begin
    <3>2. \A e : Needed(e)' <=> Needed(e) BY <1>a DEF Needed
    <3>3. SeqTypes' BY <3>1, <3>2 DEF SeqTypes
    <3>4. \A p \in valid : p \in seq'.todo
      <4>1. valid \subseteq Pipes BY <1>0, ConfigsAssumption DEF Types
      <4>2. \A p \in valid : Needed(p) /\ p \in Entries
        BY <4>1 DEF Needed, Entries, Pipes, Consumers, Producers
      <4> QED BY <3>1, <4>2
    <3>5. coal' \in BOOLEAN /\ Coalescing'
      <4>1. "start_coal" \in Entries /\ Needed("start_coal")
        BY DEF Entries, Needed, Pipes, Consumers, Producers
      <4> QED BY <2>2, <3>1, <4>1 DEF Coalescing
    <3>6. \A p : ~Stopped(p)' /\ ~Parked(p)' /\ ~WillLook(p)' /\ ~WillStart(p)'
      <4>1. seq'.doing = "suspend" /\ seq'.at = "chan" BY <3>1
      <4> QED BY <1>a, <1>b, <3>4, <4>1
              DEF Stopped, Parked, WillLook, WillStart, AtEntry, Configurer
    <3> QED BY <1>a, <2>2, <3>1, <3>3, <3>4, <3>5, <3>6
  <2> QED BY <2>1, <2>2 DEF Release
<1>e. \A p : LeftBehind(p) <=> LeftBehind(p)' BY <1>a DEF LeftBehind
<1>1. Types' BY <1>0, <1>a, <1>d DEF Types
<1>2. SeqTypes' BY <1>d
<1>3. Unvoted' BY <1>a, <1>b, <1>d DEF Unvoted
<1>4. Pollers' BY <1>0, <1>a DEF Pollers
<1>5. Handler' BY <1>0, <1>a DEF Handler
<1>6. Channels' BY <1>0, <1>a, <1>c, <1>d, <1>e DEF Channels
<1>7. Coalescing' BY <1>d
<1>8. Parking' BY <1>d DEF Parking
<1>9. Quiet' BY <1>a, <1>b, <1>d DEF Quiet
<1>10. Masked' BY <1>0, <1>a, <1>c, <1>e DEF Masked
<1>11. Noticed' BY <1>0, <1>a, <1>c DEF Noticed
<1> QED
  BY <1>1, <1>2, <1>3, <1>4, <1>5, <1>6, <1>7, <1>8, <1>9, <1>10, <1>11 DEF IInv

LEMMA VoteStep ==
    ASSUME IInv, NEW v \in Voters, Vote(v)
    PROVE  IInv'
<1>0. /\ Types /\ SeqTypes /\ Unvoted /\ Pollers /\ Handler /\ Channels
      /\ Coalescing /\ Parking /\ Quiet /\ Masked /\ Noticed
  BY DEF IInv
<1>a. /\ seq.doing = "idle" /\ seq = Idle /\ (v \in Rings => v \in work)
      /\ UNCHANGED <<hw, valid, chan, mode, data, ieob, polling, isr, coal, holb>>
  BY <1>0, VoterNames DEF Vote, hwVars, SeqTypes
<1>b. /\ ~coal /\ seq.at = "chan" /\ \A r : ~WillLook(r) /\ ~WillStart(r)
      /\ \A p : LeftBehind(p) <=> LeftBehind(p)'
      /\ \A p : Configurer(p)' <=> Configurer(p)
      /\ \A p : Needed(p)' <=> Needed(p)
  BY <1>0, <1>a DEF Coalescing, WillLook, WillStart, LeftBehind, Idle, Configurer,
                    ConfiguresMode, Needed
<1>c. CASE clk /\ TakeVote(v) /\ UNCHANGED <<clk, seq>>
  <2>1. /\ votes' \in [Voters -> Nat]
        /\ napi' \in [Rings -> {"idle", "poll", "drained", "complete"}]
        /\ work' \in SUBSET Rings
        /\ \A r \in Rings : napi[r] # "idle" /\ votes[r] > 0 => votes'[r] > 0
        /\ \A r \in Rings : napi'[r] # napi[r] => votes'[r] > 0 /\ napi'[r] = "poll"
        /\ \A r \in work : r \in work' \/ napi'[r] = "poll"
        /\ \A r \in Rings : napi[r] # "idle" => napi'[r] = napi[r]
        /\ Pollers' /\ Handler'
    BY <1>0, <1>a, <1>c, VoteTaken
  <2>2. \A p : /\ ~Stopped(p) /\ ~Parked(p)
               /\ ~Stopped(p)' /\ ~Parked(p)' /\ ~WillLook(p)' /\ ~WillStart(p)'
    BY <1>a, <1>c, NothingStopped DEF Stopped, Parked, WillLook, WillStart
  <2>3. Types' BY <1>0, <1>a, <1>c, <2>1 DEF Types
  <2>4. SeqTypes' BY <1>a, <1>c DEF SeqTypes, Idle, Entries
  <2>5. Unvoted' BY <1>0, <1>a, <1>c, <2>1 DEF Unvoted
  <2>6. Channels' BY <1>0, <1>a, <1>b, <2>2 DEF Channels
  <2>7. Coalescing' /\ Parking' /\ Quiet'
    BY <1>a, <1>b, <1>c, <2>2 DEF Coalescing, Parking, Quiet
  <2>8. Masked'
    <3>1. \A r \in mode : napi[r] = "complete" => napi'[r] = "complete"
      BY <1>0, <2>1 DEF Types
    <3> QED BY <1>0, <1>a, <1>b, <2>2, <3>1 DEF Masked
  <2>9. Noticed'
    <3>1. \A r \in data : napi[r] = "poll" => napi'[r] = "poll"
      BY <1>0, <2>1 DEF Types
    <3> QED BY <1>0, <1>a, <1>b, <2>1, <3>1 DEF Noticed
  <2> QED BY <2>1, <2>3, <2>4, <2>5, <2>6, <2>7, <2>8, <2>9 DEF IInv
<1>d. CASE ~clk /\ clk' = TRUE /\ Begin("resume", v, ResumeEntries)
           /\ UNCHANGED <<votes, work, napi>>
  <2>1. seq' = [doing |-> "resume", who |-> v,
                todo |-> {e \in ResumeEntries : Needed(e)}, at |-> "chan"]
    BY <1>d DEF Begin
  <2>2. /\ seq'.doing = "resume" /\ seq'.at = "chan" /\ seq'.who = v
        /\ seq'.todo = {e \in ResumeEntries : Needed(e)}
    BY <2>1
  <2>3. \A p \in valid : p \in seq'.todo
    <3>1. valid \subseteq Pipes BY <1>0, ConfigsAssumption DEF Types
    <3>2. \A p \in valid : Needed(p) /\ p \in ResumeEntries
      BY <3>1 DEF Needed, ResumeEntries, Entries, Pipes, Consumers, Producers
    <3> QED BY <2>2, <3>2
  <2>4. \A p : /\ Stopped(p)' <=> Stopped(p)
               /\ Parked(p)' <=> Parked(p)
               /\ ~WillLook(p)'
    <3>1. \A p : Configurer(p) => p \in valid BY DEF Configurer
    <3>2. \A p : Stopped(p) <=> p \in valid BY <1>a, <1>d DEF Stopped
    <3>3. \A p : Stopped(p)' <=> p \in valid
      BY <1>a, <1>d, <2>2, <2>3 DEF Stopped, AtEntry
    <3>4. \A p : Parked(p) <=> Configurer(p) BY <1>a, <1>d DEF Parked
    <3>5. \A p : Parked(p)' <=> Configurer(p)
      BY <1>b, <1>d, <2>2, <2>3, <3>1 DEF Parked
    <3>6. \A p : ~WillLook(p)' BY <2>2 DEF WillLook
    <3> QED BY <3>2, <3>3, <3>4, <3>5, <3>6
  <2>5. Types' BY <1>0, <1>a, <1>d DEF Types
  <2>6. SeqTypes'
    <3>1. ResumeEntries \in SUBSET Entries BY DEF ResumeEntries
    <3>2. \A e \in seq'.todo : Needed(e)' BY <1>b, <2>2
    <3> QED BY <1>a, <1>d, <2>1, <2>2, <3>1, <3>2 DEF SeqTypes
  <2>7. Unvoted' BY <1>0, <1>a, <1>d, <2>2 DEF Unvoted
  <2>8. Pollers' BY <1>0, <1>a, <1>d DEF Pollers
  <2>9. Handler' BY <1>0, <1>a, <1>d DEF Handler
  <2>10. Channels' BY <1>0, <1>a, <1>b, <2>4 DEF Channels
  <2>11. Coalescing' /\ Quiet' BY <1>a, <1>b, <1>d, <2>2 DEF Coalescing, Quiet
  <2>12. Parking' BY <1>0, <1>a, <1>b, <1>d, <2>4 DEF Parking, Locked
  <2>13. Masked' BY <1>0, <1>a, <1>b, <1>d, <2>4 DEF Masked
  <2>14. Noticed' BY <1>0, <1>a, <1>b, <1>d DEF Noticed
  <2> QED BY <2>5, <2>6, <2>7, <2>8, <2>9, <2>10, <2>11, <2>12, <2>13, <2>14 DEF IInv
<1> QED BY <1>c, <1>d DEF Vote

-----------------------------------------------------------------------------
(* The theorems.                                                           *)

LEMMA InitIInv == Init => IInv
<1> SUFFICES ASSUME Init PROVE IInv OBVIOUS
<1>a. /\ seq = Idle /\ seq.doing = "idle" /\ seq.todo = {} /\ seq.at = "chan"
      /\ clk /\ isr = NoIsr /\ isr.at = "idle" /\ chan = valid
      /\ \A p : ~Stopped(p) /\ ~Parked(p) /\ ~WillLook(p) /\ ~WillStart(p)
  <2>1. /\ seq = Idle /\ seq.doing = "idle" /\ seq.todo = {} /\ seq.at = "chan"
        /\ clk /\ isr = NoIsr /\ isr.at = "idle" /\ chan = valid
    BY DEF Init, Idle, NoIsr
  <2> QED BY <2>1, NothingStopped
<1>1. Types BY DEF Init, Types
<1>2. SeqTypes BY <1>a DEF SeqTypes, Idle
<1>3. Unvoted BY <1>a DEF Init, Unvoted
<1>4. Pollers BY DEF Init, Pollers
<1>5. Handler BY <1>a DEF Handler
<1>6. Channels BY <1>a DEF Channels
<1>7. Coalescing /\ Parking /\ Quiet /\ Masked /\ Noticed
  BY <1>a DEF Init, Coalescing, Parking, Quiet, Masked, Noticed
<1> QED BY <1>1, <1>2, <1>3, <1>4, <1>5, <1>6, <1>7 DEF IInv

LEMMA StutterIInv ==
    ASSUME IInv, UNCHANGED vars
    PROVE  IInv'
<1>0. /\ Types /\ SeqTypes /\ Unvoted /\ Pollers /\ Handler /\ Channels
      /\ Coalescing /\ Parking /\ Quiet /\ Masked /\ Noticed
  BY DEF IInv
<1>a. UNCHANGED <<hw, valid, chan, mode, data, ieob, polling, work, napi, isr, coal,
                  holb, clk, votes, seq>>
  BY DEF vars
<1>b. UNCHANGED still BY <1>a DEF still
<1>c. /\ Entry' = Entry
      /\ \A p : /\ Configurer(p)' <=> Configurer(p)
                /\ Stopped(p)' <=> Stopped(p)
                /\ Parked(p)' <=> Parked(p)
                /\ Needed(p)' <=> Needed(p)
      /\ \A q : /\ WillStart(q)' <=> WillStart(q)
                /\ WillLook(q)' <=> WillLook(q)
      /\ \A p : LeftBehind(p)' <=> LeftBehind(p)
  BY <1>a, <1>b, Still DEF LeftBehind
<1>1. Types' BY <1>0, <1>a DEF Types
<1>2. SeqTypes' BY <1>0, <1>a, <1>c DEF SeqTypes
<1>3. Unvoted' /\ Pollers' /\ Handler' /\ Coalescing' /\ Quiet'
  BY <1>0, <1>a DEF Unvoted, Pollers, Handler, Coalescing, Quiet
<1>4. Channels' BY <1>0, <1>a, <1>c DEF Channels
<1>5. Parking' BY <1>0, <1>a, <1>c DEF Parking, Locked
<1>6. Masked' BY <1>0, <1>a, <1>c DEF Masked
<1>7. Noticed' BY <1>0, <1>a, <1>c DEF Noticed
<1> QED BY <1>1, <1>2, <1>3, <1>4, <1>5, <1>6, <1>7 DEF IInv

LEMMA NextIInv == IInv /\ [Next]_vars => IInv'
<1> SUFFICES ASSUME IInv, [Next]_vars PROVE IInv' OBVIOUS
<1>1. CASE \E r \in Rings : Arrive(r) BY <1>1, ArriveStep
<1>2. CASE \E r \in Rings : IsrEnter(r) BY <1>2, IsrEnterStep
<1>3. CASE Isr
  BY <1>3, IsrLoopStep, IsrNotifyStep, IsrModeStep, IsrSetStep, IsrScheduleStep
     DEF Isr
<1>4. CASE \E r \in Rings : Poll(r)
  BY <1>4, PollDataStep, PollEmptyStep, PollResetStep, PollCallbackStep DEF Poll
<1>5. CASE \E v \in Voters : Release(v) BY <1>5, ReleaseStep
<1>6. CASE \E v \in Voters : Vote(v) BY <1>6, VoteStep
<1>7. CASE Suspend
  BY <1>7, StopPipeStep, PollPipeStep, QuietPipeStep, StartCoalescingStep,
     WriteHolbStep, CheckHwStep, StartPipeStep, CallbackPipeStep,
     CallbackConfigStep, FinishStep
     DEF Suspend
<1>8. CASE UNCHANGED vars BY <1>8, StutterIInv
<1> QED BY <1>1, <1>2, <1>3, <1>4, <1>5, <1>6, <1>7, <1>8 DEF Next

\* The invariant of the receive path is inductive.
THEOREM Inductive == Spec => []IInv
BY InitIInv, NextIInv, PTL DEF Spec

\* The values of the variables, and the clock vote of every poller that runs
\* (ipa3_rx_poll: "it is guaranteed we already have clock here").
THEOREM TypeCorrect == Spec => []TypeOK
<1>1. IInv => TypeOK
  <2> SUFFICES ASSUME IInv PROVE TypeOK OBVIOUS
  <2>1. Types /\ SeqTypes /\ Unvoted BY DEF IInv
  <2> QED BY <2>1 DEF TypeOK, Types, SeqTypes, Unvoted
<1> QED BY <1>1, Inductive, PTL

\* A ring that is marked as polling is in polling mode, whatever the
\* suspension and its undo chain do to the mode while the interrupt handler
\* and the pollers run.
THEOREM PollingIsMasked == Spec => []PollingMasked
<1>1. IInv => PollingMasked
  <2> SUFFICES ASSUME IInv PROVE PollingMasked OBVIOUS
  <2>1. Types /\ Pollers BY DEF IInv
  <2> QED BY <2>1 DEF PollingMasked, Types, Pollers
<1> QED BY <1>1, Inductive, PTL

\* Once a suspension is over or undone, data in a ring has an unmasked
\* interrupt, the handler, a poller or a work that takes care of it.
THEOREM DataIsNoticed == Spec => []DataNoticed
<1>1. IInv => DataNoticed
  <2> SUFFICES ASSUME IInv, clk, seq = Idle, NEW r \in data
               PROVE  \/ r \in ieob \ mode
                      \/ isr.ring = r
                      \/ napi[r] # "idle"
                      \/ r \in work
    BY DEF DataNoticed
  <2>1. Types /\ Pollers /\ Masked /\ Noticed BY DEF IInv
  <2>2. \A p : ~Parked(p) /\ ~WillLook(p) /\ ~WillStart(p)
    BY NothingStopped DEF Idle
  <2>3. r \in Rings BY <2>1 DEF Types
  <2>4. CASE r \in mode
    <3>1. ~\E p \in Consumers : Ring[p] = r /\ LeftBehind(p)
      BY OwnRing DEF LeftBehind
    <3>2. r \in polling \/ napi[r] = "complete" \/ isr.ring = r
      BY <2>1, <2>2, <2>4, <3>1 DEF Masked
    <3> QED BY <2>1, <2>3, <3>2 DEF Pollers
  <2>5. CASE r \notin mode BY <2>1, <2>2, <2>5 DEF Noticed
  <2> QED BY <2>4, <2>5
<1> QED BY <1>1, Inductive, PTL

\* With the clocks on and no suspension under way the channels run, but for
\* the low latency data pipe before IPA 5.0, and coalescing is started.
THEOREM SuspensionIsUndone == Spec => []SuspensionUndone
<1>1. IInv => SuspensionUndone
  <2> SUFFICES ASSUME IInv, clk, seq = Idle
               PROVE  /\ valid \ chan \subseteq (IF hw = "v4" THEN {"LLD"} ELSE {})
                      /\ ~coal
    BY DEF SuspensionUndone
  <2>1. Channels /\ Coalescing BY DEF IInv
  <2>2. \A p : ~Stopped(p) BY NothingStopped DEF Idle
  <2>3. ~coal BY <2>1 DEF Coalescing, Idle
  <2> QED BY <2>1, <2>2, <2>3 DEF Channels, LeftBehind
<1> QED BY <1>1, Inductive, PTL

\* The clocks go off with no poller running and no event in the ring of a
\* pipe that has it alone.
THEOREM OffIsQuiet == Spec => []QuietWhenOff
<1>1. IInv => QuietWhenOff
  <2> SUFFICES ASSUME IInv, ~clk, NEW r \in Rings
               PROVE  napi[r] = "idle" /\ (r \in data => r \in {"WAN", "LAN"})
    BY DEF QuietWhenOff
  <2>1. Types /\ Unvoted /\ Quiet BY DEF IInv
  <2>2. napi[r] = "idle" BY <2>1 DEF Unvoted
  <2>3. ASSUME r \in data, r \notin {"WAN", "LAN"} PROVE FALSE
    <3>1. r \in {"ODL", "LL", "LLD"} BY <2>3, RingFacts
    <3>2. PICK p \in Consumers \cap valid : Ring[p] = r BY <2>1, <2>3 DEF Types
    <3>3. p = r BY <3>1, <3>2, OwnRing
    <3> QED BY <2>1, <2>3, <3>1, <3>2, <3>3 DEF Quiet
  <2> QED BY <2>2, <2>3
<1> QED BY <1>1, Inductive, PTL

\* gsi_start_channel is called for stopped channels only: no chain of labels
\* starts what the suspension had not stopped, nor anything twice.
THEOREM OnlyStoppedAreStarted == Spec => StartsStopped
<1>1. IInv /\ [Next]_vars =>
        [ \A p \in Pipes : StartPipe /\ Entry = p => p \notin chan ]_vars
  <2> SUFFICES ASSUME IInv, NEW p \in Pipes, StartPipe, Entry = p
               PROVE  p \notin chan
    OBVIOUS
  <2>1. SeqTypes /\ Channels BY DEF IInv
  <2>2. /\ seq.doing \in {"undo", "resume"} /\ seq.todo # {} /\ seq.at = "chan"
    BY DEF StartPipe, Doing
  <2>3. p \in seq.todo /\ p \in valid BY <2>1, <2>2, EntryFacts
  <2>4. Stopped(p) BY <2>2, <2>3 DEF Stopped, AtEntry
  <2> QED BY <2>1, <2>3, <2>4 DEF Channels
<1> QED BY <1>1, Inductive, PTL DEF Spec, StartsStopped
=============================================================================
