------------------------- MODULE ClkScalingProofs -------------------------
(***************************************************************************)
(* Proofs about ClkScaling, for every table of exceptions, any number of   *)
(* handles, pipes and registrars.                                          *)
(***************************************************************************)
EXTENDS ClkScaling, FiniteLemmas

-----------------------------------------------------------------------------
Es == DOMAIN Exceptions

LEMMA Params ==
    /\ Es \subseteq Nat
    /\ \A e \in Es : /\ IsFiniteSet(Exceptions[e].clients)
                     /\ Cardinality(Exceptions[e].clients) \in Nat
BY ParamsAssumption, FS_CardinalityType DEF Es

\* The index of a clock plan.
LEMMA PlanRange ==
    ASSUME NEW tput, NEW pend, NEW mask, NEW bits
    PROVE  ThresholdIdx(tput, CurrentThreshold(pend, mask, bits))
               \in 0 .. Len(DefaultThreshold) + 1
<1> DEFINE thr == CurrentThreshold(pend, mask, bits)
           S == {i \in DOMAIN thr : tput >= thr[i]}
           passing == {e \in Es : pend[e] = 0 /\ mask[e] \subseteq bits}
<1>1. DOMAIN thr = 1 .. Len(DefaultThreshold)
  <2>1. CASE passing = {}
    BY <2>1, ParamsAssumption DEF CurrentThreshold, Es
  <2>2. CASE passing # {}
    <3>1. Min(passing) \in passing BY <2>2, Params, MinIn
    <3>2. thr = Exceptions[Min(passing)].threshold
      BY <2>2 DEF CurrentThreshold, Es
    <3>3. ASSUME NEW m \in Es
          PROVE  /\ Exceptions[m].threshold \in Seq(Nat)
                 /\ Len(Exceptions[m].threshold) = Len(DefaultThreshold)
      <4>1. Exceptions[m] \in [clients : SUBSET Names, threshold : Seq(Nat)]
        <5> DEFINE X == [clients : SUBSET Names, threshold : Seq(Nat)]
        <5>1. Exceptions \in Seq(X) BY ParamsAssumption
        <5> HIDE DEF X
        <5>2. Exceptions[m] \in X BY <5>1 DEF Es
        <5> QED BY <5>2 DEF X
      <4> QED BY <4>1, ParamsAssumption DEF Es
    <3>4. thr \in Seq(Nat) /\ Len(thr) = Len(DefaultThreshold)
      BY <3>1, <3>2, <3>3
    <3> HIDE DEF thr
    <3> QED BY <3>4, ParamsAssumption
  <2> QED BY <2>1, <2>2
<1>2. Len(DefaultThreshold) \in Nat BY ParamsAssumption
<1>3. /\ IsFiniteSet(1 .. Len(DefaultThreshold))
      /\ Cardinality(1 .. Len(DefaultThreshold)) = Len(DefaultThreshold)
  BY <1>2, IntervalCount
<1>4. /\ Cardinality(S) \in Nat /\ Cardinality(S) <= Len(DefaultThreshold)
  <2>1. S \in SUBSET (1 .. Len(DefaultThreshold)) BY <1>1
  <2> HIDE DEF S
  <2> QED BY <2>1, <1>3, FS_Subset, FS_CardinalityType
<1>5. ThresholdIdx(tput, thr) = 1 + Cardinality(S) BY DEF ThresholdIdx
<1> HIDE DEF S, thr
<1> QED BY <1>2, <1>4, <1>5 DEF thr

-----------------------------------------------------------------------------
\* Each registration under way has an entry of its own that is not active,
\* and that no exception knows until it is added.
RegAt(t) ==
    /\ reg[t].at # "idle" =>
         /\ reg[t].hdl \in Entries(clients) /\ reg[t].name \in Names
         /\ ~clients[reg[t].hdl].active
         /\ \A u \in Registrars \ {t} : reg[u].hdl # reg[t].hdl
    /\ reg[t].at = "idle" => reg[t].hdl = NoClient
    /\ reg[t].at \in {"fill", "add"} => \A e \in Es : reg[t].hdl \notin bitmask[e]

RegOK == \A t \in Registrars : RegAt(t)

\* One registration step changes the entry of one handle.
LEMMA FillEntry ==
    ASSUME TypeOK, NEW h \in Handles, clients[h] # NoClient, NEW n \in Names,
           clients' = [clients EXCEPT ![h].name = n, ![h].group = GroupOf[n]]
    PROVE  /\ clients' \in [Handles -> Client \cup {NoClient}]
           /\ clients'[h] # NoClient
           /\ clients'[h].active = clients[h].active
           /\ clients'[h].tput = clients[h].tput
           /\ \A i \in Handles \ {h} : clients'[i] = clients[i]
<1> clients \in [Handles -> Client \cup {NoClient}] BY DEF TypeOK
<1>1. clients[h] \in Client OBVIOUS
<1>2. clients'[h] = [[clients[h] EXCEPT !.name = n] EXCEPT !.group = GroupOf[n]]
  OBVIOUS
<1>3. GroupOf[n] \in Groups BY TableAssumption
<1>4. /\ clients'[h] \in Client
      /\ clients'[h].active = clients[h].active
      /\ clients'[h].tput = clients[h].tput
  BY <1>1, <1>2, <1>3 DEF Client
<1>5. \A i \in Handles \ {h} : clients'[i] = clients[i] OBVIOUS
<1>6. clients' \in [Handles -> Client \cup {NoClient}] BY <1>4, <1>5
<1> QED BY <1>4, <1>5, <1>6, TableAssumption

LEMMA SetActive ==
    ASSUME TypeOK, NEW h \in Handles, clients[h] # NoClient, NEW b \in BOOLEAN,
           clients' = [clients EXCEPT ![h].active = b]
    PROVE  /\ clients' \in [Handles -> Client \cup {NoClient}]
           /\ clients'[h] # NoClient
           /\ clients'[h].active = b
           /\ \A i \in Handles \ {h} : clients'[i] = clients[i]
<1> clients \in [Handles -> Client \cup {NoClient}] BY DEF TypeOK
<1>1. clients[h] \in Client OBVIOUS
<1>2. clients'[h] = [clients[h] EXCEPT !.active = b] OBVIOUS
<1>3. clients'[h] \in Client /\ clients'[h].active = b
  BY <1>1, <1>2 DEF Client
<1>4. \A i \in Handles \ {h} : clients'[i] = clients[i] OBVIOUS
<1>5. clients' \in [Handles -> Client \cup {NoClient}] BY <1>3, <1>4
<1> QED BY <1>3, <1>4, <1>5, TableAssumption

LEMMA SetTput ==
    ASSUME TypeOK, NEW h \in Handles, clients[h] # NoClient, NEW v \in Tputs,
           clients' = [clients EXCEPT ![h].tput = v]
    PROVE  /\ clients' \in [Handles -> Client \cup {NoClient}]
           /\ clients'[h] # NoClient
           /\ clients'[h].active = clients[h].active
           /\ clients'[h].group = clients[h].group
           /\ \A i \in Handles \ {h} : clients'[i] = clients[i]
<1> clients \in [Handles -> Client \cup {NoClient}] BY DEF TypeOK
<1>1. clients[h] \in Client OBVIOUS
<1>2. clients'[h] = [clients[h] EXCEPT !.tput = v] OBVIOUS
<1>3. /\ clients'[h] \in Client /\ clients'[h].active = clients[h].active
      /\ clients'[h].group = clients[h].group
  BY <1>1, <1>2 DEF Client
<1>4. \A i \in Handles \ {h} : clients'[i] = clients[i] OBVIOUS
<1>5. clients' \in [Handles -> Client \cup {NoClient}] BY <1>3, <1>4
<1> QED BY <1>3, <1>4, <1>5, TableAssumption

\* What the steps that allocate and free an entry do to it.
LEMMA AllocEntry ==
    ASSUME TypeOK, NEW t \in Registrars, NEW name \in Names, RegisterAlloc(t, name)
    PROVE  \E h \in Handles : 
              /\ clients[h] = NoClient
              /\ clients' = [clients EXCEPT ![h] = Blank]
              /\ reg' = [reg EXCEPT ![t] = [at |-> "fill", hdl |-> h, name |-> name]]
<1> DEFINE open == Handles \ Entries(clients)
<1>1. open \in SUBSET Nat /\ open # {}
  BY TableAssumption DEF RegisterAlloc
<1>2. Min(open) \in open BY <1>1, MinIn
<1>3. Min(open) \in Handles /\ clients[Min(open)] = NoClient
  BY <1>2 DEF Entries
<1>4. /\ clients' = [clients EXCEPT ![Min(open)] = Blank]
      /\ reg' = [reg EXCEPT ![t] = [at |-> "fill", hdl |-> Min(open), name |-> name]]
  BY DEF RegisterAlloc
<1> HIDE DEF open
<1> QED BY <1>3, <1>4

LEMMA BlankClient == Blank \in Client /\ Blank # NoClient /\ Blank.active = FALSE
<1>1. Blank \in Client BY DEF Blank, Client, Groups
<1> QED BY <1>1, TableAssumption DEF Blank

LEMMA ScaledType ==
    ASSUME DoClkScaling
    PROVE  curVote' \in 0 .. Len(DefaultThreshold) + 1
<1>1. Len(DefaultThreshold) \in Nat BY ParamsAssumption
<1> QED BY <1>1, PlanRange DEF DoClkScaling, PlanIdx

-----------------------------------------------------------------------------
LEMMA TypeNext == ASSUME TypeOK, RegOK, [Next]_vars PROVE TypeOK'
<1> USE DEF RegOK, RegAt
<1> SUFFICES ASSUME Next PROVE TypeOK' BY DEF vars, TypeOK
<1>0. ASSUME NEW h \in Handles, Free(h)
      PROVE  /\ clients' \in [Handles -> Client \cup {NoClient}]
             /\ byPipe' \in [Pipes -> Handles \cup {NoClient}]
             /\ pending' \in [DOMAIN Exceptions -> Nat]
             /\ bitmask' \in [DOMAIN Exceptions -> SUBSET Handles]
  BY <1>0 DEF Free, TypeOK
<1>1. ASSUME NEW t \in Registrars, NEW name \in Names, RegisterAlloc(t, name)
      PROVE  TypeOK'
  <2>1. PICK h \in Handles :
              /\ clients[h] = NoClient
              /\ clients' = [clients EXCEPT ![h] = Blank]
              /\ reg' = [reg EXCEPT ![t] = [at |-> "fill", hdl |-> h, name |-> name]]
    BY <1>1, AllocEntry
  <2> QED BY <1>1, <2>1, BlankClient DEF RegisterAlloc, TypeOK
<1>2. ASSUME NEW t \in Registrars, RegisterFill(t) PROVE TypeOK'
  <2>1. reg[t].hdl \in Handles /\ clients[reg[t].hdl] # NoClient /\ reg[t].name \in Names
    BY <1>2 DEF RegisterFill, Entries
  <2>2. clients' \in [Handles -> Client \cup {NoClient}]
    BY <1>2, <2>1, FillEntry DEF RegisterFill
  <2>3. PICK next \in {"add", "undo"} : reg' = [reg EXCEPT ![t].at = next]
    BY <1>2 DEF RegisterFill
  <2>4. reg' \in [Registrars -> [at : {"idle", "fill", "add", "undo"},
                               hdl : Handles \cup {NoClient},
                               name : Names \cup {NoName}]]
    BY <2>3 DEF TypeOK
  <2> QED BY <1>2, <2>2, <2>4, SMTT(30) DEF RegisterFill, TypeOK
<1>3. ASSUME NEW t \in Registrars, RegisterAdd(t) PROVE TypeOK'
  <2>1. reg[t].hdl \in Handles BY <1>3 DEF RegisterAdd, Entries
  <2>2. pending' \in [DOMAIN Exceptions -> Nat]
    <3> DEFINE listed == {e \in DOMAIN Exceptions : Listed(reg[t].name, e)}
               full == {e \in listed : pending[e] = 0}
               added == {e \in listed : \A f \in full : e < f}
    <3>1. pending' = [e \in DOMAIN Exceptions |->
                        IF e \in added THEN pending[e] - 1 ELSE pending[e]]
      BY <1>3 DEF RegisterAdd
    <3>2. \A e \in added : pending[e] # 0
      BY Params DEF Es
    <3> HIDE DEF added
    <3> QED BY <3>1, <3>2 DEF TypeOK
  <2>3. bitmask' \in [DOMAIN Exceptions -> SUBSET Handles]
    BY <1>3, <2>1 DEF RegisterAdd, TypeOK
  <2>4. reg' \in [Registrars -> [at : {"idle", "fill", "add", "undo"},
                               hdl : Handles \cup {NoClient},
                               name : Names \cup {NoName}]]
    <3>1. \/ reg' = [reg EXCEPT ![t] = NotRegistering]
          \/ reg' = [reg EXCEPT ![t] = [reg[t] EXCEPT !.at = "undo"]]
      BY <1>3, Zenon DEF RegisterAdd
    <3> QED BY <3>1 DEF TypeOK, NotRegistering
  <2> QED BY <1>3, <2>2, <2>3, <2>4 DEF RegisterAdd, TypeOK
<1>4. ASSUME NEW t \in Registrars, RegisterUndo(t) PROVE TypeOK'
  <2>1. reg[t].hdl \in Handles BY <1>4 DEF RegisterUndo, Entries
  <2>2. Free(reg[t].hdl) BY <1>4 DEF RegisterUndo
  <2>3. reg' \in [Registrars -> [at : {"idle", "fill", "add", "undo"},
                               hdl : Handles \cup {NoClient},
                               name : Names \cup {NoName}]]
    BY <1>4 DEF RegisterUndo, TypeOK, NotRegistering
  <2> QED BY <1>0, <2>1, <2>2, <2>3 DEF Free, TypeOK
<1>5. ASSUME NEW h \in Handles, Deregister(h) PROVE TypeOK'
  BY <1>0, <1>5 DEF Deregister, Free, TypeOK
<1>6. ASSUME NEW h \in Handles, Activate(h) PROVE TypeOK'
  <2>1. clients' \in [Handles -> Client \cup {NoClient}]
    BY <1>6, SetActive DEF Activate, Registered, Entries
  <2>2. curVote' \in 0 .. Len(DefaultThreshold) + 1 BY <1>6, ScaledType DEF Activate
  <2> QED BY <1>6, <2>1, <2>2 DEF Activate, TypeOK
<1>7. ASSUME NEW h \in Handles, Deactivate(h) PROVE TypeOK'
  <2>1. clients' \in [Handles -> Client \cup {NoClient}]
    BY <1>7, SetActive DEF Deactivate, Registered, Entries
  <2>2. curVote' \in 0 .. Len(DefaultThreshold) + 1 BY <1>7, ScaledType DEF Deactivate
  <2> QED BY <1>7, <2>1, <2>2 DEF Deactivate, TypeOK
<1>8. ASSUME NEW h \in Handles, NEW p \in Pipes, Associate(h, p) PROVE TypeOK'
  BY <1>8 DEF Associate, TypeOK
<1>9. ASSUME NEW h \in Handles, NEW v \in Tputs, SetThroughput(h, v) PROVE TypeOK'
  <2>1. clients[h] # NoClient BY <1>9 DEF SetThroughput, Registered, Entries
  <2>2. clients' \in [Handles -> Client \cup {NoClient}]
    BY <1>9, <2>1, SetTput DEF SetThroughput, TypeOK
  <2>3. groupTput' \in [Groups -> Tputs \cup {0}]
    BY <1>9, SMTT(30) DEF SetThroughput, TypeOK
  <2>4. curVote' \in 0 .. Len(DefaultThreshold) + 1
    BY <1>9, ScaledType DEF SetThroughput, TypeOK
  <2> QED BY <1>9, <2>2, <2>3, <2>4 DEF SetThroughput, TypeOK
<1>10. ASSUME OtherVote PROVE TypeOK'
  <2>1. curVote' \in 0 .. Len(DefaultThreshold) + 1
    BY <1>10, ParamsAssumption DEF OtherVote, TypeOK
  <2> QED BY <1>10, <2>1 DEF OtherVote, TypeOK
<1> QED BY <1>1, <1>2, <1>3, <1>4, <1>5, <1>6, <1>7, <1>8, <1>9, <1>10
        DEF Next, Register

\* The registrations stay apart, from each other and from what drivers do with
\* the handles they know.
LEMMA RegNext == ASSUME TypeOK, RegOK, NoDangling, [Next]_vars PROVE RegOK'
<1> USE DEF RegOK, RegAt, Entries
<1> SUFFICES ASSUME Next PROVE RegOK' BY DEF vars, Es
<1> /\ clients \in [Handles -> Client \cup {NoClient}] /\ NoClient \notin Handles
    /\ reg \in [Registrars -> [at : {"idle", "fill", "add", "undo"},
                               hdl : Handles \cup {NoClient},
                               name : Names \cup {NoName}]]
    /\ bitmask \in [Es -> SUBSET Handles]
  BY TableAssumption DEF TypeOK, Es
<1>0. ASSUME NEW h \in Handles, Free(h)
      PROVE  /\ \A i \in Handles \ {h} : clients'[i] = clients[i]
             /\ \A e \in Es : bitmask'[e] = bitmask[e] \ {h}
  BY <1>0 DEF Free, Es
<1>1. ASSUME NEW t \in Registrars, NEW name \in Names, RegisterAlloc(t, name)
      PROVE  RegOK'
  <2>1. PICK h \in Handles :
              /\ clients[h] = NoClient
              /\ clients' = [clients EXCEPT ![h] = Blank]
              /\ reg' = [reg EXCEPT ![t] = [at |-> "fill", hdl |-> h, name |-> name]]
    BY <1>1, AllocEntry
  <2>2. bitmask' = bitmask BY <1>1 DEF RegisterAlloc
  <2>3. \A e \in Es : h \notin bitmask[e] BY <2>1 DEF NoDangling, Es
  <2>4. \A u \in Registrars \ {t} : reg'[u] = reg[u] /\ reg[u].hdl # h
    BY <2>1
  <2>5. reg'[t].at = "fill" /\ reg'[t].hdl = h /\ reg'[t].name = name BY <2>1
  <2>6. /\ clients'[h] # NoClient /\ ~clients'[h].active
        /\ \A i \in Handles \ {h} : clients'[i] = clients[i]
    BY <2>1, BlankClient
  <2> QED BY <2>2, <2>3, <2>4, <2>5, <2>6
<1>2. ASSUME NEW t \in Registrars, RegisterFill(t) PROVE RegOK'
  <2>1. reg[t].hdl \in Handles /\ clients[reg[t].hdl] # NoClient /\ reg[t].name \in Names
    BY <1>2 DEF RegisterFill
  <2>2. /\ clients'[reg[t].hdl] # NoClient
        /\ clients'[reg[t].hdl].active = clients[reg[t].hdl].active
        /\ \A i \in Handles \ {reg[t].hdl} : clients'[i] = clients[i]
    BY <1>2, <2>1, FillEntry DEF RegisterFill
  <2>3. PICK next \in {"add", "undo"} : reg' = [reg EXCEPT ![t].at = next]
    BY <1>2 DEF RegisterFill
  <2>4. /\ reg'[t].at = next /\ reg'[t].hdl = reg[t].hdl
        /\ reg'[t].name = reg[t].name
        /\ \A u \in Registrars \ {t} : reg'[u] = reg[u]
    BY <2>3
  <2>5. bitmask' = bitmask /\ reg[t].at = "fill" BY <1>2 DEF RegisterFill
  <2> QED BY <2>1, <2>2, <2>4, <2>5
<1>3. ASSUME NEW t \in Registrars, RegisterAdd(t) PROVE RegOK'
  <2>1. \/ reg' = [reg EXCEPT ![t] = NotRegistering]
        \/ reg' = [reg EXCEPT ![t] = [reg[t] EXCEPT !.at = "undo"]]
    BY <1>3, Zenon DEF RegisterAdd
  <2>2. /\ \/ reg'[t].at = "idle" /\ reg'[t].hdl = NoClient
           \/ reg'[t].at = "undo" /\ reg'[t].hdl = reg[t].hdl /\ reg'[t].name = reg[t].name
        /\ \A u \in Registrars \ {t} : reg'[u] = reg[u]
    BY <2>1 DEF NotRegistering
  <2>3. \A e \in Es : bitmask'[e] \subseteq bitmask[e] \cup {reg[t].hdl}
    BY <1>3 DEF RegisterAdd, Es
  <2>4. clients' = clients /\ reg[t].at = "add" BY <1>3 DEF RegisterAdd
  <2> QED BY <2>2, <2>3, <2>4
<1>4. ASSUME NEW t \in Registrars, RegisterUndo(t) PROVE RegOK'
  <2>1. reg[t].hdl \in Handles /\ Free(reg[t].hdl) BY <1>4 DEF RegisterUndo
  <2>2. reg'[t] = NotRegistering /\ \A u \in Registrars \ {t} : reg'[u] = reg[u]
    BY <1>4 DEF RegisterUndo
  <2> QED BY <1>0, <2>1, <2>2 DEF NotRegistering
<1>5. ASSUME NEW h \in Handles, Deregister(h) PROVE RegOK'
  <2>1. \A t \in Registrars : reg[t].hdl # h
    BY <1>5 DEF Deregister, Registered
  <2> QED BY <1>0, <1>5, <2>1 DEF Deregister
<1>6. ASSUME NEW h \in Handles, h \in Registered,
             \A i \in Handles \ {h} : clients'[i] = clients[i],
             UNCHANGED <<reg, bitmask>>
      PROVE  RegOK'
  <2>1. \A t \in Registrars : reg[t].hdl # h BY <1>6 DEF Registered
  <2> QED BY <1>6, <2>1
<1>7. ASSUME NEW h \in Handles, Activate(h) \/ Deactivate(h) PROVE RegOK'
  BY <1>6, <1>7, SetActive DEF Activate, Deactivate, Registered
<1>8. ASSUME NEW h \in Handles, NEW p \in Pipes, Associate(h, p) PROVE RegOK'
  BY <1>8 DEF Associate
<1>9. ASSUME NEW h \in Handles, NEW v \in Tputs, SetThroughput(h, v) PROVE RegOK'
  BY <1>6, <1>9, SetTput DEF SetThroughput, Registered
<1>10. ASSUME OtherVote PROVE RegOK'
  BY <1>10 DEF OtherVote
<1> QED BY <1>1, <1>2, <1>3, <1>4, <1>5, <1>7, <1>8, <1>9, <1>10 DEF Next, Register

\* No pointer and no bit outlives its client.
LEMMA DanglingNext ==
    ASSUME TypeOK, TypeOK', RegOK, NoDangling, [Next]_vars PROVE NoDangling'
<1> USE DEF NoDangling, Entries, ActiveHandles
<1> SUFFICES ASSUME Next PROVE NoDangling' BY DEF vars
<1> /\ clients \in [Handles -> Client \cup {NoClient}] /\ NoClient \notin Handles
    /\ byPipe \in [Pipes -> Handles \cup {NoClient}]
    /\ bitmask \in [DOMAIN Exceptions -> SUBSET Handles]
    /\ activeBits \subseteq Handles
  BY TableAssumption DEF TypeOK
<1>0. ASSUME NEW h \in Handles, Free(h), ~(clients[h] # NoClient /\ clients[h].active)
      PROVE  NoDangling'
  BY <1>0 DEF Free
<1>1. ASSUME NEW t \in Registrars, NEW name \in Names, RegisterAlloc(t, name)
      PROVE  NoDangling'
  <2>1. PICK h \in Handles :
              /\ clients[h] = NoClient
              /\ clients' = [clients EXCEPT ![h] = Blank]
              /\ reg' = [reg EXCEPT ![t] = [at |-> "fill", hdl |-> h, name |-> name]]
    BY <1>1, AllocEntry
  <2>2. /\ clients'[h] # NoClient /\ ~clients'[h].active
        /\ \A i \in Handles \ {h} : clients'[i] = clients[i]
    BY <2>1, BlankClient, SMTT(30)
  <2> QED BY <1>1, <2>1, <2>2 DEF RegisterAlloc
<1>2. ASSUME NEW t \in Registrars, RegisterFill(t) PROVE NoDangling'
  <2>1. reg[t].hdl \in Handles /\ clients[reg[t].hdl] # NoClient /\ reg[t].name \in Names
    BY <1>2, SMTT(30) DEF RegisterFill, RegOK, RegAt
  <2>2. /\ clients'[reg[t].hdl] # NoClient
        /\ clients'[reg[t].hdl].active = clients[reg[t].hdl].active
        /\ \A i \in Handles \ {reg[t].hdl} : clients'[i] = clients[i]
    BY <1>2, <2>1, FillEntry DEF RegisterFill
  <2>3. UNCHANGED <<byPipe, bitmask, activeBits>> BY <1>2 DEF RegisterFill
  <2> QED BY <2>1, <2>2, <2>3, SMTT(30)
<1>3. ASSUME NEW t \in Registrars, RegisterAdd(t) PROVE NoDangling'
  <2>1. reg[t].hdl \in Handles /\ clients[reg[t].hdl] # NoClient
    BY <1>3 DEF RegisterAdd, RegOK, RegAt
  <2>2. \A e \in DOMAIN Exceptions : bitmask'[e] \subseteq bitmask[e] \cup {reg[t].hdl}
    BY <1>3 DEF RegisterAdd
  <2>3. UNCHANGED <<clients, byPipe, activeBits>> BY <1>3 DEF RegisterAdd
  <2> QED BY <2>1, <2>2, <2>3
<1>4. ASSUME NEW t \in Registrars, RegisterUndo(t) PROVE NoDangling'
  <2>1. reg[t].hdl \in Handles /\ ~clients[reg[t].hdl].active
    BY <1>4 DEF RegisterUndo, RegOK, RegAt
  <2>2. Free(reg[t].hdl) BY <1>4 DEF RegisterUndo
  <2> QED BY <1>0, <2>1, <2>2
<1>5. ASSUME NEW h \in Handles, Deregister(h) PROVE NoDangling'
  BY <1>0, <1>5 DEF Deregister
<1>6. ASSUME NEW h \in Handles, Activate(h) PROVE NoDangling'
  <2>1. clients[h] # NoClient BY <1>6 DEF Activate, Registered
  <2>2. /\ clients'[h] # NoClient /\ clients'[h].active
        /\ \A i \in Handles \ {h} : clients'[i] = clients[i]
    BY <1>6, <2>1, SetActive DEF Activate
  <2> QED BY <1>6, <2>2 DEF Activate
<1>7. ASSUME NEW h \in Handles, Deactivate(h) PROVE NoDangling'
  <2>1. clients[h] # NoClient BY <1>7 DEF Deactivate, Registered
  <2>2. /\ clients'[h] # NoClient /\ ~clients'[h].active
        /\ \A i \in Handles \ {h} : clients'[i] = clients[i]
    BY <1>7, <2>1, SetActive DEF Deactivate
  <2> QED BY <1>7, <2>1, <2>2 DEF Deactivate
<1>8. ASSUME NEW h \in Handles, NEW p \in Pipes, Associate(h, p) PROVE NoDangling'
  BY <1>8 DEF Associate, Registered
<1>9. ASSUME NEW h \in Handles, NEW v \in Tputs, SetThroughput(h, v) PROVE NoDangling'
  <2>1. clients[h] # NoClient BY <1>9 DEF SetThroughput, Registered
  <2>2. \/ clients' = clients
        \/ /\ clients'[h] # NoClient /\ clients'[h].active = clients[h].active
           /\ \A i \in Handles \ {h} : clients'[i] = clients[i]
    BY <1>9, <2>1, SetTput DEF SetThroughput
  <2> QED BY <1>9, <2>1, <2>2 DEF SetThroughput
<1>10. ASSUME OtherVote PROVE NoDangling'
  BY <1>10 DEF OtherVote
<1> QED BY <1>1, <1>2, <1>3, <1>4, <1>5, <1>6, <1>7, <1>8, <1>9, <1>10
        DEF Next, Register

\* Every exception waits for the names it has no client for: a step that
\* enters a handle in a bitmask, or takes one out, counts it.
LEMMA PendingNext ==
    ASSUME TypeOK, RegOK, PendingExact, [Next]_vars PROVE PendingExact'
<1> USE DEF PendingExact
<1> SUFFICES ASSUME NEW e \in Es
             PROVE  (pending[e] + Cardinality(bitmask[e]))'
                        = pending[e] + Cardinality(bitmask[e])
  BY DEF Es
<1>1. /\ IsFiniteSet(bitmask[e]) /\ Cardinality(bitmask[e]) \in Nat
      /\ pending \in [Es -> Nat] /\ bitmask \in [Es -> SUBSET Handles]
  BY TableAssumption, FS_Subset, FS_CardinalityType DEF TypeOK, Es
<1> DEFINE Kept == pending'[e] = pending[e] /\ bitmask'[e] = bitmask[e]
           Goal == (pending[e] + Cardinality(bitmask[e]))'
                       = pending[e] + Cardinality(bitmask[e])
<1>2. Kept => Goal OBVIOUS
<1>3. ASSUME NEW t \in Registrars, RegisterAdd(t) PROVE Goal
  <2> DEFINE h == reg[t].hdl
             listed == {x \in DOMAIN Exceptions : Listed(reg[t].name, x)}
             full == {x \in listed : pending[x] = 0}
             added == {x \in listed : \A f \in full : x < f}
  <2>1. /\ pending'[e] = IF e \in added THEN pending[e] - 1 ELSE pending[e]
        /\ bitmask'[e] = IF e \in added THEN bitmask[e] \cup {h} ELSE bitmask[e]
    BY <1>3 DEF RegisterAdd, Es
  <2>2. h \notin bitmask[e] BY <1>3 DEF RegisterAdd, RegOK, RegAt
  <2>3. Cardinality(bitmask[e] \cup {h}) = Cardinality(bitmask[e]) + 1
    BY <1>1, <2>2, FS_AddElement
  <2> HIDE DEF added, h
  <2> QED BY <1>1, <2>1, <2>3
<1>4. ASSUME NEW h \in Handles, Free(h) PROVE Goal
  <2>1. /\ pending'[e] = IF h \in bitmask[e] THEN pending[e] + 1 ELSE pending[e]
        /\ bitmask'[e] = bitmask[e] \ {h}
    BY <1>4 DEF Free, Es
  <2>2. Cardinality(bitmask[e] \ {h}) =
          IF h \in bitmask[e] THEN Cardinality(bitmask[e]) - 1
                              ELSE Cardinality(bitmask[e])
    BY <1>1, FS_RemoveElement
  <2> QED BY <1>1, <2>1, <2>2
<1>5. ASSUME NEW t \in Registrars, RegisterUndo(t) PROVE Goal
  <2>1. reg[t].hdl \in Handles /\ Free(reg[t].hdl)
    BY <1>5 DEF RegisterUndo, RegOK, RegAt, Entries
  <2> QED BY <1>4, <2>1
<1>6. CASE UNCHANGED vars BY <1>6 DEF vars
<1>7. ASSUME NEW t \in Registrars, NEW name \in Names, RegisterAlloc(t, name)
      PROVE  Goal
  BY <1>7 DEF RegisterAlloc
<1>8. ASSUME NEW t \in Registrars, RegisterFill(t) PROVE Goal
  BY <1>8 DEF RegisterFill
<1>9. ASSUME NEW h \in Handles, Deregister(h) PROVE Goal
  BY <1>4, <1>9 DEF Deregister
<1>10. ASSUME NEW h \in Handles, Activate(h) \/ Deactivate(h) PROVE Goal
  BY <1>10 DEF Activate, Deactivate
<1>11. ASSUME NEW h \in Handles, NEW p \in Pipes, Associate(h, p) PROVE Goal
  BY <1>11 DEF Associate
<1>12. ASSUME NEW h \in Handles, NEW v \in Tputs, SetThroughput(h, v) PROVE Goal
  BY <1>12 DEF SetThroughput
<1>13. ASSUME OtherVote PROVE Goal BY <1>13 DEF OtherVote
<1> QED BY <1>3, <1>5, <1>6, <1>7, <1>8, <1>9, <1>10, <1>11, <1>12, <1>13
        DEF Next, Register

-----------------------------------------------------------------------------
\* The plan depends on the active clients and on the exceptions that pass.
LEMMA PlanDepends ==
    ASSUME NEW T \in [Handles -> Client \cup {NoClient}],
           NEW U \in [Handles -> Client \cup {NoClient}], NEW groups,
           ActiveHandles(U) = ActiveHandles(T),
           \A h \in ActiveHandles(T) : /\ U[h].group = T[h].group
                                       /\ U[h].tput = T[h].tput
    PROVE  CalculateThroughput(U, groups) = CalculateThroughput(T, groups)
<1>1. Counted(U) = Counted(T) BY DEF Counted
<1>2. Counted(T) \subseteq ActiveHandles(T) BY DEF Counted
<1>3. ClientTput(U, groups) = ClientTput(T, groups)
  BY <1>1, <1>2 DEF ClientTput
<1> QED BY <1>1, <1>3 DEF CalculateThroughput, TputArray

LEMMA ThresholdDepends ==
    ASSUME NEW pend, NEW mask, NEW bits, NEW pend2, NEW mask2,
           \A e \in Es : (pend2[e] = 0 /\ mask2[e] \subseteq bits)
                             <=> (pend[e] = 0 /\ mask[e] \subseteq bits)
    PROVE  CurrentThreshold(pend2, mask2, bits) = CurrentThreshold(pend, mask, bits)
<1>1. {e \in Es : pend2[e] = 0 /\ mask2[e] \subseteq bits}
        = {e \in Es : pend[e] = 0 /\ mask[e] \subseteq bits}
  OBVIOUS
<1> QED BY <1>1 DEF CurrentThreshold, Es

\* A step that scales no clock keeps what the plan depends on.
LEMMA PlanKept ==
    ASSUME TypeOK, TypeOK', PlanUpToDate,
           \A h \in Handles : h \in ActiveHandles(clients') <=> h \in ActiveHandles(clients),
           \A h \in ActiveHandles(clients) :
               /\ clients'[h].group = clients[h].group
               /\ clients'[h].tput = clients[h].tput,
           \A e \in Es : (pending'[e] = 0 /\ bitmask'[e] \subseteq activeBits)
                             <=> (pending[e] = 0 /\ bitmask[e] \subseteq activeBits),
           UNCHANGED <<groupTput, activeBits>>,
           ActiveHandles(clients) # {} => curVote' = curVote
    PROVE  PlanUpToDate'
<1>1. ActiveHandles(clients') = ActiveHandles(clients)
  BY DEF ActiveHandles, Entries
<1>2. CalculateThroughput(clients', groupTput) = CalculateThroughput(clients, groupTput)
  BY <1>1, PlanDepends DEF TypeOK
<1>3. CurrentThreshold(pending', bitmask', activeBits)
        = CurrentThreshold(pending, bitmask, activeBits)
  BY ThresholdDepends
<1>4. PlanIdx(clients', groupTput', pending', bitmask', activeBits')
        = PlanIdx(clients, groupTput, pending, bitmask, activeBits)
  BY <1>2, <1>3 DEF PlanIdx
<1> QED BY <1>1, <1>4 DEF PlanUpToDate

LEMMA PlanScaled == ASSUME DoClkScaling PROVE PlanUpToDate'
BY DEF DoClkScaling, PlanUpToDate, Clocked

LEMMA PlanNext ==
    ASSUME TypeOK, TypeOK', RegOK, NoDangling, PlanUpToDate, [Next]_vars
    PROVE  PlanUpToDate'
<1> USE DEF ActiveHandles, Entries
<1> /\ clients \in [Handles -> Client \cup {NoClient}] /\ NoClient \notin Handles
    /\ pending \in [Es -> Nat] /\ bitmask \in [Es -> SUBSET Handles]
    /\ activeBits = ActiveHandles(clients)
  BY TableAssumption DEF TypeOK, Es, NoDangling
<1> DEFINE Same(e) == (pending'[e] = 0 /\ bitmask'[e] \subseteq activeBits)
                        <=> (pending[e] = 0 /\ bitmask[e] \subseteq activeBits)
<1>0. CASE UNCHANGED vars
  <2> USE <1>0 DEF vars
  <2> QED BY PlanKept
<1>1. ASSUME NEW h \in Handles, Free(h), ~(clients[h] # NoClient /\ clients[h].active)
      PROVE  PlanUpToDate'
  <2>1. \A i \in Handles \ {h} : clients'[i] = clients[i] BY <1>1 DEF Free
  <2>2. clients'[h] = NoClient BY <1>1 DEF Free
  <2>3. ASSUME NEW e \in Es PROVE Same(e)
    <3>1. /\ pending'[e] = IF h \in bitmask[e] THEN pending[e] + 1 ELSE pending[e]
          /\ bitmask'[e] = bitmask[e] \ {h}
      BY <1>1 DEF Free, Es
    <3>2. h \notin activeBits BY <1>1
    <3> QED BY <3>1, <3>2
  <2>4. UNCHANGED <<groupTput, activeBits, curVote>> BY <1>1 DEF Free
  <2> QED BY <1>1, <2>1, <2>2, <2>3, <2>4, PlanKept
<1>2. ASSUME NEW t \in Registrars, NEW name \in Names, RegisterAlloc(t, name)
      PROVE  PlanUpToDate'
  <2>1. PICK h \in Handles :
              /\ clients[h] = NoClient
              /\ clients' = [clients EXCEPT ![h] = Blank]
              /\ reg' = [reg EXCEPT ![t] = [at |-> "fill", hdl |-> h, name |-> name]]
    BY <1>2, AllocEntry
  <2>2. /\ clients'[h] # NoClient /\ ~clients'[h].active
        /\ \A i \in Handles \ {h} : clients'[i] = clients[i]
    BY <2>1, BlankClient
  <2>3. UNCHANGED <<groupTput, activeBits, curVote, pending, bitmask>>
    BY <1>2 DEF RegisterAlloc
  <2> QED BY <2>1, <2>2, <2>3, PlanKept
<1>3. ASSUME NEW t \in Registrars, RegisterFill(t) PROVE PlanUpToDate'
  <2>1. /\ reg[t].hdl \in Handles /\ clients[reg[t].hdl] # NoClient
        /\ reg[t].name \in Names /\ ~clients[reg[t].hdl].active
    BY <1>3, SMTT(30) DEF RegisterFill, RegOK, RegAt
  <2>2. /\ clients'[reg[t].hdl].active = clients[reg[t].hdl].active
        /\ \A i \in Handles \ {reg[t].hdl} : clients'[i] = clients[i]
    BY <1>3, <2>1, FillEntry DEF RegisterFill
  <2>3. UNCHANGED <<groupTput, activeBits, curVote, pending, bitmask>>
    BY <1>3 DEF RegisterFill
  <2> QED BY <2>1, <2>2, <2>3, PlanKept, SMTT(30)
<1>4. ASSUME NEW t \in Registrars, RegisterAdd(t) PROVE PlanUpToDate'
  <2> DEFINE h == reg[t].hdl
             listed == {x \in DOMAIN Exceptions : Listed(reg[t].name, x)}
             full == {x \in listed : pending[x] = 0}
             added == {x \in listed : \A f \in full : x < f}
  <2>1. h \notin activeBits BY <1>4 DEF RegisterAdd, RegOK, RegAt
  <2>2. ASSUME NEW e \in Es PROVE Same(e)
    <3>1. /\ pending'[e] = IF e \in added THEN pending[e] - 1 ELSE pending[e]
          /\ bitmask'[e] = IF e \in added THEN bitmask[e] \cup {h} ELSE bitmask[e]
      BY <1>4 DEF RegisterAdd, Es
    <3>2. e \in added => pending[e] # 0 BY Params DEF Es
    <3> HIDE DEF added, h
    <3> QED BY <2>1, <3>1, <3>2
  <2>3. UNCHANGED <<clients, groupTput, activeBits, curVote>>
    BY <1>4 DEF RegisterAdd
  <2> QED BY <2>2, <2>3, PlanKept
<1>5. ASSUME NEW t \in Registrars, RegisterUndo(t) PROVE PlanUpToDate'
  <2>1. /\ reg[t].hdl \in Handles /\ ~clients[reg[t].hdl].active
        /\ Free(reg[t].hdl)
    BY <1>5 DEF RegisterUndo, RegOK, RegAt
  <2> QED BY <1>1, <2>1
<1>6. ASSUME NEW h \in Handles, Deregister(h) PROVE PlanUpToDate'
  BY <1>1, <1>6 DEF Deregister
<1>7. ASSUME NEW h \in Handles, Activate(h) \/ Deactivate(h) PROVE PlanUpToDate'
  BY <1>7, PlanScaled DEF Activate, Deactivate
<1>8. ASSUME NEW h \in Handles, NEW p \in Pipes, Associate(h, p) PROVE PlanUpToDate'
  <2>1. UNCHANGED <<clients, groupTput, activeBits, curVote, pending, bitmask>>
    BY <1>8 DEF Associate
  <2> QED BY <2>1, PlanKept
<1>9. ASSUME NEW h \in Handles, NEW v \in Tputs, SetThroughput(h, v)
      PROVE  PlanUpToDate'
  <2>1. CASE clients[h].active \/ clients[h].group # "DEFAULT"
    BY <1>9, <2>1, PlanScaled DEF SetThroughput
  <2>2. CASE ~clients[h].active /\ clients[h].group = "DEFAULT"
    <3>1. clients[h] # NoClient BY <1>9 DEF SetThroughput, Registered
    <3>2. /\ clients'[h].active = clients[h].active
          /\ \A i \in Handles \ {h} : clients'[i] = clients[i]
      BY <1>9, <2>2, <3>1, SetTput DEF SetThroughput
    <3>3. UNCHANGED <<groupTput, activeBits, curVote, pending, bitmask>>
      BY <1>9, <2>2 DEF SetThroughput
    <3> QED BY <2>2, <3>1, <3>2, <3>3, PlanKept
  <2> QED BY <2>1, <2>2
<1>10. ASSUME OtherVote PROVE PlanUpToDate'
  <2>1. UNCHANGED <<clients, groupTput, activeBits, pending, bitmask>>
    BY <1>10 DEF OtherVote
  <2>2. ActiveHandles(clients) # {} => curVote' = curVote
    BY <1>10 DEF OtherVote, Clocked
  <2> QED BY <2>1, <2>2, PlanKept
<1> QED BY <1>0, <1>2, <1>3, <1>4, <1>5, <1>6, <1>7, <1>8, <1>9, <1>10
        DEF Next, Register

-----------------------------------------------------------------------------
(* The throughput of the active clients, calculate_throughput.            *)
\* A finite set of naturals has a greatest element, which is Max of it.
LEMMA MaxIn ==
    ASSUME NEW S \in SUBSET Nat, S # {}, IsFiniteSet(S)
    PROVE  Max(S) \in S /\ \A y \in S : y <= Max(S)
<1> DEFINE Has(s) == \E x \in s : \A y \in s : x >= y
           bad == {s \in SUBSET S : s # {} /\ ~Has(s)}
<1>1. bad = {}
  <2> SUFFICES ASSUME bad # {} PROVE FALSE OBVIOUS
  <2>1. PICK s \in bad : \A x \in s : s \ {x} \notin bad
    <3>1. bad \in SUBSET SUBSET S OBVIOUS
    <3> HIDE DEF bad
    <3> QED BY <3>1, LeastSubset
  <2>2. PICK x \in s : TRUE BY <2>1
  <2>3. CASE s \ {x} = {} BY <2>1, <2>2, <2>3
  <2>4. CASE s \ {x} # {}
    <3>1. Has(s \ {x}) BY <2>1, <2>2, <2>4
    <3>2. PICK z \in s \ {x} : \A y \in s \ {x} : z >= y BY <3>1
    <3>3. s \subseteq Nat BY <2>1
    <3>4. CASE x >= z
      <4>1. \A y \in s : x >= y BY <2>2, <3>2, <3>3, <3>4
      <4> QED BY <2>1, <2>2, <4>1
    <3>5. CASE ~(x >= z)
      <4>1. \A y \in s : z >= y BY <2>2, <3>2, <3>3, <3>5
      <4> QED BY <2>1, <3>2, <4>1
    <3> QED BY <3>4, <3>5
  <2> QED BY <2>3, <2>4
<1>2. Has(S) BY <1>1
<1>3. Max(S) \in S /\ \A y \in S : Max(S) >= y BY <1>2 DEF Max
<1> QED BY <1>3

\* What pop_max_from_array looks for.
LEMMA MaxOfIn ==
    ASSUME NEW arr \in Seq(Nat)
    PROVE  /\ MaxOf(arr) \in Nat
           /\ \A i \in 1 .. Len(arr) : arr[i] <= MaxOf(arr)
           /\ MaxOf(arr) # 0 => \E i \in 1 .. Len(arr) : arr[i] = MaxOf(arr)
<1> DEFINE R == {arr[i] : i \in 1 .. Len(arr)}
<1>1. Len(arr) \in Nat /\ DOMAIN arr = 1 .. Len(arr) /\ \A i \in 1 .. Len(arr) : arr[i] \in Nat
  OBVIOUS
<1>2. IsFiniteSet(1 .. Len(arr)) BY <1>1, IntervalCount
<1>3. IsFiniteSet(R)
  <2>1. arr \in Surjection(1 .. Len(arr), R) BY <1>1 DEF Surjection
  <2> QED BY <1>2, <2>1, FS_Surjection
<1>4. IsFiniteSet({0} \cup R) BY <1>3, FS_AddElement
<1>5. {0} \cup R \in SUBSET Nat /\ {0} \cup R # {} BY <1>1
<1>6. MaxOf(arr) = Max({0} \cup R) BY <1>1 DEF MaxOf, Range
<1> HIDE DEF R
<1>7. MaxOf(arr) \in {0} \cup R /\ \A y \in {0} \cup R : y <= MaxOf(arr)
  BY <1>4, <1>5, <1>6, MaxIn
<1> QED BY <1>5, <1>7 DEF R

\* How often a value is in an array.
Where(arr, x) == {i \in 1 .. Len(arr) : arr[i] = x}

Count(arr, x) == Cardinality(Where(arr, x))

One(p) == IF p THEN 1 ELSE 0

\* An array has each value finitely often.
LEMMA WhereFinite ==
    ASSUME NEW arr \in Seq(Nat), NEW x
    PROVE  IsFiniteSet(Where(arr, x)) /\ Count(arr, x) \in Nat
<1>1. IsFiniteSet(1 .. Len(arr)) BY IntervalCount
<1>2. Where(arr, x) \in SUBSET (1 .. Len(arr)) BY DEF Where
<1>3. IsFiniteSet(Where(arr, x)) BY <1>1, <1>2, FS_Subset
<1> QED BY <1>3, FS_CardinalityType DEF Count

\* Appending a value adds one occurrence of it.
LEMMA CountAppend ==
    ASSUME NEW arr \in Seq(Nat), NEW e \in Nat, NEW x
    PROVE  /\ Append(arr, e) \in Seq(Nat)
           /\ Count(Append(arr, e), x) = Count(arr, x) + One(e = x)
<1> DEFINE n == Len(arr)
           I == Where(arr, x)
           J == Where(Append(arr, e), x)
<1>1. n \in Nat /\ n + 1 \notin I /\ J \ {n + 1} = I \ {n + 1} BY DEF Where
<1>2. n + 1 \in J <=> e = x BY DEF Where
<1>3. IsFiniteSet(I) BY WhereFinite
<1> HIDE DEF n, I, J
<1>4. Cardinality(J) = Cardinality(I) + (IF n + 1 \in J THEN 1 ELSE 0)
                                      - (IF n + 1 \in I THEN 1 ELSE 0)
  BY <1>1, <1>3, CountMoved
<1>5. Cardinality(I) \in Nat BY <1>3, FS_CardinalityType
<1>6. Append(arr, e) \in Seq(Nat) OBVIOUS
<1> QED BY <1>1, <1>2, <1>4, <1>5, <1>6 DEF Count, I, J, One

\* An array without one element: the last one takes its place ...
Swapped(arr, k) == [i \in 1 .. Len(arr) - 1 |-> IF i = k THEN arr[Len(arr)] ELSE arr[i]]

\* ... which takes one occurrence of its value away,
LEMMA CountSwapped ==
    ASSUME NEW arr \in Seq(Nat), NEW k \in 1 .. Len(arr), NEW x
    PROVE  /\ Swapped(arr, k) \in Seq(Nat) /\ Len(Swapped(arr, k)) = Len(arr) - 1
           /\ Count(arr, x) = Count(Swapped(arr, k), x) + One(arr[k] = x)
<1> DEFINE n == Len(arr)
           r == Swapped(arr, k)
           I == Where(arr, x)
           K == I \ {n}
           R == Where(r, x)
<1>1. n \in Nat /\ n >= 1 /\ \A i \in 1 .. n : arr[i] \in Nat OBVIOUS
<1>2. r \in [1 .. n - 1 -> Nat] BY <1>1 DEF Swapped
<1>3. r \in Seq(Nat) /\ Len(r) = n - 1
  <2>1. n - 1 \in Nat BY <1>1
  <2> HIDE DEF r
  <2> QED BY <1>2, <2>1, SMTT(30)
<1>4. IsFiniteSet(I) /\ IsFiniteSet(R) BY <1>3, WhereFinite
<1>5. Cardinality(K) \in Nat /\ Cardinality(I) = Cardinality(K) + One(arr[n] = x)
  <2>1. n \in I <=> arr[n] = x BY <1>1 DEF Where
  <2>2. IsFiniteSet(K) BY <1>4, FS_Subset
  <2> HIDE DEF I, n
  <2>3. Cardinality(K) = Cardinality(I) - (IF n \in I THEN 1 ELSE 0)
    BY <1>4, FS_RemoveElement, FS_CardinalityType
  <2> QED BY <1>4, <2>1, <2>2, <2>3, FS_CardinalityType DEF One
<1>10. \A i : i \in R <=> /\ i \in 1 .. n - 1
                           /\ x = IF i = k THEN arr[n] ELSE arr[i]
  <2>1. \A i \in 1 .. n - 1 : r[i] = IF i = k THEN arr[n] ELSE arr[i] BY DEF Swapped
  <2> HIDE DEF r, n
  <2> QED BY <1>3, <2>1 DEF Where
<1>11. \A i : i \in I <=> i \in 1 .. n /\ arr[i] = x BY DEF Where
<1> HIDE DEF R, I, r
<1>6. CASE k = n
  <2>1. \A i : i \in R <=> i \in K BY <1>1, <1>6, <1>10, <1>11
  <2>2. R = K
    <3> HIDE DEF K
    <3> QED BY <2>1
  <2> HIDE DEF K, n
  <2> QED BY <1>3, <1>5, <1>6, <2>2 DEF Count, R, I, r, n
<1>7. CASE k # n
  <2>1. R \ {k} = K \ {k}
    <3>1. \A i : i \in R \ {k} <=> i \in K \ {k} BY <1>1, <1>10, <1>11
    <3> HIDE DEF K
    <3> QED BY <3>1
  <2>2. k \in R <=> arr[n] = x BY <1>1, <1>7, <1>10
  <2>3. k \in K <=> arr[k] = x BY <1>1, <1>7, <1>11
  <2>4. IsFiniteSet(K) BY <1>4, FS_Subset
  <2> HIDE DEF R, K, I, r, n
  <2>5. Cardinality(R) = Cardinality(K) + (IF k \in R THEN 1 ELSE 0)
                                        - (IF k \in K THEN 1 ELSE 0)
    BY <2>1, <2>4, CountMoved
  <2> QED BY <1>3, <1>5, <2>2, <2>3, <2>5 DEF Count, One, R, I, r, n
<1> QED BY <1>6, <1>7

\* What a concatenation has at its places.
LEMMA Concat ==
    ASSUME NEW a \in Seq(Nat), NEW b \in Seq(Nat), NEW r, r = a \o b
    PROVE  /\ r \in Seq(Nat) /\ Len(r) = Len(a) + Len(b)
           /\ \A i \in 1 .. Len(a) : r[i] = a[i]
           /\ \A i \in Len(a) + 1 .. Len(a) + Len(b) : r[i] = b[i - Len(a)]
<1>1. a \o b \in Seq(Nat) OBVIOUS
<1>2. Len(a \o b) = Len(a) + Len(b) OBVIOUS
<1>3. \A i \in 1 .. Len(a) : (a \o b)[i] = a[i] OBVIOUS
<1>4. \A i \in Len(a) + 1 .. Len(a) + Len(b) : (a \o b)[i] = b[i - Len(a)] OBVIOUS
<1> QED BY <1>1, <1>2, <1>3, <1>4

\* ... or all after it move up.
LEMMA Removed ==
    ASSUME NEW arr \in Seq(Nat), NEW k \in 1 .. Len(arr)
    PROVE  /\ RemoveAt(arr, k) \in Seq(Nat) /\ Len(RemoveAt(arr, k)) = Len(arr) - 1
           /\ \A i \in 1 .. Len(arr) - 1 :
                RemoveAt(arr, k)[i] = IF i < k THEN arr[i] ELSE arr[i + 1]
<1> DEFINE n == Len(arr)
           a == SubSeq(arr, 1, k - 1)
           b == SubSeq(arr, k + 1, n)
<1>1. n \in Nat /\ n >= 1 OBVIOUS
<1>2. a \in Seq(Nat) /\ Len(a) = k - 1 /\ \A i \in 1 .. k - 1 : a[i] = arr[i]
  BY <1>1
<1>3. b \in Seq(Nat) /\ Len(b) = n - k /\ \A i \in 1 .. n - k : b[i] = arr[k + i]
  BY <1>1
<1>4. RemoveAt(arr, k) = a \o b BY DEF RemoveAt
<1> HIDE DEF a, b, n
<1>5. /\ RemoveAt(arr, k) \in Seq(Nat) /\ Len(RemoveAt(arr, k)) = Len(a) + Len(b)
      /\ \A i \in 1 .. Len(a) : RemoveAt(arr, k)[i] = a[i]
      /\ \A i \in Len(a) + 1 .. Len(a) + Len(b) : RemoveAt(arr, k)[i] = b[i - Len(a)]
  <2>1. a \in Seq(Nat) /\ b \in Seq(Nat) BY <1>2, <1>3
  <2> QED BY <1>4, <2>1, Concat
<1>6. ASSUME NEW i \in 1 .. n - 1
      PROVE  RemoveAt(arr, k)[i] = IF i < k THEN arr[i] ELSE arr[i + 1]
  <2>0. k \in 1 .. n BY DEF n
  <2>1. CASE i < k
    <3>1. i \in 1 .. k - 1 BY <2>0, <2>1
    <3> QED BY <1>2, <1>5, <2>1, <3>1
  <2>2. CASE ~(i < k)
    <3>1. /\ i \in Len(a) + 1 .. Len(a) + Len(b) /\ i - Len(a) \in 1 .. n - k
          /\ k + (i - Len(a)) = i + 1
      BY <1>1, <1>2, <1>3, <2>0, <2>2
    <3> QED BY <1>3, <1>5, <2>2, <3>1
  <2> QED BY <2>1, <2>2
<1>7. Len(a) + Len(b) = n - 1 BY <1>1, <1>2, <1>3 DEF n
<1> QED BY <1>5, <1>6, <1>7 DEF n

\* ... and RemoveAt takes the same occurrence away.
LEMMA CountRemoved ==
    ASSUME NEW arr \in Seq(Nat), NEW k \in 1 .. Len(arr), NEW x
    PROVE  Count(arr, x) = Count(RemoveAt(arr, k), x) + One(arr[k] = x)
<1> DEFINE n == Len(arr)
           r == RemoveAt(arr, k)
           I == Where(arr, x)
           R == Where(r, x)
           to(i) == IF i < k THEN i ELSE i + 1
           f == [i \in R |-> to(i)]
<1>1. n \in Nat /\ n >= 1 /\ k \in 1 .. n OBVIOUS
<1>2. r \in Seq(Nat) /\ Len(r) = n - 1 /\ \A i \in 1 .. n - 1 : r[i] = arr[to(i)]
  BY Removed
<1>3. IsFiniteSet(I) /\ IsFiniteSet(R) BY <1>2, WhereFinite
<1>4. \A i : i \in R <=> i \in 1 .. n - 1 /\ arr[to(i)] = x BY <1>2 DEF Where
<1>5. \A i : i \in I <=> i \in 1 .. n /\ arr[i] = x BY DEF Where
<1> HIDE DEF R, I, r, n
<1>6. f \in Bijection(R, I \ {k})
  <2>1. \A i \in 1 .. n - 1 : to(i) \in 1 .. n /\ to(i) # k BY <1>1
  <2>2. f \in [R -> I \ {k}]
    <3> HIDE DEF to
    <3>1. \A i \in R : to(i) \in I \ {k} BY <1>4, <1>5, <2>1
    <3> QED BY <3>1
  <2>3. \A i, j \in R : f[i] = f[j] => i = j
    <3>1. \A i, j \in 1 .. n - 1 : to(i) = to(j) => i = j BY <1>1
    <3> HIDE DEF to
    <3> QED BY <1>4, <3>1
  <2>4. ASSUME NEW j \in I \ {k} PROVE \E i \in R : f[i] = j
    <3>1. j \in 1 .. n /\ j # k /\ arr[j] = x BY <1>5
    <3>2. PICK i \in 1 .. n - 1 : to(i) = j
      <4>1. CASE j < k BY <1>1, <3>1, <4>1
      <4>2. CASE ~(j < k)
        <5>1. j - 1 \in 1 .. n - 1 /\ to(j - 1) = j BY <1>1, <3>1, <4>2
        <5> QED BY <5>1
      <4> QED BY <4>1, <4>2
    <3> HIDE DEF to
    <3> QED BY <1>4, <3>1, <3>2
  <2> HIDE DEF f
  <2> QED BY <2>2, <2>3, <2>4 DEF Bijection, Injection, Surjection, IsInjective
<1> HIDE DEF f
<1>7. Cardinality(I \ {k}) = Cardinality(R)
  <2>1. ExistsBijection(R, I \ {k}) BY <1>6 DEF ExistsBijection
  <2> QED BY <1>3, <2>1, FS_Bijection
<1>8. Cardinality(I) = Cardinality(I \ {k}) + (IF k \in I THEN 1 ELSE 0)
                                            - (IF k \in I \ {k} THEN 1 ELSE 0)
  <2>1. IsFiniteSet(I \ {k}) /\ I \ {k} = (I \ {k}) \ {k} BY <1>3, FS_Subset
  <2> QED BY <2>1, CountMoved
<1>9. k \in I <=> arr[k] = x BY <1>1, <1>5
<1>10. Cardinality(R) \in Nat BY <1>3, FS_CardinalityType
<1> QED BY <1>7, <1>8, <1>9, <1>10 DEF Count, One, I, R, r

\* pop_max_from_array takes a maximum out.
LEMMA PopMaxTakes ==
    ASSUME NEW arr \in Seq(Nat), Len(arr) >= 1
    PROVE  \E k \in 1 .. Len(arr) : /\ arr[k] = MaxOf(arr)
                                    /\ PopMax(arr).max = MaxOf(arr)
                                    /\ PopMax(arr).rest = Swapped(arr, k)
<1> DEFINE n == Len(arr)
           max == MaxOf(arr)
           ks == {i \in 1 .. n : arr[i] = max}
           k == IF max = 0 THEN n ELSE Min(ks)
<1>1. n \in Nat /\ n >= 1 /\ \A i \in 1 .. n : arr[i] \in Nat OBVIOUS
<1>2. k \in 1 .. n /\ arr[k] = max
  <2>1. CASE max = 0
    <3>1. arr[n] <= max /\ arr[n] \in Nat BY <1>1, MaxOfIn
    <3> QED BY <1>1, <2>1, <3>1
  <2>2. CASE max # 0
    <3>1. ks # {} /\ ks \in SUBSET Nat BY <2>2, MaxOfIn
    <3> HIDE DEF ks, max
    <3>2. Min(ks) \in ks BY <3>1, MinIn
    <3>3. k \in ks BY <2>2, <3>2
    <3> QED BY <3>3 DEF ks
  <2> QED BY <2>1, <2>2
<1>3. PopMax(arr).max = max /\ PopMax(arr).rest = SubSeq([arr EXCEPT ![k] = arr[n]], 1, n - 1)
  BY DEF PopMax
<1> HIDE DEF k, max
<1>4. SubSeq([arr EXCEPT ![k] = arr[n]], 1, n - 1) = Swapped(arr, k)
  <2> DEFINE e == [arr EXCEPT ![k] = arr[n]]
  <2>1. e \in Seq(Nat) /\ Len(e) = n /\ \A i \in 1 .. n : e[i] = IF i = k THEN arr[n] ELSE arr[i]
    BY <1>1, <1>2
  <2>2. SubSeq(e, 1, n - 1) = [i \in 1 .. n - 1 |-> e[i]]
    <3> HIDE DEF e
    <3> QED BY <1>1, <2>1
  <2> HIDE DEF e
  <2> QED BY <1>1, <2>1, <2>2 DEF Swapped
<1> QED BY <1>2, <1>3, <1>4 DEF max

\* A maximum is taken out of an array.
Takes(arr, max, rest) ==
    /\ max = MaxOf(arr)
    /\ rest \in Seq(Nat) /\ Len(rest) = Len(arr) - 1
    /\ \A x : Count(arr, x) = Count(rest, x) + One(max = x)

\* pop_max_from_array takes one occurrence of the maximum out.
LEMMA PopMaxCount ==
    ASSUME NEW arr \in Seq(Nat), Len(arr) >= 1
    PROVE  Takes(arr, PopMax(arr).max, PopMax(arr).rest)
<1>1. PICK k \in 1 .. Len(arr) : /\ arr[k] = MaxOf(arr)
                                 /\ PopMax(arr).max = MaxOf(arr)
                                 /\ PopMax(arr).rest = Swapped(arr, k)
  BY PopMaxTakes
<1> QED BY <1>1, CountSwapped DEF Takes

\* And so it is in the reference.
LEMMA LargestCount ==
    ASSUME NEW arr \in Seq(Nat), Len(arr) >= 1
    PROVE  Takes(arr, arr[Largest(arr)], RemoveAt(arr, Largest(arr)))
<1>1. DOMAIN arr = 1 .. Len(arr) /\ \A i \in 1 .. Len(arr) : arr[i] \in Nat OBVIOUS
<1>2. PICK k \in 1 .. Len(arr) : arr[k] = MaxOf(arr) BY PopMaxTakes
<1>3. \A i \in 1 .. Len(arr) : arr[i] <= arr[k] BY <1>2, MaxOfIn
<1>4. /\ Largest(arr) \in 1 .. Len(arr)
      /\ \A i \in 1 .. Len(arr) : arr[i] <= arr[Largest(arr)]
  BY <1>1, <1>3 DEF Largest
<1>5. arr[Largest(arr)] = MaxOf(arr)
  <2>1. arr[Largest(arr)] <= arr[k] /\ arr[k] <= arr[Largest(arr)] BY <1>3, <1>4
  <2>2. arr[Largest(arr)] \in Nat /\ arr[k] \in Nat BY <1>1, <1>4
  <2> QED BY <1>2, <2>1, <2>2
<1>6. \A x : Count(arr, x) =
              Count(RemoveAt(arr, Largest(arr)), x) + One(arr[Largest(arr)] = x)
  BY <1>4, CountRemoved
<1>7. /\ RemoveAt(arr, Largest(arr)) \in Seq(Nat)
      /\ Len(RemoveAt(arr, Largest(arr))) = Len(arr) - 1
  BY <1>4, Removed
<1> QED BY <1>5, <1>6, <1>7 DEF Takes

\* Count tells which values are in an array, ...
LEMMA CountIn ==
    ASSUME NEW arr \in Seq(Nat), NEW x
    PROVE  Count(arr, x) >= 1 <=> \E i \in 1 .. Len(arr) : arr[i] = x
<1>1. IsFiniteSet(Where(arr, x)) /\ Count(arr, x) \in Nat BY WhereFinite
<1>2. Count(arr, x) = 0 <=> Where(arr, x) = {} BY <1>1, FS_EmptySet DEF Count
<1>3. Where(arr, x) # {} <=> \E i \in 1 .. Len(arr) : arr[i] = x BY DEF Where
<1> QED BY <1>1, <1>2, <1>3

\* ... so that of two arrays the one with more of each value has the greater
\* maximum.
LEMMA MaxMonotone ==
    ASSUME NEW a \in Seq(Nat), NEW b \in Seq(Nat), \A x : Count(a, x) <= Count(b, x)
    PROVE  MaxOf(a) <= MaxOf(b)
<1>1. MaxOf(a) \in Nat /\ MaxOf(b) \in Nat BY MaxOfIn
<1>2. CASE MaxOf(a) = 0 BY <1>1, <1>2
<1>3. CASE MaxOf(a) # 0
  <2>1. \E i \in 1 .. Len(a) : a[i] = MaxOf(a) BY <1>3, MaxOfIn
  <2>2. Count(a, MaxOf(a)) >= 1 BY <2>1, CountIn
  <2>3. Count(b, MaxOf(a)) >= 1
    <3>1. Count(a, MaxOf(a)) \in Nat /\ Count(b, MaxOf(a)) \in Nat BY WhereFinite
    <3> QED BY <2>2, <3>1
  <2>4. PICK j \in 1 .. Len(b) : b[j] = MaxOf(a) BY <2>3, CountIn
  <2> QED BY <2>4, MaxOfIn
<1> QED BY <1>2, <1>3

\* Two maxima are taken and their difference is put back.
LEMMA TakesTwo ==
    ASSUME NEW arr \in Seq(Nat), Len(arr) >= 2,
           NEW m1, NEW r1, Takes(arr, m1, r1), NEW m2, NEW r2, Takes(r1, m2, r2)
    PROVE  /\ m1 \in Nat /\ m2 \in Nat /\ m1 - m2 \in Nat
           /\ r1 \in Seq(Nat) /\ Len(r1) >= 1 /\ r2 \in Seq(Nat)
           /\ Append(r2, m1 - m2) \in Seq(Nat)
           /\ Len(Append(r2, m1 - m2)) = Len(arr) - 1
<1>1. r1 \in Seq(Nat) /\ r2 \in Seq(Nat) /\ Len(r1) = Len(arr) - 1 /\ Len(r2) = Len(r1) - 1
  BY DEF Takes
<1>2. m1 = MaxOf(arr) /\ m2 = MaxOf(r1) BY DEF Takes
<1>3. m1 \in Nat /\ m2 \in Nat BY <1>1, <1>2, MaxOfIn
<1>4. ASSUME NEW x PROVE Count(r1, x) <= Count(arr, x)
  <2>1. Count(arr, x) = Count(r1, x) + One(m1 = x) BY DEF Takes
  <2>2. Count(r1, x) \in Nat BY <1>1, WhereFinite
  <2> QED BY <2>1, <2>2 DEF One
<1>5. m2 <= m1 BY <1>1, <1>2, <1>4, MaxMonotone
<1>6. m1 - m2 \in Nat BY <1>3, <1>5
<1>7. Len(arr) \in Nat OBVIOUS
<1> QED BY <1>1, <1>3, <1>6, <1>7

\* Arrays with the same values, and what is left of them.
SameValues(a, b) == Len(a) = Len(b) /\ \A x : Count(a, x) = Count(b, x)

\* Taking a maximum out of two such arrays leaves two such arrays, ...
LEMMA TakesSame ==
    ASSUME NEW a \in Seq(Nat), NEW b \in Seq(Nat), SameValues(a, b),
           NEW m, NEW r, Takes(a, m, r), NEW l, NEW s, Takes(b, l, s)
    PROVE  m = l /\ SameValues(r, s)
<1>1. MaxOf(a) <= MaxOf(b)
  <2>1. \A x : Count(a, x) <= Count(b, x) BY WhereFinite DEF SameValues
  <2> QED BY <2>1, MaxMonotone
<1>2. MaxOf(b) <= MaxOf(a)
  <2>1. \A x : Count(b, x) <= Count(a, x) BY WhereFinite DEF SameValues
  <2> QED BY <2>1, MaxMonotone
<1>3. m = l BY <1>1, <1>2, MaxOfIn DEF Takes
<1>4. ASSUME NEW x PROVE Count(r, x) = Count(s, x)
  <2>1. Count(a, x) = Count(r, x) + One(m = x) BY DEF Takes
  <2>2. Count(b, x) = Count(s, x) + One(l = x) BY DEF Takes
  <2>3. Count(a, x) = Count(b, x) BY DEF SameValues
  <2>4. Count(r, x) \in Nat /\ Count(s, x) \in Nat BY WhereFinite DEF Takes
  <2> QED BY <1>3, <2>1, <2>2, <2>3, <2>4 DEF One
<1>5. Len(r) = Len(s) BY DEF Takes, SameValues
<1> QED BY <1>3, <1>4, <1>5 DEF SameValues

\* ... and so does appending the same value to both.
LEMMA SameAppend ==
    ASSUME NEW a \in Seq(Nat), NEW b \in Seq(Nat), SameValues(a, b), NEW e \in Nat
    PROVE  SameValues(Append(a, e), Append(b, e))
<1>1. \A x : Count(Append(a, e), x) = Count(Append(b, e), x)
  <2> SUFFICES ASSUME NEW x PROVE Count(Append(a, e), x) = Count(Append(b, e), x)
    OBVIOUS
  <2>1. Count(Append(a, e), x) = Count(a, x) + One(e = x) BY CountAppend
  <2>2. Count(Append(b, e), x) = Count(b, x) + One(e = x) BY CountAppend
  <2> QED BY <2>1, <2>2 DEF SameValues
<1>2. Len(Append(a, e)) = Len(Append(b, e)) BY DEF SameValues
<1> QED BY <1>1, <1>2 DEF SameValues

-----------------------------------------------------------------------------
(* The recursions.                                                         *)

Short == {arr \in Seq(Nat) : Len(arr) <= 1}

LenOf == [arr \in Seq(Nat) |-> Len(arr)]

PopSecond(arr) == PopMax(PopMax(arr).rest)

AggNext(arr) == Append(PopSecond(arr).rest, PopMax(arr).max - PopSecond(arr).max)

\* The two calls of pop_max_from_array in a turn of the loop.
LEMMA PopsTwo ==
    ASSUME NEW arr \in Seq(Nat), Len(arr) >= 2
    PROVE  /\ Takes(arr, PopMax(arr).max, PopMax(arr).rest)
           /\ Takes(PopMax(arr).rest, PopSecond(arr).max, PopSecond(arr).rest)
           /\ AggNext(arr) \in Seq(Nat) /\ Len(AggNext(arr)) = Len(arr) - 1
<1>1. Takes(arr, PopMax(arr).max, PopMax(arr).rest) BY PopMaxCount
<1>2. PopMax(arr).rest \in Seq(Nat) /\ Len(PopMax(arr).rest) >= 1 BY <1>1 DEF Takes
<1>3. Takes(PopMax(arr).rest, PopSecond(arr).max, PopSecond(arr).rest)
  BY <1>2, PopMaxCount DEF PopSecond
<1> QED BY <1>1, <1>3, TakesTwo, SMTT(30) DEF AggNext

\* The sum satisfies its recursive equation: each turn shortens the array.
LEMMA AggregateAt ==
    ASSUME NEW arr \in Seq(Nat)
    PROVE  Aggregate[arr] = IF Len(arr) <= 1 THEN 0
                            ELSE PopSecond(arr).max + Aggregate[AggNext(arr)]
<1> DEFINE Body(f) == [a \in Seq(Nat) |-> IF Len(a) <= 1 THEN 0
                          ELSE PopSecond(a).max + f[AggNext(a)]]
           h == [a \in Seq(Nat) |-> PopSecond(a).max]
           nx == [a \in Seq(Nat) |-> AggNext(a)]
           agg == CHOOSE f : f = Body(f)
<1>1. Descends(Seq(Nat), Short, nx, LenOf)
  <2>1. LenOf \in [Seq(Nat) -> Nat] BY DEF LenOf
  <2>2. ASSUME NEW a \in Seq(Nat) \ Short
        PROVE  nx[a] \in Seq(Nat) /\ LenOf[nx[a]] < LenOf[a]
    <3>1. Len(a) \in Nat /\ Len(a) >= 2 BY DEF Short
    <3>2. AggNext(a) \in Seq(Nat) /\ Len(AggNext(a)) = Len(a) - 1 BY <3>1, PopsTwo
    <3>3. nx[a] = AggNext(a) OBVIOUS
    <3> HIDE DEF nx
    <3> QED BY <3>1, <3>2, <3>3 DEF LenOf
  <2> HIDE DEF nx
  <2> QED BY <2>1, <2>2 DEF Descends
<1>2. PICK f : Solves(f, Seq(Nat), Short, h, nx)
  <2> HIDE DEF nx, h
  <2> QED BY <1>1, SolvesExists
<1>3. f = Body(f)
  <2>1. \A a \in Seq(Nat) : (IF a \in Short THEN 0 ELSE h[a] + f[nx[a]])
                              = (IF Len(a) <= 1 THEN 0 ELSE PopSecond(a).max + f[AggNext(a)])
    BY DEF Short
  <2>2. [a \in Seq(Nat) |-> IF a \in Short THEN 0 ELSE h[a] + f[nx[a]]] = Body(f)
    <3> HIDE DEF h, nx
    <3> QED BY <2>1, Zenon
  <2> HIDE DEF h, nx, Body
  <2> QED BY <1>2, <2>2 DEF Solves
<1>4. agg = Body(agg)
  <2> HIDE DEF Body
  <2> QED BY <1>3, Zenon
<1>5. Aggregate = agg BY DEF Aggregate, PopSecond, AggNext
<1>6. Aggregate = Body(Aggregate)
  <2> HIDE DEF agg, Body
  <2> QED BY <1>4, <1>5
<1> HIDE DEF agg
<1> QED BY <1>6, Zenon

GreedyRest(arr) == RemoveAt(arr, Largest(arr))

GreedySecond(arr) == GreedyRest(arr)[Largest(GreedyRest(arr))]

GreedyNext(arr) ==
    Append(RemoveAt(GreedyRest(arr), Largest(GreedyRest(arr))),
           arr[Largest(arr)] - GreedySecond(arr))

\* The two largest elements the greedy algorithm takes.
LEMMA GreedyTwo ==
    ASSUME NEW arr \in Seq(Nat), Len(arr) >= 2
    PROVE  /\ Takes(arr, arr[Largest(arr)], GreedyRest(arr))
           /\ Takes(GreedyRest(arr), GreedySecond(arr),
                    RemoveAt(GreedyRest(arr), Largest(GreedyRest(arr))))
           /\ GreedyNext(arr) \in Seq(Nat) /\ Len(GreedyNext(arr)) = Len(arr) - 1
<1>1. Takes(arr, arr[Largest(arr)], GreedyRest(arr)) BY LargestCount DEF GreedyRest
<1>2. GreedyRest(arr) \in Seq(Nat) /\ Len(GreedyRest(arr)) >= 1 BY <1>1 DEF Takes
<1>3. Takes(GreedyRest(arr), GreedySecond(arr),
            RemoveAt(GreedyRest(arr), Largest(GreedyRest(arr))))
  BY <1>2, LargestCount DEF GreedySecond
<1> QED BY <1>1, <1>3, TakesTwo DEF GreedyNext

\* The greedy sum satisfies its recursive equation.
LEMMA GreedyAt ==
    ASSUME NEW arr \in Seq(Nat)
    PROVE  Greedy[arr] = IF Len(arr) <= 1 THEN 0
                         ELSE GreedySecond(arr) + Greedy[GreedyNext(arr)]
<1> DEFINE Body(f) == [a \in Seq(Nat) |-> IF Len(a) <= 1 THEN 0
                          ELSE GreedySecond(a) + f[GreedyNext(a)]]
           h == [a \in Seq(Nat) |-> GreedySecond(a)]
           nx == [a \in Seq(Nat) |-> GreedyNext(a)]
           greedy == CHOOSE f : f = Body(f)
<1>1. Descends(Seq(Nat), Short, nx, LenOf)
  <2>1. LenOf \in [Seq(Nat) -> Nat] BY DEF LenOf
  <2>2. ASSUME NEW a \in Seq(Nat) \ Short
        PROVE  nx[a] \in Seq(Nat) /\ LenOf[nx[a]] < LenOf[a]
    <3>1. Len(a) \in Nat /\ Len(a) >= 2 BY DEF Short
    <3>2. GreedyNext(a) \in Seq(Nat) /\ Len(GreedyNext(a)) = Len(a) - 1
      BY <3>1, GreedyTwo
    <3>3. nx[a] = GreedyNext(a) OBVIOUS
    <3> HIDE DEF nx
    <3> QED BY <3>1, <3>2, <3>3 DEF LenOf
  <2> HIDE DEF nx
  <2> QED BY <2>1, <2>2 DEF Descends
<1>2. PICK f : Solves(f, Seq(Nat), Short, h, nx)
  <2> HIDE DEF nx, h
  <2> QED BY <1>1, SolvesExists
<1>3. f = Body(f)
  <2>1. \A a \in Seq(Nat) : (IF a \in Short THEN 0 ELSE h[a] + f[nx[a]])
                              = (IF Len(a) <= 1 THEN 0 ELSE GreedySecond(a) + f[GreedyNext(a)])
    BY DEF Short
  <2>2. [a \in Seq(Nat) |-> IF a \in Short THEN 0 ELSE h[a] + f[nx[a]]] = Body(f)
    <3> HIDE DEF h, nx
    <3> QED BY <2>1, Zenon
  <2> HIDE DEF h, nx, Body
  <2> QED BY <1>2, <2>2 DEF Solves
<1>4. greedy = Body(greedy)
  <2> HIDE DEF Body
  <2> QED BY <1>3, Zenon
<1>5. Greedy = greedy BY DEF Greedy, GreedySecond, GreedyNext, GreedyRest
<1>6. Greedy = Body(Greedy)
  <2> HIDE DEF greedy, Body
  <2> QED BY <1>4, <1>5
<1> HIDE DEF greedy
<1> QED BY <1>6, Zenon

\* A property of arrays holds if it has no least counterexample.
LEMMA LeastArray ==
    ASSUME NEW bad \in SUBSET Seq(Nat), bad # {}
    PROVE  \E a \in bad : \A b \in Seq(Nat) : Len(b) = Len(a) - 1 => b \notin bad
<1>1. LenOf \in [Seq(Nat) -> Nat] BY DEF LenOf
<1>2. PICK a \in bad : \A b \in bad : LenOf[a] <= LenOf[b] BY <1>1, Descent
<1>3. ASSUME NEW b \in Seq(Nat), Len(b) = Len(a) - 1 PROVE b \notin bad
  <2>1. LenOf[a] = Len(a) /\ LenOf[b] = Len(b) /\ Len(a) \in Nat BY DEF LenOf
  <2>2. ~(LenOf[a] <= LenOf[b]) BY <1>3, <2>1
  <2> QED BY <1>2, <2>2
<1> QED BY <1>3

\* The loop of calculate_throughput computes the greedy sum, for every array and
\* every order of it.
LEMMA AggregateIsGreedySum ==
    ASSUME NEW arr \in Seq(Nat)
    PROVE  Aggregate[arr] = Greedy[arr]
<1> DEFINE bad == {a \in Seq(Nat) : \E b \in Seq(Nat) :
                                       SameValues(a, b) /\ Aggregate[a] # Greedy[b]}
<1>1. bad = {}
  <2> SUFFICES ASSUME bad # {} PROVE FALSE OBVIOUS
  <2>1. PICK a \in bad : \A c \in Seq(Nat) : Len(c) = Len(a) - 1 => c \notin bad
    <3>1. bad \in SUBSET Seq(Nat) OBVIOUS
    <3> HIDE DEF bad
    <3> QED BY <3>1, LeastArray
  <2>2. PICK b \in Seq(Nat) : SameValues(a, b) /\ Aggregate[a] # Greedy[b] BY <2>1
  <2>3. a \in Seq(Nat) /\ Len(a) \in Nat /\ Len(b) = Len(a) BY <2>1, <2>2 DEF SameValues
  <2>4. Len(a) >= 2
    <3> SUFFICES ASSUME Len(a) <= 1 PROVE FALSE BY <2>3
    <3>1. Aggregate[a] = 0 BY <2>3, AggregateAt
    <3>2. Greedy[b] = 0 BY <2>3, GreedyAt
    <3> QED BY <2>2, <3>1, <3>2
  <2>5. /\ Takes(a, PopMax(a).max, PopMax(a).rest)
        /\ Takes(PopMax(a).rest, PopSecond(a).max, PopSecond(a).rest)
        /\ AggNext(a) \in Seq(Nat) /\ Len(AggNext(a)) = Len(a) - 1
    BY <2>3, <2>4, PopsTwo
  <2> DEFINE last == RemoveAt(GreedyRest(b), Largest(GreedyRest(b)))
  <2>6. /\ Takes(b, b[Largest(b)], GreedyRest(b))
        /\ Takes(GreedyRest(b), GreedySecond(b), last)
        /\ GreedyNext(b) \in Seq(Nat)
    BY <2>3, <2>4, GreedyTwo
  <2>7. PopMax(a).max = b[Largest(b)] /\ SameValues(PopMax(a).rest, GreedyRest(b))
    BY <2>2, <2>3, <2>5, <2>6, TakesSame
  <2>8. PopSecond(a).max = GreedySecond(b) /\ SameValues(PopSecond(a).rest, last)
    <3>1. PopMax(a).rest \in Seq(Nat) /\ GreedyRest(b) \in Seq(Nat)
      BY <2>5, <2>6 DEF Takes
    <3> HIDE DEF last
    <3> QED BY <2>5, <2>6, <2>7, <3>1, TakesSame
  <2>9. SameValues(AggNext(a), GreedyNext(b))
    <3>1. /\ PopSecond(a).rest \in Seq(Nat) /\ last \in Seq(Nat)
          /\ PopMax(a).max - PopSecond(a).max \in Nat
      <4> HIDE DEF last
      <4>1. PopSecond(a).rest \in Seq(Nat) /\ last \in Seq(Nat) BY <2>5, <2>6 DEF Takes
      <4>2. PopMax(a).max - PopSecond(a).max \in Nat BY <2>3, <2>4, <2>5, TakesTwo
      <4> QED BY <4>1, <4>2
    <3> DEFINE e == PopMax(a).max - PopSecond(a).max
    <3>2. GreedyNext(b) = Append(last, e) BY <2>7, <2>8 DEF GreedyNext
    <3>3. AggNext(a) = Append(PopSecond(a).rest, e) BY DEF AggNext
    <3> HIDE DEF last, e
    <3>4. e \in Nat BY <3>1 DEF e
    <3>5. SameValues(Append(PopSecond(a).rest, e), Append(last, e))
      BY <2>8, <3>1, <3>4, SameAppend
    <3> QED BY <3>2, <3>3, <3>5
  <2>10. Aggregate[AggNext(a)] = Greedy[GreedyNext(b)] BY <2>1, <2>5, <2>6, <2>9
  <2>11. Aggregate[a] = PopSecond(a).max + Aggregate[AggNext(a)]
    BY <2>3, <2>4, AggregateAt
  <2>12. Greedy[b] = GreedySecond(b) + Greedy[GreedyNext(b)] BY <2>3, <2>4, GreedyAt
  <2> QED BY <2>2, <2>8, <2>10, <2>11, <2>12
<1>2. SameValues(arr, arr) BY DEF SameValues
<1> QED BY <1>1, <1>2

-----------------------------------------------------------------------------
(* What the sum is bounded by.                                             *)

\* The sum of an array is the sum over its places.
LEMMA TotalIs ==
    ASSUME NEW arr \in Seq(Nat)
    PROVE  /\ Total(arr) = SumOver(arr, 1 .. Len(arr))
           /\ Total(arr) \in Nat /\ MaxOf(arr) <= Total(arr)
<1>1. DOMAIN arr = 1 .. Len(arr) /\ \A i \in 1 .. Len(arr) : arr[i] \in Nat OBVIOUS
<1>2. Total(arr) = SumOver(arr, DOMAIN arr)
  BY DEF Total, FoldSeq, FoldFunction, FoldFunctionOnSet, SumOver, MapThenSumSet,
         MapThenFoldSet
<1>3. Total(arr) = SumOver(arr, 1 .. Len(arr)) BY <1>1, <1>2
<1>4. IsFiniteSet(1 .. Len(arr)) BY IntervalCount
<1>5. Total(arr) \in Nat /\ \A i \in 1 .. Len(arr) : Total(arr) >= arr[i]
  BY <1>1, <1>3, <1>4, SumOfNaturals
<1>6. MaxOf(arr) <= Total(arr)
  <2>1. CASE MaxOf(arr) = 0 BY <1>5, <2>1
  <2>2. CASE MaxOf(arr) # 0
    <3>1. PICK i \in 1 .. Len(arr) : arr[i] = MaxOf(arr) BY <2>2, MaxOfIn
    <3> QED BY <1>1, <1>5, <3>1
  <2> QED BY <2>1, <2>2
<1> QED BY <1>3, <1>5, <1>6

\* An appended value adds to the sum.
LEMMA TotalAppend ==
    ASSUME NEW arr \in Seq(Nat), NEW e \in Nat
    PROVE  Total(Append(arr, e)) = Total(arr) + e
<1> DEFINE n == Len(arr)
           b == Append(arr, e)
           N == 1 .. n
           M == 1 .. n + 1
<1>1. n \in Nat /\ b \in Seq(Nat) /\ Len(b) = n + 1 /\ b[n + 1] = e
      /\ \A i \in N : b[i] = arr[i]
  OBVIOUS
<1>2. n + 1 \in M /\ M \ {n + 1} = N BY <1>1
<1>3. IsFiniteSet(N) /\ IsFiniteSet(M) BY <1>1, IntervalCount
<1>4. \A i \in M : b[i] \in Nat BY <1>1
<1>5. Total(b) = SumOver(b, M) /\ Total(arr) = SumOver(arr, N) BY <1>1, TotalIs
<1>6. Total(arr) \in Nat BY TotalIs
<1> HIDE DEF n, b, N, M
<1>7. SumOver(b, M) = b[n + 1] + SumOver(b, M \ {n + 1}) BY <1>2, <1>3, <1>4, SumTake
<1>8. SumOver(b, N) = SumOver(arr, N) BY <1>1, <1>3, SumSame
<1>9. SumOver(b, M) = e + SumOver(arr, N)
  <2>1. b[n + 1] = e BY <1>1
  <2>2. M \ {n + 1} = N BY <1>2
  <2> QED BY <1>7, <1>8, <2>1, <2>2
<1>10. Total(b) = e + Total(arr) BY <1>5, <1>9
<1>11. ASSUME NEW t \in Nat PROVE e + t = t + e OBVIOUS
<1>12. Total(b) = Total(arr) + e BY <1>6, <1>10, <1>11
<1> QED BY <1>12 DEF b

\* An element that is swapped out is missing in the sum, ...
LEMMA TotalSwapped ==
    ASSUME NEW arr \in Seq(Nat), NEW k \in 1 .. Len(arr)
    PROVE  Total(arr) = arr[k] + Total(Swapped(arr, k))
<1> DEFINE n == Len(arr)
           b == Swapped(arr, k)
           N == 1 .. n
           M == 1 .. n - 1
           K == M \ {k}
<1>1. /\ n \in Nat /\ n >= 1 /\ k \in N /\ n \in N
      /\ \A i \in N : arr[i] \in Nat
  OBVIOUS
<1>2. b \in Seq(Nat) /\ Len(b) = n - 1 BY CountSwapped
<1>3. \A i \in M : b[i] = IF i = k THEN arr[n] ELSE arr[i] BY DEF Swapped
<1>4. IsFiniteSet(N) BY <1>1, IntervalCount
<1>5. N \ {n} = M BY <1>1
<1>6. IsFiniteSet(M) /\ IsFiniteSet(K) BY <1>4, <1>5, FS_Subset
<1>7. Total(arr) = SumOver(arr, N) /\ Total(b) = SumOver(b, M) BY <1>2, TotalIs
<1>8. Total(b) \in Nat BY <1>2, TotalIs
<1>9. M \subseteq N BY <1>1
<1> HIDE DEF n, b, N, M
<1>10. SumOver(arr, N) = arr[n] + SumOver(arr, M) BY <1>1, <1>4, <1>5, SumTake
<1>11. ASSUME k = n PROVE Total(arr) = arr[k] + Total(b)
  <2>1. n \notin M BY <1>1, <1>5
  <2>2. SumOver(b, M) = SumOver(arr, M) BY <1>3, <1>6, <1>11, <2>1, SumSame
  <2> QED BY <1>7, <1>10, <1>11, <2>2
<1>12. ASSUME k # n PROVE Total(arr) = arr[k] + Total(b)
  <2>1. k \in M BY <1>1, <1>5, <1>12
  <2>2. SumOver(arr, M) = arr[k] + SumOver(arr, K) BY <1>1, <1>6, <1>9, <2>1, SumTake
  <2>3. \A i \in M : b[i] \in Nat BY <1>1, <1>3, <1>9
  <2>4. SumOver(b, M) = b[k] + SumOver(b, K) BY <1>6, <2>1, <2>3, SumTake
  <2>5. SumOver(b, K) = SumOver(arr, K) BY <1>3, <1>6, SumSame
  <2>6. b[k] = arr[n] /\ arr[n] \in Nat /\ arr[k] \in Nat BY <1>1, <1>3, <2>1
  <2>7. SumOver(arr, K) \in Nat BY <1>1, <1>6, <1>9, SumType
  <2> HIDE DEF K
  <2>8. Total(arr) = arr[n] + (arr[k] + SumOver(arr, K)) BY <1>7, <1>10, <2>2
  <2>9. Total(b) = arr[n] + SumOver(arr, K) BY <1>7, <2>4, <2>5, <2>6
  <2>10. \A x, y, t \in Nat : x + (y + t) = y + (x + t) OBVIOUS
  <2>11. arr[n] + (arr[k] + SumOver(arr, K)) = arr[k] + (arr[n] + SumOver(arr, K))
    <3> DEFINE x == arr[n]
               y == arr[k]
               t == SumOver(arr, K)
    <3>1. x \in Nat /\ y \in Nat /\ t \in Nat BY <2>6, <2>7
    <3> HIDE DEF x, y, t
    <3>2. x + (y + t) = y + (x + t) BY <2>10, <3>1
    <3> QED BY <3>2 DEF x, y, t
  <2> QED BY <2>8, <2>9, <2>11, Zenon
<1>13. Total(arr) = arr[k] + Total(b) BY <1>11, <1>12
<1> QED BY <1>13 DEF b

\* ... as is the maximum that pop_max_from_array takes.
LEMMA TotalPopMax ==
    ASSUME NEW arr \in Seq(Nat), Len(arr) >= 1
    PROVE  Total(arr) = MaxOf(arr) + Total(PopMax(arr).rest)
BY PopMaxTakes, TotalSwapped

\* The arithmetic of one step: the largest and the second largest are m1 and m2,
\* the others add up to t, and the sum for the next array is g.
LEMMA StepBounds ==
    ASSUME NEW m1 \in Nat, NEW m2 \in Nat, NEW t \in Nat, NEW g \in Nat,
           m1 - m2 \in Nat, 2 * g <= t + (m1 - m2), g <= t
    PROVE  /\ 2 * (m2 + g) <= m1 + m2 + t
           /\ m2 + g <= (m1 + m2 + t) - m1
OBVIOUS

\* A stream has two ends: the sum is at most half of all throughputs, and at most
\* what the others have for the largest.
LEMMA AggregateBounds ==
    ASSUME NEW arr \in Seq(Nat)
    PROVE  /\ Aggregate[arr] \in Nat
           /\ 2 * Aggregate[arr] <= Total(arr)
           /\ Aggregate[arr] <= Total(arr) - MaxOf(arr)
<1> DEFINE Good(a) == /\ Aggregate[a] \in Nat
                      /\ 2 * Aggregate[a] <= Total(a)
                      /\ Aggregate[a] <= Total(a) - MaxOf(a)
           bad == {a \in Seq(Nat) : ~Good(a)}
<1> SUFFICES ASSUME bad # {} PROVE FALSE OBVIOUS
<1>1. PICK a \in bad : \A c \in Seq(Nat) : Len(c) = Len(a) - 1 => c \notin bad
  <2>1. bad \in SUBSET Seq(Nat) OBVIOUS
  <2> HIDE DEF bad
  <2> QED BY <2>1, LeastArray
<1>2. a \in Seq(Nat) /\ Len(a) \in Nat BY <1>1
<1>3. Total(a) \in Nat /\ MaxOf(a) \in Nat /\ MaxOf(a) <= Total(a)
  BY <1>2, TotalIs, MaxOfIn
<1>4. CASE Len(a) <= 1
  <2>1. Aggregate[a] = 0 BY <1>2, <1>4, AggregateAt
  <2>2. Good(a) BY <1>3, <2>1
  <2> QED BY <1>1, <2>2
<1>5. CASE Len(a) >= 2
  <2> DEFINE m1 == PopMax(a).max
             r1 == PopMax(a).rest
             m2 == PopSecond(a).max
             r2 == PopSecond(a).rest
             nx == AggNext(a)
  <2>1. Takes(a, m1, r1) /\ Takes(r1, m2, r2) /\ nx \in Seq(Nat) /\ Len(nx) = Len(a) - 1
    BY <1>2, <1>5, PopsTwo
  <2>2. /\ m1 \in Nat /\ m2 \in Nat /\ m1 - m2 \in Nat
        /\ r1 \in Seq(Nat) /\ Len(r1) >= 1 /\ r2 \in Seq(Nat)
    <3> HIDE DEF m1, m2, r1, r2, nx
    <3> QED BY <1>2, <1>5, <2>1, TakesTwo
  <2>3. Total(a) = m1 + Total(r1) BY <1>2, <1>5, <2>1, TotalPopMax DEF Takes
  <2>4. Total(r1) = m2 + Total(r2)
    <3>1. Total(r1) = MaxOf(r1) + Total(PopMax(r1).rest) BY <2>2, TotalPopMax
    <3> QED BY <2>1, <3>1 DEF Takes, PopSecond
  <2>5. nx = Append(r2, m1 - m2) BY DEF AggNext
  <2>6. Aggregate[a] = m2 + Aggregate[nx] BY <1>2, <1>5, AggregateAt
  <2>7. m1 = MaxOf(a) BY <2>1 DEF Takes
  <2> HIDE DEF m1, m2, r1, r2, nx, Good
  <2>8. Good(nx) BY <1>1, <2>1
  <2>9. Total(nx) = Total(r2) + (m1 - m2) BY <2>2, <2>5, TotalAppend
  <2>10. m1 - m2 <= MaxOf(nx) /\ MaxOf(nx) \in Nat
    <3>1. Len(nx) \in 1 .. Len(nx) /\ nx[Len(nx)] = m1 - m2 BY <2>2, <2>5
    <3> QED BY <2>1, <3>1, MaxOfIn
  <2>11. Total(r2) \in Nat BY <2>2, TotalIs
  <2>13. /\ Aggregate[nx] \in Nat
         /\ 2 * Aggregate[nx] <= Total(nx)
         /\ Aggregate[nx] <= Total(nx) - MaxOf(nx)
    BY <2>8 DEF Good
  <2>14. Aggregate[nx] <= Total(r2) BY <2>2, <2>9, <2>10, <2>11, <2>13
  <2>15. Total(a) = m1 + m2 + Total(r2) BY <2>2, <2>3, <2>4, <2>11
  <2>16. 2 * (m2 + Aggregate[nx]) <= m1 + m2 + Total(r2)
         /\ m2 + Aggregate[nx] <= (m1 + m2 + Total(r2)) - m1
    <3>1. 2 * Aggregate[nx] <= Total(r2) + (m1 - m2) BY <2>9, <2>13
    <3> QED BY <2>2, <2>11, <2>13, <2>14, <3>1, StepBounds
  <2>17. 2 * Aggregate[a] <= Total(a) /\ Aggregate[a] <= Total(a) - MaxOf(a)
    BY <2>6, <2>7, <2>15, <2>16
  <2>18. Aggregate[a] \in Nat BY <2>2, <2>6, <2>13
  <2>12. Good(a) BY <2>17, <2>18 DEF Good
  <2> QED BY <1>1, <2>12 DEF Good
<1> QED BY <1>2, <1>4, <1>5

-----------------------------------------------------------------------------
\* The handles of a finite set have their places.
LEMMA NthIn ==
    ASSUME NEW S \in SUBSET Nat, IsFiniteSet(S), NEW i \in 1 .. Cardinality(S)
    PROVE  Nth(S, i) \in S
<1> DEFINE upto(h) == {g \in S : g <= h}
           rank == [h \in S |-> Cardinality(upto(h))]
           N == 1 .. Cardinality(S)
<1>1. Cardinality(S) \in Nat BY FS_CardinalityType
<1>2. ASSUME NEW h \in S PROVE rank[h] \in N /\ IsFiniteSet(upto(h))
  <2>1. IsFiniteSet(upto(h)) /\ Cardinality(upto(h)) <= Cardinality(S)
    BY FS_Subset
  <2>2. upto(h) # {} BY <1>2
  <2>3. Cardinality(upto(h)) \in Nat /\ Cardinality(upto(h)) # 0
    <3> HIDE DEF upto
    <3> QED BY <2>1, <2>2, FS_CardinalityType, FS_EmptySet
  <2>4. rank[h] = Cardinality(upto(h)) OBVIOUS
  <2> HIDE DEF upto, rank
  <2> QED BY <1>1, <2>1, <2>3, <2>4
<1>3. ASSUME NEW g \in S, NEW h \in S, g < h PROVE rank[g] < rank[h]
  <2>0. g \in Nat /\ h \in Nat /\ \A x \in S : x \in Nat OBVIOUS
  <2>1. upto(g) \subseteq upto(h) /\ h \in upto(h) /\ h \notin upto(g)
    <3>1. h <= h /\ ~(h <= g) BY <1>3, <2>0
    <3>2. \A x \in S : x <= g => x <= h BY <1>3, <2>0
    <3>3. \A x : x \in upto(g) <=> x \in S /\ x <= g OBVIOUS
    <3>4. \A x : x \in upto(h) <=> x \in S /\ x <= h OBVIOUS
    <3> HIDE DEF upto
    <3>5. upto(g) \subseteq upto(h) BY <3>2, <3>3, <3>4
    <3>6. h \in upto(h) BY <3>1, <3>4
    <3>7. h \notin upto(g) BY <3>1, <3>3
    <3> QED BY <3>5, <3>6, <3>7
  <2>2. IsFiniteSet(upto(h)) BY <1>2
  <2>3. Cardinality(upto(g)) <= Cardinality(upto(h))
        /\ (Cardinality(upto(g)) = Cardinality(upto(h)) => upto(g) = upto(h))
    <3> HIDE DEF upto
    <3> QED BY <2>1, <2>2, FS_Subset
  <2>4. upto(g) # upto(h) BY <2>1
  <2>5. rank[g] = Cardinality(upto(g)) /\ rank[h] = Cardinality(upto(h)) OBVIOUS
  <2>6. rank[g] \in Nat /\ rank[h] \in Nat BY <1>1, <1>2
  <2> HIDE DEF upto, rank
  <2> QED BY <2>3, <2>4, <2>5, <2>6
<1>4. rank \in Injection(S, N)
  <2>1. rank \in [S -> N] BY <1>2
  <2>2. \A g, h \in S : rank[g] = rank[h] => g = h
    <3> SUFFICES ASSUME NEW g \in S, NEW h \in S, rank[g] = rank[h], g # h PROVE FALSE
      OBVIOUS
    <3>1. g < h \/ h < g OBVIOUS
    <3>2. rank[g] \in Nat /\ rank[h] \in Nat BY <1>1, <1>2
    <3> HIDE DEF rank
    <3> QED BY <1>3, <3>1, <3>2
  <2> HIDE DEF rank, N
  <2> QED BY <2>1, <2>2 DEF Injection, IsInjective
<1>5. IsFiniteSet(N) /\ Cardinality(N) = Cardinality(S) BY <1>1, IntervalCount
<1>6. rank \in Surjection(S, N)
  <2> HIDE DEF rank, N
  <2> QED BY <1>4, <1>5, FS_Injection
<1>7. PICK h \in S : rank[h] = i
  <2> HIDE DEF rank
  <2> QED BY <1>6 DEF Surjection
<1>8. Cardinality({g \in S : g <= h}) = i BY <1>7
<1> QED BY <1>8 DEF Nth

\* client_tput is an array of throughputs.
LEMMA TputArrayType == ASSUME TypeOK PROVE TputArray(clients, groupTput) \in Seq(Nat)
<1> DEFINE C == Counted(clients)
           tput == ClientTput(clients, groupTput)
           n == Cardinality(C)
<1>1. C \in SUBSET Handles BY DEF Counted, ActiveHandles, Entries
<1>2. C \in SUBSET Nat /\ IsFiniteSet(C) BY <1>1, TableAssumption, FS_Subset
<1>3. n \in Nat BY <1>2, FS_CardinalityType
<1>4. ASSUME NEW h \in C PROVE tput[h] \in Nat
  <2>1. h \in Handles /\ clients[h] # NoClient
    BY DEF Counted, ActiveHandles, Entries
  <2>2. clients[h] \in Client BY <2>1 DEF TypeOK
  <2>6. Tputs \cup {0} \subseteq Nat BY TableAssumption
  <2>3. clients[h].tput \in Nat /\ clients[h].group \in Groups
    BY <2>2, <2>6 DEF Client
  <2>4. groupTput[clients[h].group] \in Nat
    BY <2>3, <2>6 DEF TypeOK
  <2>5. tput[h] = IF clients[h].group = "DEFAULT" THEN clients[h].tput
                  ELSE groupTput[clients[h].group]
    BY DEF ClientTput
  <2> QED BY <2>3, <2>4, <2>5
<1>5. \A i \in 1 .. n : Nth(C, i) \in C BY <1>2, NthIn
<1>6. TputArray(clients, groupTput) = [i \in 1 .. n |-> tput[Nth(C, i)]] BY DEF TputArray
<1> HIDE DEF C, tput, n
<1>7. [i \in 1 .. n |-> tput[Nth(C, i)]] \in [1 .. n -> Nat] BY <1>4, <1>5
<1> QED BY <1>3, <1>6, <1>7

\* The aggregate of any well-typed table is the greedy sum, within its bounds.
LEMMA TableAggregate == ASSUME TypeOK PROVE AggregateGreedy
<1> DEFINE arr == TputArray(clients, groupTput)
<1>1. arr \in Seq(Nat) BY TputArrayType
<1> HIDE DEF arr
<1>2. Aggregate[arr] = Greedy[arr] BY <1>1, AggregateIsGreedySum
<1>3. 2 * Aggregate[arr] <= Total(arr) /\ Aggregate[arr] <= Total(arr) - MaxOf(arr)
  BY <1>1, AggregateBounds
<1> QED BY <1>2, <1>3 DEF AggregateGreedy, arr

-----------------------------------------------------------------------------
\* What has to be proved together: PlanUpToDate needs that the active mask is
\* that of the active clients, and a registration under way must not be one.
TableInv == TypeOK /\ RegOK /\ NoDangling /\ PendingExact /\ PlanUpToDate

LEMMA TableInit == ASSUME Init PROVE TableInv
<1>1. TypeOK
  <2>1. pending \in [DOMAIN Exceptions -> Nat] BY Params DEF Init, Es
  <2>2. curVote \in 0 .. Len(DefaultThreshold) + 1 BY ParamsAssumption DEF Init
  <2>3. reg \in [Registrars -> [at : {"idle", "fill", "add", "undo"},
                                hdl : Handles \cup {NoClient},
                                name : Names \cup {NoName}]]
    BY DEF Init, NotRegistering
  <2> QED BY <2>1, <2>2, <2>3 DEF Init, TypeOK
<1>2. RegOK BY DEF Init, RegOK, RegAt, NotRegistering
<1>3. NoDangling BY DEF Init, NoDangling, ActiveHandles, Entries
<1>4. PendingExact BY FS_EmptySet, Params DEF Init, PendingExact, Es
<1>5. PlanUpToDate BY DEF Init, PlanUpToDate, ActiveHandles, Entries
<1> QED BY <1>1, <1>2, <1>3, <1>4, <1>5 DEF TableInv

\* The table, the exceptions and the plan agree after every critical section of
\* a registration, a deregistration or another call.
THEOREM TableCorrect == Spec => []TableInv
<1>1. Init => TableInv BY TableInit
<1>2. TableInv /\ [Next]_vars => TableInv'
  BY TypeNext, RegNext, DanglingNext, PendingNext, PlanNext DEF TableInv
<1> QED BY <1>1, <1>2, PTL DEF Spec

\* pending never falls below 0 and cur_vote is the index of a clock plan.
THEOREM TypeCorrect == Spec => []TypeOK
<1>1. TableInv => TypeOK BY DEF TableInv
<1> QED BY <1>1, TableCorrect, PTL

\* No pointer of clients_by_pipe and no bit outlives its client, in every
\* interleaving of registrations, failed ones included, and deregistrations.
THEOREM NothingDangles == Spec => []NoDangling
<1>1. TableInv => NoDangling BY DEF TableInv
<1> QED BY <1>1, TableCorrect, PTL

\* Every exception waits for exactly the names it has no client for.
THEOREM PendingIsExact == Spec => []PendingExact
<1>1. TableInv => PendingExact BY DEF TableInv
<1> QED BY <1>1, TableCorrect, PTL

\* While a client is active the clock plan is that of the table: no call that
\* changes what the plan depends on forgets to scale the clock.
THEOREM PlanIsUpToDate == Spec => []PlanUpToDate
<1>1. TableInv => PlanUpToDate BY DEF TableInv
<1> QED BY <1>1, TableCorrect, PTL

\* The throughput that the plan is chosen by is the greedy sum over the active
\* clients, whatever their number and the order of their handles, and counts no
\* stream twice.
THEOREM AggregateIsGreedy == Spec => []AggregateGreedy
<1>1. TypeOK => AggregateGreedy BY TableAggregate
<1> QED BY <1>1, TypeCorrect, PTL
=============================================================================
