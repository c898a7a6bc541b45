----------------------------- MODULE ClkScaling -----------------------------
(***************************************************************************)
(* The client table of ipa_pm.c and the clock plan computed from it: the   *)
(* registration of clients and their exceptions (ipa_pm_register,          *)
(* ipa_pm_deregister, ipa_pm_associate_ipa_cons_to_client), their          *)
(* throughput (ipa_pm_set_throughput) and do_clk_scaling.                  *)
(*                                                                         *)
(* A registration drops client_mutex on the way and is several steps; the  *)
(* other calls are one step each. The activation of a client is the one of *)
(* module IpaPm seen from outside: the state, the bit, the vote and the    *)
(* scaling at once.                                                        *)
(***************************************************************************)
EXTENDS Naturals, Sequences, FiniteSets, SequencesExt

CONSTANTS
    Handles,           \* indices of ipa_pm_ctx->clients, 1 .. MAX_CLIENTS - 1
    Names,             \* names of clients
    NoName,            \* the name of an entry that is not populated yet
    GroupOf,           \* the group a client registers with
    Pipes,             \* indices of clients_by_pipe
    Tputs,             \* throughputs a client may ask for
    Exceptions,        \* exception_list: [clients : set of names, threshold]
    DefaultThreshold,  \* default_threshold
    Registrars,        \* threads that register clients
    NoClient           \* the NULL of both arrays

Groups == {"DEFAULT", "APPS", "MODEM"}

\* struct ipa_pm_client, as far as the table and the plan depend on it.
Client == [name : Names \cup {NoName}, group : Groups, tput : Tputs \cup {0},
           active : BOOLEAN]

ASSUME TableAssumption ==
    /\ Handles \subseteq Nat \ {0} /\ IsFiniteSet(Handles)
    /\ NoName \notin Names
    /\ NoClient \notin Handles \cup Client
    /\ GroupOf \in [Names -> Groups]
    /\ Tputs \subseteq Nat

\* ipa_pm_init: exceptions have one threshold per default threshold.
ASSUME ParamsAssumption ==
    /\ DefaultThreshold \in Seq(Nat)
    /\ Exceptions \in Seq([clients : SUBSET Names, threshold : Seq(Nat)])
    /\ \A e \in DOMAIN Exceptions :
           /\ Exceptions[e].clients # {} /\ IsFiniteSet(Exceptions[e].clients)
           /\ Len(Exceptions[e].threshold) = Len(DefaultThreshold)

VARIABLES
    clients,    \* ipa_pm_ctx->clients
    byPipe,     \* clients_by_pipe
    groupTput,  \* group_tput
    pending,    \* exception_list[e].pending
    bitmask,    \* exception_list[e].bitmask
    activeBits, \* active_client_bitmask
    curVote,    \* cur_vote
    other,      \* somebody outside the PM votes for the clock
    reg         \* the registration in progress of every registrar

vars == <<clients, byPipe, groupTput, pending, bitmask, activeBits, curVote,
          other, reg>>

NotRegistering == [at |-> "idle", hdl |-> NoClient, name |-> NoName]

\* A client after kzalloc.
Blank == [name |-> NoName, group |-> "DEFAULT", tput |-> 0, active |-> FALSE]

Entries(table) == {h \in Handles : table[h] # NoClient}

ActiveHandles(table) == {h \in Entries(table) : table[h].active}

\* ipa_pm_init: pending starts as the number of names in the list.
Init ==
    /\ clients = [h \in Handles |-> NoClient]
    /\ byPipe = [p \in Pipes |-> NoClient]
    /\ groupTput = [g \in Groups |-> 0]
    /\ pending = [e \in DOMAIN Exceptions |-> Cardinality(Exceptions[e].clients)]
    /\ bitmask = [e \in DOMAIN Exceptions |-> {}]
    /\ activeBits = {}
    /\ curVote = 0
    /\ other \in BOOLEAN
    /\ reg = [t \in Registrars |-> NotRegistering]

-----------------------------------------------------------------------------
(* calculate_throughput.                                                   *)

\* The value an array of n elements is searched for starts at 0.
MaxOf(arr) == Max({0} \cup Range(arr))

\* Mutant: the last element is lost unless it is the maximum.
PopMaxDropLast(arr) ==
    LET max == MaxOf(arr)
    IN [max |-> max, rest |-> SubSeq(arr, 1, Len(arr) - 1)]

\* pop_max_from_array: the last element moves to the place of the first
\* maximum; without a positive element the last one is popped.
PopMax(arr) ==
    LET n == Len(arr)
        max == MaxOf(arr)
        idx == IF max = 0 THEN n
               ELSE Min({i \in 1 .. n : arr[i] = max})
    IN [max |-> max,
        rest |-> SubSeq([arr EXCEPT ![idx] = arr[n]], 1, n - 1)]

\* "pop the max and second_max, add the 2nd max, insert the difference".
Aggregate[arr \in Seq(Nat)] ==
    IF Len(arr) <= 1 THEN 0
    ELSE LET first == PopMax(arr)
             second == PopMax(first.rest)
         IN second.max
            + Aggregate[Append(second.rest, first.max - second.max)]

\* The active clients that count: each one of the default group, and the
\* first of each other group.
Counted(table) ==
    {h \in ActiveHandles(table) :
        \/ table[h].group = "DEFAULT"
        \/ \A i \in ActiveHandles(table) : table[i].group = table[h].group => h <= i}

\* The throughput a client counts with: that of its group, if it has one.
ClientTput(table, groups) ==
    [h \in Counted(table) |-> IF table[h].group = "DEFAULT" THEN table[h].tput
                              ELSE groups[table[h].group]]

\* The i-th of a set of handles.
Nth(S, i) == CHOOSE h \in S : Cardinality({g \in S : g <= h}) = i

\* client_tput, in the order of the handles.
TputArray(table, groups) ==
    LET tput == ClientTput(table, groups)
    IN [i \in 1 .. Cardinality(Counted(table)) |-> tput[Nth(Counted(table), i)]]

CalculateThroughput(table, groups) == Aggregate[TputArray(table, groups)]

-----------------------------------------------------------------------------
(* do_clk_scaling.                                                         *)

\* set_current_threshold: the first exception whose clients are all
\* registered and active, or the default.
CurrentThreshold(pend, mask, bits) ==
    LET passing == {e \in DOMAIN Exceptions : pend[e] = 0 /\ mask[e] \subseteq bits}
    IN IF passing = {} THEN DefaultThreshold
       ELSE Exceptions[Min(passing)].threshold

\* Mutant: the plans are counted from 2.
ThresholdIdxFrom2(tput, threshold) ==
    2 + Cardinality({i \in DOMAIN threshold : tput >= threshold[i]})

\* new_th_idx.
ThresholdIdx(tput, threshold) ==
    1 + Cardinality({i \in DOMAIN threshold : tput >= threshold[i]})

PlanIdx(table, groups, pend, mask, bits) ==
    ThresholdIdx(CalculateThroughput(table, groups),
                 CurrentThreshold(pend, mask, bits))

Clocked(table, oth) == oth \/ ActiveHandles(table) # {}

\* do_clk_scaling at the end of a call; ipa3_disable_clks has reset cur_vote
\* when the call has gated the clock.
DoClkScaling ==
    curVote' = IF Clocked(clients', other')
               THEN PlanIdx(clients', groupTput', pending', bitmask', activeBits')
               ELSE 0

-----------------------------------------------------------------------------
(* Registration.                                                           *)

\* add_client_to_exception_list finds a name in a list (strnstr over the
\* length of the name) only if the list is as long as the name.
Listed(name, e) == Exceptions[e].clients = {name}

\* find_next_open_array_element and kzalloc, under client_mutex.
RegisterAlloc(t, name) ==
    LET open == Handles \ Entries(clients)
    IN /\ reg[t] = NotRegistering
       /\ \A h \in Entries(clients) : clients[h].name # name   \* -EEXIST
       /\ open # {}                                            \* -ENOBUFS
       /\ clients' = [clients EXCEPT ![Min(open)] = Blank]
       /\ reg' = [reg EXCEPT ![t] =
                    [at |-> "fill", hdl |-> Min(open), name |-> name]]
       /\ UNCHANGED <<byPipe, groupTput, pending, bitmask, activeBits, curVote,
                      other>>

\* The fields are populated without the mutex; then the wakeup source is
\* registered, or not.
RegisterFill(t) ==
    LET h == reg[t].hdl
    IN /\ reg[t].at = "fill"
       /\ clients' = [clients EXCEPT ![h].name = reg[t].name,
                                     ![h].group = GroupOf[reg[t].name]]
       /\ \E next \in {"add", "undo"} : reg' = [reg EXCEPT ![t].at = next]
       /\ UNCHANGED <<byPipe, groupTput, pending, bitmask, activeBits, curVote,
                      other>>

\* add_client_to_exception_list, under client_mutex: it stops at the first
\* exception that waits for nobody any more (WARN_ON).
RegisterAdd(t) ==
    LET h == reg[t].hdl
        listed == {e \in DOMAIN Exceptions : Listed(reg[t].name, e)}
        full == {e \in listed : pending[e] = 0}
        added == {e \in listed : \A f \in full : e < f}
    IN /\ reg[t].at = "add"
       /\ pending' = [e \in DOMAIN Exceptions |->
                        IF e \in added THEN pending[e] - 1 ELSE pending[e]]
       /\ bitmask' = [e \in DOMAIN Exceptions |->
                        IF e \in added THEN bitmask[e] \cup {h} ELSE bitmask[e]]
       /\ reg' = [reg EXCEPT ![t] = IF full = {} THEN NotRegistering
                                    ELSE [@ EXCEPT !.at = "undo"]]
       /\ UNCHANGED <<clients, byPipe, groupTput, activeBits, curVote, other>>

\* Mutant: the pipes keep pointing to the client.
FreeKeepPipes(h) ==
    /\ clients' = [clients EXCEPT ![h] = NoClient]
    /\ pending' = [e \in DOMAIN Exceptions |->
                     IF h \in bitmask[e] THEN pending[e] + 1 ELSE pending[e]]
    /\ bitmask' = [e \in DOMAIN Exceptions |-> bitmask[e] \ {h}]
    /\ UNCHANGED <<byPipe, groupTput, activeBits, curVote, other>>

\* Mutant: the exceptions of the client do not wait for it again.
FreeKeepPending(h) ==
    /\ clients' = [clients EXCEPT ![h] = NoClient]
    /\ byPipe' = [p \in Pipes |-> IF byPipe[p] = h THEN NoClient ELSE byPipe[p]]
    /\ bitmask' = [e \in DOMAIN Exceptions |-> bitmask[e] \ {h}]
    /\ UNCHANGED <<pending, groupTput, activeBits, curVote, other>>

\* ipa_pm_deregister of a client that is not active, with
\* remove_client_from_exception_list, under client_mutex.
Free(h) ==
    /\ clients' = [clients EXCEPT ![h] = NoClient]
    /\ byPipe' = [p \in Pipes |-> IF byPipe[p] = h THEN NoClient ELSE byPipe[p]]
    /\ pending' = [e \in DOMAIN Exceptions |->
                     IF h \in bitmask[e] THEN pending[e] + 1 ELSE pending[e]]
    /\ bitmask' = [e \in DOMAIN Exceptions |-> bitmask[e] \ {h}]
    /\ UNCHANGED <<groupTput, activeBits, curVote, other>>

\* A registration that failed.
RegisterUndo(t) ==
    /\ reg[t].at = "undo"
    /\ Free(reg[t].hdl)
    /\ reg' = [reg EXCEPT ![t] = NotRegistering]

\* The handles that drivers know: ipa_pm_register has returned.
Registered == Entries(clients) \ {reg[t].hdl : t \in Registrars}

Deregister(h) ==
    /\ h \in Registered /\ ~clients[h].active
    /\ Free(h)
    /\ UNCHANGED reg

\* ipa_pm_associate_ipa_cons_to_client.
Associate(h, p) ==
    /\ h \in Registered
    /\ byPipe[p] = NoClient
    /\ byPipe' = [byPipe EXCEPT ![p] = h]
    /\ UNCHANGED <<clients, groupTput, pending, bitmask, activeBits, curVote,
                   other, reg>>

-----------------------------------------------------------------------------
(* Throughput and activation.                                              *)

\* Mutant: the clock is scaled for default clients only.
SetThroughputDefaultOnly(h, v) ==
    /\ h \in Registered
    /\ IF clients[h].group = "DEFAULT"
         THEN /\ clients' = [clients EXCEPT ![h].tput = v]
              /\ UNCHANGED groupTput
         ELSE /\ groupTput' = [groupTput EXCEPT ![clients[h].group] = v]
              /\ UNCHANGED clients
    /\ UNCHANGED <<byPipe, pending, bitmask, activeBits, other, reg>>
    /\ IF clients[h].active /\ clients[h].group = "DEFAULT"
         THEN DoClkScaling ELSE UNCHANGED curVote

\* ipa_pm_set_throughput: a group has one throughput, and is scaled even if
\* this client is not active.
SetThroughput(h, v) ==
    /\ h \in Registered
    /\ IF clients[h].group = "DEFAULT"
         THEN /\ clients' = [clients EXCEPT ![h].tput = v]
              /\ UNCHANGED groupTput
         ELSE /\ groupTput' = [groupTput EXCEPT ![clients[h].group] = v]
              /\ UNCHANGED clients
    /\ UNCHANGED <<byPipe, pending, bitmask, activeBits, other, reg>>
    /\ IF clients[h].active \/ clients[h].group # "DEFAULT"
         THEN DoClkScaling ELSE UNCHANGED curVote

\* ipa_pm_activate_sync of a client that votes for the clock.
Activate(h) ==
    /\ h \in Registered /\ ~clients[h].active
    /\ clients' = [clients EXCEPT ![h].active = TRUE]
    /\ activeBits' = activeBits \cup {h}
    /\ UNCHANGED <<byPipe, groupTput, pending, bitmask, other, reg>>
    /\ DoClkScaling

\* ipa_pm_deactivate_sync.
Deactivate(h) ==
    /\ h \in Registered /\ clients[h].active
    /\ clients' = [clients EXCEPT ![h].active = FALSE]
    /\ activeBits' = activeBits \ {h}
    /\ UNCHANGED <<byPipe, groupTput, pending, bitmask, other, reg>>
    /\ DoClkScaling

\* External: the other votes for the clock come and go; the last one to go
\* gates the clock and resets cur_vote.
OtherVote ==
    /\ other' = ~other
    /\ curVote' = IF Clocked(clients, other') THEN curVote ELSE 0
    /\ UNCHANGED <<clients, byPipe, groupTput, pending, bitmask, activeBits, reg>>

-----------------------------------------------------------------------------
Register(t) ==
    \/ \E name \in Names : RegisterAlloc(t, name)
    \/ RegisterFill(t) \/ RegisterAdd(t) \/ RegisterUndo(t)

Next ==
    \/ \E t \in Registrars : Register(t)
    \/ \E h \in Handles :
         \/ Deregister(h) \/ Activate(h) \/ Deactivate(h)
         \/ \E p \in Pipes : Associate(h, p)
         \/ \E v \in Tputs : SetThroughput(h, v)
    \/ OtherVote

Spec == Init /\ [][Next]_vars

-----------------------------------------------------------------------------
(* Properties.                                                             *)

\* Types; pending never falls below 0 (WARN_ON), cur_vote is an index of the
\* clock plans or 0.
TypeOK ==
    /\ clients \in [Handles -> Client \cup {NoClient}]
    /\ byPipe \in [Pipes -> Handles \cup {NoClient}]
    /\ groupTput \in [Groups -> Tputs \cup {0}]
    /\ pending \in [DOMAIN Exceptions -> Nat]
    /\ bitmask \in [DOMAIN Exceptions -> SUBSET Handles]
    /\ activeBits \subseteq Handles
    /\ curVote \in 0 .. Len(DefaultThreshold) + 1
    /\ other \in BOOLEAN
    /\ reg \in [Registrars -> [at : {"idle", "fill", "add", "undo"},
                               hdl : Handles \cup {NoClient},
                               name : Names \cup {NoName}]]

\* No pointer of clients_by_pipe and no bit of an exception or of the active
\* mask outlives its client, across deregistration and failed registration.
NoDangling ==
    /\ \A p \in Pipes : byPipe[p] # NoClient => clients[byPipe[p]] # NoClient
    /\ \A e \in DOMAIN Exceptions : bitmask[e] \subseteq Entries(clients)
    /\ activeBits = ActiveHandles(clients)

\* An exception waits for exactly the names of its list it has no client for.
PendingExact ==
    \A e \in DOMAIN Exceptions :
        pending[e] + Cardinality(bitmask[e]) = Cardinality(Exceptions[e].clients)

\* While a client is active the clock plan is the one of the table as it is
\* now: every call that changes what the plan depends on scales the clock.
PlanUpToDate ==
    ActiveHandles(clients) # {} =>
        curVote = PlanIdx(clients, groupTput, pending, bitmask, activeBits)

\* Where a largest element is.
Largest(arr) == CHOOSE i \in DOMAIN arr : \A k \in DOMAIN arr : arr[k] <= arr[i]

\* The greedy algorithm of the comment, without moving the other elements: any
\* largest one is paired with any largest one of the others.
Greedy[arr \in Seq(Nat)] ==
    IF Len(arr) <= 1 THEN 0
    ELSE LET i == Largest(arr)
             rest == RemoveAt(arr, i)
             j == Largest(rest)
         IN rest[j] + Greedy[Append(RemoveAt(rest, j), arr[i] - rest[j])]

Total(arr) == FoldSeq(+, 0, arr)

\* The array juggling of calculate_throughput computes the greedy sum, which
\* does not depend on the order of the handles, and a stream is never counted
\* twice: it needs two ends, and no client more than the others can take.
AggregateGreedy ==
    LET arr == TputArray(clients, groupTput)
    IN /\ Aggregate[arr] = Greedy[arr]
       /\ 2 * Aggregate[arr] <= Total(arr)
       /\ Aggregate[arr] <= Total(arr) - MaxOf(arr)
=============================================================================
