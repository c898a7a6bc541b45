----------------------------- MODULE ClockVote -----------------------------
(***************************************************************************)
(* What the active clients of the IPA promise to a caller of               *)
(* ipa3_inc_client_enable_clks and ipa3_dec_client_disable_clks, without   *)
(* the counter, the mutex and the work items of ActiveClients: somebody    *)
(* who has a vote finds the IPA clocked and its pipes resumed, from the    *)
(* return of the call that takes the vote until the vote is released or    *)
(* handed over.                                                            *)
(***************************************************************************)
CONSTANT Owner   \* who can own a vote: a thread or a queued work item

VARIABLES
    owners,      \* those who own one
    on           \* clocks on and pipes resumed

vote == <<owners, on>>

Init == owners \subseteq Owner /\ on = TRUE

\* A vote is given to somebody without one, on a running clock only.
Vote(u) == on /\ owners' = owners \cup {u}

Release(u) == owners' = owners \ {u}

\* A vote changes hands in one step: at no point does nobody own it.
HandOver(u, v) == owners' = (owners \ {u}) \cup {v}

Enable == ~on /\ on' = TRUE /\ UNCHANGED owners

\* The clock goes off only when nobody owns a vote.
Disable == on /\ owners = {} /\ on' = FALSE /\ UNCHANGED owners

Next ==
    \/ /\ UNCHANGED on
       /\ \/ \E v \in Owner \ owners : Vote(v)
          \/ \E u \in owners :
                Release(u) \/ (\E v \in Owner \ owners : HandOver(u, v))
    \/ Enable
    \/ Disable

Spec == Init /\ [][Next]_vote
=============================================================================
