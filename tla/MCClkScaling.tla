---------------------------- MODULE MCClkScaling ----------------------------
(***************************************************************************)
(* A small instance of ClkScaling: clients of the default group and two of *)
(* another; an exception of one client, and one of two.                    *)
(***************************************************************************)
EXTENDS ClkScaling

MCGroupOf == [n \in Names |-> IF n \in {"WLAN", "ODL"} THEN "APPS" ELSE "DEFAULT"]

MCExceptions == << [clients |-> {"USB"}, threshold |-> <<1, 2>>],
                   [clients |-> {"USB", "WLAN"}, threshold |-> <<0, 1>>] >>

MCDefaultThreshold == <<2, 3>>
=============================================================================
