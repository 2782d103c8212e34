---------------------------- MODULE MCFsmSession -----------------------------
(***************************************************************************)
(* FsmSession for TLC, over the table of rz with one list made longer: it  *)
(* goes on after a call that may change the state, which handleEvent has   *)
(* to ignore then (Session.cpp:140-146) and no table of the programs has.  *)
(***************************************************************************)
EXTENDS FsmSession, ZmodemFsm

LongTable ==
    [RzTable EXCEPT !["END_STATE"]["NETWORK_INPUT_EVT"] =
        <<SeFunc("parseFrame"), ToState("IDLE_STATE")>>]
=============================================================================
