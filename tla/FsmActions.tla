------------------------------ MODULE FsmActions -----------------------------
(***************************************************************************)
(* The entries of an event table, as the macros of fsm/Action.h write      *)
(* them.  DESTROY and DELETE_SELF stand for the session functions          *)
(* destroy and deleteSelf, which act on the engine and on nothing else.    *)
(***************************************************************************)
ToState(s)   == [op |-> "change", arg |-> s]
SeFunc(f)    == [op |-> "func", arg |-> f]
NEW_TIMER    == [op |-> "newTimer", arg |-> "-"]
CANCEL_TIMER == [op |-> "cancelTimer", arg |-> "-"]
IGNORE_EVT   == [op |-> "ignore", arg |-> "-"]
DESTROY      == [op |-> "destroy", arg |-> "-"]
DELETE_SELF  == [op |-> "delete", arg |-> "-"]
=============================================================================
