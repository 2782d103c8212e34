-------------------------------- MODULE OscFsm --------------------------------
(***************************************************************************)
(* The event tables of the two OSC programs: SfRules is the one of sf      *)
(* (SfSession::getZmodemFsm), RfRules the one of rf                        *)
(* (RfSession::getZmodemFsm).  The timeouts and the entries that only      *)
(* write to the progress window are left out, and so are two rows of rf's  *)
(* HANDLE_DATA_STATE that lead to states its fsm does not have.            *)
(***************************************************************************)
EXTENDS FsmActions, Sequences

OscEvents ==
    {"ENTRY_EVT", "EXIT_EVT", "TIMEOUT_EVT", "NEXT_EVT", "OK_EVT", "RESET_EVT",
     "DESTROY_EVT", "NETWORK_INPUT_EVT", "SEND_DATA_EVT"}

OscFuncs ==
    {"initState", "sendInitReq", "unsupportNotice", "parsePkg", "sendEmptyDirs",
     "sendFileInfo", "sendFileContent", "sendInitRecv", "sendBye"}

\* getActionList: an event a state does not list has no action.
Complete(rules) == [e \in OscEvents |-> IF e \in DOMAIN rules THEN rules[e] ELSE <<>>]

\* The rows the two tables share.
InitRules(next, destroyed) ==
    [ENTRY_EVT         |-> <<SeFunc("initState"), SeFunc("sendInitReq"), NEW_TIMER>>,
     TIMEOUT_EVT       |-> <<SeFunc("unsupportNotice"), ToState("DESTROY_STATE")>>,
     RESET_EVT         |-> <<ToState("END_STATE")>>,
     NETWORK_INPUT_EVT |-> <<SeFunc("parsePkg")>>,
     NEXT_EVT          |-> next,
     DESTROY_EVT       |-> <<ToState(destroyed)>>,
     EXIT_EVT          |-> <<CANCEL_TIMER>>]

EndRules ==
    [ENTRY_EVT         |-> <<SeFunc("sendBye"), NEW_TIMER>>,
     TIMEOUT_EVT       |-> <<ToState("DESTROY_STATE")>>,
     NETWORK_INPUT_EVT |-> <<SeFunc("parsePkg")>>,
     DESTROY_EVT       |-> <<ToState("DESTROY_STATE")>>,
     RESET_EVT         |-> <<ToState("DESTROY_STATE")>>,
     NEXT_EVT          |-> <<IGNORE_EVT>>,
     EXIT_EVT          |-> <<CANCEL_TIMER>>]

DestroyRules ==
    [ENTRY_EVT   |-> <<DESTROY>>,
     RESET_EVT   |-> <<IGNORE_EVT>>,
     DESTROY_EVT |-> <<DELETE_SELF>>]

SfStates ==
    {"INIT_STATE", "SEND_FILE_INFO_STATE", "SEND_DATA_STATE", "END_STATE", "DESTROY_STATE"}

SfRules ==
  [ INIT_STATE |->
      InitRules(<<SeFunc("sendEmptyDirs"), ToState("SEND_FILE_INFO_STATE")>>, "END_STATE"),
    SEND_FILE_INFO_STATE |->
      [ENTRY_EVT         |-> <<SeFunc("sendFileInfo")>>,
       NEXT_EVT          |-> <<ToState("SEND_FILE_INFO_STATE")>>,
       TIMEOUT_EVT       |-> <<ToState("END_STATE")>>,
       OK_EVT            |-> <<ToState("END_STATE")>>,
       RESET_EVT         |-> <<ToState("END_STATE")>>,
       DESTROY_EVT       |-> <<ToState("END_STATE")>>,
       NETWORK_INPUT_EVT |-> <<SeFunc("parsePkg")>>,
       SEND_DATA_EVT     |-> <<ToState("SEND_DATA_STATE")>>,
       EXIT_EVT          |-> <<CANCEL_TIMER>>],
    SEND_DATA_STATE |->
      [ENTRY_EVT         |-> <<SeFunc("sendFileContent"), NEW_TIMER>>,
       TIMEOUT_EVT       |-> <<ToState("END_STATE")>>,
       DESTROY_EVT       |-> <<ToState("END_STATE")>>,
       SEND_DATA_EVT     |-> <<ToState("SEND_DATA_STATE")>>,
       NETWORK_INPUT_EVT |-> <<SeFunc("parsePkg")>>,
       RESET_EVT         |-> <<ToState("END_STATE")>>,
       NEXT_EVT          |-> <<ToState("SEND_FILE_INFO_STATE")>>,
       EXIT_EVT          |-> <<CANCEL_TIMER>>],
    END_STATE     |-> EndRules,
    DESTROY_STATE |-> DestroyRules ]

\* Mutants of SfTable: SfTableBut(t, e, acts) lists acts for event e of state t.
SfTableBut(t, e, acts) ==
    [s \in SfStates |-> IF s = t THEN [Complete(SfRules[s]) EXCEPT ![e] = acts]
                        ELSE Complete(SfRules[s])]
SfTableResetIgnored == SfTableBut("SEND_FILE_INFO_STATE", "RESET_EVT", <<IGNORE_EVT>>)
SfTableNextEnds     == SfTableBut("SEND_DATA_STATE", "NEXT_EVT", <<ToState("END_STATE")>>)

SfTable == [s \in SfStates |-> Complete(SfRules[s])]

RfStates ==
    {"INIT_STATE", "INIT_RECV_STATE", "HANDLE_DATA_STATE", "END_STATE", "DESTROY_STATE"}

RfRules ==
  [ INIT_STATE |-> InitRules(<<ToState("INIT_RECV_STATE")>>, "DESTROY_STATE"),
    INIT_RECV_STATE |->
      [ENTRY_EVT         |-> <<SeFunc("sendInitRecv"), NEW_TIMER>>,
       TIMEOUT_EVT       |-> <<ToState("END_STATE")>>,
       OK_EVT            |-> <<ToState("END_STATE")>>,
       RESET_EVT         |-> <<ToState("END_STATE")>>,
       NETWORK_INPUT_EVT |-> <<SeFunc("parsePkg")>>,
       DESTROY_EVT       |-> <<ToState("DESTROY_STATE")>>,
       SEND_DATA_EVT     |-> <<ToState("HANDLE_DATA_STATE")>>,
       EXIT_EVT          |-> <<CANCEL_TIMER>>],
    HANDLE_DATA_STATE |->
      [ENTRY_EVT         |-> <<NEW_TIMER>>,
       TIMEOUT_EVT       |-> <<ToState("END_STATE")>>,
       NETWORK_INPUT_EVT |-> <<SeFunc("parsePkg")>>,
       DESTROY_EVT       |-> <<ToState("DESTROY_STATE")>>,
       RESET_EVT         |-> <<ToState("END_STATE")>>,
       EXIT_EVT          |-> <<CANCEL_TIMER>>],
    END_STATE     |-> EndRules,
    DESTROY_STATE |-> DestroyRules ]

\* Mutant of RfTable: a terminal that answers is not asked for files.
RfTableNextEnds ==
    [s \in RfStates |-> IF s = "INIT_STATE"
                        THEN Complete(InitRules(<<ToState("END_STATE")>>, "DESTROY_STATE"))
                        ELSE Complete(RfRules[s])]

RfTable == [s \in RfStates |-> Complete(RfRules[s])]
=============================================================================
