------------------------------ MODULE ZmodemFsm ------------------------------
(***************************************************************************)
(* The event tables of the two ZMODEM programs: SzRules is the one of sz   *)
(* (SzSession::getZmodemFsm), RzRules the one of rz                        *)
(* (RzSession::getZmodemFsm).  The timeouts are left out: they order       *)
(* nothing against the speed of a peer or of a terminal.                   *)
(***************************************************************************)
EXTENDS FsmActions, Sequences

ZEvents ==
    {"ENTRY_EVT", "EXIT_EVT", "TIMEOUT_EVT", "NEXT_EVT", "RESET_EVT",
     "DESTROY_EVT", "NETWORK_INPUT_EVT", "HANDLE_FRAME_EVT", "SEND_FILE_EVT",
     "SEND_ZDATA_EVT", "SKIP_EVT"}

\* getActionList: an event a state does not list has no action.
Complete(rules) == [e \in ZEvents |-> IF e \in DOMAIN rules THEN rules[e] ELSE <<>>]

SzStates ==
    {"IDLE_STATE", "SEND_ZRQINIT_STATE", "SEND_ZFILE_STATE",
     "HANDLE_ZFILE_RSP_STATE", "SEND_ZDATA_STATE", "END_STATE", "DESTROY_STATE"}

SzRules ==
  [ IDLE_STATE |->
      [ENTRY_EVT     |-> <<SeFunc("initState"), NEW_TIMER>>,
       TIMEOUT_EVT   |-> <<ToState("END_STATE")>>,
       SEND_FILE_EVT |-> <<ToState("SEND_ZRQINIT_STATE")>>,
       RESET_EVT     |-> <<ToState("IDLE_STATE")>>,
       DESTROY_EVT   |-> <<ToState("END_STATE")>>,
       EXIT_EVT      |-> <<CANCEL_TIMER, SeFunc("sendLeadingMsg"),
                           SeFunc("sendClientWorkingDir")>>],
    SEND_ZRQINIT_STATE |->
      [ENTRY_EVT         |-> <<SeFunc("sendZrqinit"), NEW_TIMER>>,
       TIMEOUT_EVT       |-> <<ToState("END_STATE")>>,
       RESET_EVT         |-> <<ToState("END_STATE")>>,
       DESTROY_EVT       |-> <<ToState("END_STATE")>>,
       NETWORK_INPUT_EVT |-> <<SeFunc("parseFrame")>>,
       HANDLE_FRAME_EVT  |-> <<ToState("SEND_ZFILE_STATE")>>,
       EXIT_EVT          |-> <<CANCEL_TIMER>>],
    SEND_ZFILE_STATE |->
      [ENTRY_EVT         |-> <<SeFunc("sendZfile"), NEW_TIMER>>,
       TIMEOUT_EVT       |-> <<ToState("END_STATE")>>,
       DESTROY_EVT       |-> <<ToState("END_STATE")>>,
       SEND_ZDATA_EVT    |-> <<ToState("END_STATE")>>,
       SKIP_EVT          |-> <<ToState("SEND_ZRQINIT_STATE")>>,
       NETWORK_INPUT_EVT |-> <<SeFunc("parseFrame")>>,
       HANDLE_FRAME_EVT  |-> <<ToState("HANDLE_ZFILE_RSP_STATE")>>,
       EXIT_EVT          |-> <<CANCEL_TIMER>>],
    HANDLE_ZFILE_RSP_STATE |->
      [ENTRY_EVT         |-> <<SeFunc("handleZfileRsp")>>,
       TIMEOUT_EVT       |-> <<ToState("END_STATE")>>,
       DESTROY_EVT       |-> <<ToState("END_STATE")>>,
       SKIP_EVT          |-> <<ToState("SEND_ZRQINIT_STATE")>>,
       SEND_ZDATA_EVT    |-> <<ToState("SEND_ZDATA_STATE")>>,
       NETWORK_INPUT_EVT |-> <<SeFunc("parseFrame")>>,
       HANDLE_FRAME_EVT  |-> <<ToState("HANDLE_ZFILE_RSP_STATE")>>,
       EXIT_EVT          |-> <<CANCEL_TIMER>>],
    SEND_ZDATA_STATE |->
      [ENTRY_EVT         |-> <<SeFunc("sendZdata"), NEW_TIMER>>,
       TIMEOUT_EVT       |-> <<ToState("END_STATE")>>,
       DESTROY_EVT       |-> <<ToState("END_STATE")>>,
       SEND_ZDATA_EVT    |-> <<ToState("SEND_ZDATA_STATE")>>,
       NETWORK_INPUT_EVT |-> <<SeFunc("parseFrame")>>,
       HANDLE_FRAME_EVT  |-> <<ToState("SEND_ZFILE_STATE")>>,
       EXIT_EVT          |-> <<CANCEL_TIMER>>],
    END_STATE |->
      [ENTRY_EVT         |-> <<SeFunc("sendZfin"), NEW_TIMER>>,
       TIMEOUT_EVT       |-> <<ToState("DESTROY_STATE")>>,
       NETWORK_INPUT_EVT |-> <<SeFunc("parseFrame")>>,
       HANDLE_FRAME_EVT  |-> <<SeFunc("sendOO")>>,
       DESTROY_EVT       |-> <<ToState("DESTROY_STATE")>>,
       RESET_EVT         |-> <<ToState("DESTROY_STATE")>>,
       EXIT_EVT          |-> <<CANCEL_TIMER>>],
    DESTROY_STATE |->
      [ENTRY_EVT   |-> <<DESTROY>>,
       DESTROY_EVT |-> <<DELETE_SELF>>] ]

\* Mutants of SzTable: SzTableBut(t, e, acts) lists acts for event e of state t.
SzTableBut(t, e, acts) ==
    [s \in SzStates |-> IF s = t THEN [Complete(SzRules[s]) EXCEPT ![e] = acts]
                        ELSE Complete(SzRules[s])]
SzTableSkipEnds      == SzTableBut("HANDLE_ZFILE_RSP_STATE", "SKIP_EVT", <<ToState("END_STATE")>>)
SzTableResetIgnored  == SzTableBut("HANDLE_ZFILE_RSP_STATE", "RESET_EVT", <<IGNORE_EVT>>)

SzTable == [s \in SzStates |-> Complete(SzRules[s])]

RzStates ==
    {"IDLE_STATE", "SEND_ZRINIT_STATE", "HANDLE_ZFILE_STATE", "WAIT_ZDATA_STATE",
     "HANDLE_ZDATA_STATE", "ZEOF_STATE", "END_STATE", "DESTROY_STATE"}

RzRules ==
  [ IDLE_STATE |->
      [ENTRY_EVT |-> <<SeFunc("initState"), SeFunc("sendLeadingMsg"),
                       ToState("SEND_ZRINIT_STATE")>>,
       EXIT_EVT  |-> <<SeFunc("sendClientWorkingDir"), SeFunc("sendPresetFiles")>>],
    SEND_ZRINIT_STATE |->
      [ENTRY_EVT         |-> <<SeFunc("sendZrinit"), NEW_TIMER>>,
       TIMEOUT_EVT       |-> <<ToState("END_STATE")>>,
       RESET_EVT         |-> <<ToState("END_STATE")>>,
       DESTROY_EVT       |-> <<ToState("END_STATE")>>,
       NETWORK_INPUT_EVT |-> <<SeFunc("parseFrame")>>,
       HANDLE_FRAME_EVT  |-> <<ToState("HANDLE_ZFILE_STATE")>>,
       EXIT_EVT          |-> <<CANCEL_TIMER>>],
    HANDLE_ZFILE_STATE |->
      [ENTRY_EVT         |-> <<SeFunc("handleZfile"), NEW_TIMER>>,
       TIMEOUT_EVT       |-> <<ToState("END_STATE")>>,
       DESTROY_EVT       |-> <<ToState("END_STATE")>>,
       SKIP_EVT          |-> <<ToState("END_STATE")>>,
       NETWORK_INPUT_EVT |-> <<ToState("HANDLE_ZFILE_STATE")>>,
       NEXT_EVT          |-> <<ToState("WAIT_ZDATA_STATE")>>,
       EXIT_EVT          |-> <<CANCEL_TIMER>>],
    WAIT_ZDATA_STATE |->
      [TIMEOUT_EVT       |-> <<ToState("END_STATE")>>,
       DESTROY_EVT       |-> <<ToState("END_STATE")>>,
       NETWORK_INPUT_EVT |-> <<SeFunc("parseFrame")>>,
       HANDLE_FRAME_EVT  |-> <<SeFunc("waitZdata")>>,
       NEXT_EVT          |-> <<ToState("HANDLE_ZDATA_STATE")>>,
       SKIP_EVT          |-> <<ToState("HANDLE_ZFILE_STATE")>>,
       EXIT_EVT          |-> <<CANCEL_TIMER>>],
    HANDLE_ZDATA_STATE |->
      [ENTRY_EVT         |-> <<SeFunc("handleZdata")>>,
       TIMEOUT_EVT       |-> <<ToState("END_STATE")>>,
       DESTROY_EVT       |-> <<ToState("END_STATE")>>,
       RESET_EVT         |-> <<ToState("END_STATE")>>,
       NETWORK_INPUT_EVT |-> <<ToState("HANDLE_ZDATA_STATE")>>,
       NEXT_EVT          |-> <<ToState("ZEOF_STATE")>>,
       EXIT_EVT          |-> <<CANCEL_TIMER>>],
    ZEOF_STATE |->
      [ENTRY_EVT         |-> <<SeFunc("parseFrame")>>,
       TIMEOUT_EVT       |-> <<ToState("END_STATE")>>,
       DESTROY_EVT       |-> <<ToState("END_STATE")>>,
       NETWORK_INPUT_EVT |-> <<SeFunc("parseFrame")>>,
       HANDLE_FRAME_EVT  |-> <<ToState("SEND_ZRINIT_STATE")>>,
       EXIT_EVT          |-> <<CANCEL_TIMER>>],
    END_STATE |->
      [ENTRY_EVT         |-> <<SeFunc("sendZfin")>>,
       TIMEOUT_EVT       |-> <<ToState("DESTROY_STATE")>>,
       NETWORK_INPUT_EVT |-> <<SeFunc("parseFrame")>>,
       HANDLE_FRAME_EVT  |-> <<SeFunc("sendOO")>>,
       DESTROY_EVT       |-> <<ToState("DESTROY_STATE")>>,
       RESET_EVT         |-> <<ToState("DESTROY_STATE")>>,
       SKIP_EVT          |-> <<IGNORE_EVT>>,
       EXIT_EVT          |-> <<CANCEL_TIMER>>],
    DESTROY_STATE |->
      [ENTRY_EVT   |-> <<DESTROY>>,
       SKIP_EVT    |-> <<IGNORE_EVT>>,
       DESTROY_EVT |-> <<DELETE_SELF>>] ]

\* Mutants of RzTable: RzTableBut(t, e, acts) lists acts for event e of state t.
RzTableBut(t, e, acts) ==
    [s \in RzStates |-> IF s = t THEN [Complete(RzRules[s]) EXCEPT ![e] = acts]
                        ELSE Complete(RzRules[s])]
RzTableEofEnds      == RzTableBut("ZEOF_STATE", "HANDLE_FRAME_EVT", <<ToState("END_STATE")>>)
RzTableSkipIgnored  == RzTableBut("WAIT_ZDATA_STATE", "SKIP_EVT", <<IGNORE_EVT>>)
RzTableResetIgnored == RzTableBut("END_STATE", "RESET_EVT", <<IGNORE_EVT>>)

RzTable == [s \in RzStates |-> Complete(RzRules[s])]

-----------------------------------------------------------------------------
\* What the session functions of the two tables do to the engine.
ZFuncs ==
    {"initState", "sendLeadingMsg", "sendClientWorkingDir", "sendPresetFiles",
     "sendZrqinit", "sendZfile", "handleZfileRsp", "sendZdata", "sendZfin",
     "parseFrame", "sendOO", "sendZrinit", "handleZfile", "waitZdata",
     "handleZdata"}

\* The events a function passes to asynHandleEvent, one at most in a call.
ZPosts ==
    [f \in ZFuncs |->
        CASE f \in {"sendZrqinit", "sendZfile", "parseFrame"} -> {"DESTROY_EVT"}
          [] f = "handleZfileRsp" -> {"DESTROY_EVT", "SKIP_EVT", "SEND_ZDATA_EVT"}
          [] f = "sendZdata"   -> {"SEND_ZDATA_EVT"}
          [] f = "sendOO"      -> {"DESTROY_EVT", "RESET_EVT"}
          [] f = "handleZfile" -> {"DESTROY_EVT", "SKIP_EVT", "NEXT_EVT"}
          [] f = "waitZdata"   -> {"DESTROY_EVT", "SKIP_EVT", "NETWORK_INPUT_EVT"}
          [] f = "handleZdata" -> {"DESTROY_EVT", "NETWORK_INPUT_EVT"}
          [] OTHER -> {}]

\* The events it passes to handleEvent, as the last thing it does.
ZSyncs ==
    [f \in ZFuncs |->
        CASE f = "parseFrame"  -> {"RESET_EVT", "HANDLE_FRAME_EVT"}
          [] f = "waitZdata"   -> {"NEXT_EVT"}
          [] f = "handleZdata" -> {"NEXT_EVT", "RESET_EVT"}
          [] OTHER -> {}]

\* parseFrame restarts the session timer when the frame is a heartbeat.
ZRestarters == {"parseFrame"}
=============================================================================
