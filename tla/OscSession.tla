------------------------------ MODULE OscSession ------------------------------
(***************************************************************************)
(* What sf and rf share (osc/OscSession.cpp): FsmEngine with the terminal  *)
(* line, the input buffer, the signal flag, the input callback, the loop   *)
(* of parsePkg and the packages that are about no file.  A package on the  *)
(* line or in the buffer is whole; one that arrived in part is not looked  *)
(* at before the rest has come.  A "Broken" one cannot be decoded.         *)
(***************************************************************************)
EXTENDS FsmEngine, OscFsm, OscLine

CONSTANTS
    ClientDir,    \* whether the option -c is given
    Signals,      \* whether a signal may arrive
    MaxJobs       \* bound: queue length at which input ticks do nothing

ASSUME OscAssumption ==
    /\ MaxJobs \in Nat \ {0} /\ {ClientDir, Signals} \subseteq BOOLEAN
    /\ Events = OscEvents /\ Funcs = OscFuncs

VARIABLES
    bufferM,      \* the packages read and not parsed yet
    signaled      \* g_has_signaled

oscVars == <<engineVars, lineVars, bufferM, signaled>>

\* main: the constructor handles ENTRY_EVT before the input timer is armed and
\* the worker runs.
OscInit ==
    /\ curState = FirstState
    /\ initialized = FALSE /\ toDelete = FALSE /\ deleted = FALSE
    /\ fsmTimer = NoTimer /\ inputTimer = TRUE
    /\ jobs = <<>> /\ waitStop = FALSE /\ worker = "timers"
    /\ agenda = <<Call("handle", "ENTRY_EVT")>>
    /\ toProgram = <<>> /\ toTerminal = <<>> /\ bufferM = <<>> /\ signaled = FALSE

-----------------------------------------------------------------------------
\* sendPkg.  After a signal a package the terminal does not take at once is cut,
\* and lost.
Written(p, interrupted) == IF interrupted THEN {<<p>>, <<>>} ELSE {<<p>>}

Sends(p) == \E sent \in Written(p, signaled) : toTerminal' = toTerminal \o sent

Running(f)        == Calling("func") /\ Arg = f
Returns           == FuncReturns(fsmTimer, jobs, <<>>)
ReturnsPosting(e) == FuncReturns(fsmTimer, Posted(jobs, <<e>>), <<>>)

\* sendByeOnResetM is false when initState runs, the only time it does.
InitState ==
    /\ Running("initState")
    /\ bufferM' = <<>>
    /\ Returns
    /\ UNCHANGED <<lineVars, signaled>>

\* A function that sends package p, or nothing, and is done.
SendsAndReturns(f, wanted, p) ==
    /\ Running(f)
    /\ IF wanted THEN Sends(p) ELSE UNCHANGED toTerminal
    /\ Returns
    /\ UNCHANGED <<toProgram, bufferM, signaled>>

SendInitReq     == SendsAndReturns("sendInitReq", TRUE, Plain("InitReq"))
UnsupportNotice == SendsAndReturns("unsupportNotice", FALSE, Plain("none"))
SendBye         == SendsAndReturns("sendBye", ~toDelete, Plain("Bye"))

-----------------------------------------------------------------------------
\* parsePkg.  The next package is of the given type; the loop goes on with the
\* one behind it in whatever state the session then is.
Parses(type) == Running("parsePkg") /\ bufferM # <<>> /\ Head(bufferM).type = type

GoesOn == IF Len(bufferM) > 1 THEN <<Call("func", "parsePkg")>> ELSE <<>>

\* It is handled with the events es posted, and the package taken off.
Handled(es) ==
    /\ FuncReturns(fsmTimer, Posted(jobs, es), GoesOn)
    /\ bufferM' = Tail(bufferM)
    /\ UNCHANGED <<toProgram, signaled>>

\* A handler of rf that finds an error: handleEvent(RESET_EVT).
Refused ==
    /\ FuncReturns(fsmTimer, jobs, <<Call("handle", "RESET_EVT")>> \o GoesOn)
    /\ bufferM' = Tail(bufferM)
    /\ UNCHANGED <<toProgram, signaled>>

ParsesNothing ==
    /\ Running("parsePkg") /\ bufferM = <<>>
    /\ Returns
    /\ UNCHANGED <<lineVars, bufferM, signaled>>

\* The rest of the buffer waits for the next input event.
ParsesBroken ==
    /\ Parses("Broken")
    /\ ReturnsPosting("RESET_EVT")
    /\ bufferM' = Tail(bufferM)
    /\ UNCHANGED <<lineVars, signaled>>

HandlesInitRsp ==
    /\ Parses("InitRsp")
    /\ IF ClientDir THEN Sends(Plain("SetClientWorkingDir")) ELSE UNCHANGED toTerminal
    /\ Handled(<<"NEXT_EVT">>)

\* A directory is made, a message shown.
HandlesEmptyDir == Parses("EmptyDir") /\ Handled(<<>>) /\ UNCHANGED toTerminal
HandlesErrMsg   == Parses("ErrMsg") /\ Handled(<<>>) /\ UNCHANGED toTerminal

\* The suffix of the package is still in the buffer.
HandlesHeartbeat ==
    /\ Parses("Heartbeat")
    /\ FuncReturns(RestartedTimer, Posted(jobs, <<"NETWORK_INPUT_EVT">>), GoesOn)
    /\ bufferM' = Tail(bufferM)
    /\ UNCHANGED <<lineVars, signaled>>

HandlesBye    == Parses("Bye") /\ Sends(Plain("ByeBye")) /\ Handled(<<"RESET_EVT">>)
HandlesByeBye == Parses("ByeBye") /\ Handled(<<"RESET_EVT">>) /\ UNCHANGED toTerminal

CommonFunction ==
    \/ InitState \/ SendInitReq \/ UnsupportNotice \/ SendBye
    \/ ParsesNothing \/ ParsesBroken \/ HandlesInitRsp \/ HandlesEmptyDir
    \/ HandlesErrMsg \/ HandlesHeartbeat \/ HandlesBye \/ HandlesByeBye

-----------------------------------------------------------------------------
\* Mutant: destroy leaves the event out that frees the session.
OscDestroyUnposted ==
    /\ Calling("destroy")
    /\ toDelete' = TRUE /\ waitStop' = TRUE /\ inputTimer' = FALSE
    /\ agenda' = Rest
    /\ UNCHANGED <<curState, initialized, deleted, fsmTimer, jobs, worker>>

\* OscSession::destroy also stops the input timer.
OscDestroy ==
    /\ Calling("destroy")
    /\ jobs' = Posted(jobs, <<"DESTROY_EVT">>)
    /\ toDelete' = TRUE /\ waitStop' = TRUE /\ inputTimer' = FALSE
    /\ agenda' = Rest
    /\ UNCHANGED <<curState, initialized, deleted, fsmTimer, worker>>

\* A call of the engine; destroy is the session's own.
OscCallStep ==
    \/ IgnoreRest \/ EnterFirstState \/ MarkInitialized
    \/ HandleEvent \/ HandleUndefinedEvent \/ ChangeState \/ EnterState
    \/ NewTimer \/ CancelTimer \/ IgnoreEvent \/ OscDestroy \/ DeleteSelf

\* onInputTimerout: what it reads restarts the session timer.
ReadTick ==
    /\ Idle("timers") /\ inputTimer /\ ~signaled
    /\ toProgram # <<>> /\ Len(jobs) < MaxJobs
    /\ \E n \in 1..Len(toProgram) :
           /\ bufferM' = bufferM \o SubSeq(toProgram, 1, n)
           /\ toProgram' = SubSeq(toProgram, n + 1, Len(toProgram))
    /\ fsmTimer' = RestartedTimer
    /\ jobs' = Posted(jobs, <<"NETWORK_INPUT_EVT">>)
    /\ UNCHANGED <<curState, initialized, toDelete, deleted, inputTimer, phaseVars,
                   agenda, toTerminal, signaled>>

SignalTick ==
    /\ signaled
    /\ Len(jobs) < MaxJobs
    /\ FireInputTimer(<<"RESET_EVT">>)
    /\ UNCHANGED <<lineVars, bufferM, signaled>>

SigHandler ==
    /\ Signals /\ ~signaled
    /\ signaled' = TRUE
    /\ UNCHANGED <<engineVars, lineVars, bufferM>>

EngineStep   == (WorkerStep \/ OscCallStep) /\ UNCHANGED <<lineVars, bufferM, signaled>>
SessionTimer == FireFsmTimer /\ UNCHANGED <<lineVars, bufferM, signaled>>
=============================================================================
