----------------------------- MODULE ZmodemSession -----------------------------
(***************************************************************************)
(* What sz and rz share (zmodem/ZmodemSession.cpp): FsmEngine with the     *)
(* input buffer, the last frame parsed, the signal flag, the input         *)
(* callback and the session functions that touch no file.                  *)
(***************************************************************************)
EXTENDS FsmEngine, ZmodemFsm, ZmodemWire, FiniteSetsExt

CONSTANTS
    FirstEvent,   \* the event queued before run() is called
    ClientDir,    \* whether the option -c is given
    Splits,       \* whether a read may take less than has been written
    Signals,      \* whether a signal may arrive
    MaxReads,     \* bound: reads of standard input in one input tick
    MaxJobs       \* bound: queue length at which input ticks read no more

ASSUME ZmodemAssumption ==
    /\ MaxReads \in Nat \ {0} /\ MaxJobs \in Nat \ {0}
    /\ {ClientDir, Splits, Signals} \subseteq BOOLEAN
    /\ Events = ZEvents /\ Funcs = ZFuncs /\ FirstEvent \in ZEvents

VARIABLES
    inputFrameM,  \* the last frame parsed
    bufferM,      \* the input not parsed yet
    signaled      \* g_has_signaled

inputVars   == <<inputFrameM, bufferM>>
sessionVars == <<engineVars, wireVars, inputVars, signaled>>

SessionTypeOK ==
    /\ EngineTypeOK
    /\ inputFrameM.type \in HeaderTypes
    /\ \A i \in 1..Len(bufferM) : bufferM[i].type \in TokenTypes
    /\ signaled \in BOOLEAN

\* main: the first event is queued, the input timer armed.
SessionInit ==
    /\ EngineInit(FirstEvent)
    /\ WireInit
    /\ inputFrameM = Frame("ZRQINIT", 0) /\ bufferM = <<>>
    /\ signaled = FALSE

-----------------------------------------------------------------------------
\* What is left of the sequence ts when some of its tokens are lost.
Remains(ts) ==
    UNION {{[i \in 1..n |-> ts[at[i]]] :
               at \in {p \in [1..n -> 1..Len(ts)] : \A i, j \in 1..n : i < j => p[i] < p[j]}} :
           n \in 0..Len(ts)}

\* StdOutput::sendData of every token of ts.  After a signal it gives up when
\* the terminal does not take all bytes at once.
Written(ts, interrupted) == IF interrupted THEN Remains(ts) ELSE {ts}

Sends(ts) ==
    /\ \E sent \in Written(ts, signaled) : toTerminal' = toTerminal \o sent
    /\ UNCHANGED toProgram

\* The running call is that of session function f.
Running(f) == Calling("func") /\ Arg = f

Returns         == FuncReturns(fsmTimer, jobs, <<>>)
ReturnsPosting(e) == FuncReturns(fsmTimer, Posted(jobs, <<e>>), <<>>)

\* sendFinOnResetM is never set, so initState only clears the buffer.
InitState ==
    /\ Running("initState")
    /\ bufferM' = <<>>
    /\ Returns
    /\ UNCHANGED <<wireVars, inputFrameM, signaled>>

\* A line of text, which tells the terminal to start its receiver or sender.
SendLeadingMsg ==
    /\ Running("sendLeadingMsg")
    /\ Returns
    /\ UNCHANGED <<wireVars, inputVars, signaled>>

SendClientWorkingDir ==
    /\ Running("sendClientWorkingDir")
    /\ Sends(IF ClientDir THEN <<Frame("ZCOMMAND", "workdir")>> ELSE <<>>)
    /\ Returns
    /\ UNCHANGED <<inputVars, signaled>>

SendZfin ==
    /\ Running("sendZfin")
    /\ Sends(<<Frame("ZFIN", 0)>>)
    /\ Returns
    /\ UNCHANGED <<inputVars, signaled>>

\* Mutant: it also asks for the end itself.
SendOOEndsTwice ==
    /\ Running("sendOO")
    /\ IF inputFrameM.type # "ZFIN"
       THEN ReturnsPosting("DESTROY_EVT") /\ UNCHANGED wireVars
       ELSE /\ FuncReturns(fsmTimer, Posted(jobs, <<"RESET_EVT", "DESTROY_EVT">>), <<>>)
            /\ Sends(Farewell)
    /\ UNCHANGED <<inputVars, signaled>>

SendOO ==
    /\ Running("sendOO")
    /\ IF inputFrameM.type # "ZFIN"
       THEN ReturnsPosting("DESTROY_EVT") /\ UNCHANGED wireVars
       ELSE ReturnsPosting("RESET_EVT") /\ Sends(Farewell)
    /\ UNCHANGED <<inputVars, signaled>>

\* Mutant: a frame is queued, not handled at once.
ParseFrameLater ==
    /\ Running("parseFrame")
    /\ \E found \in Parsed(bufferM, inputFrameM) :
           /\ bufferM' = found.left
           /\ inputFrameM' = found.frame
           /\ CASE found.what = "frame" -> ReturnsPosting("HANDLE_FRAME_EVT")
                [] found.what = "error" -> ReturnsPosting("RESET_EVT")
                [] OTHER -> Returns
    /\ UNCHANGED <<wireVars, signaled>>

\* parseFrame and the functions it ends in, parseHexFrame to parseBin64Frame.
ParseFrame ==
    /\ Running("parseFrame")
    /\ \E found \in Parsed(bufferM, inputFrameM) :
           /\ bufferM' = found.left
           /\ inputFrameM' = found.frame
           /\ CASE found.what = "nothing"   -> Returns
                [] found.what = "over"      -> ReturnsPosting("DESTROY_EVT")
                [] found.what = "error"     -> FuncReturns(fsmTimer, jobs, <<Call("handle", "RESET_EVT")>>)
                [] found.what = "frame"     -> FuncReturns(fsmTimer, jobs, <<Call("handle", "HANDLE_FRAME_EVT")>>)
                [] found.what = "heartbeat" ->
                       FuncReturns(RestartedTimer,
                                   Posted(jobs, IF found.left = <<>> THEN <<>>
                                                ELSE <<"NETWORK_INPUT_EVT">>), <<>>)
    /\ UNCHANGED <<wireVars, signaled>>

\* The session functions of both tables that touch no file.
CommonFunction ==
    InitState \/ SendLeadingMsg \/ SendClientWorkingDir \/ SendZfin \/ SendOO \/ ParseFrame

-----------------------------------------------------------------------------
\* onInputTimerout: the reads of one tick, one event for each.
ReadTick ==
    /\ ~signaled
    /\ IF toProgram = <<>>
       THEN FireInputTimer(<<>>) /\ UNCHANGED <<toProgram, bufferM>>
       ELSE \E r \in IF Splits THEN Reads(toProgram) ELSE {[taken |-> toProgram, left |-> <<>>]},
               n \in 1..(IF Splits THEN MaxReads ELSE 1) :
                /\ Len(jobs) + n <= MaxJobs
                /\ FireInputTimer([i \in 1..n |-> "NETWORK_INPUT_EVT"])
                /\ bufferM' = Received(bufferM, r.taken)
                /\ toProgram' = r.left
    /\ UNCHANGED <<toTerminal, inputFrameM, signaled>>

SignalTick ==
    /\ signaled
    /\ Len(jobs) < MaxJobs
    /\ FireInputTimer(<<"RESET_EVT">>)
    /\ UNCHANGED <<wireVars, inputVars, signaled>>

\* sigHandler.  No session is ever registered for it (setGlobalSession has no
\* caller), so it only sets the flag; resetTty leaves the model's state alone.
SigHandler ==
    /\ Signals /\ ~signaled
    /\ signaled' = TRUE
    /\ UNCHANGED <<engineVars, wireVars, inputVars>>

EngineStep   == (WorkerStep \/ CallStep) /\ UNCHANGED <<wireVars, inputVars, signaled>>
SessionTimer == FireFsmTimer /\ UNCHANGED <<wireVars, inputVars, signaled>>

-----------------------------------------------------------------------------
\* The control skeleton that sz and rz implement, with what ZmodemFsm says of
\* their functions.
Skeleton == INSTANCE FsmSession WITH
    Posts <- ZPosts, Syncs <- ZSyncs, Restarters <- ZRestarters

ASSUME SkeletonShape == Skeleton!Shaped
=============================================================================
