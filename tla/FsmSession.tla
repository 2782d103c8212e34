------------------------------ MODULE FsmSession -----------------------------
(***************************************************************************)
(* The control skeleton of a session: FsmEngine with every session         *)
(* function reduced to its effect on the engine.  A function may return,   *)
(* post one event (asynHandleEvent), end in one synchronous handleEvent,   *)
(* or restart the session timer; which of these, and with which events, is *)
(* what the constants Posts, Syncs and Restarters say of it.  The peer,    *)
(* the frames, the files and the signals are whatever makes them so.       *)
(* SzTransfer and RzTransfer are shown to implement this specification.    *)
(***************************************************************************)
EXTENDS FsmEngine

CONSTANTS
    FirstEvent,  \* the event queued before run() is called
    Posts,       \* Posts[f]: the events function f may post
    Syncs,       \* Syncs[f]: the events f may handle before it returns
    Restarters,  \* the functions that may restart the session timer
    MaxReads,    \* bound: reads of standard input in one input tick
    MaxJobs      \* bound: queue length at which input ticks read no more

ASSUME SkeletonAssumption ==
    /\ FirstEvent \in Events
    /\ Posts \in [Funcs -> SUBSET Events]
    /\ Syncs \in [Funcs -> SUBSET Events]
    /\ Restarters \subseteq Funcs
    /\ MaxReads \in Nat /\ MaxJobs \in Nat

\* How the tables of the programs are written.  Entry actions run to the end of
\* their list whatever the state has become, so only the last one may change
\* it; exit actions neither change the state nor end in an event; the end state
\* only starts and finishes the deletion.  A state that arms the session timer
\* cancels it among its exit actions, none of which arms it.  The lists of other
\* events may go on after a call that changes the state: handleEvent ignores the
\* rest of them.
MayJump(a) == a.op = "change" \/ (a.op = "func" /\ Syncs[a.arg] # {})
Lists(s, e, a) == \E i \in 1..Len(Table[s][e]) : Table[s][e][i] = a

Shaped ==
    /\ FirstState # LastState
    /\ \A s \in States : ~Lists(s, "EXIT_EVT", NEW_TIMER)
    /\ \A s \in States, e \in Events :
           Lists(s, e, NEW_TIMER) => Lists(s, "EXIT_EVT", CANCEL_TIMER)
    /\ \A s \in States, e \in Events : \A i \in 1..Len(Table[s][e]) :
           /\ e = "ENTRY_EVT" /\ i < Len(Table[s][e]) => ~MayJump(Table[s][e][i])
           /\ e = "EXIT_EVT" => ~MayJump(Table[s][e][i])
           /\ s # LastState => Table[s][e][i].op \notin {"destroy", "delete"}
    /\ Table[LastState]["ENTRY_EVT"] = <<DESTROY>>
    /\ Table[LastState]["DESTROY_EVT"] = <<DELETE_SELF>>
    /\ \A e \in Events \ {"ENTRY_EVT", "DESTROY_EVT"} :
           Table[LastState][e] \in {<<>>, <<IGNORE_EVT>>}

ASSUME TableShape == Shaped

Init == EngineInit(FirstEvent)

SessionFunction ==
    /\ Calling("func")
    /\ \/ FuncReturns(fsmTimer, jobs, <<>>)
       \/ \E e \in Posts[Arg] : FuncReturns(fsmTimer, Posted(jobs, <<e>>), <<>>)
       \/ \E e \in Syncs[Arg] : FuncReturns(fsmTimer, jobs, <<Call("handle", e)>>)
       \/ /\ Arg \in Restarters
          /\ \E es \in {<<>>, <<"NETWORK_INPUT_EVT">>} :
                 FuncReturns(RestartedTimer, Posted(jobs, es), <<>>)

\* onInputTimerout: one event for every chunk read, possibly none.
ReadTick ==
    \E n \in 0..MaxReads :
        /\ n = 0 \/ Len(jobs) + n <= MaxJobs
        /\ FireInputTimer([i \in 1..n |-> "NETWORK_INPUT_EVT"])

\* onInputTimerout after a signal: no read, a reset.
SignalTick ==
    /\ Len(jobs) < MaxJobs
    /\ FireInputTimer(<<"RESET_EVT">>)

ThreadStep == WorkerStep \/ CallStep \/ SessionFunction

Next == ThreadStep \/ FireFsmTimer \/ ReadTick \/ SignalTick

\* The thread keeps running, and a session timer that is armed again and again
\* is found due by one of the passes over the timers.
Fairness == WF_engineVars(ThreadStep) /\ SF_engineVars(FireFsmTimer)

Safety == Init /\ [][Next]_engineVars
Spec   == Safety /\ Fairness

-----------------------------------------------------------------------------
\* The worker leaves run() only after the session was freed, so the terminal
\* is never left in raw mode by a normal exit: the DESTROY_EVT that destroy()
\* queues is not lost (Session.cpp:80, CppWorker.cpp:53), and it is handled in
\* the state whose table frees the session, whatever was queued before it.
StopsOnlyAfterDelete == worker = "stopped" => deleted

\* A job runs on a freed session only when the session was freed by an earlier
\* DESTROY_EVT, one that was still queued when destroy() queued its own.
CrashNeedsSecondDestroy ==
    worker = "crashed" => jobs # <<>> /\ jobs[Len(jobs)] = "DESTROY_EVT"

\* A pending session timer belongs to the state the session is in: every path
\* out of a state that arms one cancels it, so that no state times out on the
\* deadline of another.
TimerOfCurrentState == Idle("timers") => fsmTimer \in {NoTimer, curState}

\* The thread never waits without a deadline (CppWorker.cpp:180-183): when it
\* has nothing to do and is not stopping, some timer will wake it.
NeverWaitsForever ==
    (Idle("timers") /\ jobs = <<>> /\ ~waitStop) => (inputTimer \/ fsmTimer # NoTimer)

\* No timer callback runs before the entry actions of the first state, which
\* set up the buffer the input callback fills (initState).
TimersAfterInit == Idle("timers") => initialized

\* Once destroy() ran, the session stays in its end state, nothing more is
\* queued and no timer is armed, whatever is still in the queue and on the
\* stack of calls that led to it.
Frozen ==
    toDelete => /\ toDelete' /\ curState' = LastState
                /\ jobs' = jobs \/ jobs' = Tail(jobs)
                /\ inputTimer' => inputTimer
                /\ fsmTimer' \in {NoTimer, fsmTimer}
DestroyIsFinal == [][Frozen]_engineVars

\* A session that reaches the end state of its table ends the program.
EndStateStops == curState = LastState ~> worker \in {"stopped", "crashed"}
=============================================================================
