------------------------------ MODULE FsmEngine ------------------------------
(***************************************************************************)
(* The event engine every program of this repository runs on: a Session    *)
(* (fsm/Session.cpp) driven by a table of actions per state and event      *)
(* (fsm/Fsm.cpp, fsm/State.h, fsm/Action.cpp), whose events and timers are *)
(* served by the one thread that calls CppWorker::run (fsm/CppWorker.cpp). *)
(*                                                                         *)
(* handleEvent and changeState call each other recursively.  Their C++     *)
(* call stack is the variable agenda: the calls still to be made, the next *)
(* one first, so that a step of this module is one call of the code.  The  *)
(* module leaves the session functions (SE_FUNC entries of a table, and    *)
(* what an input tick reads) to the modules that use it.                   *)
(***************************************************************************)
EXTENDS FsmActions, Naturals, Sequences

CONSTANTS
    States,      \* the states of the table
    Events,      \* the events, ENTRY_EVT and EXIT_EVT among them
    Funcs,       \* names of the session functions the table calls
    Table,       \* Table[s][e]: the actions state s lists for event e
    FirstState,  \* the state added first (Fsm.cpp:16-19)
    LastState    \* the state added last, the end state (Fsm.cpp:26)

VARIABLES
    curState,     \* Session::curStateIdM
    initialized,  \* Session::isInitializedM
    toDelete,     \* Session::isDestroyedM
    deleted,      \* the Session object has been freed
    fsmTimer,     \* Session::fsmTimerM: NoTimer, or the state that armed it
    inputTimer,   \* inputTimerM is armed
    jobs,         \* CppWorker::jobQueueM, each job a handleEvent(event)
    waitStop,     \* CppWorker::isWaitStopM
    worker,       \* where the thread is in CppWorker::run
    agenda        \* the calls the running job or timer has still to make

timerVars  == <<fsmTimer, inputTimer>>
phaseVars  == <<waitStop, worker>>
engineVars == <<curState, initialized, toDelete, deleted, fsmTimer, inputTimer,
                jobs, waitStop, worker, agenda>>

NoTimer  == "no timer"
AnyState == "any state"

\* The entries a table may hold.
Action ==
    {ToState(s) : s \in States} \cup {SeFunc(f) : f \in Funcs}
        \cup {NEW_TIMER, CANCEL_TIMER, IGNORE_EVT, DESTROY, DELETE_SELF}

ASSUME TableAssumption ==
    /\ FirstState \in States /\ LastState \in States
    /\ NoTimer \notin States /\ AnyState \notin States
    /\ {"ENTRY_EVT", "EXIT_EVT", "TIMEOUT_EVT", "RESET_EVT", "DESTROY_EVT",
        "NETWORK_INPUT_EVT"} \subseteq Events
    /\ Table \in [States -> [Events -> Seq(Action)]]

-----------------------------------------------------------------------------
\* Mutant of Calls: handleEvent goes on whatever the state has become.
CallsUnguarded(acts, guard) ==
    [i \in 1..Len(acts) |-> [op |-> acts[i].op, arg |-> acts[i].arg, guard |-> AnyState]]

\* A pending call; one with a guard is skipped once the session has left that
\* state (the loop of handleEvent ignores the rest of its actions then).
Call(op, arg)      == [op |-> op, arg |-> arg, guard |-> AnyState]
Calls(acts, guard) ==
    [i \in 1..Len(acts) |-> [op |-> acts[i].op, arg |-> acts[i].arg, guard |-> guard]]

CallSet ==
    [op : {"handle", "initialized"}, arg : Events, guard : {AnyState}]
    \cup [op : {"enter"}, arg : States, guard : {AnyState}]
    \cup [op : {"change"}, arg : States, guard : States \cup {AnyState}]
    \cup [op : {"func"}, arg : Funcs, guard : States \cup {AnyState}]
    \cup [op : {"newTimer", "cancelTimer", "ignore", "destroy", "delete"},
          arg : {"-"}, guard : States \cup {AnyState}]

EngineTypeOK ==
    /\ curState \in States
    /\ initialized \in BOOLEAN /\ toDelete \in BOOLEAN /\ deleted \in BOOLEAN
    /\ fsmTimer \in States \cup {NoTimer} /\ inputTimer \in BOOLEAN
    /\ jobs \in Seq(Events)
    /\ waitStop \in BOOLEAN
    /\ worker \in {"poll", "timers", "stopped", "crashed"}
    /\ agenda \in Seq(CallSet)

\* Mutant: run() looks at its timers before its first job.
EngineInitTimersFirst(firstEvent) ==
    /\ curState = FirstState
    /\ initialized = FALSE /\ toDelete = FALSE /\ deleted = FALSE
    /\ fsmTimer = NoTimer /\ inputTimer = TRUE
    /\ jobs = <<firstEvent>>
    /\ waitStop = FALSE /\ worker = "timers" /\ agenda = <<>>

\* main() has built the session, posted its first event and armed the input
\* timer, and calls run().
EngineInit(firstEvent) ==
    /\ curState = FirstState
    /\ initialized = FALSE /\ toDelete = FALSE /\ deleted = FALSE
    /\ fsmTimer = NoTimer /\ inputTimer = TRUE
    /\ jobs = <<firstEvent>>
    /\ waitStop = FALSE /\ worker = "poll" /\ agenda = <<>>

\* Mutant: neither asynHandleEvent nor process looks at its flag.
PostedAlways(queue, es) == queue \o es

\* asynHandleEvent of every event of es in order: nothing is queued for a
\* session marked for deletion, or by a worker that waits to stop.
Posted(queue, es) == IF toDelete \/ waitStop THEN queue ELSE queue \o es

\* addLocalTimer gives no timer once the worker waits to stop.
Armed(owner) == IF waitStop THEN NoTimer ELSE owner

\* resetTimer: restarts the session timer if there is one.
RestartedTimer == IF fsmTimer = NoTimer THEN NoTimer ELSE Armed(curState)

-----------------------------------------------------------------------------
\* CppWorker::run.  The thread takes one job, runs it to the end, lets the due
\* timers fire, and starts over: "poll" is the head of the loop, "timers" is
\* the rest of its body, where it also waits while it has nothing to do.

\* The thread has no call to make (of a session it can still make calls on).
Idle(phase) == worker = phase /\ agenda = <<>> /\ ~deleted

PollJob ==
    /\ Idle("poll") /\ jobs # <<>>
    /\ agenda' = <<Call("handle", Head(jobs))>>
    /\ jobs' = Tail(jobs)
    /\ worker' = "timers"
    /\ UNCHANGED <<curState, initialized, toDelete, deleted, timerVars, waitStop>>

\* The job found at the head of the queue is a call on a freed session.
RunFreedJob ==
    /\ worker = "poll" /\ deleted /\ jobs # <<>>
    /\ worker' = "crashed"
    /\ UNCHANGED <<curState, initialized, toDelete, deleted, timerVars, jobs,
                   waitStop, agenda>>

LeaveLoop ==
    /\ worker = "poll" /\ jobs = <<>> /\ waitStop
    /\ worker' = "stopped"
    /\ UNCHANGED <<curState, initialized, toDelete, deleted, timerVars, jobs,
                   waitStop, agenda>>

\* The timers that are due have fired; the thread does not wait when a job is
\* queued or waitStop was called.
NextTurn ==
    /\ worker = "timers" /\ agenda = <<>>
    /\ jobs # <<>> \/ waitStop
    /\ worker' = "poll"
    /\ UNCHANGED <<curState, initialized, toDelete, deleted, timerVars, jobs,
                   waitStop, agenda>>

\* handleLocalTimer finds the session timer due: Session::handleTimeout.
FireFsmTimer ==
    /\ Idle("timers") /\ fsmTimer # NoTimer
    /\ fsmTimer' = NoTimer
    /\ agenda' = <<Call("handle", "TIMEOUT_EVT")>>
    /\ UNCHANGED <<curState, initialized, toDelete, deleted, inputTimer, jobs,
                   phaseVars>>

\* Mutant: the callback forgets startInputTimer.
FireInputTimerOnce(es) ==
    /\ Idle("timers") /\ inputTimer
    /\ jobs' = Posted(jobs, es)
    /\ inputTimer' = FALSE
    /\ UNCHANGED <<curState, initialized, toDelete, deleted, fsmTimer, phaseVars,
                   agenda>>

\* handleLocalTimer finds the input timer due: the callback posts the events
\* es and arms the timer again.
FireInputTimer(es) ==
    /\ Idle("timers") /\ inputTimer
    /\ jobs' = Posted(jobs, es)
    /\ inputTimer' = ~waitStop
    /\ UNCHANGED <<curState, initialized, toDelete, deleted, fsmTimer, phaseVars,
                   agenda>>

-----------------------------------------------------------------------------
\* The calls a job or a timer makes.

Arg  == Head(agenda).arg
Rest == Tail(agenda)

\* The next call is op, on a session that has not left the state it guards.
Calling(op) ==
    /\ agenda # <<>> /\ Head(agenda).op = op
    /\ Head(agenda).guard \in {AnyState, curState}

\* handleEvent: the state changed, ignore the rest of the actions.
IgnoreRest ==
    /\ agenda # <<>> /\ Head(agenda).guard \notin {AnyState, curState}
    /\ agenda' = Rest
    /\ UNCHANGED <<curState, initialized, toDelete, deleted, timerVars, jobs, phaseVars>>

\* The first event of all first runs the entry actions of the first state.
EnterFirstState ==
    /\ Calling("handle") /\ ~initialized
    /\ agenda' = Calls(Table[curState]["ENTRY_EVT"], curState)
                     \o <<Call("initialized", Arg)>> \o Rest
    /\ UNCHANGED <<curState, initialized, toDelete, deleted, timerVars, jobs, phaseVars>>

MarkInitialized ==
    /\ Calling("initialized")
    /\ initialized' = TRUE
    /\ agenda' = IF Arg = "ENTRY_EVT" THEN Rest ELSE <<Call("handle", Arg)>> \o Rest
    /\ UNCHANGED <<curState, toDelete, deleted, timerVars, jobs, phaseVars>>

HandleEvent ==
    /\ Calling("handle") /\ initialized
    /\ Table[curState][Arg] # <<>>
    /\ agenda' = Calls(Table[curState][Arg], curState) \o Rest
    /\ UNCHANGED <<curState, initialized, toDelete, deleted, timerVars, jobs, phaseVars>>

\* The event is not defined under the state: go to the end state.
HandleUndefinedEvent ==
    /\ Calling("handle") /\ initialized
    /\ Table[curState][Arg] = <<>>
    /\ agenda' = <<Call("change", LastState)>> \o Rest
    /\ UNCHANGED <<curState, initialized, toDelete, deleted, timerVars, jobs, phaseVars>>

\* Mutant: changeState enters the new state without the exit actions.
ChangeStateSkipsExit ==
    /\ Calling("change")
    /\ agenda' = <<Call("enter", Arg)>> \o Rest
    /\ UNCHANGED <<curState, initialized, toDelete, deleted, timerVars, jobs, phaseVars>>

\* changeState: the exit actions, then EnterState.
ChangeState ==
    /\ Calling("change")
    /\ agenda' = Calls(Table[curState]["EXIT_EVT"], AnyState)
                     \o <<Call("enter", Arg)>> \o Rest
    /\ UNCHANGED <<curState, initialized, toDelete, deleted, timerVars, jobs, phaseVars>>

\* toNextState and the entry actions of the new state.
EnterState ==
    /\ Calling("enter")
    /\ curState' = Arg
    /\ agenda' = Calls(Table[Arg]["ENTRY_EVT"], AnyState) \o Rest
    /\ UNCHANGED <<initialized, toDelete, deleted, timerVars, jobs, phaseVars>>

NewTimer ==
    /\ Calling("newTimer")
    /\ fsmTimer' = Armed(curState)
    /\ agenda' = Rest
    /\ UNCHANGED <<curState, initialized, toDelete, deleted, inputTimer, jobs, phaseVars>>

CancelTimer ==
    /\ Calling("cancelTimer")
    /\ fsmTimer' = NoTimer
    /\ agenda' = Rest
    /\ UNCHANGED <<curState, initialized, toDelete, deleted, inputTimer, jobs, phaseVars>>

IgnoreEvent ==
    /\ Calling("ignore")
    /\ agenda' = Rest
    /\ UNCHANGED <<curState, initialized, toDelete, deleted, timerVars, jobs, phaseVars>>

\* Mutants: the flags are set before the event is posted; waitStop is not called.
DestroyFlagsFirst ==
    /\ Calling("destroy")
    /\ toDelete' = TRUE
    /\ waitStop' = TRUE
    /\ agenda' = Rest
    /\ UNCHANGED <<curState, initialized, deleted, timerVars, jobs, worker>>

DestroyWithoutStop ==
    /\ Calling("destroy")
    /\ jobs' = Posted(jobs, <<"DESTROY_EVT">>)
    /\ toDelete' = TRUE
    /\ agenda' = Rest
    /\ UNCHANGED <<curState, initialized, deleted, timerVars, phaseVars>>

\* destroy: the event that will free the session is queued before the session
\* and the worker refuse every other event.
Destroy ==
    /\ Calling("destroy")
    /\ jobs' = Posted(jobs, <<"DESTROY_EVT">>)
    /\ toDelete' = TRUE
    /\ waitStop' = TRUE
    /\ agenda' = Rest
    /\ UNCHANGED <<curState, initialized, deleted, timerVars, worker>>

\* deleteSelf: the terminal is restored, and the destructors cancel the timers.
DeleteSelf ==
    /\ Calling("delete")
    /\ deleted' = TRUE
    /\ fsmTimer' = NoTimer /\ inputTimer' = FALSE
    /\ agenda' = Rest
    /\ UNCHANGED <<curState, initialized, toDelete, jobs, phaseVars>>

\* A session function returns with the session timer, the queue and the calls
\* it makes before it returns as given; the rest of the session is untouched.
FuncReturns(timer, queue, calls) ==
    /\ fsmTimer' = timer
    /\ jobs' = queue
    /\ agenda' = calls \o Rest
    /\ UNCHANGED <<curState, initialized, toDelete, deleted, inputTimer, phaseVars>>

WorkerStep == PollJob \/ RunFreedJob \/ LeaveLoop \/ NextTurn

CallStep ==
    \/ IgnoreRest \/ EnterFirstState \/ MarkInitialized
    \/ HandleEvent \/ HandleUndefinedEvent \/ ChangeState \/ EnterState
    \/ NewTimer \/ CancelTimer \/ IgnoreEvent \/ Destroy \/ DeleteSelf
=============================================================================
