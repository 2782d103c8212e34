------------------------------ MODULE WorkerPool ------------------------------
(***************************************************************************)
(* CppProcessor and the threads of its CppWorkers, from start to the       *)
(* return of waitStop or stop.  A worker holds its mutex queueMutexM from  *)
(* the test for work to the wait on queueCondM; isToStopM and isWaitStopM  *)
(* are set and notified without it.  Each other critical section is one    *)
(* step.  Bound: one life of the pool; its owner deletes the workers when  *)
(* no call of process is under way.                                        *)
(***************************************************************************)
EXTENDS Integers, Sequences

CONSTANTS
    threadCountM,
    Jobs,         \* the calls of process
    Id            \* Id[j]: theId of the call

Workers == 0..(threadCountM - 1)

WorkerOf(j) == Id[j] % threadCountM

ASSUME PoolAssumption ==
    /\ threadCountM \in Nat \ {0} /\ Id \in [Jobs -> Nat] /\ "none" \notin Jobs

VARIABLES
    workersM,     \* whether the workers exist
    jobQueueM, isToStopM, isWaitStopM,
    timerHeapM,   \* whether the heap of the worker holds a timer
    pc,           \* where the thread of the worker is
    job,          \* the job it took
    call,         \* call[j]: where the call of process with job j is
    stopping      \* the call of waitStop or stop: which, where, for which worker

workerVars == <<jobQueueM, isToStopM, isWaitStopM, timerHeapM, pc, job>>
vars == <<workersM, workerVars, call, stopping>>

Init ==
    /\ workersM = FALSE
    /\ jobQueueM   = [w \in Workers |-> <<>>]
    /\ isToStopM   = [w \in Workers |-> FALSE]
    /\ isWaitStopM = [w \in Workers |-> FALSE]
    /\ timerHeapM  = [w \in Workers |-> FALSE]
    /\ pc   = [w \in Workers |-> "none"]
    /\ job  = [w \in Workers |-> "none"]
    /\ call = [j \in Jobs |-> "none"]
    /\ stopping = [how |-> "none", at |-> "idle", worker |-> 0]

ToldToStop(w) == isToStopM[w] \/ isWaitStopM[w]

\* Mutant: the mutex is released before the wait.
LockedToTest(w) == pc[w] = "test"

\* queueMutexM of w is held.
Locked(w) == pc[w] \in {"test", "sleepy", "drowsy"}

\* queueCondM.notify_one: it reaches a thread that waits, and no other.
Notified(w) ==
    [pc EXCEPT ![w] = IF @ = "asleep" THEN "test" ELSE IF @ = "dozing" THEN "loop" ELSE @]

-----------------------------------------------------------------------------
\* CppWorker::run.
Goes(w, from, to) == pc[w] = from /\ pc' = [pc EXCEPT ![w] = to]

\* Mutant: waitStop ends the loop as stop does.
LoopTopEitherStops(w) ==
    /\ Goes(w, "loop", IF ToldToStop(w) THEN "done" ELSE "take")
    /\ UNCHANGED <<jobQueueM, timerHeapM, job, isToStopM, isWaitStopM>>

LoopTop(w) ==
    /\ Goes(w, "loop", IF isToStopM[w] THEN "done" ELSE "take")
    /\ UNCHANGED <<jobQueueM, timerHeapM, job, isToStopM, isWaitStopM>>

TakeJob(w) ==
    /\ jobQueueM[w] # <<>>
    /\ Goes(w, "take", "run")
    /\ job' = [job EXCEPT ![w] = Head(jobQueueM[w])]
    /\ jobQueueM' = [jobQueueM EXCEPT ![w] = Tail(@)]
    /\ UNCHANGED <<timerHeapM, isToStopM, isWaitStopM>>

TakeNone(w) ==
    /\ jobQueueM[w] = <<>>
    /\ Goes(w, "take", IF isWaitStopM[w] THEN "done" ELSE "timers")
    /\ UNCHANGED <<jobQueueM, timerHeapM, job, isToStopM, isWaitStopM>>

\* A job may arm a timer, unless the worker is told to stop, or cancel one.
RunJob(w) ==
    /\ Goes(w, "run", "timers")
    /\ job' = [job EXCEPT ![w] = "none"]
    /\ \E armed \in {TRUE, FALSE} :
           /\ armed => timerHeapM[w] \/ ~ToldToStop(w)
           /\ timerHeapM' = [timerHeapM EXCEPT ![w] = armed]
    /\ UNCHANGED <<jobQueueM, isToStopM, isWaitStopM>>

\* handleLocalTimer: a timer may fire, and its callback arm it again.  Then the
\* mutex is locked.
HandleTimers(w) ==
    /\ Goes(w, "timers", "test")
    /\ \E armed \in {timerHeapM[w], FALSE} : timerHeapM' = [timerHeapM EXCEPT ![w] = armed]
    /\ UNCHANGED <<jobQueueM, job, isToStopM, isWaitStopM>>

Test(w) ==
    /\ Goes(w, "test", IF jobQueueM[w] # <<>> \/ ToldToStop(w) THEN "loop"
                       ELSE IF timerHeapM[w] THEN "drowsy" ELSE "sleepy")
    /\ UNCHANGED <<jobQueueM, timerHeapM, job, isToStopM, isWaitStopM>>

\* wait_for and wait release the mutex.
Wait(w) ==
    /\ Goes(w, "drowsy", "dozing") \/ Goes(w, "sleepy", "asleep")
    /\ UNCHANGED <<jobQueueM, timerHeapM, job, isToStopM, isWaitStopM>>

WaitForEnds(w) ==
    /\ Goes(w, "dozing", "loop")
    /\ UNCHANGED <<jobQueueM, timerHeapM, job, isToStopM, isWaitStopM>>

\* wait may return without a notification, and the thread tests again.
SpuriousWakeup(w) ==
    /\ Goes(w, "asleep", "test")
    /\ UNCHANGED <<jobQueueM, timerHeapM, job, isToStopM, isWaitStopM, workersM, call, stopping>>

Run(w) ==
    /\ \/ LoopTop(w) \/ TakeJob(w) \/ TakeNone(w) \/ RunJob(w) \/ HandleTimers(w)
       \/ Test(w) \/ Wait(w) \/ WaitForEnds(w)
    /\ UNCHANGED <<workersM, call, stopping>>

-----------------------------------------------------------------------------
\* CppProcessor::process and CppWorker::process.
CallTo(j, from, to) == call[j] = from /\ call' = [call EXCEPT ![j] = to]

\* A job for a worker that is told to stop, or for none, is deleted.
ReadFlags(j) ==
    /\ CallTo(j, "none", IF ~workersM \/ ToldToStop(WorkerOf(j)) THEN "returned" ELSE "push")
    /\ UNCHANGED <<workersM, workerVars, stopping>>

\* The worker is notified if the queue was empty.
Push(j) ==
    /\ ~Locked(WorkerOf(j))
    /\ CallTo(j, "push", IF jobQueueM[WorkerOf(j)] = <<>> THEN "notify" ELSE "returned")
    /\ jobQueueM' = [jobQueueM EXCEPT ![WorkerOf(j)] = Append(@, j)]
    /\ UNCHANGED <<workersM, isToStopM, isWaitStopM, timerHeapM, pc, job, stopping>>

Notify(j) ==
    /\ CallTo(j, "notify", "returned")
    /\ pc' = Notified(WorkerOf(j))
    /\ UNCHANGED <<workersM, jobQueueM, isToStopM, isWaitStopM, timerHeapM, job, stopping>>

-----------------------------------------------------------------------------
\* CppProcessor::start.
Start ==
    /\ ~workersM /\ stopping.at = "idle"
    /\ workersM' = TRUE
    /\ pc' = [w \in Workers |-> "loop"]
    /\ UNCHANGED <<jobQueueM, isToStopM, isWaitStopM, timerHeapM, job, call, stopping>>

\* CppProcessor::waitStop and CppProcessor::stop.
StopTo(at, w) == stopping' = [stopping EXCEPT !.at = at, !.worker = w]

AskToStop ==
    /\ workersM /\ stopping.at = "idle"
    /\ \/ stopping' = [how |-> "waitStop", at |-> "look", worker |-> 0]
       \/ stopping' = [how |-> "stop", at |-> "flag", worker |-> 0]
    /\ UNCHANGED <<workersM, workerVars, call>>

\* waitStop goes on to set the flag of a worker when it finds its queue empty.
LookAtQueue ==
    LET w == stopping.worker IN
    /\ stopping.at = "look" /\ ~Locked(w) /\ jobQueueM[w] = <<>>
    /\ StopTo("flag", w)
    /\ UNCHANGED <<workersM, workerVars, call>>

SetFlag ==
    LET w == stopping.worker IN
    /\ stopping.at = "flag"
    /\ IF stopping.how = "stop"
       THEN isToStopM' = [isToStopM EXCEPT ![w] = TRUE] /\ UNCHANGED isWaitStopM
       ELSE isWaitStopM' = [isWaitStopM EXCEPT ![w] = TRUE] /\ UNCHANGED isToStopM
    /\ StopTo("notify", w)
    /\ UNCHANGED <<workersM, jobQueueM, timerHeapM, pc, job, call>>

\* Mutant: stop and waitStop do not notify.
NotifyStopNobody ==
    LET w == stopping.worker IN
    /\ stopping.at = "notify"
    /\ IF w + 1 = threadCountM THEN StopTo("join", 0)
       ELSE StopTo(IF stopping.how = "stop" THEN "flag" ELSE "look", w + 1)
    /\ UNCHANGED <<workersM, workerVars, call>>

NotifyStop ==
    LET w == stopping.worker IN
    /\ stopping.at = "notify"
    /\ pc' = Notified(w)
    /\ IF w + 1 = threadCountM THEN StopTo("join", 0)
       ELSE StopTo(IF stopping.how = "stop" THEN "flag" ELSE "look", w + 1)
    /\ UNCHANGED <<workersM, jobQueueM, isToStopM, isWaitStopM, timerHeapM, job, call>>

Join ==
    LET w == stopping.worker IN
    /\ stopping.at = "join" /\ pc[w] = "done"
    /\ IF w + 1 = threadCountM THEN StopTo("delete", 0) ELSE StopTo("join", w + 1)
    /\ UNCHANGED <<workersM, workerVars, call>>

DeleteWorkers ==
    /\ stopping.at = "delete"
    /\ \A j \in Jobs : call[j] \in {"none", "returned"}
    /\ workersM' = FALSE
    /\ StopTo("over", 0)
    /\ UNCHANGED <<workerVars, call>>

Stop == LookAtQueue \/ SetFlag \/ NotifyStop \/ Join \/ DeleteWorkers

Next ==
    \/ \E w \in Workers : Run(w) \/ SpuriousWakeup(w)
    \/ \E j \in Jobs : ReadFlags(j) \/ Push(j) \/ Notify(j)
    \/ Start \/ AskToStop \/ Stop

\* Every thread is scheduled, and gets a mutex that is free again and again.
Fairness ==
    /\ \A w \in Workers : WF_vars(Run(w))
    /\ \A j \in Jobs : SF_vars(Push(j)) /\ WF_vars(Notify(j))
    /\ SF_vars(Stop)

Spec == Init /\ [][Next]_vars /\ Fairness

-----------------------------------------------------------------------------
Places == {"none", "loop", "take", "run", "timers", "test", "drowsy", "sleepy",
           "dozing", "asleep", "done"}

TypeOK ==
    /\ workersM \in BOOLEAN
    /\ jobQueueM \in [Workers -> Seq(Jobs)]
    /\ isToStopM \in [Workers -> BOOLEAN] /\ isWaitStopM \in [Workers -> BOOLEAN]
    /\ timerHeapM \in [Workers -> BOOLEAN]
    /\ pc \in [Workers -> Places]
    /\ job \in [Workers -> Jobs \cup {"none"}]
    /\ call \in [Jobs -> {"none", "push", "notify", "returned"}]
    /\ stopping \in [how : {"none", "stop", "waitStop"},
                     at : {"idle", "look", "flag", "notify", "join", "delete", "over"},
                     worker : Workers]

\* process notifies only when it finds the queue empty, and after the mutex is
\* released: still no worker sleeps on a job without a notification to come.
WakesForJobs ==
    \A w \in Workers : pc[w] = "asleep" /\ jobQueueM[w] # <<>>
        => \E j \in Jobs : WorkerOf(j) = w /\ call[j] = "notify"

\* A job that is queued while the worker runs is run, also after waitStop, which
\* may have found the queue empty before it came; only stop leaves jobs behind.
\* (One that is pushed after the worker left is neither run nor freed.)
QueuedJobsRun ==
    \A j \in Jobs : LET w == WorkerOf(j) IN
        (\E i \in DOMAIN jobQueueM[w] : jobQueueM[w][i] = j) /\ pc[w] # "done"
            ~> job[w] = j \/ isToStopM[w]

\* A worker that is told to stop leaves, whatever jobs and timers it has and
\* wherever it is, but for one place: between its test and its wait without a
\* deadline it misses the notification, which is sent without the mutex, and
\* with no timer and no later job stop and waitStop wait for ever.
StopReturns ==
    \A w \in Workers :
        /\ ToldToStop(w) /\ pc[w] # "sleepy"
        /\ pc[w] = "asleep" => stopping.at = "notify" /\ stopping.worker = w
        ~> pc[w] = "done"
=============================================================================
