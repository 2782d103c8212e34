--------------------------- MODULE WorkerPoolProofs ---------------------------
(***************************************************************************)
(* Proofs about WorkerPool, for every number of workers and of jobs.       *)
(***************************************************************************)
EXTENDS WorkerPool, TLAPS

\* The worker that a call of process addresses exists.
LEMMA WorkerOfJob == \A j \in Jobs : WorkerOf(j) \in Workers
  BY PoolAssumption DEF WorkerOf, Workers

\* Every variable of the pool keeps its type.
THEOREM TypeCorrect == Spec => []TypeOK
<1> USE PoolAssumption DEF TypeOK, Places
<1>1. Init => TypeOK
  <2> SUFFICES ASSUME Init PROVE TypeOK
    OBVIOUS
  <2>3. stopping.worker \in Workers /\ <<>> \in Seq(Jobs)
    BY DEF Init, Workers
  <2> QED
    BY <2>3 DEF Init
<1>2. TypeOK /\ [Next]_vars => TypeOK'
  <2> SUFFICES ASSUME TypeOK, [Next]_vars PROVE TypeOK'
    OBVIOUS
  <2>1. 0 \in Workers
    BY DEF Workers
  <2>2. stopping.worker + 1 # threadCountM => stopping.worker + 1 \in Workers
    BY DEF Workers
  <2>3. ASSUME NEW w \in Workers, Run(w) PROVE TypeOK'
    <3>1. CASE TakeJob(w)
      <4>1. Head(jobQueueM[w]) \in Jobs /\ Tail(jobQueueM[w]) \in Seq(Jobs)
        BY <3>1 DEF TakeJob
      <4> QED
        BY <2>3, <3>1, <4>1 DEF Run, TakeJob, Goes
    <3>2. CASE LoopTop(w) \/ TakeNone(w) \/ Test(w) \/ Wait(w) \/ WaitForEnds(w)
      BY <2>3, <3>2 DEF Run, LoopTop, TakeNone, Test, Wait, WaitForEnds, Goes
    <3>3. CASE RunJob(w) \/ HandleTimers(w)
      <4>1. timerHeapM[w] \in BOOLEAN
        OBVIOUS
      <4>2. timerHeapM' \in [Workers -> BOOLEAN]
        BY <3>3, <4>1 DEF RunJob, HandleTimers
      <4> QED
        BY <2>3, <3>3, <4>2 DEF Run, RunJob, HandleTimers, Goes
    <3> QED
      BY <2>3, <3>1, <3>2, <3>3 DEF Run
  <2>4. ASSUME NEW w \in Workers, SpuriousWakeup(w) PROVE TypeOK'
    BY <2>4 DEF SpuriousWakeup, Goes
  <2>5. ASSUME NEW j \in Jobs, ReadFlags(j) PROVE TypeOK'
    BY <2>5 DEF ReadFlags, CallTo, workerVars
  <2>6. ASSUME NEW j \in Jobs, Push(j) PROVE TypeOK'
    <3>1. jobQueueM' \in [Workers -> Seq(Jobs)]
      BY <2>6, WorkerOfJob DEF Push
    <3> QED
      BY <2>6, <3>1 DEF Push, CallTo
  <2>7. ASSUME NEW j \in Jobs, Notify(j) PROVE TypeOK'
    BY <2>7 DEF Notify, CallTo, Notified
  <2>8. CASE Start
    BY <2>8 DEF Start
  <2>9. CASE AskToStop
    BY <2>9 DEF AskToStop, Workers, workerVars
  <2>10. CASE LookAtQueue
    BY <2>10 DEF LookAtQueue, StopTo, workerVars
  <2>11. CASE SetFlag
    BY <2>11 DEF SetFlag, StopTo
  <2>12. CASE NotifyStop
    <3>1. stopping' \in [how : {"none", "stop", "waitStop"},
                         at : {"idle", "look", "flag", "notify", "join", "delete", "over"},
                         worker : Workers]
      BY <2>12, <2>1, <2>2 DEF NotifyStop, StopTo
    <3>2. pc' \in [Workers -> Places]
      BY <2>12 DEF NotifyStop, Notified
    <3> QED
      BY <2>12, <3>1, <3>2 DEF NotifyStop
  <2>13. CASE Join \/ DeleteWorkers
    <3>1. stopping' \in [how : {"none", "stop", "waitStop"},
                         at : {"idle", "look", "flag", "notify", "join", "delete", "over"},
                         worker : Workers]
      BY <2>13, <2>1, <2>2 DEF Join, DeleteWorkers, StopTo
    <3> QED
      BY <2>13, <3>1 DEF Join, DeleteWorkers, workerVars
  <2>14. CASE UNCHANGED vars
    BY <2>14 DEF vars, workerVars
  <2> QED
    BY <2>3, <2>4, <2>5, <2>6, <2>7, <2>8, <2>9, <2>10, <2>11, <2>12, <2>13, <2>14
    DEF Next, Stop
<1> QED
  BY <1>1, <1>2, PTL DEF Spec

-----------------------------------------------------------------------------
\* What WakesForJobs needs to be inductive: the mutex keeps the queue empty from
\* the test to the wait.
EmptyToTheWait == \A w \in Workers : pc[w] = "sleepy" => jobQueueM[w] = <<>>

\* A step that puts no worker to sleep, gives none a job and ends no call keeps both.
LEMMA NothingForSleepers ==
    ASSUME TypeOK, EmptyToTheWait, WakesForJobs, jobQueueM' = jobQueueM,
           \A j \in Jobs : call[j] = "notify" => call'[j] = "notify",
           \A w \in Workers : pc'[w] \in {"sleepy", "asleep"} => pc'[w] = pc[w]
    PROVE  EmptyToTheWait' /\ WakesForJobs'
<1>1. EmptyToTheWait'
  BY DEF EmptyToTheWait
<1>2. WakesForJobs'
  <2> SUFFICES ASSUME NEW w \in Workers, pc'[w] = "asleep", jobQueueM'[w] # <<>>
               PROVE  \E j \in Jobs : WorkerOf(j) = w /\ call'[j] = "notify"
    BY DEF WakesForJobs, WorkerOf, Workers
  <2>1. PICK j \in Jobs : WorkerOf(j) = w /\ call[j] = "notify"
    BY DEF WakesForJobs
  <2> QED
    BY <2>1
<1> QED
  BY <1>1, <1>2

\* No worker sleeps on a job without a notification to come: the lost wakeup that
\* process risks by notifying outside the mutex does not exist.
THEOREM NoLostWakeup == Spec => []WakesForJobs
<1>1. Init => EmptyToTheWait /\ WakesForJobs
  BY DEF Init, EmptyToTheWait, WakesForJobs
<1>2. ASSUME TypeOK, EmptyToTheWait, WakesForJobs, [Next]_vars
      PROVE  EmptyToTheWait' /\ WakesForJobs'
  <2> USE <1>2
  <2>1. ASSUME NEW w \in Workers, Run(w) PROVE EmptyToTheWait' /\ WakesForJobs'
    <3> USE <2>1
    <3>0. pc \in [Workers -> Places] /\ call' = call
      BY DEF TypeOK, Run
    <3>1. CASE Test(w)
      <4>1. \A v \in Workers : v # w => pc'[v] = pc[v]
        BY <3>0, <3>1 DEF Test, Goes
      <4>2. pc'[w] # "asleep" /\ (pc'[w] = "sleepy" => jobQueueM[w] = <<>>)
        BY <3>0, <3>1 DEF Test, Goes
      <4>3. jobQueueM' = jobQueueM
        BY <3>1 DEF Test
      <4> QED
        BY <3>0, <4>1, <4>2, <4>3 DEF EmptyToTheWait, WakesForJobs, WorkerOf, Workers
    <3>2. CASE Wait(w)
      <4>1. \A v \in Workers : v # w => pc'[v] = pc[v]
        BY <3>0, <3>2 DEF Wait, Goes
      <4>2. pc'[w] # "sleepy" /\ (pc'[w] = "asleep" => jobQueueM[w] = <<>>)
        BY <3>0, <3>2 DEF Wait, Goes, EmptyToTheWait
      <4>3. jobQueueM' = jobQueueM
        BY <3>2 DEF Wait
      <4> QED
        BY <3>0, <4>1, <4>2, <4>3 DEF EmptyToTheWait, WakesForJobs, WorkerOf, Workers
    <3>3. CASE TakeJob(w)
      <4>1. pc'[w] = "run" /\ \A v \in Workers : v # w => pc'[v] = pc[v] /\ jobQueueM'[v] = jobQueueM[v]
        BY <3>0, <3>3 DEF TakeJob, Goes, TypeOK
      <4> QED
        BY <3>0, <4>1 DEF EmptyToTheWait, WakesForJobs, WorkerOf, Workers
    <3>4. CASE LoopTop(w) \/ TakeNone(w) \/ RunJob(w) \/ HandleTimers(w) \/ WaitForEnds(w)
      <4>1. jobQueueM' = jobQueueM
        BY <3>4 DEF LoopTop, TakeNone, RunJob, HandleTimers, WaitForEnds
      <4>2. \A v \in Workers : pc'[v] \in {"sleepy", "asleep"} => pc'[v] = pc[v]
        BY <3>0, <3>4 DEF LoopTop, TakeNone, RunJob, HandleTimers, WaitForEnds, Goes
      <4> QED
        BY <3>0, <4>1, <4>2, NothingForSleepers
    <3> QED
      BY <3>1, <3>2, <3>3, <3>4 DEF Run
  <2>2. ASSUME NEW w \in Workers, SpuriousWakeup(w) PROVE EmptyToTheWait' /\ WakesForJobs'
    <3>1. \A v \in Workers : pc'[v] \in {"sleepy", "asleep"} => pc'[v] = pc[v]
      BY <2>2 DEF SpuriousWakeup, Goes, TypeOK
    <3> QED
      BY <2>2, <3>1, NothingForSleepers DEF SpuriousWakeup
  <2>3. ASSUME NEW j \in Jobs, ReadFlags(j) PROVE EmptyToTheWait' /\ WakesForJobs'
    <3>1. \A i \in Jobs : call[i] = "notify" => call'[i] = "notify"
      BY <2>3 DEF ReadFlags, CallTo, TypeOK
    <3> QED
      BY <2>3, <3>1, NothingForSleepers DEF ReadFlags, workerVars
  <2>4. ASSUME NEW j \in Jobs, Push(j) PROVE EmptyToTheWait' /\ WakesForJobs'
    <3> DEFINE w == WorkerOf(j)
    <3>1. w \in Workers /\ pc' = pc /\ pc[w] # "sleepy"
      BY <2>4, WorkerOfJob DEF Push, Locked
    <3>2. \A v \in Workers : v # w => jobQueueM'[v] = jobQueueM[v]
      BY <2>4 DEF Push, TypeOK
    <3>3. \A i \in Jobs : call[i] = "notify" => call'[i] = "notify"
      BY <2>4 DEF Push, CallTo, TypeOK
    <3>4. jobQueueM[w] = <<>> => call'[j] = "notify"
      BY <2>4 DEF Push, CallTo, TypeOK
    <3>5. EmptyToTheWait'
      BY <3>1, <3>2 DEF EmptyToTheWait
    <3>6. WakesForJobs'
      <4> SUFFICES ASSUME NEW v \in Workers, pc'[v] = "asleep", jobQueueM'[v] # <<>>
                   PROVE  \E i \in Jobs : WorkerOf(i) = v /\ call'[i] = "notify"
        BY DEF WakesForJobs, WorkerOf, Workers
      <4>1. CASE v = w /\ jobQueueM[w] = <<>>
        BY <3>4, <4>1
      <4>2. CASE ~(v = w /\ jobQueueM[w] = <<>>)
        <5>1. pc[v] = "asleep" /\ jobQueueM[v] # <<>>
          BY <3>1, <3>2, <4>2
        <5>2. PICK i \in Jobs : WorkerOf(i) = v /\ call[i] = "notify"
          BY <5>1 DEF WakesForJobs
        <5> QED
          BY <3>3, <5>2
      <4> QED
        BY <4>1, <4>2
    <3> QED
      BY <3>5, <3>6
  <2>5. ASSUME NEW j \in Jobs, Notify(j) PROVE EmptyToTheWait' /\ WakesForJobs'
    <3> DEFINE w == WorkerOf(j)
    <3>1. w \in Workers /\ jobQueueM' = jobQueueM
      BY <2>5, WorkerOfJob DEF Notify
    <3>2. pc'[w] # "asleep" /\ (pc'[w] = "sleepy" => pc[w] = "sleepy")
      BY <2>5, <3>1 DEF Notify, Notified, TypeOK
    <3>3. \A v \in Workers : v # w => pc'[v] = pc[v]
      BY <2>5 DEF Notify, Notified, TypeOK
    <3>4. \A i \in Jobs : i # j => call'[i] = call[i]
      BY <2>5 DEF Notify, CallTo, TypeOK
    <3>5. EmptyToTheWait'
      BY <3>1, <3>2, <3>3 DEF EmptyToTheWait
    <3>6. WakesForJobs'
      <4> SUFFICES ASSUME NEW v \in Workers, pc'[v] = "asleep", jobQueueM'[v] # <<>>
                   PROVE  \E i \in Jobs : WorkerOf(i) = v /\ call'[i] = "notify"
        BY DEF WakesForJobs, WorkerOf, Workers
      <4>1. v # w /\ pc[v] = "asleep" /\ jobQueueM[v] # <<>>
        BY <3>1, <3>2, <3>3
      <4>2. PICK i \in Jobs : WorkerOf(i) = v /\ call[i] = "notify"
        BY <4>1 DEF WakesForJobs
      <4> QED
        BY <3>4, <4>1, <4>2
    <3> QED
      BY <3>5, <3>6
  <2>6. CASE Start
    <3>1. \A v \in Workers : pc'[v] = "loop"
      BY <2>6 DEF Start
    <3> QED
      BY <2>6, <3>1, NothingForSleepers DEF Start
  <2>7. CASE NotifyStop
    <3>1. \A v \in Workers : pc'[v] \in {"sleepy", "asleep"} => pc'[v] = pc[v]
      BY <2>7 DEF NotifyStop, Notified, TypeOK
    <3> QED
      BY <2>7, <3>1, NothingForSleepers DEF NotifyStop
  <2>8. CASE AskToStop \/ LookAtQueue \/ SetFlag \/ Join \/ DeleteWorkers \/ UNCHANGED vars
    <3>1. jobQueueM' = jobQueueM /\ pc' = pc /\ call' = call
      BY <2>8 DEF AskToStop, LookAtQueue, SetFlag, Join, DeleteWorkers, vars, workerVars
    <3> QED
      BY <3>1, NothingForSleepers
  <2> QED
    BY <2>1, <2>2, <2>3, <2>4, <2>5, <2>6, <2>7, <2>8 DEF Next, Stop
<1> QED
  BY <1>1, <1>2, TypeCorrect, PTL DEF Spec
=============================================================================
