-------------------------- MODULE ZmodemSessionProofs -------------------------
(***************************************************************************)
(* What sz and rz share implements the control skeleton FsmSession: the    *)
(* engine, the timers and ticks, and the session functions of both tables. *)
(* What FsmSessionProofs proves of the skeleton then holds of both.        *)
(***************************************************************************)
EXTENDS ZmodemSession, SequenceTheorems, WellFoundedInduction, TLAPS

\* The loop of the worker is the same in both.
LEMMA WorkerMaps == WorkerStep => Skeleton!WorkerStep
<1> USE DEF timerVars, Skeleton!timerVars
<1>1. PollJob => Skeleton!PollJob
  BY DEF PollJob, Skeleton!PollJob, Idle, Skeleton!Idle, Call, Skeleton!Call, AnyState,
         Skeleton!AnyState
<1>2. RunFreedJob => Skeleton!RunFreedJob
  BY DEF RunFreedJob, Skeleton!RunFreedJob
<1>3. LeaveLoop => Skeleton!LeaveLoop
  BY DEF LeaveLoop, Skeleton!LeaveLoop
<1>4. NextTurn => Skeleton!NextTurn
  BY DEF NextTurn, Skeleton!NextTurn
<1> QED
  BY <1>1, <1>2, <1>3, <1>4 DEF WorkerStep, Skeleton!WorkerStep

\* So are the calls of the engine.
LEMMA CallsMap == CallStep => Skeleton!CallStep
<1> USE DEF timerVars, Skeleton!timerVars, phaseVars, Skeleton!phaseVars, Calling,
            Skeleton!Calling, AnyState, Skeleton!AnyState, Arg, Skeleton!Arg, Rest,
            Skeleton!Rest, Call, Skeleton!Call, Calls, Skeleton!Calls
<1>1. IgnoreRest => Skeleton!IgnoreRest
  BY DEF IgnoreRest, Skeleton!IgnoreRest
<1>2. EnterFirstState => Skeleton!EnterFirstState
  BY DEF EnterFirstState, Skeleton!EnterFirstState
<1>3. MarkInitialized => Skeleton!MarkInitialized
  BY DEF MarkInitialized, Skeleton!MarkInitialized
<1>4. HandleEvent => Skeleton!HandleEvent
  BY DEF HandleEvent, Skeleton!HandleEvent
<1>5. HandleUndefinedEvent => Skeleton!HandleUndefinedEvent
  BY DEF HandleUndefinedEvent, Skeleton!HandleUndefinedEvent
<1>6. ChangeState => Skeleton!ChangeState
  BY DEF ChangeState, Skeleton!ChangeState
<1>7. EnterState => Skeleton!EnterState
  BY DEF EnterState, Skeleton!EnterState
<1>8. NewTimer => Skeleton!NewTimer
  BY DEF NewTimer, Skeleton!NewTimer, Armed, Skeleton!Armed, NoTimer, Skeleton!NoTimer
<1>9. CancelTimer => Skeleton!CancelTimer
  BY DEF CancelTimer, Skeleton!CancelTimer, NoTimer, Skeleton!NoTimer
<1>10. IgnoreEvent => Skeleton!IgnoreEvent
  BY DEF IgnoreEvent, Skeleton!IgnoreEvent
<1>11. Destroy => Skeleton!Destroy
  BY DEF Destroy, Skeleton!Destroy, Posted, Skeleton!Posted
<1>12. DeleteSelf => Skeleton!DeleteSelf
  BY DEF DeleteSelf, Skeleton!DeleteSelf, NoTimer, Skeleton!NoTimer
<1> QED
  BY <1>1, <1>2, <1>3, <1>4, <1>5, <1>6, <1>7, <1>8, <1>9, <1>10, <1>11, <1>12
  DEF CallStep, Skeleton!CallStep

\* And the timers.
LEMMA FireMaps ==
    /\ FireFsmTimer => Skeleton!FireFsmTimer
    /\ \A es : FireInputTimer(es) => Skeleton!FireInputTimer(es)
BY DEF FireFsmTimer, Skeleton!FireFsmTimer, FireInputTimer, Skeleton!FireInputTimer, Idle,
       Skeleton!Idle, NoTimer, Skeleton!NoTimer, Call, Skeleton!Call, AnyState,
       Skeleton!AnyState, Posted, Skeleton!Posted, phaseVars, Skeleton!phaseVars

\* A tick queues one event for each read, the reset after a signal, or nothing.
LEMMA TicksMap ==
    /\ ReadTick => Skeleton!ReadTick
    /\ SignalTick => Skeleton!SignalTick
<1>1. ASSUME ReadTick PROVE Skeleton!ReadTick
  <2>1. CASE toProgram = <<>>
    <3>1. [i \in 1..0 |-> "NETWORK_INPUT_EVT"] = <<>>
      OBVIOUS
    <3>2. Skeleton!FireInputTimer(<<>>)
      BY <1>1, <2>1, FireMaps DEF ReadTick
    <3>3. 0 \in 0..MaxReads
      BY ZmodemAssumption
    <3> QED
      BY <3>1, <3>2, <3>3 DEF Skeleton!ReadTick
  <2>2. CASE toProgram # <<>>
    <3>1. PICK n \in 1..(IF Splits THEN MaxReads ELSE 1) :
              /\ Len(jobs) + n <= MaxJobs
              /\ FireInputTimer([i \in 1..n |-> "NETWORK_INPUT_EVT"])
      BY <1>1, <2>2 DEF ReadTick
    <3>2. n \in 0..MaxReads
      BY <3>1, ZmodemAssumption
    <3> QED
      BY <3>1, <3>2, FireMaps DEF Skeleton!ReadTick
  <2> QED
    BY <2>1, <2>2
<1>2. SignalTick => Skeleton!SignalTick
  BY FireMaps DEF SignalTick, Skeleton!SignalTick
<1> QED
  BY <1>1, <1>2

-----------------------------------------------------------------------------
\* A session function that only returns.
LEMMA ReturnsMaps ==
    ASSUME NEW f, Running(f), Returns
    PROVE  Skeleton!SessionFunction
BY DEF Running, Returns, FuncReturns, Skeleton!SessionFunction, Skeleton!FuncReturns, Calling,
       Skeleton!Calling, AnyState, Skeleton!AnyState, Rest, Skeleton!Rest, phaseVars,
       Skeleton!phaseVars

\* One that queues an event the skeleton lets it queue.
LEMMA PostingMaps ==
    ASSUME NEW f, Running(f), NEW e \in ZPosts[f], ReturnsPosting(e)
    PROVE  Skeleton!SessionFunction
BY DEF Running, ReturnsPosting, FuncReturns, Skeleton!SessionFunction, Skeleton!FuncReturns,
       Calling, Skeleton!Calling, AnyState, Skeleton!AnyState, Rest, Skeleton!Rest, phaseVars,
       Skeleton!phaseVars, Posted, Skeleton!Posted, Arg, Skeleton!Arg

\* One that ends in handling an event the skeleton lets it handle.
LEMMA HandlingMaps ==
    ASSUME NEW f, Running(f), NEW e \in ZSyncs[f],
           FuncReturns(fsmTimer, jobs, <<Call("handle", e)>>)
    PROVE  Skeleton!SessionFunction
BY DEF Running, FuncReturns, Skeleton!SessionFunction, Skeleton!FuncReturns,
       Calling, Skeleton!Calling, AnyState, Skeleton!AnyState, Rest, Skeleton!Rest, phaseVars,
       Skeleton!phaseVars, Call, Skeleton!Call, Arg, Skeleton!Arg

\* parseFrame restarts the session timer, and may post an event for the rest.
LEMMA RestartMaps ==
    ASSUME Running("parseFrame"), NEW es \in {<<>>, <<"NETWORK_INPUT_EVT">>},
           FuncReturns(RestartedTimer, Posted(jobs, es), <<>>)
    PROVE  Skeleton!SessionFunction
<1>1. Skeleton!Arg \in ZRestarters /\ Skeleton!Calling("func")
  BY DEF Running, Arg, Skeleton!Arg, ZRestarters, Calling, Skeleton!Calling, AnyState,
         Skeleton!AnyState
<1>2. Skeleton!FuncReturns(Skeleton!RestartedTimer, Skeleton!Posted(jobs, es), <<>>)
  BY DEF FuncReturns, Skeleton!FuncReturns, RestartedTimer, Skeleton!RestartedTimer, NoTimer,
         Skeleton!NoTimer, Armed, Skeleton!Armed, Posted, Skeleton!Posted, Rest,
         Skeleton!Rest, phaseVars, Skeleton!phaseVars
<1> QED
  BY <1>1, <1>2 DEF Skeleton!SessionFunction

-----------------------------------------------------------------------------
\* What the table of ZmodemFsm says of the functions of both programs.
LEMMA PostsLemma ==
    /\ ZPosts["sendZrqinit"] = {"DESTROY_EVT"}
    /\ ZPosts["sendZfile"] = {"DESTROY_EVT"}
    /\ ZPosts["parseFrame"] = {"DESTROY_EVT"}
    /\ ZPosts["handleZfileRsp"] = {"DESTROY_EVT", "SKIP_EVT", "SEND_ZDATA_EVT"}
    /\ ZPosts["sendZdata"] = {"SEND_ZDATA_EVT"}
    /\ ZPosts["sendOO"] = {"DESTROY_EVT", "RESET_EVT"}
    /\ ZPosts["handleZfile"] = {"DESTROY_EVT", "SKIP_EVT", "NEXT_EVT"}
    /\ ZPosts["waitZdata"] = {"DESTROY_EVT", "SKIP_EVT", "NETWORK_INPUT_EVT"}
    /\ ZPosts["handleZdata"] = {"DESTROY_EVT", "NETWORK_INPUT_EVT"}
    /\ ZSyncs["parseFrame"] = {"RESET_EVT", "HANDLE_FRAME_EVT"}
    /\ ZSyncs["waitZdata"] = {"NEXT_EVT"}
    /\ ZSyncs["handleZdata"] = {"NEXT_EVT", "RESET_EVT"}
BY DEF ZPosts, ZSyncs, ZFuncs

\* parseFrame finds one of five things.
LEMMA ParsedLemma ==
    ASSUME NEW buffer, NEW frm, NEW found \in Parsed(buffer, frm)
    PROVE  found.what \in {"nothing", "over", "error", "frame", "heartbeat"}
BY DEF Parsed

\* parseFrame, which is in both tables.
LEMMA ParseFrameMaps == ParseFrame => Skeleton!SessionFunction
<1> SUFFICES ASSUME ParseFrame PROVE Skeleton!SessionFunction
  OBVIOUS
<1>1. PICK found \in Parsed(bufferM, inputFrameM) :
        CASE found.what = "nothing"   -> Returns
          [] found.what = "over"      -> ReturnsPosting("DESTROY_EVT")
          [] found.what = "error"     -> FuncReturns(fsmTimer, jobs, <<Call("handle", "RESET_EVT")>>)
          [] found.what = "frame"     -> FuncReturns(fsmTimer, jobs, <<Call("handle", "HANDLE_FRAME_EVT")>>)
          [] found.what = "heartbeat" ->
                 FuncReturns(RestartedTimer,
                             Posted(jobs, IF found.left = <<>> THEN <<>>
                                          ELSE <<"NETWORK_INPUT_EVT">>), <<>>)
  BY DEF ParseFrame
<1>2. Running("parseFrame")
  BY DEF ParseFrame
<1>3. CASE found.what = "nothing"
  BY <1>1, <1>2, <1>3, ReturnsMaps
<1>4. CASE found.what = "over"
  BY <1>1, <1>2, <1>4, PostingMaps, PostsLemma
<1>5. CASE found.what = "error"
  BY <1>1, <1>2, <1>5, HandlingMaps, PostsLemma
<1>6. CASE found.what = "frame"
  BY <1>1, <1>2, <1>6, HandlingMaps, PostsLemma
<1>7. CASE found.what = "heartbeat"
  BY <1>1, <1>2, <1>7, RestartMaps
<1> QED
  BY <1>3, <1>4, <1>5, <1>6, <1>7, ParsedLemma

\* The functions of ZmodemSession.cpp that both tables name.
LEMMA CommonMaps == CommonFunction => Skeleton!SessionFunction
<1>1. InitState \/ SendLeadingMsg \/ SendClientWorkingDir \/ SendZfin => Skeleton!SessionFunction
  BY ReturnsMaps DEF InitState, SendLeadingMsg, SendClientWorkingDir, SendZfin
<1>2. SendOO => Skeleton!SessionFunction
  BY PostingMaps, PostsLemma DEF SendOO
<1> QED
  BY <1>1, <1>2, ParseFrameMaps DEF CommonFunction

-----------------------------------------------------------------------------
\* The theorems about the skeleton, with the events of these functions.
Proved == INSTANCE FsmSessionProofs WITH
    Posts <- ZPosts, Syncs <- ZSyncs, Restarters <- ZRestarters

\* Their assumptions are met.
LEMMA ProvedAssumptions ==
    Proved!TableAssumption /\ Proved!SkeletonAssumption /\ Proved!TableShape
<1>1. Proved!TableAssumption
  BY TableAssumption
  DEF Proved!NoTimer, NoTimer, Proved!AnyState, AnyState, Proved!Action, Action,
      Proved!ToState, ToState, Proved!SeFunc, SeFunc, Proved!NEW_TIMER, NEW_TIMER,
      Proved!CANCEL_TIMER, CANCEL_TIMER, Proved!IGNORE_EVT, IGNORE_EVT,
      Proved!DESTROY, DESTROY, Proved!DELETE_SELF, DELETE_SELF
<1>2. /\ ZPosts \in [Funcs -> SUBSET Events] /\ ZSyncs \in [Funcs -> SUBSET Events]
      /\ ZRestarters \subseteq Funcs
  BY ZmodemAssumption DEF ZPosts, ZSyncs, ZFuncs, ZEvents, ZRestarters
<1>3. Proved!SkeletonAssumption
  BY <1>2, ZmodemAssumption
<1>4. Proved!TableShape
  BY SkeletonShape
  DEF Proved!Shaped, Skeleton!Shaped, Proved!Lists, Skeleton!Lists, Proved!MayJump,
      Skeleton!MayJump, Proved!NEW_TIMER, Skeleton!NEW_TIMER, Proved!CANCEL_TIMER,
      Skeleton!CANCEL_TIMER, Proved!IGNORE_EVT, Skeleton!IGNORE_EVT, Proved!DESTROY,
      Skeleton!DESTROY, Proved!DELETE_SELF, Skeleton!DELETE_SELF
<1> QED
  BY <1>1, <1>3, <1>4

\* The two instances of the skeleton are one.
LEMMA SameSkeleton ==
    Skeleton!Safety <=> Proved!Safety
<1>1. Skeleton!Init <=> Proved!Init
  BY DEF Skeleton!Init, Proved!Init, Skeleton!EngineInit, Proved!EngineInit,
         Skeleton!NoTimer, Proved!NoTimer
<1> USE DEF Skeleton!timerVars, Proved!timerVars, Skeleton!phaseVars, Proved!phaseVars,
            Skeleton!Calling, Proved!Calling, Skeleton!AnyState, Proved!AnyState,
            Skeleton!NoTimer, Proved!NoTimer, Skeleton!Arg, Proved!Arg, Skeleton!Rest,
            Proved!Rest, Skeleton!Call, Proved!Call, Skeleton!Calls, Proved!Calls,
            Skeleton!Idle, Proved!Idle, Skeleton!Posted, Proved!Posted, Skeleton!Armed,
            Proved!Armed
<1>2. Skeleton!WorkerStep <=> Proved!WorkerStep
  BY DEF Skeleton!WorkerStep, Proved!WorkerStep, Skeleton!PollJob, Proved!PollJob,
         Skeleton!RunFreedJob, Proved!RunFreedJob, Skeleton!LeaveLoop,
         Proved!LeaveLoop, Skeleton!NextTurn, Proved!NextTurn
<1>3. Skeleton!CallStep <=> Proved!CallStep
  BY DEF Skeleton!CallStep, Proved!CallStep, Skeleton!IgnoreRest, Proved!IgnoreRest,
         Skeleton!EnterFirstState, Proved!EnterFirstState, Skeleton!MarkInitialized,
         Proved!MarkInitialized, Skeleton!HandleEvent, Proved!HandleEvent,
         Skeleton!HandleUndefinedEvent, Proved!HandleUndefinedEvent,
         Skeleton!ChangeState, Proved!ChangeState, Skeleton!EnterState,
         Proved!EnterState, Skeleton!NewTimer, Proved!NewTimer, Skeleton!CancelTimer,
         Proved!CancelTimer, Skeleton!IgnoreEvent, Proved!IgnoreEvent,
         Skeleton!Destroy, Proved!Destroy, Skeleton!DeleteSelf, Proved!DeleteSelf
<1>4. Skeleton!SessionFunction <=> Proved!SessionFunction
  BY DEF Skeleton!SessionFunction, Proved!SessionFunction, Skeleton!FuncReturns,
         Proved!FuncReturns, Skeleton!RestartedTimer, Proved!RestartedTimer
<1>5. /\ Skeleton!FireFsmTimer <=> Proved!FireFsmTimer
      /\ Skeleton!ReadTick <=> Proved!ReadTick
      /\ Skeleton!SignalTick <=> Proved!SignalTick
  BY DEF Skeleton!FireFsmTimer, Proved!FireFsmTimer, Skeleton!ReadTick,
         Proved!ReadTick, Skeleton!SignalTick, Proved!SignalTick,
         Skeleton!FireInputTimer, Proved!FireInputTimer
<1>6. [Skeleton!Next]_(Skeleton!engineVars) <=> [Proved!Next]_(Proved!engineVars)
  BY <1>2, <1>3, <1>4, <1>5
  DEF Skeleton!Next, Proved!Next, Skeleton!ThreadStep, Proved!ThreadStep,
      Skeleton!engineVars, Proved!engineVars
<1> QED
  BY <1>1, <1>6, PTL DEF Skeleton!Safety, Proved!Safety

\* The types of the engine are those of the skeleton.
LEMMA SkeletonTypes == Skeleton!Safety => []EngineTypeOK
<1>1. Proved!Safety => []Proved!EngineTypeOK
  BY Proved!TypeCorrect, ProvedAssumptions, PTL
<1>2. Proved!EngineTypeOK => EngineTypeOK
  BY DEF Proved!EngineTypeOK, EngineTypeOK, Proved!CallSet, CallSet, Proved!NoTimer, NoTimer,
         Proved!AnyState, AnyState
<1> QED
  BY <1>1, <1>2, SameSkeleton, PTL

\* What every program that implements the skeleton inherits from it.
LEMMA SkeletonHolds ==
    Skeleton!Safety =>
        /\ []Skeleton!StopsOnlyAfterDelete
        /\ []Skeleton!CrashNeedsSecondDestroy
        /\ []Skeleton!TimerOfCurrentState
        /\ []Skeleton!NeverWaitsForever
        /\ []Skeleton!TimersAfterInit
        /\ Skeleton!DestroyIsFinal
<1>1. /\ Proved!Safety => []Proved!StopsOnlyAfterDelete
      /\ Proved!Safety => []Proved!CrashNeedsSecondDestroy
      /\ Proved!Safety => []Proved!TimerOfCurrentState
      /\ Proved!Safety => []Proved!NeverWaitsForever
      /\ Proved!Safety => []Proved!TimersAfterInit
      /\ Proved!Safety => Proved!DestroyIsFinal
  BY Proved!ShutdownComplete, Proved!NoOtherCrash, Proved!TimerOwned, Proved!AlwaysWoken,
     Proved!InitBeforeTimers, Proved!DestroyFinal, ProvedAssumptions, PTL
<1>2. /\ Proved!StopsOnlyAfterDelete <=> Skeleton!StopsOnlyAfterDelete
      /\ Proved!CrashNeedsSecondDestroy <=> Skeleton!CrashNeedsSecondDestroy
      /\ Proved!TimerOfCurrentState <=> Skeleton!TimerOfCurrentState
      /\ Proved!NeverWaitsForever <=> Skeleton!NeverWaitsForever
      /\ Proved!TimersAfterInit <=> Skeleton!TimersAfterInit
  BY DEF Skeleton!StopsOnlyAfterDelete, Proved!StopsOnlyAfterDelete,
         Skeleton!CrashNeedsSecondDestroy, Proved!CrashNeedsSecondDestroy,
         Skeleton!TimerOfCurrentState, Proved!TimerOfCurrentState,
         Skeleton!NeverWaitsForever, Proved!NeverWaitsForever,
         Skeleton!TimersAfterInit, Proved!TimersAfterInit, Skeleton!Idle, Proved!Idle,
         Skeleton!NoTimer, Proved!NoTimer
<1>3. [Proved!Frozen]_(Proved!engineVars) <=> [Skeleton!Frozen]_(Skeleton!engineVars)
  BY DEF Skeleton!Frozen, Proved!Frozen, Skeleton!engineVars, Proved!engineVars,
         Skeleton!NoTimer, Proved!NoTimer
<1> QED
  BY <1>1, <1>2, <1>3, SameSkeleton, PTL DEF Skeleton!DestroyIsFinal, Proved!DestroyIsFinal

-----------------------------------------------------------------------------
(***************************************************************************)
(* What the line and the buffer hold, when the peer writes tokens of a set *)
(* S: nothing a read splits, or the data parser tears, is mistaken for     *)
(* something the peer did not write.                                       *)
(***************************************************************************)

\* The tokens a peer may write.
Writable(S) == \A t \in S : t.type \in HeaderTypes \cup {"DATA", "NAME", "O"}

\* What the buffer holds of them; the rest of a token is at the head of the line.
Buffered(S) == S \cup {Part(t) : t \in S} \cup {Torn(t) : t \in S}
Lines(S)    == {line \in Seq(S \cup {RestOfToken}) : \A i \in 2..Len(line) : line[i] \in S}

\* The kinds of tokens are told apart by their type.
LEMMA KindsDiffer ==
    ASSUME NEW S, Writable(S)
    PROVE  /\ \A t \in Buffered(S) : /\ t.type \in TokenTypes
                                     /\ t.type = "part" => t.arg \in S
                                     /\ t.type \notin {"part", "torn"} => t \in S
           /\ RestOfToken.type = "rest" /\ RestOfToken \notin Buffered(S)
<1>1. ASSUME NEW t \in S
      PROVE  t.type \in TokenTypes \ {"part", "torn"}
  BY DEF Writable, TokenTypes, HeaderTypes
<1>2. ASSUME NEW t \in S
      PROVE  /\ Part(t).type = "part" /\ Part(t).arg = t /\ "part" \in TokenTypes
             /\ Torn(t).type = "torn" /\ "torn" \in TokenTypes
  BY DEF Part, Torn, TokenTypes
<1>3. RestOfToken.type = "rest" /\ "rest" \notin TokenTypes
  BY DEF RestOfToken, TokenTypes, HeaderTypes
<1>4. ASSUME NEW t \in Buffered(S)
      PROVE  /\ t.type \in TokenTypes
             /\ t.type = "part" => t.arg \in S
             /\ t.type \notin {"part", "torn"} => t \in S
  BY <1>1, <1>2 DEF Buffered
<1> QED
  BY <1>3, <1>4

\* A sequence of elements of a set is a sequence over it.
LEMMA SeqOver ==
    ASSUME NEW T, NEW u \in Seq(T), NEW S, \A i \in 1..Len(u) : u[i] \in S
    PROVE  u \in Seq(S)
<1>1. Len(u) \in Nat /\ u \in [1..Len(u) -> T]
  BY LenProperties
<1>2. u \in [1..Len(u) -> S]
  BY <1>1
<1> QED
  BY <1>1, <1>2, SeqDef

\* A line may be without a rest, and more tokens may come.
LEMMA LinesLemma ==
    ASSUME NEW S
    PROVE  /\ \A u \in Seq(S) : u \in Lines(S)
           /\ \A u \in Lines(S), ts \in Seq(S) : u \o ts \in Lines(S)
<1>1. ASSUME NEW u \in Seq(S)
      PROVE  u \in Lines(S)
  <2>1. u \in Seq(S \cup {RestOfToken}) /\ Len(u) \in Nat
    BY SeqMonotonic, LenProperties
  <2>2. \A i \in 2..Len(u) : u[i] \in S
    BY <2>1, ElementOfSeq
  <2> QED
    BY <2>1, <2>2 DEF Lines
<1>2. ASSUME NEW u \in Lines(S), NEW ts \in Seq(S)
      PROVE  u \o ts \in Lines(S)
  <2>1. /\ u \in Seq(S \cup {RestOfToken}) /\ Len(u) \in Nat
        /\ \A i \in 2..Len(u) : u[i] \in S
    BY LenProperties DEF Lines
  <2>2. /\ ts \in Seq(S \cup {RestOfToken}) /\ Len(ts) \in Nat
        /\ \A i \in 1..Len(ts) : ts[i] \in S
    BY SeqMonotonic, LenProperties, ElementOfSeq
  <2>3. /\ u \o ts \in Seq(S \cup {RestOfToken})
        /\ Len(u \o ts) = Len(u) + Len(ts)
        /\ \A i \in 1..Len(u) + Len(ts) :
               (u \o ts)[i] = IF i <= Len(u) THEN u[i] ELSE ts[i - Len(u)]
    BY <2>1, <2>2, ConcatProperties
  <2>4. \A i \in 2..Len(u) + Len(ts) : (u \o ts)[i] \in S
    BY <2>1, <2>2, <2>3
  <2> QED
    BY <2>3, <2>4 DEF Lines
<1> QED
  BY <1>1, <1>2

\* The whole line may be read at once.
LEMMA BufferedLines ==
    ASSUME NEW S, NEW u \in Lines(S)
    PROVE  u \in Lines(Buffered(S))
<1>1. S \subseteq Buffered(S)
  BY DEF Buffered
<1>2. u \in Seq(S \cup {RestOfToken}) /\ \A i \in 2..Len(u) : u[i] \in S
  BY DEF Lines
<1>3. u \in Seq(Buffered(S) \cup {RestOfToken})
  BY <1>1, <1>2, SeqMonotonic
<1> QED
  BY <1>1, <1>2, <1>3 DEF Lines

\* What is left of tokens are some of them.
LEMMA WrittenLemma ==
    ASSUME NEW S, NEW ts \in Seq(S), NEW interrupted, NEW sent \in Written(ts, interrupted)
    PROVE  sent \in Seq(S)
<1>1. CASE ~interrupted
  BY <1>1 DEF Written
<1>2. CASE interrupted
  <2>1. PICK n \in 0..Len(ts) : \E at \in [1..n -> 1..Len(ts)] : sent = [i \in 1..n |-> ts[at[i]]]
    BY <1>2 DEF Written, Remains
  <2>2. PICK at \in [1..n -> 1..Len(ts)] : sent = [i \in 1..n |-> ts[at[i]]]
    BY <2>1
  <2>3. \A i \in 1..n : ts[at[i]] \in S
    BY <2>2, ElementOfSeq
  <2>4. n \in Nat
    BY <2>1, LenProperties
  <2> QED
    BY <2>2, <2>3, <2>4, SeqDef
<1> QED
  BY <1>1, <1>2

\* And sending some adds them to the line.
LEMMA SendsLemma ==
    ASSUME NEW S, toTerminal \in Seq(S), NEW ts \in Seq(S), Sends(ts)
    PROVE  toTerminal' \in Seq(S)
<1>1. PICK sent \in Written(ts, signaled) : toTerminal' = toTerminal \o sent
  BY DEF Sends
<1>2. sent \in Seq(S)
  BY WrittenLemma
<1> QED
  BY <1>1, <1>2, ConcatProperties

\* A whole read of the line, or one that ends anywhere.
LEMMA ReadsLemma ==
    ASSUME NEW S, Writable(S), NEW line \in Lines(S), NEW r \in Reads(line)
    PROVE  r.taken \in Lines(Buffered(S)) /\ r.left \in Lines(S)
<1> DEFINE All == S \cup {RestOfToken}
<1>1. line \in Seq(All) /\ Len(line) \in Nat /\ \A i \in 2..Len(line) : line[i] \in S
  BY LenProperties DEF Lines
<1>2. S \subseteq Buffered(S)
  BY DEF Buffered
<1>3. \A i \in 1..Len(line) : line[i] \in All
  BY <1>1, ElementOfSeq
<1>4. ASSUME NEW n \in 1..Len(line)
      PROVE  /\ SubSeq(line, 1, n) \in Lines(Buffered(S))
             /\ SubSeq(line, n + 1, Len(line)) \in Seq(S)
  <2>1. n \in Nat /\ n + 1 \in Nat \ {0} /\ n <= Len(line)
    BY <1>1
  <2>2. /\ SubSeq(line, 1, n) \in Seq(All) /\ Len(SubSeq(line, 1, n)) = n
        /\ \A i \in 1..n : SubSeq(line, 1, n)[i] = line[i]
    BY <1>1, <2>1, SubSeqProperties
  <2>3. \A i \in 1..n : SubSeq(line, 1, n)[i] \in Buffered(S) \cup {RestOfToken}
    BY <1>2, <1>3, <2>1, <2>2
  <2>4. SubSeq(line, 1, n) \in Seq(Buffered(S) \cup {RestOfToken})
    BY <2>2, <2>3, <2>1
  <2>5. \A i \in 2..n : SubSeq(line, 1, n)[i] \in Buffered(S)
    BY <1>1, <1>2, <2>1, <2>2
  <2>6. SubSeq(line, n + 1, Len(line)) \in Seq(S)
    <3>1. /\ SubSeq(line, n + 1, Len(line)) \in Seq(All)
          /\ Len(SubSeq(line, n + 1, Len(line))) = Len(line) - n
          /\ \A i \in 1..(Len(line) - n) : SubSeq(line, n + 1, Len(line))[i] = line[n + i]
      BY <1>1, <2>1, SubSeqProperties
    <3>2. \A i \in 1..(Len(line) - n) : SubSeq(line, n + 1, Len(line))[i] \in S
      BY <1>1, <2>1, <3>1
    <3> QED
      BY <3>1, <3>2, <1>1, <2>1
  <2> QED
    BY <2>2, <2>4, <2>5, <2>6 DEF Lines
<1>5. ASSUME NEW n \in 1..Len(line),
             r = [taken |-> SubSeq(line, 1, n), left |-> SubSeq(line, n + 1, Len(line))]
      PROVE  r.taken \in Lines(Buffered(S)) /\ r.left \in Lines(S)
  BY <1>4, <1>5, LinesLemma
<1>6. ASSUME NEW n \in 1..Len(line), line[n].type \in HeaderTypes \cup {"DATA", "NAME"},
             r = [taken |-> Append(SubSeq(line, 1, n - 1), Part(line[n])),
                  left |-> <<RestOfToken>> \o SubSeq(line, n + 1, Len(line))]
      PROVE  r.taken \in Lines(Buffered(S)) /\ r.left \in Lines(S)
  <2>1. line[n] \in S
    BY <1>3, <1>6, KindsDiffer DEF HeaderTypes
  <2>2. Part(line[n]) \in Buffered(S)
    BY <2>1 DEF Buffered
  <2>3. SubSeq(line, 1, n - 1) \in Lines(Buffered(S))
    <3>1. CASE n = 1
      <4>1. SubSeq(line, 1, n - 1) = <<>>
        BY <3>1, <1>1, SubSeqProperties, EmptySeq
      <4> QED
        BY <4>1 DEF Lines
    <3>2. CASE n # 1
      <4>1. n - 1 \in 1..Len(line)
        BY <1>1, <3>2
      <4> QED
        BY <4>1, <1>4
    <3> QED
      BY <3>1, <3>2
  <2>4. r.taken \in Lines(Buffered(S))
    <3>1. SubSeq(line, 1, n - 1) \in Seq(Buffered(S) \cup {RestOfToken})
      BY <2>3 DEF Lines
    <3>2. r.taken = SubSeq(line, 1, n - 1) \o <<Part(line[n])>>
      BY <1>6, <2>2, <3>1, AppendIsConcat
    <3>3. <<Part(line[n])>> \in Seq(Buffered(S))
      BY <2>2
    <3> QED
      BY <2>3, <3>2, <3>3, LinesLemma
  <2>5. r.left \in Lines(S)
    <3> DEFINE u == SubSeq(line, n + 1, Len(line))
    <3>1. u \in Seq(S) /\ r.left = <<RestOfToken>> \o u
      BY <1>4, <1>6
    <3> HIDE DEF u
    <3>2. /\ <<RestOfToken>> \o u \in Seq(All) /\ Len(<<RestOfToken>> \o u) = Len(u) + 1
          /\ Len(u) \in Nat
          /\ \A i \in 2..Len(u) + 1 : (<<RestOfToken>> \o u)[i] = u[i - 1] /\ i - 1 \in 1..Len(u)
      BY <3>1
    <3>3. \A i \in 1..Len(u) : u[i] \in S
      BY <3>1
    <3> QED
      BY <3>1, <3>2, <3>3 DEF Lines
  <2> QED
    BY <2>4, <2>5
<1> QED
  BY <1>5, <1>6 DEF Reads

\* The bytes read, added to the buffer, which holds the part they complete.
LEMMA ReceivedLemma ==
    ASSUME NEW S, Writable(S), NEW buffer \in Seq(Buffered(S)), NEW ts \in Lines(Buffered(S))
    PROVE  Received(buffer, ts) \in Seq(Buffered(S))
<1>1. ts \in Seq(Buffered(S) \cup {RestOfToken}) /\ \A i \in 2..Len(ts) : ts[i] \in Buffered(S)
  BY DEF Lines
<1>2. CASE ts = <<>> \/ Head(ts).type # "rest"
  <2>1. ts \in Seq(Buffered(S))
    <3>1. CASE ts = <<>>
      BY <3>1
    <3>2. CASE ts # <<>>
      <4>1. Head(ts) = ts[1] /\ Len(ts) \in Nat \ {0} /\ ts[1] \in Buffered(S) \cup {RestOfToken}
        BY <1>1, <3>2, EmptySeq, ElementOfSeq
      <4>2. ts[1] \in Buffered(S)
        BY <1>2, <3>2, <4>1, KindsDiffer
      <4>3. \A i \in 1..Len(ts) : ts[i] \in Buffered(S)
        BY <1>1, <4>1, <4>2
      <4> QED
        BY <1>1, <4>3, SeqOver
    <3> QED
      BY <3>1, <3>2
  <2>2. Received(buffer, ts) = buffer \o ts
    BY <1>2 DEF Received
  <2> QED
    BY <2>1, <2>2, ConcatProperties
<1>3. CASE ts # <<>> /\ Head(ts).type = "rest"
  <2>1. Tail(ts) \in Seq(Buffered(S))
    <3>1. /\ Tail(ts) \in Seq(Buffered(S) \cup {RestOfToken}) /\ Len(Tail(ts)) = Len(ts) - 1
          /\ \A i \in 1..Len(Tail(ts)) : Tail(ts)[i] = ts[i + 1]
      BY <1>1, <1>3, HeadTailProperties
    <3>2. Len(ts) \in Nat
      BY <1>1, LenProperties
    <3>3. \A i \in 1..Len(Tail(ts)) : Tail(ts)[i] \in Buffered(S)
      BY <1>1, <3>1, <3>2
    <3> QED
      BY <3>1, <3>3, SeqOver
  <2>2. CASE buffer # <<>> /\ Last(buffer).type = "part"
    <3>1. Len(buffer) \in Nat \ {0} /\ Last(buffer) \in Buffered(S)
      BY <2>2, EmptySeq, ElementOfSeq DEF Last
    <3>2. Last(buffer).arg \in Buffered(S)
      BY <2>2, <3>1, KindsDiffer DEF Buffered
    <3>3. Front(buffer) \in Seq(Buffered(S))
      BY <3>1, ElementOfSeq, SubSeqProperties DEF Front
    <3>4. Received(buffer, ts) = Front(buffer) \o <<Last(buffer).arg>> \o Tail(ts)
      BY <1>3, <2>2 DEF Received
    <3> DEFINE a == Front(buffer)  b == <<Last(buffer).arg>>  c == Tail(ts)
    <3>5. a \in Seq(Buffered(S)) /\ b \in Seq(Buffered(S)) /\ c \in Seq(Buffered(S))
      BY <2>1, <3>2, <3>3
    <3>6. Received(buffer, ts) = (a \o b) \o c
      BY <3>4
    <3> HIDE DEF a, b, c
    <3>7. a \o b \in Seq(Buffered(S))
      BY <3>5, ConcatProperties
    <3> QED
      BY <3>5, <3>6, <3>7, ConcatProperties
  <2>3. CASE ~(buffer # <<>> /\ Last(buffer).type = "part")
    <3>1. Received(buffer, ts) = buffer \o Tail(ts)
      BY <1>3, <2>3 DEF Received
    <3> QED
      BY <2>1, <3>1, ConcatProperties
  <2> QED
    BY <2>2, <2>3
<1> QED
  BY <1>2, <1>3

\* A set of numbers has a least one.
LEMMA LeastNumber ==
    ASSUME NEW I \in SUBSET Nat, I # {}
    PROVE  Min(I) \in I
<1> DEFINE R == OpToRel(<, Nat)
<1>1. \A x, y \in Nat : <<y, x>> \in R <=> y < x
  BY DEF OpToRel
<1>2. IsWellFoundedOn(R, Nat)
  BY NatLessThanWellFounded, Zenon
<1> HIDE DEF R
<1>3. PICK x \in I : \A y \in I : ~ (<<y, x>> \in R)
  BY <1>2, WFMin
<1>4. \A y \in I : x <= y
  <2> TAKE y \in I
  <2>1. x \in Nat /\ y \in Nat /\ ~(y < x)
    BY <1>1, <1>3
  <2> QED
    BY <2>1
<1> QED
  BY <1>4 DEF Min

\* parseFrame stops at a place of the buffer, if there is a header in it.
LEMMA PadLemma ==
    ASSUME NEW T, NEW buffer \in Seq(T)
    PROVE  PadAt(buffer) # 0 => PadAt(buffer) \in 1..Len(buffer) /\ HasPad(buffer[PadAt(buffer)])
<1> DEFINE I == {i \in 1..Len(buffer) : HasPad(buffer[i])}
<1>1. PadAt(buffer) = IF I # {} THEN Min(I) ELSE 0
  BY DEF PadAt, SelectInSeq
<1>2. I \in SUBSET Nat
  OBVIOUS
<1> HIDE DEF I
<1>3. I # {} => Min(I) \in I
  BY <1>2, LeastNumber
<1> QED
  BY <1>1, <1>3 DEF I

\* What it leaves of the buffer is some of it, and the frame it finds is one
\* the peer wrote.
LEMMA FoundLemma ==
    ASSUME NEW S, Writable(S), NEW buffer \in Seq(Buffered(S)), NEW frm,
           NEW found \in Parsed(buffer, frm)
    PROVE  /\ found.left \in Seq(Buffered(S))
           /\ found.frame = frm \/ (found.frame \in S /\ found.frame.type \in HeaderTypes)
<1> DEFINE i     == PadAt(buffer)
           after == SubSeq(buffer, i + 1, Len(buffer))
<1>1. CASE frm.type = "ZFIN" /\ buffer = Farewell
  BY <1>1 DEF Parsed
<1>2. CASE ~(frm.type = "ZFIN" /\ buffer = Farewell) /\ i = 0
  <2>1. found.left = <<>> /\ found.frame = frm
    BY <1>2 DEF Parsed
  <2> QED
    BY <2>1
<1>3. CASE ~(frm.type = "ZFIN" /\ buffer = Farewell) /\ i # 0
  <2>1. i \in 1..Len(buffer) /\ HasPad(buffer[i]) /\ Len(buffer) \in Nat
    BY <1>3, PadLemma, LenProperties
  <2>2. buffer[i] \in Buffered(S)
    BY <2>1, ElementOfSeq
  <2>3. after \in Seq(Buffered(S))
    BY <2>1, ElementOfSeq, SubSeqProperties
  <2>4. found.left = after
    BY <1>3 DEF Parsed
  <2>5. \/ found.frame = frm
        \/ found.frame = buffer[i] /\ buffer[i].type \notin {"part", "torn"}
    BY <1>3 DEF Parsed
  <2>6. buffer[i].type \notin {"part", "torn"} => buffer[i] \in S /\ buffer[i].type \in HeaderTypes
    BY <2>1, <2>2, KindsDiffer DEF HasPad
  <2> QED
    BY <2>3, <2>4, <2>5, <2>6
<1> QED
  BY <1>1, <1>2, <1>3

\* The smaller of two numbers.
LEMMA SmallerOfTwo ==
    ASSUME NEW a \in Int, NEW b \in Int
    PROVE  Min({a, b}) = IF a <= b THEN a ELSE b
<1>1. CASE a <= b
  <2>1. \A x \in {a, b} : (\A y \in {a, b} : x =< y) => x = a
    BY <1>1
  <2> QED
    BY <1>1, <2>1 DEF Min
<1>2. CASE ~(a <= b)
  <2>1. \A x \in {a, b} : (\A y \in {a, b} : x =< y) => x = b
    BY <1>2
  <2> QED
    BY <1>2, <2>1 DEF Min
<1> QED
  BY <1>1, <1>2
=============================================================================
