--------------------------- MODULE FsmSessionProofs --------------------------
(***************************************************************************)
(* Theorems about FsmSession, for every event table of the shape           *)
(* TableShape describes and every behaviour of its session functions.      *)
(***************************************************************************)
EXTENDS FsmSession, SequenceTheorems, TLAPS

\* The calls of a table entry are calls, one for each action, in order.
LEMMA CallsLemma ==
    ASSUME NEW acts \in Seq(Action), NEW g \in States \cup {AnyState}
    PROVE  /\ Calls(acts, g) \in Seq(CallSet)
           /\ Len(Calls(acts, g)) = Len(acts)
           /\ \A i \in 1..Len(acts) : /\ Calls(acts, g)[i].op = acts[i].op
                                      /\ Calls(acts, g)[i].arg = acts[i].arg
                                      /\ Calls(acts, g)[i].guard = g
<1>1. ASSUME NEW a \in Action
      PROVE  [op |-> a.op, arg |-> a.arg, guard |-> g] \in CallSet
  BY DEF Action, CallSet, ToState, SeFunc, NEW_TIMER, CANCEL_TIMER, IGNORE_EVT,
         DESTROY, DELETE_SELF
<1>2. \A i \in 1..Len(acts) :
          [op |-> acts[i].op, arg |-> acts[i].arg, guard |-> g] \in CallSet
  BY <1>1
<1> QED
  BY <1>2 DEF Calls

\* A call the engine or a session function makes itself is a call.
LEMMA CallLemma ==
    /\ \A op \in {"handle", "initialized"}, e \in Events : Call(op, e) \in CallSet
    /\ \A op \in {"enter", "change"}, s \in States : Call(op, s) \in CallSet
BY DEF Call, CallSet

\* The calls the table lists for an event.
LEMMA TableLemma ==
    ASSUME NEW s \in States, NEW e \in Events, NEW g \in States \cup {AnyState}
    PROVE  Calls(Table[s][e], g) \in Seq(CallSet)
<1>1. Table[s][e] \in Seq(Action)
  BY TableAssumption
<1> QED
  BY <1>1, CallsLemma

\* Sequences of one element, and sequences put one after the other.
LEMMA SeqLemma ==
    ASSUME NEW S
    PROVE  /\ <<>> \in Seq(S)
           /\ \A x \in S : <<x>> \in Seq(S)
           /\ \A t, u \in Seq(S) : t \o u \in Seq(S)
OBVIOUS

\* Taking the first element leaves the last one last.
LEMMA TailLemma ==
    ASSUME NEW S, NEW q \in Seq(S), q # <<>>
    PROVE  /\ Tail(q) # <<>> => Tail(q)[Len(Tail(q))] = q[Len(q)]
           /\ Tail(q) = <<>> => Head(q) = q[Len(q)]
<1>1. /\ Len(q) \in Nat /\ Len(q) > 0 /\ Len(Tail(q)) = Len(q) - 1
      /\ Tail(q) \in Seq(S) /\ Head(q) = q[1]
      /\ \A i \in 1..Len(Tail(q)) : Tail(q)[i] = q[i+1]
  OBVIOUS
<1>2. Tail(q) # <<>> => Len(Tail(q)) \in Nat \ {0}
  BY <1>1, EmptySeq
<1>3. Tail(q) = <<>> => Len(Tail(q)) = 0
  BY EmptySeq
<1> QED
  BY <1>1, <1>2, <1>3

\* The next call and the calls after it.
LEMMA AgendaLemma ==
    ASSUME agenda \in Seq(CallSet), agenda # <<>>
    PROVE  /\ Head(agenda) \in CallSet
           /\ Rest \in Seq(CallSet)
BY DEF Rest

\* The argument of the next call is what its operator takes.
LEMMA ArgLemma ==
    ASSUME agenda \in Seq(CallSet), agenda # <<>>
    PROVE  /\ Calling("handle") \/ Calling("initialized") => Arg \in Events
           /\ Calling("change") \/ Calling("enter") => Arg \in States
           /\ Calling("func") => Arg \in Funcs
BY AgendaLemma DEF Calling, Arg, CallSet

-----------------------------------------------------------------------------
\* The types, initially and after every step.
LEMMA TypeInit == Init => EngineTypeOK
<1>1. FirstState \in States /\ FirstEvent \in Events
  BY TableAssumption, SkeletonAssumption
<1>2. <<FirstEvent>> \in Seq(Events) /\ <<>> \in Seq(CallSet)
  BY <1>1, SeqLemma
<1> QED
  BY <1>1, <1>2 DEF Init, EngineInit, EngineTypeOK

\* Every call, job and timer keeps the types.
LEMMA TypeNext ==
    EngineTypeOK /\ [Next]_engineVars => EngineTypeOK'
<1> SUFFICES ASSUME EngineTypeOK, [Next]_engineVars PROVE EngineTypeOK'
  OBVIOUS
<1> USE DEF EngineTypeOK, timerVars, phaseVars
<1> "ENTRY_EVT" \in Events /\ "EXIT_EVT" \in Events /\ "DESTROY_EVT" \in Events
    /\ "TIMEOUT_EVT" \in Events /\ "NETWORK_INPUT_EVT" \in Events
    /\ "RESET_EVT" \in Events /\ LastState \in States
  BY TableAssumption
<1>1. CASE PollJob
  BY <1>1, CallLemma, SeqLemma DEF PollJob, Idle
<1>2. CASE RunFreedJob
  BY <1>2 DEF RunFreedJob
<1>3. CASE LeaveLoop
  BY <1>3 DEF LeaveLoop
<1>4. CASE NextTurn
  BY <1>4 DEF NextTurn
<1>5. CASE IgnoreRest
  BY <1>5, AgendaLemma DEF IgnoreRest
<1>6. CASE EnterFirstState
  BY <1>6, AgendaLemma, ArgLemma, CallLemma, TableLemma, SeqLemma DEF EnterFirstState, Calling
<1>7. CASE MarkInitialized
  BY <1>7, AgendaLemma, ArgLemma, CallLemma, SeqLemma DEF MarkInitialized, Calling
<1>8. CASE HandleEvent
  BY <1>8, AgendaLemma, ArgLemma, TableLemma, SeqLemma DEF HandleEvent, Calling
<1>9. CASE HandleUndefinedEvent
  BY <1>9, AgendaLemma, CallLemma, SeqLemma DEF HandleUndefinedEvent, Calling
<1>10. CASE ChangeState
  BY <1>10, AgendaLemma, ArgLemma, CallLemma, TableLemma, SeqLemma DEF ChangeState, Calling
<1>11. CASE EnterState
  BY <1>11, AgendaLemma, ArgLemma, TableLemma, SeqLemma DEF EnterState, Calling
<1>12. CASE NewTimer
  BY <1>12, AgendaLemma DEF NewTimer, Calling, Armed
<1>13. CASE CancelTimer
  BY <1>13, AgendaLemma DEF CancelTimer, Calling
<1>14. CASE IgnoreEvent
  BY <1>14, AgendaLemma DEF IgnoreEvent, Calling
<1>15. CASE Destroy
  BY <1>15, AgendaLemma DEF Destroy, Calling, Posted
<1>16. CASE DeleteSelf
  BY <1>16, AgendaLemma DEF DeleteSelf, Calling
<1>17. CASE SessionFunction
  <2> USE DEF FuncReturns, Posted
  <2>1. /\ agenda # <<>> /\ Arg \in Funcs /\ Rest \in Seq(CallSet)
        /\ RestartedTimer \in States \cup {NoTimer}
        /\ Posts[Arg] \subseteq Events /\ Syncs[Arg] \subseteq Events
    BY <1>17, SkeletonAssumption, AgendaLemma, ArgLemma DEF SessionFunction, Calling, RestartedTimer, Armed
  <2>2. CASE FuncReturns(fsmTimer, jobs, <<>>)
    BY <2>1, <2>2
  <2>3. ASSUME NEW e \in Posts[Arg], FuncReturns(fsmTimer, Posted(jobs, <<e>>), <<>>)
        PROVE  EngineTypeOK'
    BY <2>1, <2>3, SeqLemma
  <2>4. ASSUME NEW e \in Syncs[Arg],
               FuncReturns(fsmTimer, jobs, <<Call("handle", e)>>)
        PROVE  EngineTypeOK'
    <3>1. Call("handle", e) \in CallSet
      BY <2>1, CallLemma
    <3> QED
      BY <2>1, <2>4, <3>1
  <2>5. ASSUME NEW es \in {<<>>, <<"NETWORK_INPUT_EVT">>},
               FuncReturns(RestartedTimer, Posted(jobs, es), <<>>)
        PROVE  EngineTypeOK'
    <3>1. es \in Seq(Events)
      BY SeqLemma
    <3> QED
      BY <2>1, <2>5, <3>1, SeqLemma
  <2> QED
    BY <1>17, <2>2, <2>3, <2>4, <2>5 DEF SessionFunction
<1>18. CASE FireFsmTimer
  BY <1>18, CallLemma DEF FireFsmTimer
<1>19. CASE ReadTick
  <2>1. PICK n \in 0..MaxReads : FireInputTimer([i \in 1..n |-> "NETWORK_INPUT_EVT"])
    BY <1>19 DEF ReadTick
  <2>2. [i \in 1..n |-> "NETWORK_INPUT_EVT"] \in Seq(Events)
    OBVIOUS
  <2> QED
    BY <2>1, <2>2 DEF FireInputTimer, Posted
<1>20. CASE SignalTick
  BY <1>20 DEF SignalTick, FireInputTimer, Posted
<1>21. CASE UNCHANGED engineVars
  BY <1>21 DEF engineVars
<1> QED
  BY <1>1, <1>2, <1>3, <1>4, <1>5, <1>6, <1>7, <1>8, <1>9, <1>10, <1>11, <1>12,
     <1>13, <1>14, <1>15, <1>16, <1>17, <1>18, <1>19, <1>20, <1>21
     DEF Next, ThreadStep, WorkerStep, CallStep

\* Type correctness: every value the engine keeps, the calls still to be made
\* among them, is of its type whatever the table and the session functions do.
THEOREM TypeCorrect == Safety => []EngineTypeOK
BY TypeInit, TypeNext, PTL DEF Safety

-----------------------------------------------------------------------------
(***************************************************************************)
(* The inductive invariant behind the shutdown properties.  The state can  *)
(* be left only by a call "change" or "enter" to another state that no     *)
(* guard holds back.  TableShape keeps such calls behind no call that may  *)
(* itself change the state, so none is left in the agenda when the session *)
(* enters its end state.                                                   *)
(***************************************************************************)

\* The call would take the session out of its end state.
Leaves(c) ==
    /\ c.op \in {"change", "enter"} /\ c.arg # LastState
    /\ c.guard \in {AnyState, LastState}

Jumps(c) == \/ c.op \in {"change", "enter", "handle", "initialized"}
            \/ c.op = "func" /\ Syncs[c.arg] # {}

NoneLeaves(calls) == \A i \in 1..Len(calls) : ~Leaves(calls[i])

\* Behind a call that may change the state no call leaves the end state.
TailJumps(calls) ==
    \A i, j \in 1..Len(calls) : i < j /\ Jumps(calls[i]) => ~Leaves(calls[j])

\* A call whose effect is that DESTROY_EVT will be handled, or that frees.
Frees(c) == \/ c.op \in {"handle", "initialized"} /\ c.arg = "DESTROY_EVT"
            \/ c.op = "delete"

SomeFrees(calls) == \E i \in 1..Len(calls) : Frees(calls[i])

\* destroy and deleteSelf are called in the end state only.
EndOnly(calls, s) ==
    \A i \in 1..Len(calls) :
        calls[i].op \in {"destroy", "delete"} =>
            s = LastState /\ calls[i].guard \in {AnyState, LastState}

LastIsDestroy == jobs[Len(jobs)] = "DESTROY_EVT"

AgendaInv ==
    /\ TailJumps(agenda)
    /\ curState = LastState => NoneLeaves(agenda)
    /\ EndOnly(agenda, curState)

\* Entering the end state is followed by destroy, before anything else.
DestroyInv ==
    /\ waitStop = toDelete
    /\ toDelete => curState = LastState
    /\ (curState = LastState /\ ~toDelete) =>
           agenda # <<>> /\ Head(agenda) = Call("destroy", "-")
    /\ deleted => toDelete

\* The event that frees the session is queued last, or is being handled.
QueueInv ==
    /\ toDelete /\ jobs # <<>> => LastIsDestroy
    /\ toDelete /\ ~deleted /\ jobs = <<>> => SomeFrees(agenda)

PhaseInv ==
    /\ worker # "timers" => agenda = <<>>
    /\ worker = "stopped" => deleted
    /\ worker = "crashed" => deleted /\ jobs # <<>>
    /\ ~waitStop => inputTimer

IInv == EngineTypeOK /\ AgendaInv /\ DestroyInv /\ QueueInv /\ PhaseInv

-----------------------------------------------------------------------------
\* What the calls after the next one inherit from the whole agenda.
LEMMA RestLemma ==
    ASSUME agenda \in Seq(CallSet), agenda # <<>>
    PROVE  /\ TailJumps(agenda) => TailJumps(Rest)
           /\ TailJumps(agenda) /\ Jumps(Head(agenda)) => NoneLeaves(Rest)
           /\ NoneLeaves(agenda) => NoneLeaves(Rest) /\ ~Leaves(Head(agenda))
           /\ \A s : EndOnly(agenda, s) => EndOnly(Rest, s)
           /\ SomeFrees(agenda) /\ ~Frees(Head(agenda)) => SomeFrees(Rest)
<1>1. /\ Len(Rest) = Len(agenda) - 1 /\ Len(agenda) \in Nat /\ Len(agenda) > 0
      /\ Head(agenda) = agenda[1]
      /\ \A i \in 1..Len(Rest) : Rest[i] = agenda[i+1]
      /\ Rest \in Seq(CallSet)
  BY DEF Rest
<1>2. TailJumps(agenda) => TailJumps(Rest)
  BY <1>1 DEF TailJumps
<1>3. TailJumps(agenda) /\ Jumps(Head(agenda)) => NoneLeaves(Rest)
  BY <1>1 DEF TailJumps, NoneLeaves
<1>4. NoneLeaves(agenda) => NoneLeaves(Rest) /\ ~Leaves(Head(agenda))
  BY <1>1 DEF NoneLeaves
<1>5. \A s : EndOnly(agenda, s) => EndOnly(Rest, s)
  BY <1>1 DEF EndOnly
<1>6. SomeFrees(agenda) /\ ~Frees(Head(agenda)) => SomeFrees(Rest)
  <2> SUFFICES ASSUME NEW i \in 1..Len(agenda), Frees(agenda[i]), ~Frees(agenda[1])
               PROVE  SomeFrees(Rest)
    BY <1>1 DEF SomeFrees
  <2>1. i # 1 /\ i - 1 \in 1..Len(Rest)
    BY <1>1
  <2>2. Rest[i - 1] = agenda[i]
    BY <1>1, <2>1
  <2> QED
    BY <2>1, <2>2 DEF SomeFrees
<1> QED
  BY <1>2, <1>3, <1>4, <1>5, <1>6

\* What calls put before others must satisfy.
LEMMA PushLemma ==
    ASSUME NEW l \in Seq(CallSet), NEW r \in Seq(CallSet)
    PROVE  /\ TailJumps(l) /\ TailJumps(r) /\ NoneLeaves(r) => TailJumps(l \o r)
           /\ NoneLeaves(l) /\ NoneLeaves(r) => NoneLeaves(l \o r)
           /\ \A s : EndOnly(l, s) /\ EndOnly(r, s) => EndOnly(l \o r, s)
           /\ SomeFrees(l) \/ SomeFrees(r) => SomeFrees(l \o r)
<1>1. /\ Len(l \o r) = Len(l) + Len(r) /\ Len(l) \in Nat /\ Len(r) \in Nat
      /\ \A i \in 1..Len(l \o r) :
             (l \o r)[i] = IF i <= Len(l) THEN l[i] ELSE r[i - Len(l)]
  OBVIOUS
<1>2. TailJumps(l) /\ TailJumps(r) /\ NoneLeaves(r) => TailJumps(l \o r)
  BY <1>1 DEF TailJumps, NoneLeaves
<1>3. NoneLeaves(l) /\ NoneLeaves(r) => NoneLeaves(l \o r)
  BY <1>1 DEF NoneLeaves
<1>4. \A s : EndOnly(l, s) /\ EndOnly(r, s) => EndOnly(l \o r, s)
  BY <1>1 DEF EndOnly
<1>5. ASSUME NEW i \in 1..Len(l), Frees(l[i]) PROVE SomeFrees(l \o r)
  BY <1>1, <1>5 DEF SomeFrees
<1>6. ASSUME NEW i \in 1..Len(r), Frees(r[i]) PROVE SomeFrees(l \o r)
  <2>1. Len(l) + i \in 1..Len(l \o r) /\ (l \o r)[Len(l) + i] = r[i]
    BY <1>1
  <2> QED
    BY <1>6, <2>1 DEF SomeFrees
<1> QED
  BY <1>2, <1>3, <1>4, <1>5, <1>6 DEF SomeFrees

\* What TableShape says of the calls a table entry makes.
LEMMA ShapeLemma ==
    ASSUME NEW s \in States, NEW e \in Events, NEW g \in States \cup {AnyState}
    PROVE  LET calls == Calls(Table[s][e], g)
           IN  /\ g = s \/ e \in {"ENTRY_EVT", "EXIT_EVT"} => TailJumps(calls)
               /\ s = LastState => NoneLeaves(calls)
               /\ g \in {s, AnyState} => EndOnly(calls, s)
               /\ e = "EXIT_EVT" => /\ \A i \in 1..Len(calls) : ~Jumps(calls[i])
                                    /\ NoneLeaves(calls)
                                    /\ \A t : EndOnly(calls, t)
<1> DEFINE acts == Table[s][e]
           calls == Calls(acts, g)
<1>1. acts \in Seq(Action)
  BY TableAssumption
<1>2. /\ Len(calls) = Len(acts) /\ Len(acts) \in Nat
      /\ \A i \in 1..Len(acts) : /\ calls[i].op = acts[i].op
                                 /\ calls[i].arg = acts[i].arg
                                 /\ calls[i].guard = g
  BY <1>1, CallsLemma
<1>3. ASSUME NEW i \in 1..Len(acts)
      PROVE  /\ acts[i].op \notin {"enter", "handle", "initialized"}
             /\ e = "ENTRY_EVT" /\ i < Len(acts) => ~MayJump(acts[i])
             /\ e = "EXIT_EVT" => ~MayJump(acts[i])
             /\ s # LastState => acts[i].op \notin {"destroy", "delete"}
  <2>1. acts[i] \in Action
    BY <1>1
  <2>2. acts[i].op \notin {"enter", "handle", "initialized"}
    BY <2>1 DEF Action, ToState, SeFunc, NEW_TIMER, CANCEL_TIMER, IGNORE_EVT,
                DESTROY, DELETE_SELF
  <2> QED
    BY <2>2, TableShape DEF Shaped
<1>4. ASSUME NEW i \in 1..Len(calls), ~MayJump(acts[i])
      PROVE  ~Jumps(calls[i]) /\ ~Leaves(calls[i])
  BY <1>2, <1>3, <1>4 DEF MayJump, Jumps, Leaves
<1>5. ASSUME s = LastState
      PROVE  /\ acts \in {<<>>, <<IGNORE_EVT>>, <<DESTROY>>, <<DELETE_SELF>>}
             /\ e = "EXIT_EVT" => acts \in {<<>>, <<IGNORE_EVT>>}
  BY <1>5, TableShape DEF Shaped
<1>6. ASSUME s = LastState, NEW i \in 1..Len(calls) PROVE ~Leaves(calls[i])
  <2>1. Len(acts) \in {0, 1} /\ (Len(acts) = 1 => acts[1].op # "change")
    BY <1>5, <1>6 DEF IGNORE_EVT, DESTROY, DELETE_SELF
  <2> QED
    BY <1>2, <1>3, <2>1 DEF Leaves
<1>7. ASSUME e = "EXIT_EVT", NEW i \in 1..Len(calls)
      PROVE  calls[i].op \notin {"destroy", "delete"}
  <2>1. CASE s # LastState
    BY <2>1, <1>2, <1>3
  <2>2. CASE s = LastState
    BY <2>2, <1>2, <1>5, <1>7 DEF IGNORE_EVT
  <2> QED
    BY <2>1, <2>2
<1>8. ASSUME g = s \/ e \in {"ENTRY_EVT", "EXIT_EVT"} PROVE TailJumps(calls)
  <2>1. CASE e \in {"ENTRY_EVT", "EXIT_EVT"}
    BY <2>1, <1>2, <1>3, <1>4 DEF TailJumps
  <2>2. CASE s = LastState
    BY <2>2, <1>6 DEF TailJumps
  <2>3. CASE g = s /\ s # LastState
    BY <2>3, <1>2, TableAssumption DEF TailJumps, Leaves
  <2> QED
    BY <1>8, <2>1, <2>2, <2>3
<1>9. s = LastState => NoneLeaves(calls)
  BY <1>6 DEF NoneLeaves
<1>10. g \in {s, AnyState} => EndOnly(calls, s)
  BY <1>2, <1>3 DEF EndOnly
<1>11. e = "EXIT_EVT" => /\ \A i \in 1..Len(calls) : ~Jumps(calls[i])
                         /\ NoneLeaves(calls)
                         /\ \A t : EndOnly(calls, t)
  BY <1>2, <1>3, <1>4, <1>7 DEF NoneLeaves, EndOnly
<1> QED
  BY <1>8, <1>9, <1>10, <1>11

-----------------------------------------------------------------------------
\* The inductive invariant, initially.
LEMMA InvInit == Init => IInv
<1> SUFFICES ASSUME Init PROVE IInv
  OBVIOUS
<1>1. EngineTypeOK
  BY TypeInit
<1>2. agenda = <<>> /\ curState # LastState /\ toDelete = FALSE /\ deleted = FALSE
      /\ waitStop = FALSE /\ worker = "poll" /\ inputTimer = TRUE
  BY TableShape DEF Shaped, Init, EngineInit
<1>3. AgendaInv
  BY <1>2 DEF AgendaInv, TailJumps, EndOnly
<1> QED
  BY <1>1, <1>2, <1>3 DEF IInv, DestroyInv, QueueInv, PhaseInv

\* In the end state nothing but destroy is called until it was called.
LEMMA DestroyFirst ==
    ASSUME IInv, curState = LastState, ~toDelete
    PROVE  /\ worker = "timers" /\ agenda # <<>>
           /\ Head(agenda).op = "destroy" /\ Head(agenda).guard = AnyState
BY DEF IInv, DestroyInv, PhaseInv, Call

\* The calls of the engine and of session functions: they jump nowhere by
\* themselves, and free only when they handle DESTROY_EVT.
LEMMA SingleLemma ==
    ASSUME NEW c \in CallSet
    PROVE  /\ <<c>> \in Seq(CallSet)
           /\ TailJumps(<<c>>)
           /\ ~Leaves(c) => NoneLeaves(<<c>>)
           /\ c.op \notin {"destroy", "delete"} => \A s : EndOnly(<<c>>, s)
           /\ Frees(c) => SomeFrees(<<c>>)
BY DEF TailJumps, NoneLeaves, EndOnly, SomeFrees

\* A step that puts the calls l before the calls after a call that jumps.
LEMMA PushInv ==
    ASSUME IInv, agenda # <<>>, NEW l \in Seq(CallSet), agenda' = l \o Rest,
           Jumps(Head(agenda)), TailJumps(l), EndOnly(l, curState),
           curState' = curState, curState = LastState => NoneLeaves(l)
    PROVE  AgendaInv'
<1> USE DEF IInv, EngineTypeOK
<1>1. Rest \in Seq(CallSet)
  BY AgendaLemma
<1>2. TailJumps(Rest) /\ NoneLeaves(Rest) /\ EndOnly(Rest, curState)
  BY RestLemma DEF AgendaInv
<1> QED
  BY <1>1, <1>2, PushLemma DEF AgendaInv

\* A step that takes the next call away and leaves the state.
LEMMA PopInv ==
    ASSUME IInv, agenda # <<>>, agenda' = Rest, curState' = curState
    PROVE  AgendaInv'
<1> USE DEF IInv, EngineTypeOK
<1>1. /\ TailJumps(Rest) /\ EndOnly(Rest, curState)
      /\ curState = LastState => NoneLeaves(Rest)
  BY RestLemma DEF AgendaInv
<1> QED
  BY <1>1 DEF AgendaInv

\* A call other than destroy and deleteSelf leaves the flags of the session
\* alone; outside the end state, or after destroy, the queue grows at most by
\* what asynHandleEvent accepts.
LEMMA QuietStep ==
    ASSUME IInv, EngineTypeOK', AgendaInv', agenda # <<>>,
           curState # LastState \/ toDelete, curState' = curState,
           UNCHANGED <<toDelete, deleted, waitStop, worker>>,
           toDelete => jobs' = jobs,
           ~waitStop => inputTimer',
           toDelete /\ ~deleted /\ SomeFrees(agenda) => SomeFrees(agenda')
    PROVE  IInv'
<1> USE DEF IInv, EngineTypeOK
<1>1. DestroyInv'
  BY DEF DestroyInv
<1>2. QueueInv'
  BY DEF QueueInv, LastIsDestroy
<1>3. PhaseInv'
  BY DEF PhaseInv
<1> QED
  BY <1>1, <1>2, <1>3

\* Every call, job and timer keeps the inductive invariant.
LEMMA InvNext == IInv /\ [Next]_engineVars => IInv'
<1> SUFFICES ASSUME IInv, [Next]_engineVars PROVE IInv'
  OBVIOUS
<1> USE DEF IInv, timerVars, phaseVars
<1>0. EngineTypeOK'
  BY TypeNext
<1>a. ASSUME agenda # <<>>, Head(agenda).op # "destroy"
      PROVE  curState # LastState \/ toDelete
  BY <1>a, DestroyFirst
<1>1. CASE PollJob
  <2> USE <1>1 DEF PollJob, Idle
  <2>1. Head(jobs) \in Events /\ Call("handle", Head(jobs)) \in CallSet
    BY CallLemma DEF EngineTypeOK
  <2>2. AgendaInv'
    BY <2>1, SingleLemma DEF AgendaInv, Leaves, Call
  <2>3. DestroyInv'
    BY <1>0, DestroyFirst DEF DestroyInv, EngineTypeOK
  <2>4. jobs' # <<>> => jobs'[Len(jobs')] = jobs[Len(jobs)]
    BY TailLemma DEF EngineTypeOK
  <2>5. jobs' = <<>> => Head(jobs) = jobs[Len(jobs)]
    BY TailLemma DEF EngineTypeOK
  <2>6. QueueInv'
    BY <2>1, <2>4, <2>5, SingleLemma DEF QueueInv, LastIsDestroy, Frees, Call
  <2>7. PhaseInv'
    BY DEF PhaseInv
  <2> QED
    BY <1>0, <2>2, <2>3, <2>6, <2>7
<1>2. CASE RunFreedJob
  BY <1>0, <1>2, DestroyFirst
     DEF RunFreedJob, AgendaInv, DestroyInv, QueueInv, PhaseInv, LastIsDestroy
<1>3. CASE LeaveLoop
  <2>1. toDelete = TRUE /\ agenda = <<>> /\ deleted
    BY <1>3 DEF LeaveLoop, DestroyInv, QueueInv, PhaseInv, SomeFrees, EngineTypeOK
  <2> QED
    BY <1>0, <1>3, <2>1
       DEF LeaveLoop, AgendaInv, DestroyInv, QueueInv, PhaseInv, LastIsDestroy
<1>4. CASE NextTurn
  BY <1>0, <1>4
     DEF NextTurn, AgendaInv, DestroyInv, QueueInv, PhaseInv, LastIsDestroy
<1>5. CASE IgnoreRest
  <2> USE <1>5 DEF IgnoreRest
  <2>1. AgendaInv'
    BY PopInv
  <2>2. Head(agenda) \in CallSet /\ Head(agenda).guard \notin {AnyState, curState}
    BY AgendaLemma DEF EngineTypeOK
  <2>3. curState # LastState \/ toDelete
    BY <2>2, DestroyFirst
  <2>4. toDelete => ~Frees(Head(agenda))
    <3>1. Head(agenda).op \notin {"handle", "initialized"}
      BY <2>2 DEF CallSet
    <3>2. ASSUME Head(agenda).op = "delete", toDelete PROVE FALSE
      <4>1. Head(agenda).guard \in {AnyState, LastState} /\ curState = LastState
        BY <3>2 DEF AgendaInv, EndOnly, DestroyInv, EngineTypeOK
      <4> QED
        BY <2>2, <4>1
    <3> QED
      BY <3>1, <3>2 DEF Frees
  <2> QED
    BY <1>0, <2>1, <2>3, <2>4, QuietStep, RestLemma DEF PhaseInv, EngineTypeOK
<1>6. CASE EnterFirstState
  <2> USE <1>6 DEF EnterFirstState, Calling
  <2> DEFINE entry == Calls(Table[curState]["ENTRY_EVT"], curState)
             mark  == <<Call("initialized", Arg)>>
             l     == entry \o mark
  <2>1. /\ Arg \in Events /\ Call("initialized", Arg) \in CallSet
        /\ "ENTRY_EVT" \in Events /\ curState \in States
    BY ArgLemma, CallLemma, TableAssumption DEF EngineTypeOK
  <2>2. /\ entry \in Seq(CallSet) /\ TailJumps(entry) /\ EndOnly(entry, curState)
        /\ curState = LastState => NoneLeaves(entry)
    BY <2>1, TableLemma, ShapeLemma
  <2>3. /\ mark \in Seq(CallSet) /\ TailJumps(mark) /\ NoneLeaves(mark)
        /\ EndOnly(mark, curState)
        /\ Arg = "DESTROY_EVT" => SomeFrees(mark)
    BY <2>1, SingleLemma DEF Leaves, Frees, Call
  <2>4. /\ l \in Seq(CallSet) /\ TailJumps(l) /\ EndOnly(l, curState)
        /\ curState = LastState => NoneLeaves(l)
        /\ Arg = "DESTROY_EVT" => SomeFrees(l)
    BY <2>2, <2>3, PushLemma, SeqLemma
  <2>5. Rest \in Seq(CallSet) /\ agenda' = l \o Rest
    BY <2>2, <2>3, AgendaLemma DEF EngineTypeOK
  <2>6. AgendaInv'
    BY <2>4, <2>5, PushInv DEF Jumps
  <2>7. SomeFrees(agenda) => SomeFrees(agenda')
    BY <2>4, <2>5, RestLemma, PushLemma DEF Frees, Arg, EngineTypeOK
  <2> QED
    BY <1>0, <1>a, <2>6, <2>7, QuietStep DEF PhaseInv, EngineTypeOK
<1>7. CASE MarkInitialized
  <2> USE <1>7 DEF MarkInitialized, Calling
  <2> DEFINE l == IF Arg = "ENTRY_EVT" THEN <<>> ELSE <<Call("handle", Arg)>>
  <2>1. Arg \in Events /\ Call("handle", Arg) \in CallSet
    BY ArgLemma, CallLemma DEF EngineTypeOK
  <2>2. /\ l \in Seq(CallSet) /\ TailJumps(l) /\ NoneLeaves(l) /\ EndOnly(l, curState)
        /\ Arg = "DESTROY_EVT" => SomeFrees(l)
    <3>1. CASE Arg = "ENTRY_EVT"
      BY <3>1 DEF TailJumps, NoneLeaves, EndOnly
    <3>2. CASE Arg # "ENTRY_EVT"
      BY <2>1, <3>2, SingleLemma DEF Leaves, Frees, Call
    <3> QED
      BY <3>1, <3>2
  <2>3. Rest \in Seq(CallSet) /\ agenda' = l \o Rest
    BY AgendaLemma DEF EngineTypeOK
  <2>4. AgendaInv'
    BY <2>2, <2>3, PushInv DEF Jumps
  <2>5. SomeFrees(agenda) => SomeFrees(agenda')
    BY <2>2, <2>3, RestLemma, PushLemma DEF Frees, Arg, EngineTypeOK
  <2> QED
    BY <1>0, <1>a, <2>4, <2>5, QuietStep DEF PhaseInv, EngineTypeOK
<1>8. CASE HandleEvent
  <2> USE <1>8 DEF HandleEvent, Calling
  <2> DEFINE l == Calls(Table[curState][Arg], curState)
  <2>1. Arg \in Events /\ curState \in States
    BY ArgLemma DEF EngineTypeOK
  <2>2. /\ l \in Seq(CallSet) /\ TailJumps(l) /\ EndOnly(l, curState)
        /\ curState = LastState => NoneLeaves(l)
    BY <2>1, TableLemma, ShapeLemma
  <2>3. toDelete /\ Arg = "DESTROY_EVT" => SomeFrees(l)
    BY TableShape DEF Shaped, DestroyInv, Calls, DELETE_SELF, SomeFrees, Frees
  <2>4. Rest \in Seq(CallSet) /\ agenda' = l \o Rest
    BY AgendaLemma DEF EngineTypeOK
  <2>5. AgendaInv'
    BY <2>2, <2>4, PushInv DEF Jumps
  <2>6. toDelete /\ SomeFrees(agenda) => SomeFrees(agenda')
    BY <2>2, <2>3, <2>4, RestLemma, PushLemma DEF Frees, Arg, EngineTypeOK
  <2> QED
    BY <1>0, <1>a, <2>5, <2>6, QuietStep DEF PhaseInv, EngineTypeOK
<1>9. CASE HandleUndefinedEvent
  <2> USE <1>9 DEF HandleUndefinedEvent, Calling
  <2> DEFINE l == <<Call("change", LastState)>>
  <2>1. /\ l \in Seq(CallSet) /\ TailJumps(l) /\ EndOnly(l, curState) /\ NoneLeaves(l)
    BY CallLemma, SingleLemma, TableAssumption DEF Leaves, Call
  <2>2. toDelete => Arg # "DESTROY_EVT"
    <3>1. Table[LastState]["DESTROY_EVT"] # <<>>
      BY TableShape DEF Shaped
    <3> QED
      BY <3>1 DEF DestroyInv
  <2>3. Rest \in Seq(CallSet) /\ agenda' = l \o Rest
    BY AgendaLemma DEF EngineTypeOK
  <2>4. AgendaInv'
    BY <2>1, <2>3, PushInv DEF Jumps
  <2>5. toDelete /\ SomeFrees(agenda) => SomeFrees(agenda')
    BY <2>1, <2>2, <2>3, RestLemma, PushLemma DEF Frees, Arg, EngineTypeOK
  <2> QED
    BY <1>0, <1>a, <2>4, <2>5, QuietStep DEF PhaseInv, EngineTypeOK
<1>10. CASE ChangeState
  <2> USE <1>10 DEF ChangeState, Calling
  <2> DEFINE exit == Calls(Table[curState]["EXIT_EVT"], AnyState)
             go   == <<Call("enter", Arg)>>
             l    == exit \o go
  <2>1. Arg \in States /\ curState \in States /\ "EXIT_EVT" \in Events
        /\ Call("enter", Arg) \in CallSet
    BY ArgLemma, CallLemma, TableAssumption DEF EngineTypeOK
  <2>2. /\ exit \in Seq(CallSet) /\ NoneLeaves(exit) /\ EndOnly(exit, curState)
        /\ \A i \in 1..Len(exit) : ~Jumps(exit[i])
    BY <2>1, TableLemma, ShapeLemma
  <2>3. /\ go \in Seq(CallSet) /\ TailJumps(go) /\ EndOnly(go, curState)
        /\ curState = LastState => NoneLeaves(go)
    <3>1. curState = LastState => Arg = LastState
      BY RestLemma DEF AgendaInv, Leaves, Arg, EngineTypeOK
    <3> QED
      BY <2>1, <3>1, SingleLemma DEF Leaves, Call
  <2>4. TailJumps(l)
    <3>1. /\ Len(l) = Len(exit) + 1 /\ Len(exit) \in Nat
          /\ \A i \in 1..Len(exit) : l[i] = exit[i]
      BY <2>2, <2>3
    <3> QED
      BY <2>2, <3>1 DEF TailJumps
  <2>5. /\ l \in Seq(CallSet) /\ EndOnly(l, curState)
        /\ curState = LastState => NoneLeaves(l)
    BY <2>2, <2>3, PushLemma, SeqLemma
  <2>6. Rest \in Seq(CallSet) /\ agenda' = l \o Rest
    BY <2>2, <2>3, AgendaLemma DEF EngineTypeOK
  <2>7. AgendaInv'
    BY <2>4, <2>5, <2>6, PushInv DEF Jumps
  <2>8. SomeFrees(agenda) => SomeFrees(agenda')
    BY <2>5, <2>6, RestLemma, PushLemma DEF Frees, EngineTypeOK
  <2> QED
    BY <1>0, <1>a, <2>7, <2>8, QuietStep DEF PhaseInv, EngineTypeOK
<1>11. CASE EnterState
  <2> USE <1>11 DEF EnterState, Calling
  <2> DEFINE l == Calls(Table[Arg]["ENTRY_EVT"], AnyState)
  <2>1. Arg \in States /\ "ENTRY_EVT" \in Events
    BY ArgLemma, TableAssumption DEF EngineTypeOK
  <2>2. /\ l \in Seq(CallSet) /\ TailJumps(l) /\ EndOnly(l, Arg)
        /\ Arg = LastState => NoneLeaves(l)
    BY <2>1, TableLemma, ShapeLemma
  <2>3. Rest \in Seq(CallSet) /\ agenda' = l \o Rest
    BY AgendaLemma DEF EngineTypeOK
  <2>4. curState = LastState => Arg = LastState
    BY RestLemma DEF AgendaInv, Leaves, Arg, EngineTypeOK
  <2>5. TailJumps(Rest) /\ NoneLeaves(Rest) /\ EndOnly(Rest, Arg)
    <3>1. TailJumps(Rest) /\ NoneLeaves(Rest) /\ EndOnly(Rest, curState)
      BY RestLemma DEF AgendaInv, Jumps, EngineTypeOK
    <3> QED
      BY <2>4, <3>1 DEF EndOnly
  <2>6. AgendaInv'
    BY <2>2, <2>3, <2>5, PushLemma DEF AgendaInv
  <2>7. SomeFrees(agenda) => SomeFrees(agenda')
    BY <2>2, <2>3, RestLemma, PushLemma DEF Frees, EngineTypeOK
  <2>8. Arg = LastState => agenda' # <<>> /\ Head(agenda') = Call("destroy", "-")
    <3> SUFFICES ASSUME Arg = LastState PROVE l = <<Call("destroy", "-")>>
      BY <2>3
    <3> QED
      BY TableShape DEF Shaped, Calls, DESTROY, Call
  <2>9. DestroyInv'
    BY <2>4, <2>8 DEF DestroyInv
  <2>10. QueueInv'
    BY <2>7 DEF QueueInv, LastIsDestroy
  <2>11. PhaseInv'
    BY DEF PhaseInv
  <2> QED
    BY <1>0, <2>6, <2>9, <2>10, <2>11
<1>b. ASSUME agenda # <<>>, agenda' = Rest, curState' = curState,
             Head(agenda).op \notin {"handle", "initialized", "delete"}
      PROVE  AgendaInv' /\ (SomeFrees(agenda) => SomeFrees(agenda'))
  BY <1>b, PopInv, RestLemma DEF Frees, EngineTypeOK
<1>12. CASE NewTimer
  BY <1>0, <1>a, <1>b, <1>12, QuietStep DEF NewTimer, Calling, PhaseInv
<1>13. CASE CancelTimer
  BY <1>0, <1>a, <1>b, <1>13, QuietStep DEF CancelTimer, Calling, PhaseInv
<1>14. CASE IgnoreEvent
  BY <1>0, <1>a, <1>b, <1>14, QuietStep DEF IgnoreEvent, Calling, PhaseInv
<1>15. CASE Destroy
  <2> USE <1>15 DEF Destroy, Calling
  <2>1. AgendaInv' /\ (SomeFrees(agenda) => SomeFrees(agenda'))
    BY <1>b
  <2>2. curState = LastState
    BY DEF AgendaInv, EndOnly, EngineTypeOK
  <2>3. toDelete' = TRUE /\ waitStop' = TRUE
    OBVIOUS
  <2>4. DestroyInv'
    BY <2>2, <2>3 DEF DestroyInv
  <2>5. ASSUME toDelete PROVE QueueInv'
    BY <2>1, <2>5 DEF QueueInv, LastIsDestroy, Posted
  <2>6. ASSUME ~toDelete PROVE QueueInv'
    <3>1. jobs' = jobs \o <<"DESTROY_EVT">>
      BY <2>6 DEF Posted, DestroyInv
    <3>2. jobs' # <<>> /\ jobs'[Len(jobs')] = "DESTROY_EVT"
      BY <3>1 DEF EngineTypeOK
    <3> QED
      BY <3>2 DEF QueueInv, LastIsDestroy
  <2>7. PhaseInv'
    BY <2>3 DEF PhaseInv
  <2>8. QueueInv'
    BY <2>1, <2>5, <2>6 DEF QueueInv, LastIsDestroy
  <2> QED
    BY <1>0, <2>1, <2>4, <2>8, <2>7
<1>16. CASE DeleteSelf
  <2> USE <1>16 DEF DeleteSelf, Calling
  <2>1. AgendaInv'
    BY PopInv
  <2>2. curState = LastState
    BY DEF AgendaInv, EndOnly, EngineTypeOK
  <2>3. toDelete = TRUE /\ waitStop = TRUE
    BY <2>2, DestroyFirst DEF DestroyInv, EngineTypeOK
  <2> QED
    BY <1>0, <2>1, <2>2, <2>3
       DEF DestroyInv, QueueInv, PhaseInv, LastIsDestroy
<1>17. CASE SessionFunction
  <2> USE DEF FuncReturns, Posted
  <2>1. /\ agenda # <<>> /\ Head(agenda).op = "func" /\ Rest \in Seq(CallSet)
        /\ Arg \in Funcs /\ Syncs[Arg] \subseteq Events
    BY <1>17, AgendaLemma, ArgLemma, SkeletonAssumption
       DEF SessionFunction, Calling, EngineTypeOK
  <2>2. ASSUME NEW timer, NEW es, FuncReturns(timer, Posted(jobs, es), <<>>)
        PROVE  IInv'
    <3>1. agenda' = Rest /\ (toDelete => jobs' = jobs)
      BY <2>1, <2>2
    <3> QED
      BY <1>0, <1>a, <1>b, <2>1, <2>2, <3>1, QuietStep DEF PhaseInv
  <2>3. CASE FuncReturns(fsmTimer, jobs, <<>>)
    <3>1. agenda' = Rest
      BY <2>1, <2>3
    <3> QED
      BY <1>0, <1>a, <1>b, <2>1, <2>3, <3>1, QuietStep DEF PhaseInv
  <2>4. ASSUME NEW e \in Syncs[Arg],
               FuncReturns(fsmTimer, jobs, <<Call("handle", e)>>)
        PROVE  IInv'
    <3> DEFINE l == <<Call("handle", e)>>
    <3>1. /\ l \in Seq(CallSet) /\ TailJumps(l) /\ EndOnly(l, curState) /\ NoneLeaves(l)
          /\ agenda' = l \o Rest
      BY <2>1, <2>4, CallLemma, SingleLemma DEF Leaves, Call
    <3>2. AgendaInv'
      BY <2>1, <2>4, <3>1, PushInv DEF Jumps, Arg
    <3>3. SomeFrees(agenda) => SomeFrees(agenda')
      BY <2>1, <3>1, RestLemma, PushLemma DEF Frees, EngineTypeOK
    <3> QED
      BY <1>0, <1>a, <2>1, <2>4, <3>2, <3>3, QuietStep DEF PhaseInv
  <2> QED
    BY <1>17, <2>2, <2>3, <2>4 DEF SessionFunction
<1>18. CASE FireFsmTimer
  <2> USE <1>18 DEF FireFsmTimer, Idle
  <2>1. Call("handle", "TIMEOUT_EVT") \in CallSet
    BY CallLemma, TableAssumption
  <2>2. AgendaInv'
    BY <2>1, SingleLemma DEF AgendaInv, Leaves, Call
  <2>3. QueueInv'
    BY DEF QueueInv, LastIsDestroy, SomeFrees
  <2> QED
    BY <1>0, <2>2, <2>3, DestroyFirst DEF DestroyInv, PhaseInv
<1>19. ASSUME NEW es, FireInputTimer(es) PROVE IInv'
  <2> USE <1>19 DEF FireInputTimer, Idle, Posted
  <2>1. toDelete => jobs' = jobs
    OBVIOUS
  <2>2. AgendaInv' /\ QueueInv'
    BY <2>1 DEF AgendaInv, QueueInv, LastIsDestroy
  <2> QED
    BY <1>0, <2>2, DestroyFirst DEF DestroyInv, PhaseInv
<1>20. CASE UNCHANGED engineVars
  BY <1>0, <1>20
     DEF engineVars, AgendaInv, DestroyInv, QueueInv, PhaseInv, LastIsDestroy
<1> QED
  BY <1>1, <1>2, <1>3, <1>4, <1>5, <1>6, <1>7, <1>8, <1>9, <1>10, <1>11, <1>12,
     <1>13, <1>14, <1>15, <1>16, <1>17, <1>18, <1>19, <1>20
     DEF Next, ThreadStep, WorkerStep, CallStep, ReadTick, SignalTick

-----------------------------------------------------------------------------
\* The inductive invariant holds in every state.
THEOREM Inductive == Safety => []IInv
BY InvInit, InvNext, PTL DEF Safety

\* run() returns only after the session was freed and the terminal restored:
\* the DESTROY_EVT of destroy() cannot be lost, dropped or handled in another
\* state (Session.cpp:78-87, CppWorker.cpp:51-68, ZmodemSession.cpp:1002-1015).
THEOREM ShutdownComplete == Safety => []StopsOnlyAfterDelete
<1>1. IInv => StopsOnlyAfterDelete
  BY DEF IInv, PhaseInv, StopsOnlyAfterDelete
<1> QED
  BY <1>1, Inductive, PTL

\* A call on a freed session needs a DESTROY_EVT that was queued before the one
\* of destroy(): the last job in the queue is always the latter.
THEOREM NoOtherCrash == Safety => []CrashNeedsSecondDestroy
<1>1. IInv => CrashNeedsSecondDestroy
  BY DEF IInv, PhaseInv, DestroyInv, QueueInv, LastIsDestroy, CrashNeedsSecondDestroy
<1> QED
  BY <1>1, Inductive, PTL

\* After destroy() a step neither leaves the end state, nor queues, nor arms.
LEMMA FrozenStep == IInv /\ [Next]_engineVars => [Frozen]_engineVars
<1> SUFFICES ASSUME IInv, Next, toDelete PROVE Frozen
  BY DEF Frozen
<1> USE DEF IInv, EngineTypeOK, timerVars, phaseVars
<1>1. waitStop = TRUE /\ toDelete = TRUE
  BY DEF DestroyInv
<1>2. toDelete' => curState' = LastState
  BY InvNext DEF DestroyInv
<1>3. CASE PollJob \/ RunFreedJob \/ LeaveLoop \/ NextTurn
  BY <1>1, <1>2, <1>3 DEF PollJob, RunFreedJob, LeaveLoop, NextTurn, Frozen
<1>4. CASE IgnoreRest \/ EnterFirstState \/ MarkInitialized \/ HandleEvent
           \/ HandleUndefinedEvent \/ ChangeState \/ EnterState \/ IgnoreEvent
  BY <1>1, <1>2, <1>4
     DEF IgnoreRest, EnterFirstState, MarkInitialized, HandleEvent,
         HandleUndefinedEvent, ChangeState, EnterState, IgnoreEvent, Frozen
<1>5. CASE NewTimer \/ CancelTimer \/ Destroy \/ DeleteSelf
  BY <1>1, <1>2, <1>5 DEF NewTimer, CancelTimer, Destroy, DeleteSelf, Armed, Posted, Frozen
<1>6. CASE SessionFunction
  BY <1>1, <1>2, <1>6
     DEF SessionFunction, FuncReturns, RestartedTimer, Armed, Posted, Frozen
<1>7. CASE FireFsmTimer \/ ReadTick \/ SignalTick
  BY <1>1, <1>2, <1>7
     DEF FireFsmTimer, ReadTick, SignalTick, FireInputTimer, Posted, Frozen
<1> QED
  BY <1>3, <1>4, <1>5, <1>6, <1>7 DEF Next, ThreadStep, WorkerStep, CallStep

\* What destroy() starts nothing undoes: the session stays in its end state and
\* no event and no timer is added (Session.cpp:80, CppWorker.cpp:53 and 77).
THEOREM DestroyFinal == Safety => DestroyIsFinal
BY Inductive, FrozenStep, PTL DEF Safety, DestroyIsFinal

\* The thread never waits without a deadline while the session is alive.
THEOREM AlwaysWoken == Safety => []NeverWaitsForever
<1>1. IInv => NeverWaitsForever
  BY DEF IInv, PhaseInv, NeverWaitsForever
<1> QED
  BY <1>1, Inductive, PTL

-----------------------------------------------------------------------------
(***************************************************************************)
(* Until the first job has marked the session initialized, the call that   *)
(* does so is on the stack.                                                *)
(***************************************************************************)

Initializes(c) == c.op \in {"handle", "initialized"}

SomeInitializes(calls) == \E i \in 1..Len(calls) : Initializes(calls[i])

InitInv ==
    /\ EngineTypeOK
    /\ ~initialized /\ worker = "timers" => SomeInitializes(agenda)

\* A pending initialization survives the call before it, and calls put before.
LEMMA PendingLemma ==
    ASSUME agenda \in Seq(CallSet), agenda # <<>>,
           SomeInitializes(agenda), ~Initializes(Head(agenda)),
           NEW l \in Seq(CallSet), agenda' = l \o Rest
    PROVE  SomeInitializes(agenda')
<1>1. /\ Len(Rest) = Len(agenda) - 1 /\ Len(agenda) \in Nat /\ Len(agenda) > 0
      /\ Head(agenda) = agenda[1] /\ Rest \in Seq(CallSet)
      /\ \A i \in 1..Len(Rest) : Rest[i] = agenda[i+1]
  BY DEF Rest
<1>2. PICK i \in 1..Len(agenda) : Initializes(agenda[i])
  BY DEF SomeInitializes
<1>3. i - 1 \in 1..Len(Rest) /\ Rest[i - 1] = agenda[i]
  BY <1>1, <1>2
<1>4. /\ Len(l) + (i - 1) \in 1..Len(agenda')
      /\ agenda'[Len(l) + (i - 1)] = Rest[i - 1]
  BY <1>1, <1>3
<1> QED
  BY <1>2, <1>3, <1>4 DEF SomeInitializes

\* The steps that keep it: the first event pushes the call that marks the
\* session, which is skipped in no state, and no other call is needed for it.
LEMMA InitNext == InitInv /\ [Next]_engineVars => InitInv'
<1> SUFFICES ASSUME InitInv, [Next]_engineVars, ~initialized', worker' = "timers"
             PROVE  SomeInitializes(agenda')
  BY TypeNext DEF InitInv
<1> USE DEF InitInv, EngineTypeOK, timerVars, phaseVars
<1>1. CASE WorkerStep
  <2>1. PollJob
    BY <1>1 DEF WorkerStep, RunFreedJob, LeaveLoop, NextTurn
  <2> QED
    BY <2>1 DEF PollJob, Idle, SomeInitializes, Initializes, Call
<1>2. ASSUME NEW l \in Seq(CallSet), agenda # <<>>, agenda' = l \o Rest,
             worker' = worker, initialized' = initialized, ~Initializes(Head(agenda))
      PROVE  SomeInitializes(agenda')
  BY <1>2, PendingLemma
<1>3. ASSUME agenda # <<>>, agenda' = Rest, worker' = worker,
             initialized' = initialized, ~Initializes(Head(agenda))
      PROVE  SomeInitializes(agenda')
  <2>1. <<>> \in Seq(CallSet) /\ agenda' = <<>> \o Rest
    BY <1>3, AgendaLemma, SeqLemma
  <2> QED
    BY <1>2, <1>3, <2>1
<1>4. CASE IgnoreRest
  <2>1. Head(agenda) \in CallSet
    BY <1>4, AgendaLemma DEF IgnoreRest
  <2> QED
    BY <1>3, <1>4, <2>1 DEF IgnoreRest, Initializes, CallSet
<1>5. CASE EnterFirstState
  <2> DEFINE entry == Calls(Table[curState]["ENTRY_EVT"], curState)
  <2>1. /\ entry \in Seq(CallSet) /\ Rest \in Seq(CallSet)
        /\ Call("initialized", Arg) \in CallSet
    BY <1>5, AgendaLemma, ArgLemma, CallLemma, TableLemma, TableAssumption
       DEF EnterFirstState, Calling
  <2>2. agenda' = entry \o <<Call("initialized", Arg)>> \o Rest
    BY <1>5 DEF EnterFirstState
  <2>3. /\ Len(entry) + 1 \in 1..Len(agenda')
        /\ agenda'[Len(entry) + 1] = Call("initialized", Arg)
    BY <2>1, <2>2
  <2> QED
    BY <2>3 DEF SomeInitializes, Initializes, Call
<1>6. CASE MarkInitialized
  BY <1>6 DEF MarkInitialized
<1>7. CASE HandleEvent \/ HandleUndefinedEvent
  BY <1>7 DEF HandleEvent, HandleUndefinedEvent
<1>8. CASE ChangeState
  <2> DEFINE l == Calls(Table[curState]["EXIT_EVT"], AnyState) \o <<Call("enter", Arg)>>
  <2>1. l \in Seq(CallSet)
    BY <1>8, ArgLemma, CallLemma, TableLemma, SeqLemma, TableAssumption
       DEF ChangeState, Calling
  <2> QED
    BY <1>2, <1>8, <2>1 DEF ChangeState, Calling, Initializes
<1>9. CASE EnterState
  <2>1. Calls(Table[Arg]["ENTRY_EVT"], AnyState) \in Seq(CallSet)
    BY <1>9, ArgLemma, TableLemma, TableAssumption DEF EnterState, Calling
  <2> QED
    BY <1>2, <1>9, <2>1 DEF EnterState, Calling, Initializes
<1>10. CASE NewTimer \/ CancelTimer \/ IgnoreEvent \/ Destroy \/ DeleteSelf
  BY <1>3, <1>10
     DEF NewTimer, CancelTimer, IgnoreEvent, Destroy, DeleteSelf, Calling, Initializes
<1>11. CASE SessionFunction
  <2>1. /\ agenda # <<>> /\ ~Initializes(Head(agenda)) /\ Syncs[Arg] \subseteq Events
    BY <1>11, ArgLemma, SkeletonAssumption DEF SessionFunction, Calling, Initializes
  <2>2. \A e \in Syncs[Arg] : <<Call("handle", e)>> \in Seq(CallSet)
    BY <2>1, CallLemma, SeqLemma
  <2> QED
    BY <1>2, <1>11, <2>1, <2>2, SeqLemma DEF SessionFunction, FuncReturns
<1>12. CASE FireFsmTimer
  BY <1>12 DEF FireFsmTimer, SomeInitializes, Initializes, Call
<1>13. CASE ReadTick \/ SignalTick \/ UNCHANGED engineVars
  BY <1>13 DEF ReadTick, SignalTick, FireInputTimer, engineVars, SomeInitializes, Idle
<1> QED
  BY <1>1, <1>4, <1>5, <1>6, <1>7, <1>8, <1>9, <1>10, <1>11, <1>12, <1>13
     DEF Next, ThreadStep, CallStep

\* No timer fires before the entry actions of the first state have run: the
\* input callback never sees the buffer initState has not set up.
THEOREM InitBeforeTimers == Safety => []TimersAfterInit
<1>1. Init => InitInv
  BY TypeInit DEF Init, EngineInit, InitInv
<1>2. InitInv => TimersAfterInit
  BY DEF InitInv, TimersAfterInit, Idle, SomeInitializes
<1> QED
  BY <1>1, <1>2, InitNext, PTL DEF Safety

-----------------------------------------------------------------------------
(***************************************************************************)
(* A pending session timer belongs to the current state.  A state that may *)
(* have armed it cancels it among its exit actions, which come before the  *)
(* call "enter" and of which none arms it; a timer that an action without  *)
(* a guard arms is armed before anything can change the state.             *)
(***************************************************************************)

Cancels(s) == Lists(s, "EXIT_EVT", CANCEL_TIMER)

CancelsAlways(c) == c.op = "cancelTimer" /\ c.guard = AnyState

NoEnter(calls) == \A j \in 1..Len(calls) : calls[j].op # "enter"

\* Nothing before a call "enter" changes the state or arms the timer, and a
\* timer that is armed is cancelled before it.
EntersClean(calls, timer) ==
    \A j \in 1..Len(calls) : calls[j].op = "enter" =>
        /\ \A i \in 1..(j - 1) : ~Jumps(calls[i]) /\ calls[i].op # "newTimer"
        /\ timer # NoTimer => \E i \in 1..(j - 1) : CancelsAlways(calls[i])

\* The timer is armed in a state that cancels it: the one that guards the call,
\* or the state s, which nothing before the call leaves.
Arms(calls, s) ==
    \A j \in 1..Len(calls) : calls[j].op = "newTimer" =>
        IF calls[j].guard = AnyState
        THEN Cancels(s) /\ \A i \in 1..(j - 1) : ~Jumps(calls[i])
        ELSE Cancels(calls[j].guard)

\* As Arms, of calls all of which are guarded.
ArmsGuarded(calls) ==
    \A j \in 1..Len(calls) : calls[j].op = "newTimer" =>
        calls[j].guard # AnyState /\ Cancels(calls[j].guard)

TimerInv ==
    /\ EngineTypeOK
    /\ fsmTimer \in {NoTimer, curState}
    /\ fsmTimer # NoTimer => Cancels(curState)
    /\ EntersClean(agenda, fsmTimer)
    /\ Arms(agenda, curState)

\* What the calls after the next one inherit from the whole agenda.
LEMMA TimerRest ==
    ASSUME agenda \in Seq(CallSet), agenda # <<>>, NEW t, NEW s,
           EntersClean(agenda, t), Arms(agenda, s)
    PROVE  /\ Arms(Rest, s)
           /\ EntersClean(Rest, NoTimer)
           /\ ~CancelsAlways(Head(agenda)) => EntersClean(Rest, t)
           /\ Jumps(Head(agenda)) => NoEnter(Rest) /\ ArmsGuarded(Rest)
           /\ Head(agenda).op = "newTimer" => NoEnter(Rest)
<1>1. /\ Len(Rest) = Len(agenda) - 1 /\ Len(agenda) \in Nat /\ Len(agenda) > 0
      /\ Head(agenda) = agenda[1]
      /\ \A i \in 1..Len(Rest) : i + 1 \in 2..Len(agenda) /\ Rest[i] = agenda[i+1]
  BY DEF Rest
<1>2. Arms(Rest, s)
  <2> SUFFICES ASSUME NEW j \in 1..Len(Rest), Rest[j].op = "newTimer"
               PROVE  IF Rest[j].guard = AnyState
                      THEN Cancels(s) /\ \A i \in 1..(j - 1) : ~Jumps(Rest[i])
                      ELSE Cancels(Rest[j].guard)
    BY DEF Arms
  <2>1. j + 1 \in 1..Len(agenda) /\ agenda[j + 1] = Rest[j]
    BY <1>1
  <2>2. ASSUME NEW i \in 1..(j - 1)
        PROVE  i + 1 \in 1..((j + 1) - 1) /\ Rest[i] = agenda[i + 1]
    BY <1>1
  <2> QED
    BY <2>1, <2>2 DEF Arms
<1>3. EntersClean(Rest, NoTimer)
  <2> SUFFICES ASSUME NEW j \in 1..Len(Rest), Rest[j].op = "enter", NEW i \in 1..(j - 1)
               PROVE  ~Jumps(Rest[i]) /\ Rest[i].op # "newTimer"
    BY DEF EntersClean
  <2>1. /\ agenda[j + 1].op = "enter" /\ j + 1 \in 1..Len(agenda)
        /\ i \in 1..Len(Rest) /\ i + 1 \in 1..((j + 1) - 1)
    BY <1>1
  <2>2. ~Jumps(agenda[i + 1]) /\ agenda[i + 1].op # "newTimer"
    BY <2>1 DEF EntersClean
  <2> QED
    BY <1>1, <2>1, <2>2
<1>4. ASSUME ~CancelsAlways(agenda[1]), t # NoTimer,
             NEW j \in 1..Len(Rest), Rest[j].op = "enter"
      PROVE  \E i \in 1..(j - 1) : CancelsAlways(Rest[i])
  <2>1. agenda[j + 1].op = "enter" /\ j + 1 \in 1..Len(agenda)
    BY <1>1, <1>4
  <2>2. PICK i \in 1..j : CancelsAlways(agenda[i])
    BY <1>4, <2>1 DEF EntersClean
  <2>3. i # 1 /\ i - 1 \in 1..(j - 1) /\ i - 1 \in 1..Len(Rest)
    BY <1>1, <1>4, <2>2
  <2>4. Rest[i - 1] = agenda[i]
    BY <1>1, <2>3
  <2> QED
    BY <2>2, <2>3, <2>4
<1>5. ~CancelsAlways(Head(agenda)) => EntersClean(Rest, t)
  BY <1>1, <1>3, <1>4 DEF EntersClean
<1>6. Jumps(Head(agenda)) \/ Head(agenda).op = "newTimer" => NoEnter(Rest)
  <2> SUFFICES ASSUME Jumps(agenda[1]) \/ agenda[1].op = "newTimer",
                      NEW j \in 1..Len(Rest), Rest[j].op = "enter"
               PROVE  FALSE
    BY <1>1 DEF NoEnter
  <2>1. agenda[j + 1].op = "enter" /\ j + 1 \in 1..Len(agenda) /\ 1 \in 1..((j + 1) - 1)
    BY <1>1
  <2> QED
    BY <2>1 DEF EntersClean
<1>7. Jumps(Head(agenda)) => ArmsGuarded(Rest)
  <2> SUFFICES ASSUME Jumps(agenda[1]), NEW j \in 1..Len(Rest), Rest[j].op = "newTimer"
               PROVE  Rest[j].guard # AnyState /\ Cancels(Rest[j].guard)
    BY <1>1 DEF ArmsGuarded
  <2>1. agenda[j + 1] = Rest[j] /\ j + 1 \in 1..Len(agenda) /\ 1 \in 1..((j + 1) - 1)
    BY <1>1
  <2> QED
    BY <2>1 DEF Arms
<1> QED
  BY <1>2, <1>3, <1>5, <1>6, <1>7

\* What calls put before others must satisfy.
LEMMA TimerPush ==
    ASSUME NEW l \in Seq(CallSet), NEW r \in Seq(CallSet), NEW s
    PROVE  /\ Arms(l, s) /\ ArmsGuarded(r) => Arms(l \o r, s)
           /\ NoEnter(l) /\ NoEnter(r) => NoEnter(l \o r)
           /\ \A t : NoEnter(l) => EntersClean(l, t)
<1>1. /\ Len(l \o r) = Len(l) + Len(r) /\ Len(l) \in Nat /\ Len(r) \in Nat
      /\ \A i \in 1..Len(l \o r) :
             (l \o r)[i] = IF i <= Len(l) THEN l[i] ELSE r[i - Len(l)]
  OBVIOUS
<1>2. Arms(l, s) /\ ArmsGuarded(r) => Arms(l \o r, s)
  BY <1>1 DEF Arms, ArmsGuarded
<1>3. NoEnter(l) /\ NoEnter(r) => NoEnter(l \o r)
  BY <1>1 DEF NoEnter
<1>4. \A t : NoEnter(l) => EntersClean(l, t)
  BY DEF NoEnter, EntersClean
<1> QED
  BY <1>2, <1>3, <1>4

\* What TableShape says of the timer in the calls a table entry makes.
LEMMA TimerShape ==
    ASSUME NEW s \in States, NEW e \in Events, NEW g \in States \cup {AnyState}
    PROVE  LET calls == Calls(Table[s][e], g)
           IN  /\ NoEnter(calls)
               /\ g = s => \A t : Arms(calls, t)
               /\ e = "ENTRY_EVT" /\ g = AnyState => Arms(calls, s)
               /\ e = "EXIT_EVT" => \A i \in 1..Len(calls) : calls[i].op # "newTimer"
               /\ e = "EXIT_EVT" /\ g = AnyState /\ Cancels(s) =>
                      \E i \in 1..Len(calls) : CancelsAlways(calls[i])
<1> DEFINE acts == Table[s][e]
           calls == Calls(acts, g)
<1>1. acts \in Seq(Action)
  BY TableAssumption
<1>2. /\ Len(calls) = Len(acts) /\ Len(acts) \in Nat
      /\ \A i \in 1..Len(acts) : /\ calls[i].op = acts[i].op
                                 /\ calls[i].arg = acts[i].arg
                                 /\ calls[i].guard = g
  BY <1>1, CallsLemma
<1>3. ASSUME NEW i \in 1..Len(acts)
      PROVE  /\ acts[i].op # "enter"
             /\ acts[i].op = "newTimer" => acts[i] = NEW_TIMER
             /\ ~MayJump(acts[i]) => ~Jumps(calls[i])
  <2>1. acts[i] \in Action
    BY <1>1
  <2>2. acts[i].op \notin {"enter", "handle", "initialized"}
    BY <2>1 DEF Action, ToState, SeFunc, NEW_TIMER, CANCEL_TIMER, IGNORE_EVT,
                DESTROY, DELETE_SELF
  <2>3. acts[i].op = "newTimer" => acts[i] = NEW_TIMER
    BY <2>1 DEF Action, ToState, SeFunc, NEW_TIMER, CANCEL_TIMER, IGNORE_EVT,
                DESTROY, DELETE_SELF
  <2> QED
    BY <1>2, <2>2, <2>3 DEF MayJump, Jumps
<1>4. NoEnter(calls)
  BY <1>2, <1>3 DEF NoEnter
<1>5. ASSUME NEW j \in 1..Len(calls), calls[j].op = "newTimer"
      PROVE  Cancels(s) /\ e # "EXIT_EVT"
  <2>1. acts[j] = NEW_TIMER
    BY <1>2, <1>3, <1>5
  <2>2. Lists(s, e, NEW_TIMER)
    BY <1>2, <2>1 DEF Lists
  <2> QED
    BY <2>2, TableShape DEF Shaped, Cancels
<1>6. g = s => \A t : Arms(calls, t)
  BY <1>2, <1>5, TableAssumption DEF Arms
<1>7. ASSUME e = "ENTRY_EVT", NEW j \in 1..Len(calls), NEW i \in 1..(j - 1)
      PROVE  ~Jumps(calls[i])
  <2>1. i \in 1..Len(acts) /\ i < Len(acts)
    BY <1>2
  <2>2. ~MayJump(acts[i])
    BY <1>7, <2>1, TableShape DEF Shaped
  <2> QED
    BY <1>3, <2>1, <2>2
<1>8. ASSUME e = "ENTRY_EVT", g = AnyState PROVE Arms(calls, s)
  <2>1. \A j \in 1..Len(calls) : calls[j].guard = AnyState
    BY <1>2, <1>8
  <2> QED
    BY <1>5, <1>7, <1>8, <2>1 DEF Arms
<1>9. ASSUME e = "EXIT_EVT", g = AnyState, Cancels(s)
      PROVE  \E i \in 1..Len(calls) : CancelsAlways(calls[i])
  <2>1. PICK i \in 1..Len(acts) : acts[i] = CANCEL_TIMER
    BY <1>9 DEF Cancels, Lists
  <2> QED
    BY <1>2, <1>9, <2>1 DEF CancelsAlways, CANCEL_TIMER
<1> QED
  BY <1>4, <1>5, <1>6, <1>8, <1>9

\* A call that is not "enter" and arms nothing, taken away or replaced.
LEMMA TimerPop ==
    ASSUME TimerInv, EngineTypeOK', agenda # <<>>, agenda' = Rest,
           curState' = curState, fsmTimer' \in {NoTimer, fsmTimer},
           CancelsAlways(Head(agenda)) => fsmTimer' = NoTimer
    PROVE  TimerInv'
<1> USE DEF TimerInv, EngineTypeOK
<1>1. /\ Arms(Rest, curState) /\ EntersClean(Rest, NoTimer)
      /\ ~CancelsAlways(Head(agenda)) => EntersClean(Rest, fsmTimer)
  BY TimerRest
<1> QED
  BY <1>1

\* A call that may change the state, replaced by the calls l.
LEMMA TimerReplace ==
    ASSUME TimerInv, EngineTypeOK', agenda # <<>>, NEW l \in Seq(CallSet),
           agenda' = l \o Rest, Jumps(Head(agenda)), NoEnter(l), Arms(l, curState),
           curState' = curState, fsmTimer' = fsmTimer
    PROVE  TimerInv'
<1> USE DEF TimerInv, EngineTypeOK
<1>1. NoEnter(Rest) /\ ArmsGuarded(Rest) /\ Rest \in Seq(CallSet)
  BY TimerRest, AgendaLemma
<1>2. Arms(agenda', curState) /\ NoEnter(agenda') /\ agenda' \in Seq(CallSet)
  BY <1>1, TimerPush
<1>3. EntersClean(agenda', fsmTimer)
  BY <1>2 DEF NoEnter, EntersClean
<1> QED
  BY <1>2, <1>3

\* A single call that neither enters a state nor arms the timer.
LEMMA TimerSingle ==
    ASSUME NEW c \in CallSet, c.op \notin {"enter", "newTimer"}
    PROVE  <<c>> \in Seq(CallSet) /\ NoEnter(<<c>>) /\ \A s : Arms(<<c>>, s)
BY DEF NoEnter, Arms

\* Every call, job and timer keeps the invariant of the session timer.
LEMMA TimerNext == TimerInv /\ [Next]_engineVars => TimerInv'
<1> SUFFICES ASSUME TimerInv, [Next]_engineVars PROVE TimerInv'
  OBVIOUS
<1> USE DEF timerVars, phaseVars
<1>0. EngineTypeOK /\ EngineTypeOK'
  BY TypeNext DEF TimerInv
<1>a. NoEnter(<<>>) /\ \A s, t : Arms(<<>>, s) /\ EntersClean(<<>>, t)
  BY DEF NoEnter, Arms, EntersClean
<1>b. ASSUME NEW c \in CallSet, c.op \notin {"enter", "newTimer"}, agenda' = <<c>>,
             curState' = curState, fsmTimer' \in {NoTimer, fsmTimer}
      PROVE  TimerInv'
  <2>1. NoEnter(<<c>>) /\ Arms(<<c>>, curState) /\ <<c>> \in Seq(CallSet)
    BY <1>b, TimerSingle
  <2>2. EntersClean(<<c>>, fsmTimer')
    BY <2>1 DEF NoEnter, EntersClean
  <2> QED
    BY <1>0, <1>b, <2>1, <2>2 DEF TimerInv
<1>1. CASE PollJob
  <2>1. Head(jobs) \in Events /\ Call("handle", Head(jobs)) \in CallSet
    BY <1>0, <1>1, CallLemma DEF EngineTypeOK, PollJob
  <2> QED
    BY <1>1, <1>b, <2>1 DEF PollJob, Call
<1>2. CASE RunFreedJob \/ LeaveLoop \/ NextTurn
  BY <1>0, <1>2 DEF RunFreedJob, LeaveLoop, NextTurn, TimerInv
<1>3. CASE IgnoreRest
  BY <1>0, <1>3, TimerPop DEF IgnoreRest, CancelsAlways
<1>4. CASE EnterFirstState
  <2> USE <1>4 DEF EnterFirstState, Calling
  <2> DEFINE entry == Calls(Table[curState]["ENTRY_EVT"], curState)
             mark  == <<Call("initialized", Arg)>>
             l     == entry \o mark
  <2>1. /\ Arg \in Events /\ Call("initialized", Arg) \in CallSet
        /\ "ENTRY_EVT" \in Events /\ curState \in States
    BY <1>0, ArgLemma, CallLemma, TableAssumption DEF EngineTypeOK
  <2>2. entry \in Seq(CallSet) /\ NoEnter(entry) /\ Arms(entry, curState)
    BY <2>1, TableLemma, TimerShape
  <2>3. mark \in Seq(CallSet) /\ NoEnter(mark) /\ ArmsGuarded(mark)
    BY <2>1, TimerSingle DEF Call, ArmsGuarded
  <2>4. l \in Seq(CallSet) /\ NoEnter(l) /\ Arms(l, curState)
    BY <2>2, <2>3, TimerPush, SeqLemma
  <2>5. agenda' = l \o Rest
    BY <1>0, <2>2, <2>3, AgendaLemma DEF EngineTypeOK
  <2> QED
    BY <1>0, <2>4, <2>5, TimerReplace DEF Jumps
<1>5. CASE MarkInitialized
  <2> USE <1>5 DEF MarkInitialized, Calling
  <2>1. Arg \in Events /\ Call("handle", Arg) \in CallSet
    BY <1>0, ArgLemma, CallLemma DEF EngineTypeOK
  <2>2. CASE Arg = "ENTRY_EVT"
    BY <1>0, <2>2, TimerPop DEF CancelsAlways
  <2>3. CASE Arg # "ENTRY_EVT"
    <3>1. agenda' = <<Call("handle", Arg)>> \o Rest
      BY <2>3
    <3>2. /\ <<Call("handle", Arg)>> \in Seq(CallSet) /\ NoEnter(<<Call("handle", Arg)>>)
          /\ Arms(<<Call("handle", Arg)>>, curState)
      BY <2>1, TimerSingle DEF Call
    <3> QED
      BY <1>0, <3>1, <3>2, TimerReplace DEF Jumps
  <2> QED
    BY <2>2, <2>3
<1>6. CASE HandleEvent
  <2> USE <1>6 DEF HandleEvent, Calling
  <2> DEFINE l == Calls(Table[curState][Arg], curState)
  <2>1. Arg \in Events /\ curState \in States
    BY <1>0, ArgLemma DEF EngineTypeOK
  <2>2. l \in Seq(CallSet) /\ NoEnter(l) /\ Arms(l, curState)
    BY <2>1, TableLemma, TimerShape
  <2> QED
    BY <1>0, <2>2, TimerReplace DEF Jumps
<1>7. CASE HandleUndefinedEvent
  <2> USE <1>7 DEF HandleUndefinedEvent, Calling
  <2> DEFINE l == <<Call("change", LastState)>>
  <2>1. l \in Seq(CallSet) /\ NoEnter(l) /\ Arms(l, curState)
    BY CallLemma, TimerSingle, TableAssumption DEF Call
  <2> QED
    BY <1>0, <2>1, TimerReplace DEF Jumps
<1>8. CASE ChangeState
  <2> USE <1>8 DEF ChangeState, Calling
  <2> DEFINE exit == Calls(Table[curState]["EXIT_EVT"], AnyState)
             go   == <<Call("enter", Arg)>>
             l    == exit \o go
  <2>1. Arg \in States /\ curState \in States /\ "EXIT_EVT" \in Events
        /\ Call("enter", Arg) \in CallSet
    BY <1>0, ArgLemma, CallLemma, TableAssumption DEF EngineTypeOK
  <2>2. /\ exit \in Seq(CallSet) /\ NoEnter(exit)
        /\ \A i \in 1..Len(exit) : ~Jumps(exit[i]) /\ exit[i].op # "newTimer"
        /\ Cancels(curState) => \E i \in 1..Len(exit) : CancelsAlways(exit[i])
    BY <2>1, TableLemma, TimerShape, ShapeLemma
  <2>3. NoEnter(Rest) /\ ArmsGuarded(Rest) /\ Rest \in Seq(CallSet)
    BY <1>0, TimerRest, AgendaLemma DEF TimerInv, EngineTypeOK, Jumps
  <2>4. /\ agenda' = (exit \o go) \o Rest
        /\ Len(agenda') = Len(exit) + 1 + Len(Rest) /\ Len(exit) \in Nat /\ Len(Rest) \in Nat
        /\ \A i \in 1..Len(exit) : agenda'[i] = exit[i]
        /\ agenda'[Len(exit) + 1] = Call("enter", Arg)
        /\ \A i \in 1..Len(Rest) : agenda'[Len(exit) + 1 + i] = Rest[i]
    BY <2>1, <2>2, <2>3
  <2>5. ASSUME NEW j \in 1..Len(agenda'), j > Len(exit) + 1
        PROVE  /\ agenda'[j].op # "enter"
               /\ agenda'[j].op = "newTimer" =>
                      agenda'[j].guard # AnyState /\ Cancels(agenda'[j].guard)
    <3>1. j - (Len(exit) + 1) \in 1..Len(Rest)
      BY <2>4, <2>5
    <3>2. agenda'[j] = Rest[j - (Len(exit) + 1)]
      BY <2>4, <3>1
    <3> QED
      BY <2>3, <3>1, <3>2 DEF NoEnter, ArmsGuarded
  <2>6. ASSUME NEW j \in 1..Len(agenda'), j <= Len(exit)
        PROVE  agenda'[j].op \notin {"enter", "newTimer"}
    BY <2>2, <2>4, <2>6 DEF NoEnter
  <2>7. Arms(agenda', curState)
    <3> SUFFICES ASSUME NEW j \in 1..Len(agenda'), agenda'[j].op = "newTimer"
                 PROVE  agenda'[j].guard # AnyState /\ Cancels(agenda'[j].guard)
      BY DEF Arms
    <3>1. j > Len(exit) + 1
      BY <2>4, <2>6 DEF Call
    <3> QED
      BY <2>5, <3>1
  <2>8. EntersClean(agenda', fsmTimer)
    <3> SUFFICES ASSUME NEW j \in 1..Len(agenda'), agenda'[j].op = "enter"
                 PROVE  /\ \A i \in 1..(j - 1) :
                               ~Jumps(agenda'[i]) /\ agenda'[i].op # "newTimer"
                        /\ fsmTimer # NoTimer =>
                               \E i \in 1..(j - 1) : CancelsAlways(agenda'[i])
      BY DEF EntersClean
    <3>1. j = Len(exit) + 1
      BY <2>4, <2>5, <2>6
    <3> QED
      BY <2>2, <2>4, <3>1 DEF TimerInv
  <2> QED
    BY <1>0, <2>7, <2>8 DEF TimerInv
<1>9. CASE EnterState
  <2> USE <1>9 DEF EnterState, Calling
  <2> DEFINE l == Calls(Table[Arg]["ENTRY_EVT"], AnyState)
  <2>1. Arg \in States /\ "ENTRY_EVT" \in Events
    BY <1>0, ArgLemma, TableAssumption DEF EngineTypeOK
  <2>2. l \in Seq(CallSet) /\ NoEnter(l) /\ Arms(l, Arg)
    BY <2>1, TableLemma, TimerShape
  <2>3. NoEnter(Rest) /\ ArmsGuarded(Rest) /\ Rest \in Seq(CallSet)
    BY <1>0, TimerRest, AgendaLemma DEF TimerInv, EngineTypeOK, Jumps
  <2>4. Arms(agenda', Arg) /\ NoEnter(agenda')
    BY <2>2, <2>3, TimerPush
  <2>5. fsmTimer = NoTimer
    <3>1. agenda[1].op = "enter" /\ 1 \in 1..Len(agenda)
      BY <1>0 DEF EngineTypeOK
    <3> QED
      BY <3>1 DEF TimerInv, EntersClean
  <2>6. EntersClean(agenda', fsmTimer)
    BY <2>4 DEF NoEnter, EntersClean
  <2> QED
    BY <1>0, <2>4, <2>5, <2>6 DEF TimerInv
<1>10. CASE NewTimer
  <2> USE <1>10 DEF NewTimer, Calling
  <2>1. /\ NoEnter(Rest) /\ Arms(Rest, curState)
    BY <1>0, TimerRest DEF TimerInv, EngineTypeOK
  <2>2. Cancels(curState)
    <3>1. agenda[1] = Head(agenda) /\ 1 \in 1..Len(agenda)
      BY <1>0 DEF EngineTypeOK
    <3> QED
      BY <3>1 DEF TimerInv, Arms
  <2>3. EntersClean(Rest, fsmTimer')
    BY <2>1 DEF NoEnter, EntersClean
  <2>4. fsmTimer' \in {NoTimer, curState}
    BY DEF Armed
  <2> QED
    BY <1>0, <2>1, <2>2, <2>3, <2>4 DEF TimerInv
<1>11. CASE CancelTimer \/ IgnoreEvent \/ Destroy \/ DeleteSelf
  BY <1>0, <1>11, TimerPop
     DEF CancelTimer, IgnoreEvent, Destroy, DeleteSelf, Calling, CancelsAlways
<1>12. CASE SessionFunction
  <2> USE DEF FuncReturns
  <2>1. /\ agenda # <<>> /\ Head(agenda).op = "func" /\ Rest \in Seq(CallSet)
        /\ Arg \in Funcs /\ Syncs[Arg] \subseteq Events
    BY <1>0, <1>12, AgendaLemma, ArgLemma, SkeletonAssumption
       DEF SessionFunction, Calling, EngineTypeOK
  <2>2. ASSUME NEW timer \in {fsmTimer, NoTimer, RestartedTimer}, NEW queue,
               FuncReturns(timer, queue, <<>>)
        PROVE  TimerInv'
    <3>1. agenda' = Rest /\ ~CancelsAlways(Head(agenda)) /\ curState' = curState
      BY <2>1, <2>2 DEF CancelsAlways
    <3>2. fsmTimer' \in {NoTimer, fsmTimer}
      BY <2>2 DEF RestartedTimer, Armed, TimerInv
    <3> QED
      BY <1>0, <2>1, <3>1, <3>2, TimerPop
  <2>3. ASSUME NEW e \in Syncs[Arg],
               FuncReturns(fsmTimer, jobs, <<Call("handle", e)>>)
        PROVE  TimerInv'
    <3>1. /\ <<Call("handle", e)>> \in Seq(CallSet) /\ NoEnter(<<Call("handle", e)>>)
          /\ Arms(<<Call("handle", e)>>, curState)
      BY <2>1, CallLemma, TimerSingle DEF Call
    <3> QED
      BY <1>0, <2>1, <2>3, <3>1, TimerReplace DEF Jumps, Arg
  <2> QED
    BY <1>12, <2>2, <2>3 DEF SessionFunction
<1>13. CASE FireFsmTimer
  <2>1. Call("handle", "TIMEOUT_EVT") \in CallSet
    BY CallLemma, TableAssumption
  <2> QED
    BY <1>13, <1>b, <2>1 DEF FireFsmTimer, Call
<1>14. CASE ReadTick \/ SignalTick \/ UNCHANGED engineVars
  BY <1>0, <1>14 DEF ReadTick, SignalTick, FireInputTimer, engineVars, TimerInv
<1> QED
  BY <1>1, <1>2, <1>3, <1>4, <1>5, <1>6, <1>7, <1>8, <1>9, <1>10, <1>11, <1>12,
     <1>13, <1>14 DEF Next, ThreadStep, WorkerStep, CallStep

\* No state times out on the deadline of another: whatever path led out of a
\* state, the timer it armed was cancelled or has fired (Action.cpp:18-39,
\* Session.cpp:90-118).
THEOREM TimerOwned == Safety => []TimerOfCurrentState
<1>1. Init => TimerInv
  BY TypeInit DEF Init, EngineInit, TimerInv, EntersClean, Arms
<1>2. TimerInv => TimerOfCurrentState
  BY DEF TimerInv, TimerOfCurrentState
<1> QED
  BY <1>1, <1>2, TimerNext, PTL DEF Safety
=============================================================================
