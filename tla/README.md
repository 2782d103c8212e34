# rzsz-nd in TLA+

A verification project for [rzsz-nd](../src/README.md): the ZMODEM programs `sz` and
`rz`, their OSC relatives `sf` and `rf`, and the event engine under the four. It
holds TLA+ modules translated from the C++ source, TLC configurations that check
them on small instances, and proofs, checked by TLAPS, of properties that hold for
every value of the constants.

## 1. The system

A program is one thread. `main` builds a *session*, arms a 10 ms input timer, queues
a first event and calls `CppWorker::run` (`exe/sz.cpp:38`). From then on everything
happens in jobs and timer callbacks of that thread; the only other actor inside
the process is the signal handler. The peer, a terminal emulator, sits behind
standard input and output.

| Component | State it keeps | Operations | Interacts by |
|---|---|---|---|
| FSM engine (`fsm/Session`, `Action`, `Fsm`, `State`) | current state, initialised / to-be-deleted flags, one timer | `handleEvent`, `changeState`, timer actions, `destroy`, `deleteSelf` | recursive calls; queued events; session functions named in a table |
| Worker (`fsm/CppWorker`) | job queue, timer heap, stop flags | `run`, `process`, `addLocalTimer`, `cancelLocalTimer`, `waitStop`, `stop` | jobs and callbacks call the session; a mutex and a condition variable when it has a thread of its own |
| Processor (`fsm/CppProcessor`) | workers and their threads | `start`, `process`, `stop`, `waitStop` | flags and notifications to the workers |
| `sz` session (`zmodem/SzSession`, `ZmodemSession`) | files left, file and position, last frame, input buffer | the functions of its table, `onInputTimerout` | frames out, bytes in, events to itself |
| `rz` session (`zmodem/RzSession`, `ZmodemSession`) | the same, with an output file | `handleZfile`, `waitZdata`, `handleZdata`, ... | frames out, bytes in, events to itself |
| Wire (`ZmodemSession`, `zmodem.cpp`, `io/std*.h`) | the 16 KB buffer, the indices of the decoder | `sendFrame...`, `send_zsda32`, `parse...Frame`, `handleZdata` | the terminal line |
| Files (`io/ZmodemFile`) | an `fstream`, position, announced size | `read`, `write`, `setReadPos`, `validateFileCrc` | called by the sessions |
| OSC sessions (`osc/`: `sf`, `rf`) | files by number, several open at once, package buffer | one handler per package, heartbeats | the same engine and line |

What is hard in it:

* **Stale events.** Events are queued in one state and handled in whatever state the
  events before them lead to; an event a state does not list sends the session to
  its end state (`Session.cpp:125-134`).
* **Recursion.** `handleEvent` and `changeState` call each other; loops over action
  lists go on after a nested call changed the state or asked for the deletion.
* **The end.** `destroy` must queue the event that frees the session before the
  session and the worker refuse events; every job still queued runs between the two.
* **Timers.** One session timer is shared by all states; most paths rely on
  `EXIT_EVT` to cancel it, several states have none.
* **The line.** A read may end inside a header, an escape, a CRC or a package.
* **Decoding in place.** Parsers run over the buffer and change it, sometimes over
  bytes that belong to another parser.
* **Signals.** A flag read at many points of a step (`g_has_signaled`).
* **The disk.** Opening, writing and closing may fail, a part of a file an earlier
  transfer left may be sound or not, and what `write` reports as written may still
  wait in the buffer of the stream.
* **Notifications.** The workers of the pool are told to stop, and sometimes to
  look at their queue, without the mutex.
* **Boundaries.** The end of a file seen by a short read, blocks of exactly 1024 (4096)
  bytes, positions beyond 4 GB, a full buffer.

What makes the components correct: the engine never runs a freed session, always
frees it before the program returns, never waits without a deadline and never times
out on another state's deadline; a session ends whatever its peer does; a file the
receiver closes is the file the sender read, every file gets its fate, resuming
never leaves wrong bytes; no job of the pool is slept on.

## 2. Modules

```
FsmActions ─── FsmEngine ──┬── FsmSession ───┬── FsmSessionProofs
   │                       │                 └── MCFsmSession
   ├── ZmodemFsm ──────────┼── ZmodemSession ┬── SzSession ─┐
   │             ZmodemWire┤        Terminal ┼──────────────┴─ SzTransfer ── MCSzTransfer
   │                       │                 ├── RzSession ─┐
   │                       │        Sender ──┴──────────────┴─ RzTransfer ── MCRzTransfer
   └── OscFsm ─────────────┴── OscSession ───┬── SfSession ─┐
                 OscLine ──┘     OscReceiver ┼──────────────┴─ SfTransfer ── MCSfTransfer
                                             ├── RfSession ─┐
                                   OscSender ┴──────────────┴─ RfTransfer ── MCRfTransfer
ZdataParser ─┬─ ZdataParserProofs        WorkerPool ─┬─ WorkerPoolProofs
             └─ MCZdataParser                        └─ MCWorkerPool
```

ZmodemSession takes FsmSession as the INSTANCE `Skeleton`, the abstract specification
that `sz` and `rz` implement. ZmodemSessionProofs extends it and takes
FsmSessionProofs as the INSTANCE `Proved`; SzTransferProofs and RzTransferProofs extend
ZmodemSessionProofs and the program's own module, by way of SzTurns and RzTurns, which
extend SzTransfer and RzTransfer and hold the invariants the theorems rest on, so that
TLC can check them before they are proved. SfTransferProofs and
RfTransferProofs extend SfTransfer and RfTransfer.

**FsmActions** names the entries of a table (the macros of `fsm/Action.h`).

**FsmEngine** is the engine and the worker on the thread of `main`. The C++ call stack
of the running job is the variable `agenda`: the calls still to be made, the next
one first. A call carries a guard, the state in which the loop of `handleEvent` that
made it was entered, because that loop drops the rest of its actions when the
state has changed (`IgnoreRest`), while the loops of `changeState` do not. One step
is one call, so the order of nested effects is the one of the code:

| Code | Model |
|---|---|
| `CppWorker::run`, one pass | `PollJob`, the calls of the job, timers while `worker = "timers"`, `NextTurn` |
| `handleEvent` | `EnterFirstState`, `MarkInitialized`, `HandleEvent`, `HandleUndefinedEvent`, `IgnoreRest` |
| `changeState` | `ChangeState` (exit actions), `EnterState` (new state, entry actions) |
| `asynHandleEvent`, `process` | `Posted` |
| `newTimer`, `cancelTimer`, `resetTimer` | `NewTimer`, `CancelTimer`, `RestartedTimer` |
| `handleLocalTimer` | `FireFsmTimer`, `FireInputTimer` |
| `destroy`, `deleteSelf` and the destructors | `Destroy`, `DeleteSelf` |
| a job on a freed session | `RunFreedJob`, after which `worker = "crashed"` |

The value of `fsmTimer` is the state that armed it, which the code does not store:
it is what `TimerOfCurrentState` speaks about. Any armed timer may fire in any pass;
the lengths of the timeouts, and with them the order in which the timer heap would
return two timers, are left out.

**FsmSession** closes the engine: each session function is reduced to what it may do
to the engine (`Posts`, `Syncs`, `Restarters`). It is the abstract specification of a
program's control and the module the theorems of section 4 are about.

**ZmodemFsm** and **OscFsm** are the tables of the four programs, row by row.

**ZmodemWire** and **OscLine** are the lines. A frame, a subpacket or a package is a
token. A read may end inside one: the ZMODEM line then hands over a part, whose
first bytes `parseFrame` has consumed when the rest comes; an OSC package is looked
at only when it is whole. Damage makes it "Broken", which does not decode, or leaves a
block that decodes to another content (`intact`): LZ4 has no checksum, and only
`crc32` in the block tells.

**ZmodemSession** and **OscSession** are what `sz` and `rz` (`sf` and `rf`) share: the input
tick, the buffer, the signal flag, the functions that touch no file. A write that a
signal cuts short (`StdOutput::sendData`) loses any of the tokens being written.

**SzSession** has the files to send, `posM` and the stream of the current one.
`sendZdata` reads the signal flag twice, as the code does, and a signal may fall
between. **RzSession** has the disk: a file is its length and whether it is sound, a
prefix of the sender's file. `handleZfile` and `handleZdata` are run over whatever
lies in the buffer, and tear what is not theirs (`RunOver`, `Swallows`); a write or an
open may fail; the subpackets are whole tokens here, their bytes are in
**ZdataParser**. `disk` is what was written of a file as `tellp` counts it
(`io/ZmodemFile.cpp:134-142`): up to `tail` bytes at its end are still in the buffer of
the open stream, which writes `Chunk` bytes (the 1 KB of the library) or more through
and keeps fewer. They reach the disk when the stream is closed, by the next
`openWrite` or by the destructor (`DeletesFile`, and the deletion of the last file in
`HandleZfile`). Nobody looks whether that succeeded: with `DiskFails` the file may
lose any number of them (`Cuts`), and is then in `lost`, which is not a variable of the
code but what the properties have to except. **SfSession** and **RfSession** have the
files by number, all those announced and not acknowledged at once. `RfSession` counts
what waits in a stream as on the disk: the property about whole files excludes a
failing disk, and for the other one a file that loses its end is only shorter, and
`rf` does not open it again.

**Terminal**, **Sender**, **OscReceiver**, **OscSender** are the peers. They are not part of the
repository: they are modelled from what the programs send and expect, from the
diagrams of the README, and from what the opposite program does in the same role.
They accept, refuse, resume, cancel, end the batch with or without ZCOMPL, and say
goodbye or do not.

**SzTransfer**, **RzTransfer**, **SfTransfer**, **RfTransfer** put a program and its peer on one
line. `Patient`, `Swift` and `Troubles` say how bad the world is (section 3).

**ZdataParser** is `handleZdata` byte by byte: one step is one turn of its loop, with the
code's indices, the unescaping in place, the running CRC, `decodeCrc32`,
`eatBuffer`, and the events it queues. The line is cut into reads at any place, and
may lose, change or add a byte. A CRC is four bytes that belong to one subpacket:
no two subpackets have the same.

**WorkerPool** is `CppProcessor` and its workers on threads of their own, with callers of
`process` and one of `stop` or `waitStop`. A step is a read of a flag, a
critical section or a notification; the mutex is held from the test for work to
the wait, as in the code, and a wait may end without a notification.

## 3. Runs

Every run ends within three minutes. Deadlock is not checked where the programs stop,
which they do everywhere.

| Run | Configuration | Asks |
|---|---|---|
| `skeleton` | MCFsmSession | the engine with the table of `rz`, functions and peers that do anything: is the session freed before `run` returns (`StopsOnlyAfterDelete`), is a call on a freed one only ever a second DESTROY_EVT (`CrashNeedsSecondDestroy`), is a timer the current state's (`TimerOfCurrentState`), is there always one to wake the thread (`NeverWaitsForever`), none before initialisation (`TimersAfterInit`), is the end final (`DestroyIsFinal`) and reached (`EndStateStops`)? |
| `sz_transfer` | MCSzTransfer | nobody late, nothing cut: `ReceivedFilesAreWhole`, `GoodbyeAfterLastFile`, `TransferEnds` |
| `sz_broken` | MCSzBroken | split reads, timers at any moment, a signal at any moment, a terminal that may stop answering: `SzTypeOK`, `SameFile`, `DataNeedsOpenFile`, `ReceivedFilesAreSound`, `SignalEndsProgram`, and every step of `sz` is one of the skeleton (`ImplementsSkeleton`) |
| `rz_transfer` | MCRzTransfer | nobody late or swift: `NoFreedCall`, `GoodbyeAfterBatch`, `TransferEnds` |
| `rz_broken` | MCRzBroken | split reads, a failing disk, a swift sender, early timers, a signal: `RzTypeOK`, `AcknowledgedFilesAreWhole`, `SkippedFilesAreWhole`, `GrowsSoundly`, `SoundPartsAreKept`, `SignalEndsProgram`, `ImplementsSkeleton` |
| `zdata` | MCZdata | every cut of 48 frames, three of them also with any one byte damaged: `TypeOK`, `KeptIsCovered` (the in-place decoder loses nothing), `WritesSubpackets` (only whole subpackets are written, in order), `FrameIsTaken` (an undamaged frame is taken whole, without waiting for the next one) |
| `sf_transfer` | MCSfTransfer | a part at the terminal, a signal, cancel, heartbeat or damaged package: `CompleteFilesAreWhole`, `TransferEnds`, `SignalEndsProgram` |
| `rf_transfer` | MCRfTransfer | a part on the disk, a failing disk, the same troubles, a damaged block that decodes among them: `AckedFilesAreWhole`, `GrowsSoundly`, `TransferEnds` (with every chosen file acknowledged and whole, but for a signal, a cancel, damage or the disk), `SignalEndsProgram` |
| `worker_pool` | MCWorkerPool | does a worker sleep on a job (`WakesForJobs`), is every queued job run (`QueuedJobsRun`), does a worker told to stop leave (`StopReturns`)? |
| `sz_resume`, `rz_farewell`, `zdata_zack` | MCSzResume, MCRzFarewell, MCZdataZack | the disagreements of section 5 |

**How bad the world is.** With `Patient` the session timer expires only when nothing is
on its way and no user is thinking: a slow user makes a program give up after its
timeout, which is what the code does, and completeness cannot hold then. A sender
that is not `Swift` waits, before it answers, until `rz` has run the jobs queued
when it asked (`InTime`); data blocks, which it streams, need no answer. `Splits`,
`Signals`, `DiskFails` and the `Fragile` frames switch the faults on. In the OSC runs one
of `Troubles` or a signal disturbs a session, not two of them: the product of two is
more states and no new path in the handlers, each of which ends the session.

**Bounds.** `MaxReads = 2` reads in one input tick and `MaxJobs = 3` queued jobs at which
a tick reads no more. The interesting orders need two input events behind an event
a function posted, and three jobs hold them; the events that functions post and
`destroy`'s own are never cut. Blocks have 2 bytes for the code's 1024 (ZMODEM) or 4096
(OSC), with files of 0 bytes, of a multiple of the block and of a length with a short
last read: the three ways a file can end. What is there before of a file is nothing,
a part, all of it or more, sound or not; in `rz_broken` it is a sound part, an unsound one
or all of one of the two files, so that a file is skipped there as well as resumed
and begun anew. `Chunk = 2`: a full block goes to the disk, the last byte of a file waits
in the stream; in the code both are 1 KB, and the model needs only that no block but
the last is shorter than a chunk (`TransferAssumption`). `Versions = {0, 1}` is a peer without and
with the extensions of the README; "full" stands for a file of 4 GB or more where
`Large` says so. `MaxBeats = 1` heartbeat. The broken runs take two files, since
splits and signals multiply the states, and a skipped or finished file followed by
another is all that the order of files can show. `MaxEvents = 2` in the parser: a
queued event and the one input brings. In the pool two workers are enough for
the order in which `stop` goes over them, and two jobs for a queue that is not
empty; both jobs go to the second worker, since workers share nothing.

**Fairness.** The thread runs (`WF` of its steps). `run` looks at the timers after every job,
so a timer that is due fires even under a stream of jobs: `SF` of the session timer,
`SF` of a read when input waits, `WF` of the tick that sees a signal. One thing `SF`
grants that the clock does not: a timer that heartbeats restart for ever would
still fire; the heartbeats of the peers are bounded, so no liveness property leans on
it, and a peer that sends them for ever does keep a program alive. Of the peer
`ProgramSpec` (the broken runs) assumes nothing; `Spec` assumes that it answers.
In the pool every thread is scheduled (`WF`), and one that asks for a mutex that is
free again and again gets it (`SF` of the critical sections of `process` and
`waitStop`); nothing is assumed of spurious wakeups.

## 4. Proofs

| Module | Theorem | Says |
|---|---|---|
| FsmSessionProofs | `TypeCorrect` | `[]EngineTypeOK` |
| | `Inductive` | `[]IInv`, the inductive invariant |
| | `ShutdownComplete` | `[]StopsOnlyAfterDelete` |
| | `NoOtherCrash` | `[]CrashNeedsSecondDestroy` |
| | `DestroyFinal` | `DestroyIsFinal` |
| | `AlwaysWoken` | `[]NeverWaitsForever` |
| | `InitBeforeTimers` | `[]TimersAfterInit` |
| | `TimerOwned` | `[]TimerOfCurrentState` |
| WorkerPoolProofs | `TypeCorrect` | `[]TypeOK` |
| | `NoLostWakeup` | `[]WakesForJobs` |
| SzTransferProofs | `SzImplementsSkeleton` | `ImplementsSkeleton`, for `sz` |
| | `SzShutdown` | the six properties of the skeleton, for `sz` |
| | `SzTypeCorrect` | `[]SzTypeOK` |
| | `OneTurn` | `[]ProtocolInv`, the inductive invariant of `sz` and its terminal |
| | `FileAgreed` | `[]SameFile` |
| | `DataFromOpenFile` | `[]DataNeedsOpenFile` |
| | `ReceivedSoundly` | `[]ReceivedFilesAreSound` |
| | `ReceivedWhole` | `[]ReceivedFilesAreWhole`, if no signal comes and no file is named twice |
| RzTransferProofs | `RzImplementsSkeleton` | `ImplementsSkeleton`, for `rz` |
| | `RzShutdown` | the six properties of the skeleton, for `rz` |
| | `RzTypeCorrect` | `[]RzTypeOK` |
| | `RzOneTurn` | `[]ProtocolInv`, the inductive invariant of `rz` and its terminal |
| | `SoundGrowth` | `GrowsSoundly` |
| | `SoundPartsKept` | `SoundPartsAreKept` |
| | `AckedWhole` | `[]AcknowledgedFilesAreWhole`, if no batch names a file twice |
| | `SkippedWhole` | `[]SkippedFilesAreWhole`, if no batch names a file twice |
| SfTransferProofs | `TransferInvariant` | `[]TransferInv`, the inductive invariant of `sf` and its terminal |
| | `CompleteWhole` | `[]CompleteFilesAreWhole` |
| RfTransferProofs | `TransferInvariant` | `[](TransferInv /\ BootInv)`, the same for `rf` |
| | `AckedWhole` | `[]AckedFilesAreWhole` |
| | `SoundGrowth` | `GrowsSoundly` |
| ZdataParserProofs | `TypeCorrect` | `[]TypeOK` |
| | `Inductive` | `[]IInv`, the inductive invariant |
| | `NothingLost` | `[]KeptIsCovered` |

**FsmSessionProofs** holds for every table, every session function and all bounds that
satisfy `TableAssumption`, `SkeletonAssumption` (types) and `TableShape`, which is how the
tables of the programs are written: of the entry actions only the last may change
the state, exit actions neither change it nor end in an event, the end state
only starts and finishes the deletion, and a state that arms the session timer
cancels it among its exit actions. The lists of other events are free to go
on after such a call: `handleEvent` ignores the rest of them, and the run `skeleton`
has one that does. TLC evaluates the assumptions in the runs. A row added to a table
that breaks them is outside the theorems.

None of its properties is inductive: whether the worker may stop undeleted depends
on what the queue and the stack still hold. `IInv` says what they may hold.

* `AgendaInv`: behind a call that may change the state there is no call that leaves the
  end state and that the end state would let through. `handleEvent` guards its
  calls; `changeState` does not, its loops go on after nested calls, and without
  `TableShape` one of them could take the session out of its end state after `destroy`.
* `DestroyInv`: `waitStop`, `toDelete` and the end state go together, except for the moment
  between entering the state and the call of `destroy`, which is then the very next
  call.
* `QueueInv`: once `destroy` ran, the last job is DESTROY_EVT, or it is being handled; in
  the end state it frees the session.
* `PhaseInv`: between jobs the stack is empty, and the input timer is armed as long as
  the worker is not stopping.

The step lemma (`InvNext`) has one case per action. `InitBeforeTimers` needs the separate
`InitInv`: while the session is not initialised and the worker is past its first
poll, the call that marks it is on the stack.

`TimerOwned` has an invariant of its own, `TimerInv`. Between the exit actions of a state
and the entry of the next one the timer must be off, and what switches it off is a
call that is still on the stack: `EntersClean` says that every entry of a state has
such a call before it, or finds no timer, and `Arms` that a call that arms the timer
runs in the state that will cancel it, because it is guarded by that state or
because nothing before it leaves the state.

**SzTransferProofs** and **RzTransferProofs** hold for every set of files, every peer and every
line: the initial states of the program are initial states of `Skeleton`, and
every step is a step of it or leaves `engineVars` alone. ZmodemSessionProofs has what
the two share: `CallsMap`, `WorkerMaps` and `FireMaps` for the engine, the worker and the
timers, whose definitions are the same on both sides; `ReturnsMaps`, `PostingMaps`,
`HandlingMaps` and `RestartMaps` for the four ways in which a session function may
end (it returns, queues an event, hands one to `handleEvent`, restarts the timer).
`PostsLemma` reads off what each function may queue. The proof of a program is then
one step per function of its own. `SzShutdown` and `RzShutdown` then state of the programs
what FsmSessionProofs proves of the skeleton: its assumptions follow from those of
ZmodemSession (`ProvedAssumptions`; its `TableShape` is `SkeletonShape`, which TLC evaluates
for both tables in their runs), and the instances `Skeleton` and `Proved` have the same
behaviours (`SameSkeleton`).

`SzTypeCorrect` holds for every set of files, every peer and every line too. Types are
more than a formality here: that `posM` stays in the file `sz` has open, and `inputFrameM`
a header a program can get, rests on what the terminal writes, and that on what `sz`
sent before. The invariant is the conjunction of the two sides: `DataTypeOK` says of
`sz` that it sends `Requests`, of the terminal that it writes `Answers`, and of both
directions of the line that they hold nothing else; the lemmas about the line
(`SendsLemma`, `ReadsLemma`, `ReceivedLemma`) say that a split, a read or an echoed
leftover leaves it so (`Writable`, `Buffered`).

That the terminal writes what `sz` reads from the same file, at the same place, rests on
the order of the conversation, and nothing in the code enforces it in one place. `sz`
streams and never waits for an acknowledgement of a block; its events are queued in
one state and handled in another; a ZRPOS or a ZRINIT that comes twice would make it
start a second stream behind the first. The invariant `ProtocolInv` (SzTurns) says that
there is *one turn at a time*. A turn is a request on its way to the terminal
(`RequestInv`), a question to its user, an answer on the line or in the buffer of `sz`
(`AnswerInv`), or a call on the stack or an event in the queue that will end in the next
request (`SzTurn`: a new start, the answer to a frame, or the next block). `TurnOfEvent`,
`TurnOfState` and `TurnOfFunc` read off the table which they are, and `Listed` proves that a row
of the table leads from an event to a state or function of the same turn or of none.

* `CallsInv`: of the calls on the stack one at most can lead to another turn, and only the
  arming of the timer stands behind it; so a step of the engine passes a turn on or
  drops it, and never makes two of one (`EngineKeeps`).
* `Due`: each request says what the terminal can check at its place. ZDATA names the
  length the terminal has, each subpacket begins where the one before it ends, and
  a ZACK that is not 0 names a sound part of the file `sz` has.
* `PhaseInv`, `HolderInv`: whoever has the turn knows what the other did last. While `sz`
  streams, its read position is where the stream on the line ends (`GoesOn`).
* `ResumeInv`: the subpacket of a resume request comes with its ZCOMMAND and says what
  the terminal has.

When `sz` is in its end states nobody relies on the turns any more, hence the guard
`Alive`: what it wrote before is still on the line and still true, but a late answer may
meet it there. The three invariants that `sz_broken` checks then follow.

`WholeInv` adds the length, for `ReceivedWhole`: the stream is opened once for each file,
since it is closed as long as the terminal has still to say where it starts
(`Opening`), it ends where the file does, and ZEOF says that length. Both hypotheses are
needed. A signal makes `sendZdata` announce the end early (see "Observed"), and
`sz_transfer` has none either. A file that the command line names twice is offered
twice, and the terminal that accepts it again truncates the copy it had closed; the
file names of the runs differ, too. TLC checked `ProtocolInv` on the instances of
`sz_transfer` and `sz_broken`, and `WholeInv` on `sz_transfer` and on `sz_broken` without the
signal, before they were proved.

The lemmas are the steps: `...Protocol` and `Whole...`, one per handler of `sz` and of the
terminal, over lemmas about the requests (`AppendFirst`, `AppendBlock`, `StreamTail`) and
about the line to `sz` (`TakenLemma`, `PlacedLemma`, `LineGrows`: a read, a split or a dropped
header neither doubles an answer nor makes one).

The data theorems of `rz` rest on the same idea with other turns, in the `ProtocolInv` of
RzTurns. `rz` greets ("greet"), the terminal offers a file, `rz` goes to wait ("go") after
it asked where to start or said it, hears the answer ("hear"), takes the data ("take")
and greets again. There is one request or one answer under way, or one call or event
of `rz` that leads to the next.

* `CallsInv`: as for `sz`, and a NEXT_EVT is queued at most once. That event is the turn
  "go": `handleZfile` posts it behind whatever is queued, and it must still find
  HANDLE_ZFILE_STATE when it is handled.
* `LineInv`: what is on the line and in the buffer of `rz` (`Inc`: cut tokens are counted
  whole, torn ones not at all) is one answer, or one request is on its way back, never
  both (`Ordered`, `OneAsk`). `Tells` and `Means` say of each token, at its place, what it
  says of the file: a ZACK that is not 0 names the sound part on the disk, a ZDATA the
  position at which the file was opened, and the data behind it are a `Chain` from there
  that ends where the terminal is.
* `HolderInv`: what each turn of `rz` may rely on. While it takes data, the end of what
  was written, the write position and the begin of the chain are one number
  (`StartsAtEnd`); `write` itself does not check the position it writes at.
* `StreamInv`: what waits in the open stream is less than a chunk, of a sound file, and
  only when the file was written to its end. So a close that fails costs a file that
  was received its last bytes, never one that is to go on.
* `Due` and `PeerInv` are what stays true when `rz` has given up: a ZRINIT on the line
  means that the file was written in full (`Delivered`) or that none was offered yet, and no
  request names a position behind the end of the file. All other turns are guarded
  by `Alive`.

The lines may be cut and torn here, which is where most of the lemmas go: `Kept` says
that the tokens left are those that were there behind a place, some of them torn,
and `KeptLinked` that tearing a header breaks no chain, because no header is in
one. `RzTypeCorrect` needs all of it: `posM` and the length of each file are bounded by
the positions of the data only, the check in `write` being commented out
(`io/ZmodemFile.cpp:130-133`).

`DiskLemma` reads off what a step does to the disk: nothing, or a sound part for the file
of the turn, not shorter, but for what waited in the stream, when there was one to be
resumed. `SoundGrowth` and `SoundPartsKept` are that lemma.  `FateInv`, for `AckedWhole` and `SkippedWhole`, adds that the file
of the turn has no fate yet and is not to come again, as long as it may be written to
or a ZSKIP or ZRPOS for it is on the line; so what was said of the other files stays
true. The hypothesis is needed: a file that is in the batch twice is offered twice, and
a terminal that cannot resume makes `rz` truncate the copy it had acknowledged. `SkippedFilesAreWhole` speaks
of files of some length, for the reason given under "Observed". Nothing is assumed
about the disk but that a sound part is not longer than the file (`RzAssumption`), and
nothing about the timing: opens, writes and closes may fail, reads may be split, timers
and signals come at any moment. `AckedWhole` is therefore not about the bytes that wait
when `rz` acknowledges, less than `Chunk` at the end of the file, if closing it fails
afterwards: see "Observed". TLC checked `ProtocolInv`, `StreamInv` and `FateInv` on the
instances of `rz_broken` and `rz_transfer`, and `ProtocolInv` on batches that name a file twice, before they
were proved.

**SfTransferProofs** holds for every list of files in the order of their numbers
(`SfAssumption`), every block size, whatever the terminal holds of the files before
(`Holdings`), and every cancel, heartbeat, damaged package and timeout, patient or not.
`CompleteFilesAreWhole` is not inductive: whether a FileComplete is true depends on the
packages before it on the line. `FileInv` speaks of one file at a time, since the others
do not touch it:

* `Chain`: of the packages about the file that the terminal has still to handle, an
  announcement is alone, a position comes first and the end last; a position is
  what the terminal has, each block begins where the package before it leaves the
  file (`Reached`), and the end comes behind its last byte, or after a signal.
* `OneAsk`: one proposal of the file at most is on its way to `sf`, or in its buffer, and
  it says what the terminal has; while it is, and before the file is announced,
  nothing about the file is on the way to the terminal.
* while `sf` streams the file, the next block goes on where the chain ends
  (`GoesOnAt`), and nobody was told that the file is complete.
* of a file that is complete nothing is on its way, and the terminal has all of it,
  or, after a signal, a sound part.

The lemmas are about the line: what a package put at the end (`PutNext`, `PutGoesOn`) or
taken off its head (`TakeNext`, `TakeLast`) does to a chain, and what a pop, a read, a
damaged package or an emptied buffer leave of the proposals (`LinePops`, `LineRead`,
`LineDamaged`, `BufferGoes`). The steps follow from them, one lemma per handler; a step
that is about another file, or none, is `OtherKeeps`. Files of no length are outside
the invariant, as they are outside the property: see "Observed".

**RfTransferProofs** holds for every disk, failing or not, every batch of different files,
numbered from one (`TransferAssumption`; 0 is the number of no file), every block size
on both sides and every disturbance. A sender offers one file at a time, so here the
invariant is about the file offered last and says that what is in the buffer and on
the line is what remains of one conversation: `OrderInv` (the order of its packages),
`KnownInv` (what `rf` knows of it; a file that is open is sound and as long as `rf`
counts, or no block to come is the one expected), `TokenInv` (one answer at most, and
no package with it), `PhaseInv` (what the sender last did), `DoneInv` (no file comes
twice) and, with a good disk and undamaged packages, `ExactInv` (no block is refused,
and those on their way complete the file). `OrderInv` and `KnownInv` do not need the good
disk, and from them follows `SoundGrowth`: damage changes no number of a package that
still decodes (section 6), so a block that is expected is the next one of an open, sound
file, and the comparison of `crc32` keeps out one with another content. `BootInv` says that `initState`, which empties the
buffer, runs before anything is read: the constructor handles ENTRY_EVT before the
input timer runs.

**WorkerPoolProofs** holds for every number of workers, of jobs and of concurrent callers
(`PoolAssumption`). `process` decides under the mutex whether to notify and notifies
after it, and only for a queue it found empty. What makes the one notification
enough is `EmptyToTheWait`: the mutex keeps the queue of a worker empty from its
test to its wait. A job that comes later finds it asleep with an empty queue, and
notifies; a second one behind it leans on the first, which has its notification
still to come.

**ZdataParserProofs** holds for every set of frames whose encoding is a sequence of bytes
(`FramesAssumption`), every damage the line may do and every way it cuts them into
reads. `IInv` adds to `KeptIsCovered` that the loop stores behind where it looks, which
keeps decoding in place from overwriting bytes that were not looked at yet, and
that a running scan has taken its event off the queue.

**What only TLC checks.** Liveness, which is out of the prover's reach (`EndStateStops`,
`TransferEnds`, `SignalEndsProgram`, `QueuedJobsRun`, `StopReturns`, `FrameIsTaken`);
`WritesSubpackets`, whose statement folds over the subpackets; and what holds only when
nobody is late (`GoodbyeAfterLastFile`, `NoFreedCall`, `GoodbyeAfterBatch`). These need more than
that no two turns are under way: that there always is one. A timer may fire as soon as
all queues are empty, so a proof has to show that the conversation never rests before
its end, which the invariants above do not say: they allow the turn to be lost,
since it is when a token is torn or a timer ends the session. That `sf` and
`rf` implement the skeleton is neither proved nor checked: their control is that of
`OscSession`, whose `destroy` also stops the input timer.

## 5. Where code and documents disagree

* **A resume request is never answered** (`sz_resume`). `handleZfileRsp` returns when the
  string of the ZCOMMAND is not in the buffer yet; the next input goes to
  `parseFrame`, which skips the string. No ZACK is sent, HANDLE_ZFILE_RSP_STATE has no
  timer, and both sides wait; `zmodem/zmodem.h:124-125` says that the sender verifies
  and resumes.
* **`rz` waits for a farewell** (`rz_farewell`). The timer of END_STATE is commented out
  (`zmodem/RzSession.cpp:83`), only the letters OO end it; `doc/zmodem.txt:1274-1275` says
  that the receiver waits briefly and exits in any case.
* **A frame does not go on after ZCRCQ** (`zdata_zack`). `eatBuffer` resets the indices and
  `continue` runs the increment of the loop: the first byte behind the subpacket is
  passed over and the next CRC fails; `zmodem/zmodem.h:52` says that the frame
  continues. `sz` never sends ZCRCQ or ZCRCW.

### Observed

No document promises otherwise for these. Except where it says so the models have
them, and the properties are stated so that they are visible.

* After a signal `sendZdata` takes `isGood() == false` for the end of the file and sends
  ZEOF (or, when the signal falls between its two calls, a header behind ZCRCG); sf
  sends FileComplete in the same way. Hence `ReceivedFilesAreSound`, and the case
  `signaled` of `CompleteFilesAreWhole`.
* A second DESTROY_EVT. A ZRINIT that arrives in END_STATE of `sz` makes `sendOO` post
  DESTROY_EVT; if the end timer fires in the same pass, `destroy` posts another, the first
  frees the session and the second is a call on the freed object. `NoFreedCall` holds
  for `rz` when nobody is late or swift; without that TLC finds the call.
  `CrashNeedsSecondDestroy`, proved, says that there is no other way to one.
* A NETWORK_INPUT_EVT of an earlier read is handled in HANDLE_ZFILE_STATE or
  HANDLE_ZDATA_STATE: the parser runs over a header in the buffer and tears it, and
  the name of a file after a skipped one may be lost. Hence `Swift`.
* ZCOMPL and ZFIN in one read: the ZFIN is not looked at. A ZRQINIT ends `rz`
  (by the code; the sender of the model does not begin with one).
* A file of no length offered over an existing one is skipped by `rz` and the old one
  stays; `SkippedFilesAreWhole` speaks of files of some length.
* After a ZCRCW subpacket `rz` stays in the state of the frame; a ZCRCG subpacket that
  is not full fails an assertion (`AssertFails`).
* `sf` never announces the end of a file whose size is a multiple of 4096
  (`osc/OscSession.cpp:514`): its bytes are all sent, and `TransferEnds` says that they
  arrived. An empty file is announced as complete without a FileInitPos, so `rf` does
  not create or truncate it; `CompleteFilesAreWhole` and `AckedFilesAreWhole` speak of
  files of some length.
* `rz` acknowledges a file before it closes it. `write` counts with `tellp` what the stream
  still holds back, so a last subpacket of less than 1 KB is not on the disk yet
  when the ZRINIT answers the ZEOF; the stream is closed when the next file comes or
  the session ends (`io/ZmodemFile.cpp:89`, `:119`), and nobody looks whether that
  failed. On a full disk the file then lacks its end although it was acknowledged.
  `doc/zmodem.txt:1229-1234` asks `rz` to close the file first and to send ZFERR when
  that fails. `AcknowledgedFilesAreWhole` says what is left (`Delivered`): the file was
  written in full and nothing of it is wrong, and only a file in `lost` is shorter, by
  less than `Chunk`. A sound part waiting in the stream is lost in the same way when a
  late answer opens the file anew: `SoundPartsAreKept` speaks of what is on the disk.
* `rf` acknowledges a file after failed writes, and after a block it could not decode
  or refused for its `crc32` (`osc/OscSession.cpp:731-742`, `:772`): the conditions of
  `AckedFilesAreWhole`.
* Only the content of a block is under a checksum. A number that damage changes in a
  package that still decodes (the offset of a FileInitPos, say) is taken as it is,
  and `setWritePos` accepts any position up to the announced size while the file is
  opened to be appended to. The models leave this out.
* `sendByeOnResetM` (OSC) and `sendFinOnResetM` (ZMODEM) have no effect.
* The pool: a worker with no timer that is between its test and its wait misses the
  notification of `stop` or `waitStop`, which then join for ever (the condition of
  `StopReturns`); a job pushed after the worker left its loop is never run nor freed;
  `start` after `stop` would join the joined threads again, since `threadsM` is not
  cleared (`fsm/CppProcessor.cpp:65`, `:117`; the model ends with the first life of
  the pool). No program of the repository starts the
  pool.

## 6. Not modelled

* **Timer heap** (`fsm/min_heap.h`): a sequential data structure of one thread. The engine
  lets any armed timer fire, which covers every order the heap could give.
* **Ring buffer** (`io/KfifoBuffer`): compiled, and used by no program (its only use,
  `io/stdinput.h:93`, is commented out).
* **Options, logs, progress window**: parsing of the command line and pure I/O.
* **OSC package schema**: generated code; packages are tokens that can be decoded or not.
  Damage that changes a number or a name in a package that still decodes is left out:
  see "Observed".
* **Arithmetic of the wire**: CRC values, the hexadecimal header and the ZBIN32 / ZBIN64
  encoding of positions, with their change at 2^32. Headers are tokens and
  positions small numbers.
* **Capacity of the input buffer** (`ZmodemSession.cpp:933`): 16 KB, below 1 KB free nothing
  is read. The buffers of the models are bounded by what the peers send.
* **Files that change while they are sent**; creating directories. `sz` and `sf` open a
  file where `setReadPos` does (`io/ZmodemFile.cpp:203-207`); that it exists was seen when
  the command line was parsed (`Options.cpp:35`), and that it is gone, or cannot be
  read any more, when it is opened is left out (`SzSession!Opened`,
  `SfSession!HandlesFileProposeStart`).
* **The length of a string**: `parseZdataString` ends in DESTROY_EVT when one has more than
  1024 bytes (`ZmodemSession.cpp:546-551`); names and resume requests are single tokens
  here. The same event follows a CRC error, which the models have.
* **A signal between two files of one call**: `sendFileContent` goes over its files in one
  step of **SfSession**, a signal comes before it or in the last read of a file, not
  between `isGood` of one file and of the next (`OscSession.cpp:504-516`). What it would
  leave unsent the next step does not send either.
* **Two rows of `rf`** (`RfSession.cpp:55`, `:59`): SEND_DATA_EVT and NEXT_EVT lead
  HANDLE_DATA_STATE to states the fsm of `rf` does not have. SEND_DATA_EVT is queued by
  handleFileProposeStart and sendFileContent, NEXT_EVT by handleInitRsp, sendFileContent
  and handleFileCompleteAck (`OscSession.cpp:131`, `:463`, `:500`, `:551`, `:556`, `:604`);
  in that state it would take a package that a sender of files does not send, or the
  answer to the handshake a second time.
* **Line noise in headers** for the sessions; in ZdataParser a byte of a frame may be
  lost, changed or added.
* **Vendored code**: fmt, flatbuffers, FTXUI, tclap, lz4, base64. It is nine tenths of the
  lines of the tree; the program's own code is about 6,600 lines.

## 7. Plan

Done: the engine and its shutdown theorems, the four programs with their peers, the
byte-level data parser and the pool with their theorems, the proof that `sz`
and `rz` implement the skeleton and shut down as it does, and the integrity of what
`sz`, `rz`, `sf` and `rf` transfer. Left, in this order:

1. Proofs: the properties of the patient runs (`GoodbyeAfterLastFile`, `GoodbyeAfterBatch`,
   `NoFreedCall`), from the invariant that a turn is never lost; that `sf` and `rf`
   implement the skeleton with their own `destroy`.
2. The capacity of the input buffer, in ZdataParser first.
3. The codec: positions at 2^32 and the choice of ZBIN32 or ZBIN64.
