------------------------------ MODULE SzTransfer ------------------------------
(***************************************************************************)
(* sz and the terminal it runs in: SzSession and Terminal over one line.   *)
(* In a patient system the session timer only expires when nothing is on   *)
(* its way and the user is not being asked: nobody is late.                *)
(***************************************************************************)
EXTENDS SzSession, Terminal

CONSTANT Patient

ASSUME TransferAssumption ==
    /\ Patient \in BOOLEAN
    /\ TFiles = Files /\ Length = Size
    /\ Holdings \subseteq [Files -> [len : Nat, sound : BOOLEAN]]
    /\ Versions \subseteq Nat /\ MaxBeats \in Nat

transferVars == <<szVars, termVars>>

Init == SzInit /\ TerminalInit

Quiet == toProgram = <<>> /\ toTerminal = <<>> /\ jobs = <<>> /\ phase # "asked"

SzThread    == ThreadStep /\ UNCHANGED termVars
SzRead      == ReadTick /\ UNCHANGED <<fileVars, termVars>>
SzSignal    == SignalTick /\ UNCHANGED <<fileVars, termVars>>
SzTimer     == (Patient => Quiet) /\ SessionTimer /\ UNCHANGED <<fileVars, termVars>>
Interrupt   == SigHandler /\ UNCHANGED <<fileVars, termVars>>
PeerStep    == (TerminalStep \/ Heartbeat) /\ UNCHANGED <<engineVars, fileVars, inputVars, signaled>>

Next == SzThread \/ SzRead \/ SzSignal \/ SzTimer \/ Interrupt \/ PeerStep

\* The thread keeps running and looks at its timers after every job, so input
\* that has arrived is read and a flag that is set is seen.
ProgramFairness ==
    /\ WF_transferVars(SzThread)
    /\ SF_transferVars(SzTimer)
    /\ SF_transferVars(SzRead /\ toProgram # <<>>)
    /\ WF_transferVars(SzSignal)

\* A terminal that answers, whose user decides.
PeerFairness ==
    WF_transferVars(TerminalStep /\ UNCHANGED <<engineVars, fileVars, inputVars, signaled>>)

ProgramSpec == Init /\ [][Next]_transferVars /\ ProgramFairness
Spec        == ProgramSpec /\ PeerFairness

Dealt(f) == f \in done \cup refused

\* sz stops at a file too large for a receiver without 64-bit positions.
TooLarge == version = 0 /\ zmodemFileM \in Large

-----------------------------------------------------------------------------
\* sz is a session of the engine: its functions queue, handle and restart only
\* what the skeleton lets them, so what is proved of the skeleton holds of sz.
ImplementsSkeleton == Skeleton!Safety

\* A file the terminal closes as received has every byte of the file on the
\* server, each at its place: over the resume check, ZRPOS, the subpackets and
\* the last one of a file whose size is a multiple of 1024.
ReceivedFilesAreWhole ==
    \A f \in done : store[f].sound /\ store[f].len = Size[f]

\* Whatever is cut, late or interrupted, a file the terminal closes as received
\* holds no byte at a wrong place, and nothing an earlier transfer left wrong:
\* it may only be too short, when a signal makes sz announce its end early.
ReceivedFilesAreSound ==
    \A f \in done : store[f].sound

\* sz and the terminal agree on the file: data that the terminal writes to a
\* file was read from that file, whatever was skipped, late or lost before.
SameFile == phase = "receiving" => offer = zmodemFileM

\* sendZdata never runs without an open file, although SEND_ZDATA_EVT is queued
\* in one state and handled in whatever state the input queued before it leads
\* to.
DataNeedsOpenFile ==
    Running("sendZdata") => zmodemFileM # NoFile /\ stream # "closed"

\* When nobody is late and nothing is cut, sz says goodbye only after every
\* file was received or refused.
GoodbyeAfterLastFile == phase = "over" => TooLarge \/ \A f \in Files : Dealt(f)

\* When nobody is late and nothing is cut, the transfer comes to its end: every
\* file has its fate and the program has ended.
TransferEnds == <>(worker = "stopped" /\ (TooLarge \/ \A f \in Files : Dealt(f)))

\* A signal ends the program, in whatever state it arrives and whatever the
\* terminal does.
SignalEndsProgram == signaled ~> worker \in {"stopped", "crashed"}

\* "The file sender verifies the content, and resumes from the length or start
\* at the beginning" (zmodem/zmodem.h:125): a peer that asks gets an answer
\* or sz ends.
ResumeIsAnswered ==
    phase = "checking" ~> (phase # "checking" \/ worker \in {"stopped", "crashed"})
=============================================================================
