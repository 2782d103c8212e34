------------------------------ MODULE RzTransfer ------------------------------
(***************************************************************************)
(* rz and the terminal it runs in: RzSession and Sender over one line.  In *)
(* a patient system the session timer only expires when nothing is on its  *)
(* way and the user is not choosing files: nobody is late.  A swift        *)
(* terminal may answer before rz has run the jobs queued when it asked;    *)
(* one that is not may only stream data meanwhile.                         *)
(***************************************************************************)
EXTENDS RzSession, Sender

CONSTANTS Patient, Swift

ASSUME TransferAssumption ==
    /\ {Patient, Swift} \subseteq BOOLEAN
    /\ SFiles = Files /\ Length = Size /\ SBlock \in Nat \ {0}
    \* Only the end of a file is shorter than a chunk.
    /\ Chunk <= SBlock
    /\ Batches \subseteq Seq(Files) /\ MaxBeats \in Nat
    /\ \A fl \in Flavours : fl.version \in Nat /\ {fl.completes, fl.farewell} \subseteq BOOLEAN

transferVars == <<rzVars, senderVars>>

Init == RzInit /\ SenderInit

Quiet == toProgram = <<>> /\ toTerminal = <<>> /\ jobs = <<>>
         /\ phase \notin {"choosing", "sending"}

RzThread   == ThreadStep /\ UNCHANGED senderVars
RzRead     == ReadTick /\ UNCHANGED <<fileVars, senderVars>>
RzSignal   == SignalTick /\ UNCHANGED <<fileVars, senderVars>>
RzTimer    == (Patient => Quiet) /\ SessionTimer /\ UNCHANGED <<fileVars, senderVars>>
Interrupt  == SigHandler /\ UNCHANGED <<fileVars, senderVars>>
InTime     == Swift \/ (jobs = <<>> /\ agenda = <<>>)
SenderActs == (InTime /\ SenderStep) \/ SendBlock
PeerStep   == (SenderActs \/ Heartbeat) /\ UNCHANGED <<engineVars, fileVars, inputVars, signaled>>

Next == RzThread \/ RzRead \/ RzSignal \/ RzTimer \/ Interrupt \/ PeerStep

\* As for sz: the thread keeps running and looks at its timers after every job.
ProgramFairness ==
    /\ WF_transferVars(RzThread)
    /\ SF_transferVars(RzTimer)
    /\ SF_transferVars(RzRead /\ toProgram # <<>>)
    /\ WF_transferVars(RzSignal)

\* A terminal that answers, whose user chooses.
PeerFairness ==
    WF_transferVars(SenderActs /\ UNCHANGED <<engineVars, fileVars, inputVars, signaled>>)

ProgramSpec == Init /\ [][Next]_transferVars /\ ProgramFairness
Spec        == ProgramSpec /\ PeerFairness

Whole(f) == disk[f] = [len |-> Size[f], sound |-> TRUE]
Ended    == worker \in {"stopped", "crashed"}

-----------------------------------------------------------------------------
\* rz is a session of the engine: what is proved of the skeleton holds of rz.
ImplementsSkeleton == Skeleton!Safety

\* A file rz acknowledges (the ZRINIT after its ZEOF) was written in full, each
\* byte at its place: over a resumed or restarted file, subpackets that arrive
\* in pieces, and events of earlier frames still queued.  Once closed it is on
\* the disk like that, but for less than a chunk at its end when closing it
\* failed, after the acknowledgement and unnoticed (ZmodemFile.cpp:87-90, 119).
Delivered(f) ==
    /\ disk[f].sound
    /\ disk[f].len = Size[f] \/ (f \in lost /\ disk[f].len + Chunk > Size[f])
AcknowledgedFilesAreWhole == \A f \in done : Delivered(f)

\* A file of some length that rz skips is on the disk in full: the answer it
\* skips on came when the question was asked of this file, and nothing was
\* written since, whatever is cut, late, repeated or failing.
SkippedFilesAreWhole == \A f \in skipped : Size[f] > 0 => Whole(f)

\* Whatever is cut, late, interrupted or failing, a file on the disk only
\* changes to something sound: nothing is appended to an unsound part, or at
\* another place than the sender sent it for.
GrowsSoundly ==
    [][\A f \in Files : disk'[f] # disk[f] => disk'[f].sound]_transferVars

\* What is sound and on the disk, not waiting in the stream, is never thrown
\* away when the sender knows how to resume and no signal has come: the file is
\* not opened anew on a late or a repeated answer (waitZdata).
OnTheDisk(f) == IF f = zmodemFileM THEN disk[f].len - tail ELSE disk[f].len
SoundPartsAreKept ==
    [][\A f \in Files : (disk[f].sound /\ flavour.version > 0 /\ ~signaled)
           => OnTheDisk(f)' >= OnTheDisk(f)]_transferVars

\* No job runs on the freed session.
NoFreedCall == worker # "crashed"

\* When nobody is late or swift and nothing is cut, rz says goodbye only after
\* the sender has.
GoodbyeAfterBatch == curState = "END_STATE" => phase \in {"fin", "over"}

\* When nobody is late or swift and nothing is cut, and the sender ends the
\* session as the protocol has it, every file has its fate and rz ends.
TransferEnds ==
    <>(worker = "stopped" /\ left = <<>> /\ phase \in {"fin", "over"})

\* A signal ends the program, in whatever state it arrives.
SignalEndsProgram == signaled ~> Ended

\* "The receiver waits briefly for the "O" characters, then exits whether they
\* were received or not" (doc/zmodem.txt:1274-1275).
ExitsWithoutFarewell == (phase = "over" /\ ~signaled) ~> (Ended \/ signaled)
=============================================================================
