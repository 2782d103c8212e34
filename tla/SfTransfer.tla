------------------------------ MODULE SfTransfer ------------------------------
(***************************************************************************)
(* sf and the terminal it runs in: SfSession and OscReceiver over one      *)
(* line.  In a patient system the session timer only expires when nothing  *)
(* is on its way: nobody is late.  Bound: a signal, a cancel, a heartbeat  *)
(* and a damaged package do not meet in one session.                       *)
(***************************************************************************)
EXTENDS SfSession, OscReceiver

CONSTANT Patient

ASSUME TransferAssumption ==
    /\ Patient \in BOOLEAN /\ Troubles \subseteq {"beat", "cancel", "damage"}
    /\ Holdings \subseteq [Files -> [len : Nat, sound : BOOLEAN]]

transferVars == <<sfVars, receiverVars>>

Init == SfInit /\ ReceiverInit

Quiet == toProgram = <<>> /\ toTerminal = <<>> /\ jobs = <<>>

SfThread  == ThreadStep /\ UNCHANGED receiverVars
SfRead    == ReadTick /\ UNCHANGED <<fileVars, receiverVars>>
SfSignal  == SignalTick /\ UNCHANGED <<fileVars, receiverVars>>
SfTimer   == (Patient => Quiet) /\ SessionTimer /\ UNCHANGED <<fileVars, receiverVars>>
Interrupt == trouble = "none" /\ SigHandler /\ UNCHANGED <<fileVars, receiverVars>>
PeerStep  == (ReceiverAnswers \/ (~signaled /\ Disturbance))
             /\ UNCHANGED <<engineVars, fileVars, bufferM, signaled>>

Next == SfThread \/ SfRead \/ SfSignal \/ SfTimer \/ Interrupt \/ PeerStep

\* As for sz: the thread keeps running and looks at its timers after every job.
ProgramFairness ==
    /\ WF_transferVars(SfThread)
    /\ SF_transferVars(SfTimer)
    /\ SF_transferVars(SfRead)
    /\ WF_transferVars(SfSignal)

\* A terminal that answers.
PeerFairness ==
    WF_transferVars(ReceiverAnswers /\ UNCHANGED <<engineVars, fileVars, bufferM, signaled>>)

Spec == Init /\ [][Next]_transferVars /\ ProgramFairness /\ PeerFairness

Whole(f) == store[f] = [len |-> Size[f], sound |-> TRUE]

\* Something ended the session before its last file.
CutShort == signaled \/ trouble \in {"cancel", "damage"}

-----------------------------------------------------------------------------
\* A file of some length sf announces as complete has every byte at its place at
\* the terminal, over the proposal of the part it has, a resume, and input handled
\* between two blocks; only a signal makes sf announce the end of a file early,
\* and then what the terminal has of it is sound.  (An empty file is complete
\* whatever the terminal has under its name: see handleFileProposeStart.)
CompleteFilesAreWhole ==
    \A f \in done : Size[f] > 0 => IF signaled THEN store[f].sound ELSE Whole(f)

\* When nobody is late, sf ends with every file of some length whole at the
\* terminal, those among them whose end it never announces because it is the
\* end of a block (sendFileContent), unless a signal, the user or a damaged
\* package ended the session.
TransferEnds ==
    <>(worker = "stopped" /\ (CutShort \/ \A f \in Files : Size[f] = 0 \/ Whole(f)))

\* A signal ends the program with its terminal restored (deleteSelf), in whatever
\* state it arrives.
SignalEndsProgram == signaled ~> (worker = "stopped" /\ deleted)
=============================================================================
