------------------------------ MODULE RfTransfer ------------------------------
(***************************************************************************)
(* rf and the terminal it runs in: RfSession and OscSender over one line.  *)
(* In a patient system the session timer only expires when nothing is on   *)
(* its way and the user is not choosing files.  Bound: a signal, a cancel, *)
(* a heartbeat and a damaged package do not meet in one session.  A batch  *)
(* names a file once, as a selection of the dialogue does, and 0 is no     *)
(* file: an offer of 0 says that nothing was offered yet.                  *)
(***************************************************************************)
EXTENDS RfSession, OscSender

CONSTANT Patient

ASSUME TransferAssumption ==
    /\ Patient \in BOOLEAN /\ Troubles \subseteq {"beat", "cancel", "damage"}
    /\ 0 \notin Files /\ Batches \subseteq Seq(Files)
    /\ \A b \in Batches : \A i, j \in 1..Len(b) : i # j => b[i] # b[j]
    /\ Length = Size /\ SBlock \in Nat \ {0}

transferVars == <<rfVars, senderVars>>

Init == RfInit /\ SenderInit

Quiet == toProgram = <<>> /\ toTerminal = <<>> /\ jobs = <<>>
         /\ phase \notin {"choosing", "sending"}

RfThread  == ThreadStep /\ UNCHANGED senderVars
RfRead    == ReadTick /\ UNCHANGED <<fileVars, senderVars>>
RfSignal  == SignalTick /\ UNCHANGED <<fileVars, senderVars>>
RfTimer   == (Patient => Quiet) /\ SessionTimer /\ UNCHANGED <<fileVars, senderVars>>
Interrupt == trouble = "none" /\ SigHandler /\ UNCHANGED <<fileVars, senderVars>>
PeerStep  == (SenderStep \/ (~signaled /\ Disturbance))
             /\ UNCHANGED <<engineVars, fileVars, bufferM, signaled>>

Next == RfThread \/ RfRead \/ RfSignal \/ RfTimer \/ Interrupt \/ PeerStep

ProgramFairness ==
    /\ WF_transferVars(RfThread)
    /\ SF_transferVars(RfTimer)
    /\ SF_transferVars(RfRead)
    /\ WF_transferVars(RfSignal)

\* A terminal that answers, whose user chooses.
PeerFairness ==
    WF_transferVars(SenderStep /\ UNCHANGED <<engineVars, fileVars, bufferM, signaled>>)

Spec == Init /\ [][Next]_transferVars /\ ProgramFairness /\ PeerFairness

Whole(f) == disk[f] = [len |-> Size[f], sound |-> TRUE]

-----------------------------------------------------------------------------
\* As long as the disk takes what is written and no package is damaged, a file
\* of some length that rf acknowledges is on it in full, each byte at its place:
\* over a resume from the part it proposed, and packages handled in whatever
\* state the ones before them led to.  (handleFileComplete acknowledges a file
\* whose size is not the announced one: behind a damaged package it does.)
AckedFilesAreWhole ==
    \A f \in done : (Size[f] > 0 /\ ~diskFails /\ trouble # "damage") => Whole(f)

\* Even if opening and writing fail, and what rf does then is to go on, and even
\* if a package does not decode or a block decodes to another content, nothing is
\* ever appended to an unsound part, at another place than it was sent for, or
\* with a content that is not the file's.
GrowsSoundly ==
    [][\A f \in Files : disk'[f].len > disk[f].len => disk'[f].sound]_transferVars

\* When nobody is late rf ends, and only a signal, the user, a damaged package
\* or the disk can keep a chosen file from being acknowledged and whole then: the
\* files chosen are those rf acknowledged and the one offered last.
TransferEnds ==
    <>(worker = "stopped"
       /\ \/ signaled \/ diskFails \/ trouble \in {"cancel", "damage"}
          \/ /\ left = <<>> /\ offer \in done \cup {0}
             /\ \A f \in done : Whole(f))

\* A signal ends the program with its terminal restored (deleteSelf), in whatever
\* state it arrives.
SignalEndsProgram == signaled ~> (worker = "stopped" /\ deleted)
=============================================================================
