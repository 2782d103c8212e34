----------------------------- MODULE OscReceiver -----------------------------
(***************************************************************************)
(* The terminal emulator sf talks to, as a receiver of files (external;    *)
(* modelled from the packages OscSession sends and expects, and from how   *)
(* rf handles the same ones).  It may hold a part of a file, ends the      *)
(* session when its user cancels it, and answers every package that wants  *)
(* an answer.                                                              *)
(***************************************************************************)
EXTENDS OscLine

CONSTANTS
    Holdings,   \* what it may hold before, each [f |-> [len, sound]]
    Troubles    \* what may disturb the session, once: "beat", "cancel", "damage"

VARIABLES
    store,      \* store[f]: what it has of file f, [len, sound]
    done,       \* the files it was told are complete
    over,       \* it has said, or was told, goodbye
    trouble     \* what has disturbed the session, or "none"

receiverVars == <<store, done, over, trouble>>

ReceiverInit ==
    store \in Holdings /\ done = {} /\ over = FALSE /\ trouble = "none"

Package == Head(toTerminal)

GetsInitReq ==
    /\ Gets({"InitReq"})
    /\ Says(<<Plain("InitRsp")>>)
    /\ UNCHANGED receiverVars

GetsFileInfo ==
    /\ Gets({"FileInfo"})
    /\ Says(<<[type |-> "FileProposeStart", id |-> Package.id,
               len |-> store[Package.id].len, sound |-> store[Package.id].sound]>>)
    /\ UNCHANGED receiverVars

\* The file is written anew, or from the end of the part that was proposed.
GetsFileInitPos ==
    /\ Gets({"FileInitPos"})
    /\ store' = [store EXCEPT ![Package.id] =
                     IF Package.pos = 0 THEN [len |-> 0, sound |-> TRUE] ELSE @]
    /\ UNCHANGED <<toProgram, done, over, trouble>>

GetsFileContent ==
    /\ Gets({"FileContent"})
    /\ store' = [store EXCEPT ![Package.id] =
                     [len |-> @.len + Package.len, sound |-> @.sound /\ @.len = Package.pos]]
    /\ UNCHANGED <<toProgram, done, over, trouble>>

GetsFileComplete ==
    /\ Gets({"FileComplete"})
    /\ done' = done \cup {Package.id}
    /\ Says(<<[type |-> "FileCompleteAck", id |-> Package.id]>>)
    /\ UNCHANGED <<store, over, trouble>>

GetsBye ==
    /\ Gets({"Bye"})
    /\ over' = TRUE
    /\ Says(<<Plain("ByeBye")>>)
    /\ UNCHANGED <<store, done, trouble>>

GetsOther ==
    /\ Gets({"SetClientWorkingDir", "EmptyDir", "ByeBye"})
    /\ UNCHANGED <<toProgram, receiverVars>>

\* The session is disturbed by t, and by nothing else.
Disturbed(t) ==
    /\ t \in Troubles /\ trouble = "none" /\ ~over
    /\ trouble' = t

\* Its user ends the session.
Cancel ==
    /\ Disturbed("cancel")
    /\ over' = TRUE
    /\ Says(<<Plain("ErrMsg"), Plain("Bye")>>)
    /\ UNCHANGED <<toTerminal, store, done>>

Heartbeat ==
    /\ Disturbed("beat")
    /\ Says(<<Plain("Heartbeat")>>)
    /\ UNCHANGED <<toTerminal, store, done, over>>

\* The next package sf reads is damaged.
Damage ==
    /\ Disturbed("damage") /\ toProgram # <<>>
    /\ toProgram' = <<Plain("Broken")>> \o Tail(toProgram)
    /\ UNCHANGED <<toTerminal, store, done, over>>

ReceiverAnswers ==
    \/ GetsInitReq \/ GetsFileInfo \/ GetsFileInitPos \/ GetsFileContent
    \/ GetsFileComplete \/ GetsBye \/ GetsOther
Disturbance == Cancel \/ Heartbeat \/ Damage
=============================================================================
