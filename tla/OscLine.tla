------------------------------- MODULE OscLine -------------------------------
(***************************************************************************)
(* The terminal line between an OSC program and its terminal emulator, as  *)
(* sequences of whole packages (the tables of idl/OscPackage.fbs).         *)
(***************************************************************************)
EXTENDS Naturals, Sequences, SequencesExt, FiniteSetsExt

VARIABLES
    toProgram,   \* packages written by the terminal and not read by the program
    toTerminal   \* packages written by the program and not read by the terminal

lineVars == <<toProgram, toTerminal>>

\* A package that carries nothing the properties tell apart.
Plain(type) == [type |-> type]

\* The package at the head of what the terminal has to read is of these types.
Gets(types) ==
    toTerminal # <<>> /\ Head(toTerminal).type \in types /\ toTerminal' = Tail(toTerminal)
Says(ps) == toProgram' = toProgram \o ps
=============================================================================
