----------------------------- MODULE MCRfTransfer ----------------------------
(***************************************************************************)
(* An instance of RfTransfer for TLC: a file of two blocks and a short     *)
(* one; the disk may hold anything of the longer one.                      *)
(***************************************************************************)
EXTENDS RfTransfer

MCFiles   == {1, 2}
MCSize    == <<3, 1>>
MCBatches == {<<1, 2>>, <<>>}
MCOnDisk  ==
    {<<[len |-> n, sound |-> s], [len |-> 0, sound |-> TRUE]>> : n \in {2, 3}, s \in BOOLEAN}
    \cup {<<[len |-> n, sound |-> FALSE], [len |-> 0, sound |-> TRUE]>> : n \in {4}}
=============================================================================
