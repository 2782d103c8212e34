---------------------------- MODULE MCSzTransfer -----------------------------
(***************************************************************************)
(* Instances of SzTransfer for TLC: an empty file, one that ends with a    *)
(* full subpacket and one that does not; the terminal may have anything of *)
(* one of them.                                                            *)
(***************************************************************************)
EXTENDS SzTransfer

MCFiles    == {"empty", "full", "odd"}
MCFileList == <<"odd", "empty", "full">>
MCSize     == [f \in MCFiles |-> CASE f = "empty" -> 0 [] f = "full" -> 4 [] f = "odd" -> 3]

\* A part of f, sound or not, as long as f, or longer; nothing of the others.
Holding(f, len, sound) ==
    [g \in MCFiles |-> IF g = f THEN [len |-> len, sound |-> sound]
                       ELSE [len |-> 0, sound |-> TRUE]]
MCHoldings ==
    {Holding("empty", 0, TRUE), Holding("empty", 1, FALSE)}
    \cup {Holding("odd", len, sound) : len \in 1..3, sound \in BOOLEAN}
    \cup {Holding("full", len, TRUE) : len \in {2, 4}}
    \cup {Holding("odd", 4, FALSE)}

\* Two files, and a part of one, sound or not.
PairFiles    == {"full", "odd"}
PairFileList == <<"full", "odd">>
PairSize     == [f \in PairFiles |-> MCSize[f]]
PairHoldings ==
    {[f \in PairFiles |-> IF f = "odd" THEN [len |-> 2, sound |-> sound]
                          ELSE [len |-> 0, sound |-> TRUE]] : sound \in BOOLEAN}
=============================================================================
