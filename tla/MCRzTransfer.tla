---------------------------- MODULE MCRzTransfer -----------------------------
(***************************************************************************)
(* Instances of RzTransfer for TLC: an empty file, one that ends with a    *)
(* full subpacket and one that does not; the disk may hold anything of one *)
(* of them.                                                                *)
(***************************************************************************)
EXTENDS RzTransfer

MCFiles   == {"empty", "full", "odd"}
MCSize    == [f \in MCFiles |-> CASE f = "empty" -> 0 [] f = "full" -> 4 [] f = "odd" -> 3]
MCBatches == {<<"odd", "empty", "full">>, <<"full", "odd">>, <<>>}

Nothing == [f \in MCFiles |-> [len |-> 0, sound |-> TRUE]]
Holding(f, len, sound) == [Nothing EXCEPT ![f] = [len |-> len, sound |-> sound]]
MCOnDisk ==
    {Nothing, Holding("full", 4, TRUE), Holding("full", 2, TRUE), Holding("odd", 4, FALSE)}
    \cup {Holding("odd", len, sound) : len \in 1..3, sound \in BOOLEAN}

Flavour(version, completes, farewell) ==
    [version |-> version, completes |-> completes, farewell |-> farewell]
PoliteFlavours == {Flavour(v, c, TRUE) : v \in {0, 1}, c \in BOOLEAN}
SilentFlavours == {Flavour(1, FALSE, FALSE)}
BrokenFlavours == {Flavour(1, TRUE, TRUE)}

\* Two files, and a part of one, sound or not, or all of it.
PairFiles   == {"full", "odd"}
PairSize    == [f \in PairFiles |-> IF f = "full" THEN 2 ELSE 3]
PairBatches == {<<"odd", "full">>}
PairOnDisk  ==
    {[f \in PairFiles |-> IF f = "odd" THEN had ELSE [len |-> 0, sound |-> TRUE]] :
        had \in {[len |-> 2, sound |-> FALSE], [len |-> 2, sound |-> TRUE], [len |-> 3, sound |-> TRUE]}}
=============================================================================
