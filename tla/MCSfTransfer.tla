----------------------------- MODULE MCSfTransfer ----------------------------
(***************************************************************************)
(* An instance of SfTransfer for TLC: an empty file, one that ends with a  *)
(* full block and one that does not; the terminal may hold anything of one *)
(* of them.                                                                *)
(***************************************************************************)
EXTENDS SfTransfer

MCFiles == {1, 2, 3}
MCList  == <<1, 2, 3>>
MCSize  == <<1, 0, 4>>

Nothing == [f \in MCFiles |-> [len |-> 0, sound |-> TRUE]]
Holding(f, len, sound) == [Nothing EXCEPT ![f] = [len |-> len, sound |-> sound]]
MCHoldings ==
    {Nothing, Holding(1, 1, TRUE), Holding(1, 1, FALSE), Holding(3, 2, TRUE)}
=============================================================================
