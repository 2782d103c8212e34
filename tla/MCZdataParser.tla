---------------------------- MODULE MCZdataParser ----------------------------
(***************************************************************************)
(* Instances of ZdataParser for TLC: frames whose subpackets are full,     *)
(* short or empty, with data and CRC bytes that are escaped.               *)
(***************************************************************************)
EXTENDS ZdataParser

Sub(data, end, hidden) == [data |-> data, end |-> end, hidden |-> hidden]

FullData == {<<Data(1), Data(2)>>, <<ZDLE, Data(1)>>, <<Data(1), ZDLE>>, <<ZDLE, ZDLE>>}
LastData == {<<>>, <<Data(3)>>, <<ZDLE>>, <<Data(3), ZDLE>>}

GoodFrames ==
    {<<Sub(last, "ZCRCE", h)>> : last \in LastData, h \in {{}, {4}, 1..4}}
    \cup {<<Sub(full, "ZCRCG", h), Sub(last, "ZCRCE", {1})>> :
              full \in FullData, last \in LastData, h \in {{}, {1, 4}}}
    \cup {<<Sub(<<Data(1), ZDLE>>, "ZCRCG", {4}), Sub(<<ZDLE, Data(2)>>, "ZCRCG", {}),
       Sub(<<Data(3)>>, "ZCRCE", {1})>>}

ZackFrames ==
    {<<Sub(<<Data(1), Data(2)>>, "ZCRCQ", {}), Sub(<<Data(3)>>, "ZCRCE", {})>>}

\* Frames for a line that damages them: a regular one, one of a single ZCRCW
\* subpacket, one whose first subpacket is short.
FragileFrames ==
    {<<Sub(<<Data(1), ZDLE>>, "ZCRCG", {4}), Sub(<<Data(3)>>, "ZCRCE", {1})>>,
     <<Sub(<<Data(1), Data(2)>>, "ZCRCW", {})>>,
     <<Sub(<<Data(1)>>, "ZCRCG", {}), Sub(<<Data(3)>>, "ZCRCE", {})>>}

AllFrames == GoodFrames \cup FragileFrames
=============================================================================
