----------------------------- MODULE MCGcgGame -----------------------------
EXTENDS GcgGame

T(letter) == [letter |-> letter, blank |-> FALSE]
Blank(letter) == [letter |-> letter, blank |-> TRUE]

Move(kind, player, rack, score, total) ==
    [kind |-> kind, player |-> player, rack |-> rack, score |-> score, total |-> total]

Placement(player, at, vertical, tiles, score) ==
    [kind |-> "place", player |-> player, rack |-> 7, at |-> at, vertical |-> vertical,
     tiles |-> tiles, score |-> score, total |-> None]

(* 8H AD, H8 with a play-through dot and a blank, both again with real     *)
(* tiles, one move off the first word and one far from it.                  *)
PlacementLines ==
    {Placement(1, <<7, 7>>, FALSE, <<T("A"), T("D")>>, None),
     Placement(2, <<7, 7>>, TRUE, <<Dot, Blank("Q")>>, 2),
     Placement(1, <<8, 7>>, FALSE, <<T("Q"), T("A")>>, None),
     Placement(2, <<0, 14>>, FALSE, <<T("A"), T("D")>>, None),
     Placement(2, <<0, 12>>, FALSE, <<T("A"), T("D")>>, None)}

OtherMoves ==
    {Move("pass", 1, 7, None, None), Move("phony", 2, 7, None, None),
     Move("phony", 1, 7, None, 0), Move("time", 1, 0, -1, None),
     Move("time", 2, 7, None, None),
     [kind |-> "exchange", player |-> 2, rack |-> 7, count |-> 2, score |-> None, total |-> 0],
     [kind |-> "adjustment", player |-> 2, rack |-> 7, amount |-> 5, total |-> 5],
     [kind |-> "end", player |-> 1, rack |-> 2, unused |-> 2, score |-> -2, total |-> None]}

Pragmas ==
    {[kind |-> "player", id |-> 1], [kind |-> "player", id |-> 2],
     [kind |-> "rack", id |-> 1, rack |-> 7], [kind |-> "incomplete", rack |-> 3],
     [kind |-> "note", text |-> "n"]}

(* The scores of gcg.test.ts:19, 65 and 166: DISRATE at 8D, then a blank A  *)
(* above the D, and a Q above the I.                                        *)
Word8D == [i \in 1..7 |-> T(<<"D", "I", "S", "R", "A", "T", "E">>[i])]
Board8D == Placed(EmptyBoard, Placement(1, <<7, 3>>, FALSE, Word8D, None))

ASSUME ScoresOfTheTests ==
    /\ ComputedScore(EmptyBoard, Placement(1, <<7, 3>>, FALSE, Word8D, None)) = 70
    /\ ComputedScore(Board8D, Placement(1, <<6, 3>>, TRUE, <<Blank("A"), Dot>>, None)) = 2
    /\ ComputedScore(Board8D, Placement(1, <<6, 4>>, TRUE, <<T("Q"), Dot>>, None)) = 11

GameLines == PlacementLines \cup OtherMoves \cup Pragmas

(* A bonus without its score, which only the long form may omit. *)
EndLines ==
    {[kind |-> "player", id |-> 1],
     [kind |-> "end", player |-> 1, rack |-> 2, unused |-> 2, score |-> None, total |-> None],
     Move("pass", 1, 7, None, None), [kind |-> "note", text |-> "n"]}
=============================================================================
