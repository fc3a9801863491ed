---------------------------- MODULE MCGcgEditor ----------------------------
EXTENDS GcgEditor, TLC

T(letter) == [letter |-> letter, blank |-> FALSE]

Move(kind, player, rack, score) ==
    [kind |-> kind, player |-> player, rack |-> rack, score |-> score, total |-> None]

Placement(player, rack, at, vertical, tiles) ==
    [kind |-> "place", player |-> player, rack |-> rack, at |-> at, vertical |-> vertical,
     tiles |-> tiles, score |-> None, total |-> None]

Moves ==
    {Placement(1, 7, <<7, 7>>, FALSE, <<T("A"), T("D")>>),
     Placement(2, 8, <<7, 7>>, TRUE, <<Dot, [letter |-> "Q", blank |-> TRUE]>>),
     Move("pass", 2, 3, None), Move("phony", 1, 7, None),
     Move("time", 1, 0, -9), Move("end", 2, 2, None) @@ [unused |-> 2],
     Move("end", 1, 0, 4) @@ [unused |-> 2]}

Heading == <<[kind |-> "player", id |-> 1], [kind |-> "player", id |-> 2]>>

Endings == {<<>>, <<[kind |-> "rack", id |-> 1, rack |-> 5]>>,
            <<[kind |-> "rack", id |-> 2, rack |-> 6]>>,
            <<[kind |-> "incomplete", rack |-> 4]>>, <<[kind |-> "incomplete", rack |-> 8]>>}

(* An empty file, or two players, up to three records, a final rack or none. *)
ImportedGames ==
    {<<>>} \cup {Heading \o moves \o ending :
                    moves \in UNION {[1..n -> Moves] : n \in 0..3}, ending \in Endings}

EditedSquare == [square |-> <<0, 0>>, tile |-> T("D")]
=============================================================================
