------------------------------ MODULE GcgGame ------------------------------
(***************************************************************************)
(* A GCG file is read line by line (parseGcg), and the game it holds is    *)
(* then replayed record by record (replayGcgHistory) on a board, with      *)
(* scores and a rotation of its own.  The two must tell the same story, and *)
(* exportGcg must write a file that tells it again.                        *)
(***************************************************************************)
EXTENDS Gcg

CONSTANTS Lines,    \* the lines a file is made of
          MaxLines  \* bound on the lines of a file

ASSUME LinesAssumption == MaxLines \in Nat /\ \A l \in Lines : WellFormed(l)

VARIABLES
    lines,   \* number of lines read
    parse,   \* what parseGcg has made of them
    replay,  \* the last frame replayGcgHistory has made, None while reading
    seen     \* history: what the parser had before the first and after each record

vars == <<lines, parse, replay, seen>>

Snapshot(p) == [board |-> p.board, scores |-> p.scores, players |-> p.players, last |-> p.last]

IsBoard(b) == DOMAIN b \subseteq Square /\ \A s \in DOMAIN b : b[s] \in Tile
Scores == [Players -> Int]

TypeOK ==
    /\ lines \in 0..MaxLines
    /\ parse.players \subseteq Players
    /\ IsBoard(parse.board) /\ parse.scores \in Scores
    /\ parse.current \in Players \cup {None}
    /\ Len(seen) = Len(parse.history) + 1
    /\ \A i \in DOMAIN parse.history : parse.history[i].move.kind \in MoveKinds
    /\ replay # None => IsBoard(replay.board) /\ replay.at \in 0..Len(parse.history)

Init ==
    /\ lines = 0
    /\ parse = ParseInit
    /\ replay = None
    /\ seen = <<Snapshot(ParseInit)>>

Reading == replay = None /\ ~parse.failed

ReadPragma(l) ==
    /\ Reading /\ lines < MaxLines
    /\ l.kind \notin MoveKinds
    /\ lines' = lines + 1
    /\ parse' = ParseLine(parse, l)
    /\ UNCHANGED <<replay, seen>>

ReadMove(l) ==
    /\ Reading /\ lines < MaxLines
    /\ l.kind \in MoveKinds
    /\ lines' = lines + 1
    /\ parse' = ParseLine(parse, l)
    /\ seen' = IF parse'.failed THEN seen ELSE Append(seen, Snapshot(parse'))
    /\ UNCHANGED replay

EndOfFile ==
    /\ Reading
    /\ replay' = FrameInit(parse.players)
    /\ UNCHANGED <<lines, parse, seen>>

ReplayRecord ==
    /\ replay # None /\ replay.at < Len(parse.history)
    /\ LET e == parse.history[replay.at + 1] IN
       /\ ~FrameThrows(replay, e)
       /\ replay' = NextFrame(parse.players, replay, e)
    /\ UNCHANGED <<lines, parse, seen>>

Next ==
    \/ \E l \in Lines : ReadPragma(l) \/ ReadMove(l)
    \/ EndOfFile
    \/ ReplayRecord

Spec == Init /\ [][Next]_vars

-----------------------------------------------------------------------------
(* Properties *)

Finished == replay # None /\ replay.at = Len(parse.history)

(* replayGcgHistory shows after each record what parseGcg had after it, and *)
(* never throws on a history that parseGcg accepted.                        *)
ReplayFollows ==
    replay # None =>
        /\ replay.board = seen[replay.at + 1].board
        /\ replay.scores = seen[replay.at + 1].scores
        /\ replay.at < Len(parse.history) =>
               ~FrameThrows(replay, parse.history[replay.at + 1])

(* The players were all declared before the first record. *)
PlayersFirst == Len(seen) > 1 => seen[2].players = parse.players

(* The last frame, whose board, scores and turn the editor shows, agrees    *)
(* with the turn parseGcg computes backwards from the last record and, when *)
(* the players come first, with the player it finds on turn.                *)
LastFrameAgrees ==
    Finished =>
        /\ FrameTurn(replay) = FinalTurn(parse)
        /\ PlayersFirst /\ parse.current # None => replay.current = parse.current

(* A placement that was challenged off leaves the board and the scores as   *)
(* they were before it.                                                     *)
PhonyLeavesNoTrace ==
    \A i \in DOMAIN parse.history :
        parse.history[i].challenged =>
            /\ seen[i + 2].board = seen[i].board
            /\ seen[i + 2].scores = seen[i].scores

Exported == ExportText(parse.players, parse.history, FinalRack(parse), parse.current)

WithoutEndRacks(history) ==
    [i \in DOMAIN history |->
        IF history[i].move.kind = "end" THEN [history[i] EXCEPT !.move.rack = 0]
                                        ELSE history[i]]

(* A file that was read and exported is read again with the same board,     *)
(* scores and records, but for the racks of end bonuses, and with the same  *)
(* final rack when the players come first.  (A bonus needs its score, see   *)
(* ExportIsRead.)                                                           *)
RoundTrip ==
    LET again == ParseText(Exported) IN
    /\ ~parse.failed
    /\ \A i \in DOMAIN parse.history :
           parse.history[i].move.kind = "end" => parse.history[i].move.score # None
    => /\ ~again.failed
       /\ again.board = parse.board /\ again.scores = parse.scores
       /\ again.history = WithoutEndRacks(parse.history)
       /\ PlayersFirst /\ parse.current # None => FinalRack(again) = FinalRack(parse)

(* gcg.test.ts:85-104: "round-trips its supported semantic records          *)
(* deterministically".                                                      *)
ExportIsRead == ~parse.failed => ~ParseText(Exported).failed

(* gcg.ts:538-539: "placement is disconnected from the existing board" is   *)
(* the warning for a placement that touches no tile that lay there before.  *)
DisconnectedIsReported ==
    \A i \in DOMAIN parse.history :
        LET m == parse.history[i].move IN
        /\ m.kind = "place" /\ seen[i].board # EmptyBoard
        /\ \A j \in DOMAIN m.tiles :
               ({SquareOf(m, j)} \cup Neighbours(SquareOf(m, j)))
                   \cap DOMAIN seen[i].board = {}
        => "disconnected" \in parse.warnings
=============================================================================
