--------------------------- MODULE GcgGame_proofs ---------------------------
(***************************************************************************)
(* Theorems about GcgGame: what parseGcg has read is a story (Gcg_proofs), *)
(* and what replayGcgHistory shows follows it.                             *)
(***************************************************************************)
EXTENDS GcgGame, Gcg_proofs

(* The inductive invariant: seen tells what the parser had around each      *)
(* record, and the frame stands at one of these places.                     *)
IInv ==
    /\ lines \in 0..MaxLines
    /\ Story(parse, seen) /\ Detailed(parse, seen)
    /\ replay # None => Follows(replay, parse, seen)

LEMMA IInvInit == Init => IInv
<1> SUFFICES ASSUME Init
             PROVE  IInv
    OBVIOUS
<1>1. lines \in 0..MaxLines
    BY LinesAssumption DEF Init
<1>2. Story(parse, seen)
    <2>1. seen = <<Shot(ParseInit)>> /\ parse = ParseInit
        BY DEF Init, Snapshot, Shot
    <2> QED
        BY ONLY <2>1, StoryInit
<1>3. Detailed(parse, seen)
    <2>1. seen = <<Shot(ParseInit)>> /\ parse = ParseInit
        BY DEF Init, Snapshot, Shot
    <2> QED
        BY ONLY <2>1, DetailedInit
<1> QED
    BY <1>1, <1>2, <1>3 DEF IInv, Init

LEMMA IInvRead ==
    ASSUME IInv, NEW l \in Lines, Reading, lines < MaxLines, lines' = lines + 1,
           parse' = ParseLine(parse, l), replay' = replay,
           seen' = IF l.kind \in MoveKinds /\ ~parse'.failed THEN Append(seen, Snapshot(parse'))
                   ELSE seen
    PROVE  IInv'
<1>1. Story(parse, seen) /\ Detailed(parse, seen) /\ ~parse.failed /\ WellFormed(l)
    BY LinesAssumption DEF IInv, Reading
<1>2. /\ Story(parse', SeenAfter(parse, seen, l)) /\ Detailed(parse', SeenAfter(parse, seen, l))
      /\ parse'.failed <=> LineThrows(parse, l)
    BY <1>1, StoryLine, DetailedLine
<1>3. seen' = SeenAfter(parse, seen, l)
    <2>1. Snapshot(parse') = Shot(parse')
        BY DEF Snapshot, Shot
    <2> QED
        BY <1>2, <2>1 DEF SeenAfter
<1>4. lines' \in 0..MaxLines
    BY LinesAssumption DEF IInv
<1>5. replay' = None
    BY DEF Reading
<1> QED
    BY <1>2, <1>3, <1>4, <1>5 DEF IInv

LEMMA IInvNext == IInv /\ [Next]_vars => IInv'
<1> SUFFICES ASSUME IInv, [Next]_vars
             PROVE  IInv'
    OBVIOUS
<1>1. ASSUME NEW l \in Lines, ReadPragma(l)
      PROVE  IInv'
    <2>1. /\ Reading /\ lines < MaxLines /\ lines' = lines + 1
          /\ parse' = ParseLine(parse, l) /\ replay' = replay /\ seen' = seen
          /\ l.kind \notin MoveKinds
        BY <1>1 DEF ReadPragma
    <2> QED
        BY <2>1, IInvRead
<1>2. ASSUME NEW l \in Lines, ReadMove(l)
      PROVE  IInv'
    <2>1. /\ Reading /\ lines < MaxLines /\ lines' = lines + 1
          /\ parse' = ParseLine(parse, l) /\ replay' = replay
          /\ seen' = IF l.kind \in MoveKinds /\ ~parse'.failed
                     THEN Append(seen, Snapshot(parse')) ELSE seen
        BY <1>2 DEF ReadMove
    <2> QED
        BY <2>1, IInvRead
<1>3. CASE EndOfFile
    <2>1. replay' = FrameInit(parse.players) /\ UNCHANGED <<lines, parse, seen>>
        BY <1>3 DEF EndOfFile
    <2>2. Follows(FrameInit(parse.players), parse, seen)
        BY FollowsInit DEF IInv
    <2> QED
        BY <2>1, <2>2 DEF IInv
<1>4. CASE ReplayRecord
    <2> DEFINE e == parse.history[replay.at + 1]
    <2>1. /\ replay # None /\ replay.at < Len(parse.history)
          /\ replay' = NextFrame(parse.players, replay, e)
          /\ UNCHANGED <<lines, parse, seen>>
        BY <1>4 DEF ReplayRecord
    <2>2. Follows(NextFrame(parse.players, replay, e), parse, seen)
        BY <2>1, FollowStep DEF IInv
    <2> QED
        BY <2>1, <2>2 DEF IInv
<1>5. CASE UNCHANGED vars
    BY <1>5 DEF vars, IInv
<1> QED
    BY <1>1, <1>2, <1>3, <1>4, <1>5 DEF Next

(* However a file is read, parseGcg's state tells a story: each record in    *)
(* its history leads from what the parser had before it to what it had after *)
(* it; and the replay never leaves that story.                               *)
THEOREM StoryTold == Spec => []IInv
<1> QED
    BY IInvInit, IInvNext, PTL DEF Spec

(* parseGcg and replayGcgHistory keep boards of tiles within the squares,   *)
(* integer scores, a player on turn that the file declares, and one         *)
(* snapshot around each record.                                             *)
THEOREM TypeCorrect == Spec => []TypeOK
<1>1. IInv => TypeOK
    <2> SUFFICES ASSUME IInv
                 PROVE  TypeOK
        OBVIOUS
    <2>1. /\ IsParse(parse) /\ Len(seen) = Len(parse.history) + 1 /\ lines \in 0..MaxLines
          /\ IsHistory(parse.history)
        BY DEF IInv, Story, StorySeen, IsParse
    <2>2. DOMAIN parse.history = 1..Len(parse.history) /\ Len(parse.history) \in Nat
        BY <2>1 DEF IsHistory, IsSeq
    <2>3. \A i \in DOMAIN parse.history : parse.history[i].move.kind \in MoveKinds
        BY <2>1, <2>2 DEF IsHistory, IsEntry
    <2>4. replay # None => IsBoard(replay.board) /\ replay.at \in 0..Len(parse.history)
        BY <2>2 DEF IInv, Follows, IsFrame, BoardOK, IsBoard
    <2> QED
        BY <2>1, <2>3, <2>4 DEF TypeOK, IsParse, BoardOK, IsBoard, Scores
<1> QED
    BY <1>1, StoryTold, PTL

(* replayGcgHistory has after each record the board and the scores that     *)
(* parseGcg had after it, and no record of a history that parseGcg accepted *)
(* makes it throw, so that the editor always has its frames.                *)
THEOREM ReplayCorrect == Spec => []ReplayFollows
<1>1. IInv => ReplayFollows
    <2> SUFFICES ASSUME IInv, replay # None
                 PROVE  /\ replay.board = seen[replay.at + 1].board
                        /\ replay.scores = seen[replay.at + 1].scores
                        /\ replay.at < Len(parse.history) =>
                               ~FrameThrows(replay, parse.history[replay.at + 1])
        BY DEF ReplayFollows
    <2>1. Follows(replay, parse, seen) /\ Story(parse, seen)
        BY DEF IInv
    <2> QED
        BY <2>1, FollowStep DEF Follows, SameGame
<1> QED
    BY <1>1, StoryTold, PTL

(* The last frame has the turn number and the scoreless turns that parseGcg *)
(* counts backwards from the last record, and the player it finds on turn   *)
(* when all players are declared first.                                     *)
THEOREM LastFrameCorrect == Spec => []LastFrameAgrees
<1>1. IInv => LastFrameAgrees
    <2> SUFFICES ASSUME IInv, Finished
                 PROVE  /\ FrameTurn(replay) = FinalTurn(parse)
                        /\ PlayersFirst /\ parse.current # None
                               => replay.current = parse.current
        BY DEF LastFrameAgrees
    <2> DEFINE h == parse.history
               n == Len(h)
    <2>1. /\ Story(parse, seen) /\ Follows(replay, parse, seen) /\ replay.at = n
          /\ n \in Nat /\ DOMAIN h = 1..n /\ Len(seen) = n + 1
        BY DEF IInv, Finished, Story, StorySeen, IsParse, IsHistory, IsSeq
    <2>2. FrameTurn(replay) = FinalTurn(parse)
        <3>1. Places(h) = PlacesTo(h, n)
            BY <2>1 DEF Places, PlacesTo
        <3>2. {i \in DOMAIN h : IsScoreless(h[i]) /\ \A j \in Places(h) : j < i}
                  = ScorelessTo(h, n)
            BY <2>1, <3>1 DEF PlacesTo, ScorelessTo
        <3>3. /\ replay.places = Cardinality(PlacesTo(h, n))
              /\ replay.scoreless = Cardinality(ScorelessTo(h, n))
            BY <2>1 DEF Follows
        <3> QED
            BY <3>1, <3>2, <3>3 DEF FrameTurn, FinalTurn, ScorelessTurns
    <2>3. ASSUME PlayersFirst, parse.current # None
          PROVE  replay.current = parse.current
        <3>1. PICK d \in 1..n : /\ LastDecision(h, n, d)
                                /\ parse.current = NextPlayer(seen[d + 1].players,
                                                              h[d].move.player)
            BY <2>1, <2>3 DEF Story, StoryTurn
        <3>2. PICK c \in 1..n : /\ LastDecision(h, n, c)
                                /\ replay.current = NextPlayer(parse.players, h[c].move.player)
            BY <2>1, <3>1 DEF Follows, TurnAt, LastDecision
        <3>3. c = d
            <4>1. ~(c < d)
                <5>1. c < d => d \in (c + 1)..n
                    BY <2>1
                <5> QED
                    BY <3>1, <3>2, <5>1 DEF LastDecision
            <4>2. ~(d < c)
                <5>1. d < c => c \in (d + 1)..n
                    BY <2>1
                <5> QED
                    BY <3>1, <3>2, <5>1 DEF LastDecision
            <4> QED
                BY <4>1, <4>2
        <3>4. seen[d + 1].players = parse.players
            <4>1. Len(seen) > 1 /\ 2 \in 1..Len(seen) /\ d + 1 \in 1..Len(seen) /\ 2 <= d + 1
                BY <2>1
            <4>2. /\ seen[2].players \subseteq seen[d + 1].players
                  /\ seen[d + 1].players \subseteq parse.players
                BY <2>1, <4>1 DEF Story, StorySeen
            <4> QED
                BY <2>3, <4>1, <4>2 DEF PlayersFirst
        <3> QED
            BY <3>1, <3>2, <3>3, <3>4
    <2> QED
        BY <2>2, <2>3
<1> QED
    BY <1>1, StoryTold, PTL

(* A phony challenge takes exactly the tiles and the score of the placement *)
(* it withdraws: board and scores are what they were before that placement. *)
THEOREM PhonyCorrect == Spec => []PhonyLeavesNoTrace
<1>1. IInv => PhonyLeavesNoTrace
    <2> DEFINE h == parse.history
    <2> SUFFICES ASSUME IInv, NEW i \in DOMAIN h, h[i].challenged
                 PROVE  /\ seen[i + 2].board = seen[i].board
                        /\ seen[i + 2].scores = seen[i].scores
        BY DEF PhonyLeavesNoTrace
    <2> DEFINE a == seen[i]
               b == seen[i + 1]
               c == seen[i + 2]
               m == h[i].move
               s == ComputedScore(a.board, m)
    <2>1. /\ Story(parse, seen) /\ i \in 1..Len(h) /\ Len(h) \in Nat
          /\ Len(seen) = Len(h) + 1 /\ IsEntry(h[i])
        BY DEF IInv, Story, StorySeen, IsParse, IsHistory, IsSeq
    <2>2. /\ i + 1 \in 1..Len(h) /\ h[i + 1].move.kind = "phony"
          /\ b.last # None /\ b.last.index = i
        BY <2>1 DEF Story, StoryChallenges
    <2>3. Recorded(a, i, m, PlayerBefore(h, i), b) /\ IsShot(a, i)
        BY <2>1 DEF Story, StoryRecords, StorySeen
    <2>4. Recorded(b, i + 1, h[i + 1].move, PlayerBefore(h, i + 1), c)
        <3>1. i + 1 + 1 = i + 2
            BY <2>1
        <3> QED
            BY <2>1, <2>2, <3>1 DEF Story, StoryRecords
    <2>5. PlayerBefore(h, i + 1) = m.player /\ i + 1 - 1 = i
        <3>1. i + 1 - 1 = i
            BY <2>1
        <3> QED
            BY <2>1, <3>1 DEF PlayerBefore
    <2> HIDE DEF a, b, c, m, h
    <2>6. /\ m.kind = "place" /\ ~PlaceThrows(a.board, m)
          /\ b.board = Placed(a.board, m)
          /\ b.scores = [a.scores EXCEPT ![m.player] = @ + s]
          /\ b.last.squares = NewSquares(a.board, m) /\ b.last.score = s
        BY <2>2, <2>3 DEF Recorded
    <2>7. /\ c.board = Without(b.board, b.last.squares)
          /\ c.scores = [b.scores EXCEPT ![m.player] = @ - b.last.score]
        BY <2>2, <2>4, <2>5 DEF Recorded
    <2>8. m.tiles \in Seq(Tile \cup {Dot}) /\ m.player \in Players
        BY <2>1, <2>6 DEF IsEntry, WellFormed, m
    <2>9. BoardOK(a.board) /\ a.scores \in [Players -> Int]
        BY <2>3 DEF IsShot
    <2>10. Without(Placed(a.board, m), NewSquares(a.board, m)) = a.board /\ s \in Int
        BY ONLY <2>6, <2>8, <2>9, PlacedBoard
    <2>11. c.board = a.board
        BY <2>6, <2>7, <2>10
    <2> HIDE DEF s
    <2>12. c.scores = a.scores
        <3>1. c.scores = [b.scores EXCEPT ![m.player] = @ - s]
            BY <2>6, <2>7
        <3>2. a.scores[m.player] \in Int /\ a.scores[m.player] + s - s = a.scores[m.player]
            BY <2>8, <2>9, <2>10
        <3>3. b.scores \in [Players -> Int] /\ b.scores[m.player] = a.scores[m.player] + s
            BY ONLY <2>6, <2>8, <2>9, <2>10
        <3>4. c.scores \in [Players -> Int] /\ c.scores[m.player] = a.scores[m.player]
            BY ONLY <2>8, <2>10, <3>1, <3>2, <3>3
        <3>5. \A x \in Players : c.scores[x] = a.scores[x]
            BY ONLY <2>6, <2>8, <2>9, <3>1, <3>3, <3>4
        <3> QED
            BY ONLY <2>9, <3>4, <3>5
    <2> QED
        BY <2>11, <2>12 DEF a, b, c, m, h
<1> QED
    BY <1>1, StoryTold, PTL

(* The file that exportGcg makes of a game that parseGcg read is read again *)
(* with the same board, scores and records, and with the same final rack    *)
(* when the players come first, if every end bonus has its score.           *)
THEOREM RoundTripCorrect == Spec => []RoundTrip
<1>1. IInv => RoundTrip
    <2> DEFINE h == parse.history
               n == Len(h)
               rack == FinalRack(parse)
               again == ParseText(Exported)
    <2> SUFFICES ASSUME IInv, ~parse.failed,
                        \A i \in DOMAIN h : h[i].move.kind = "end" => h[i].move.score # None
                 PROVE  /\ ~again.failed
                        /\ again.board = parse.board /\ again.scores = parse.scores
                        /\ again.history = WithoutEndRacks(h)
                        /\ PlayersFirst /\ parse.current # None => FinalRack(again) = rack
        BY DEF RoundTrip
    <2>1. /\ Story(parse, seen) /\ Detailed(parse, seen) /\ IsParse(parse)
          /\ IsHistory(h) /\ n \in Nat /\ DOMAIN h = 1..n /\ Len(seen) = n + 1
        BY DEF IInv, Story, StorySeen, IsParse, IsHistory, IsSeq
    <2>2. rack \in Rack
        <3>1. 0 \in Rack
            BY DEF Rack
        <3> QED
            BY <2>1, <3>1 DEF IsParse, FinalRack
    <2>3. AllRereadable(h, n)
        BY <2>1 DEF AllRereadable, Rereadable
    <2>4. /\ ~again.failed /\ again.board = parse.board /\ again.scores = parse.scores
          /\ IsSeq(again.history) /\ Len(again.history) = n
          /\ \A i \in 1..n :
                 again.history[i] = ReadEntry(h[i], h[i].note, h[i].challenged)
          /\ SameTurn(again, parse.players, h, n) /\ again.incomplete = 0
          /\ \A q \in Players :
                 again.racks[q] = IF rack # 0 /\ q = parse.current /\ q \in parse.players
                                  THEN rack ELSE 0
        <3>1. again = ParseText(ExportText(parse.players, h, rack, parse.current))
            BY DEF Exported
        <3> HIDE DEF again, rack
        <3>2. Story(parse, seen) /\ Detailed(parse, seen)
            BY <2>1
        <3>3. /\ AllRereadable(parse.history, Len(parse.history))
              /\ again = ParseText(ExportText(parse.players, parse.history, rack, parse.current))
            BY <2>3, <3>1
        <3>4. SameAgain(again, parse, rack, parse.current)
            BY ONLY <2>2, <3>2, <3>3, ReadAgain
        <3> QED
            BY <3>4 DEF SameAgain
    <2> HIDE DEF again, rack
    <2>5. again.history = WithoutEndRacks(h)
        <3>1. again.history = [i \in 1..n |-> again.history[i]]
            BY <2>4 DEF IsSeq
        <3>2. ASSUME NEW i \in 1..n
              PROVE  again.history[i] = IF h[i].move.kind = "end"
                                        THEN [h[i] EXCEPT !.move.rack = 0] ELSE h[i]
            <4>1. /\ IsEntry(h[i])
                  /\ again.history[i] = [h[i] EXCEPT !.move = Kept(h[i].move)]
                BY <2>1, <2>4 DEF IsHistory, IsEntry, ReadEntry
            <4>2. CASE h[i].move.kind = "end"
                BY <4>1, <4>2 DEF Kept
            <4>3. CASE h[i].move.kind # "end"
                <5>1. Kept(h[i].move) = h[i].move
                    BY <4>3 DEF Kept
                <5> QED
                    BY <4>1, <4>3, <5>1 DEF IsEntry
            <4> QED
                BY <4>2, <4>3
        <3> QED
            BY <2>1, <3>1, <3>2 DEF WithoutEndRacks
    <2>6. ASSUME PlayersFirst, parse.current # None
          PROVE  FinalRack(again) = rack
        <3>1. PICK d \in 1..n : /\ LastDecision(h, n, d)
                                /\ parse.current = NextPlayer(seen[d + 1].players,
                                                              h[d].move.player)
            BY <2>6 DEF IInv, Story, StoryTurn
        <3>2. seen[d + 1].players = parse.players
            <4>1. Len(seen) > 1 /\ 2 \in 1..Len(seen) /\ d + 1 \in 1..Len(seen) /\ 2 <= d + 1
                BY <2>1
            <4>2. /\ seen[2].players \subseteq seen[d + 1].players
                  /\ seen[d + 1].players \subseteq parse.players
                BY <2>1, <4>1 DEF Story, StorySeen
            <4> QED
                BY <2>6, <4>1, <4>2 DEF PlayersFirst
        <3>3. again.current = parse.current
            BY <2>4, <3>1, <3>2 DEF SameTurn
        <3>4. parse.current \in parse.players /\ parse.players \in SUBSET Players
            <4>1. h[d].move.player \in seen[d + 1].players
                BY <2>1 DEF Story, StoryRecords, Recorded
            <4>2. parse.players \in SUBSET Players
                BY <2>1 DEF IsParse
            <4> QED
                BY <3>1, <3>2, <4>1, <4>2, NextPlayerTyped
        <3>5. again.racks[parse.current] = IF rack # 0 THEN rack ELSE 0
            BY <2>4, <3>4
        <3> QED
            BY <2>4, <2>6, <3>3, <3>5 DEF FinalRack
    <2> QED
        BY <2>4, <2>5, <2>6
<1> QED
    BY <1>1, StoryTold, PTL
=============================================================================
