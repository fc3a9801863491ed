-------------------------------- MODULE Gcg --------------------------------
(***************************************************************************)
(* The GCG adapter (product/shared/gcg.ts), shared by the editor and the   *)
(* import service: parseGcg reads a game line by line, replayGcgHistory    *)
(* plays its records again, exportGcg writes them back.  Operators only:   *)
(* GcgGame and GcgEditor make state machines of them.                      *)
(*                                                                         *)
(* A player is its id, which stands for its abbreviation and name too.  A  *)
(* rack, and a set of unused or exchanged tiles, is its number of tiles, 0 *)
(* when empty.  A line is the record its tokens parse to; a line of other  *)
(* syntax throws like any other that Throws.  Title, description, lexicon  *)
(* and encoding pragmas change nothing below and are left out.             *)
(***************************************************************************)
EXTENDS Integers, FiniteSets, Sequences, FiniteSetsExt, SequencesExt

CONSTANTS Letters,       \* letters of the tiles in play, a subset of A to Z
          MaxPlayers,    \* MAX_GCG_PLAYERS
          MaxRecords,    \* MAX_GCG_RECORDS
          MaxScoreless,  \* the cap of scorelessTurns, 6
          None,          \* undefined or null
          Dot            \* the play-through dot

ASSUME GcgAssumption ==
    /\ MaxPlayers \in Nat \ {0} /\ MaxRecords \in Nat /\ MaxScoreless \in Nat
    /\ None \notin Int /\ Dot \notin [letter : Letters, blank : BOOLEAN]

Players == 1..MaxPlayers
Square  == (0..14) \X (0..14)
Center  == <<7, 7>>
Tile    == [letter : Letters, blank : BOOLEAN]
Rack    == 0..15

(* What lastPlacement holds, in parseGcg and in replayGcgHistory. *)
LastPlacement == [index : Nat, squares : SUBSET Square, score : Int]
LastPlaced    == [index : Nat, squares : SUBSET Square, player : Players, score : Int]

ASSUME NoneAssumption == None \notin LastPlacement \cup LastPlaced

-----------------------------------------------------------------------------
(* The board: a function from the occupied squares to their tiles *)

EmptyBoard == [s \in {} |-> Dot]

Along(s, vertical, k) ==
    IF vertical THEN <<s[1] + k, s[2]>> ELSE <<s[1], s[2] + k>>

Neighbours(s) == {Along(s, v, k) : v \in BOOLEAN, k \in {-1, 1}}

Without(b, squares) == [s \in DOMAIN b \ squares |-> b[s]]

(* The premium squares, by their distances from the nearest edges. *)
Edges(s) == {IF s[i] <= 7 THEN s[i] ELSE 14 - s[i] : i \in {1, 2}}

LetterMultiplier(s) ==
    CASE Edges(s) \in {{1, 5}, {5}} -> 3
      [] Edges(s) \in {{0, 3}, {2, 6}, {3, 7}, {6}} -> 2
      [] OTHER -> 1

WordMultiplier(s) ==
    CASE Edges(s) \in {{0}, {0, 7}} -> 3
      [] Edges(s) \in {{1}, {2}, {3}, {4}, {7}} -> 2
      [] OTHER -> 1

TileValue(t) ==
    CASE t.blank -> 0
      [] t.letter \in {"D", "G"} -> 2
      [] t.letter \in {"B", "C", "M", "P"} -> 3
      [] t.letter \in {"F", "H", "V", "W", "Y"} -> 4
      [] t.letter = "K" -> 5
      [] t.letter \in {"J", "X"} -> 8
      [] t.letter \in {"Q", "Z"} -> 10
      [] OTHER -> 1

(* collectWord: the unbroken run of tiles through s. *)
Word(b, s, vertical) ==
    LET Unbroken(k) == \A j \in (IF k < 0 THEN k..0 ELSE 0..k) :
                           Along(s, vertical, j) \in DOMAIN b
    IN {Along(s, vertical, k) : k \in {k \in -14..14 : Unbroken(k)}}

WordScore(b, word, new) ==
    MapThenSumSet(LAMBDA s : TileValue(b[s]) * (IF s \in new THEN LetterMultiplier(s) ELSE 1),
                  word)
        * FoldSet(LAMBDA s, product : WordMultiplier(s) * product, 1, word \cap new)

(* scorePlacement: the main word, the cross words, the bonus for a full rack. *)
PlacementScore(b, new, at, vertical) ==
    LET Scored(word) == IF Cardinality(word) > 1 THEN WordScore(b, word, new) ELSE 0 IN
    Scored(Word(b, at, vertical))
        + MapThenSumSet(LAMBDA s : Scored(Word(b, s, ~vertical)), new)
        + (IF Cardinality(new) = 7 THEN 50 ELSE 0)

-----------------------------------------------------------------------------
(* replayPlace, on the board b for the placement m *)

SquareOf(m, i) == Along(m.at, m.vertical, i - 1)

NewSquares(b, m) == {SquareOf(m, i) : i \in DOMAIN m.tiles} \ DOMAIN b

NeverOff(s) == FALSE  \* mutant: a placement may run over the edge
OffBoard(s) == s \notin Square

PlaceThrows(b, m) ==
    \/ \E i \in DOMAIN m.tiles :
        LET s == SquareOf(m, i) IN
        \/ OffBoard(s)
        \/ m.tiles[i] = Dot /\ s \notin DOMAIN b
        \/ m.tiles[i] # Dot /\ s \in DOMAIN b /\ b[s].letter # m.tiles[i].letter
    \/ NewSquares(b, m) = {}

Placed(b, m) ==
    [s \in DOMAIN b \cup NewSquares(b, m) |->
        IF s \in DOMAIN b THEN b[s]
        ELSE m.tiles[CHOOSE i \in DOMAIN m.tiles : SquareOf(m, i) = s]]

ComputedScore(b, m) ==
    PlacementScore(Placed(b, m), NewSquares(b, m), m.at, m.vertical)

(* The neighbours are looked up on a board that holds the tiles placed so   *)
(* far by the same move.                                                    *)
TouchesExisting(b, m) ==
    \E i \in DOMAIN m.tiles :
        \/ SquareOf(m, i) \in DOMAIN b
        \/ \E s \in Neighbours(SquareOf(m, i)) :
            s \in DOMAIN b \cup {SquareOf(m, j) : j \in 1..i}

PlacementWarnings(b, m) ==
    CASE b = EmptyBoard -> IF Center \in NewSquares(b, m) THEN {} ELSE {"opening"}
      [] OTHER -> IF TouchesExisting(b, m) THEN {} ELSE {"disconnected"}

-----------------------------------------------------------------------------
(* Lines and records *)

DecisionKinds == {"place", "pass", "exchange"}
MoveKinds == DecisionKinds \cup {"phony", "adjustment", "time", "end"}

(* What the syntax of a line ensures: the tiles of a placement              *)
(* (parsePrettyTiles), signed numbers (parseSignedInteger) and the fields   *)
(* of an end bonus, which exportGcg changes.                                *)
WellFormed(l) ==
    /\ l.kind = "place" => l.tiles \in Seq(Tile \cup {Dot})
    /\ l.kind = "adjustment" => l.amount \in Int
    /\ l.kind \in {"time", "end"} => l.score \in Int \cup {None}
    /\ l.kind = "end" => DOMAIN l = {"kind", "player", "rack", "unused", "score", "total"}

IsDecision(e)  == e.move.kind \in DecisionKinds
IsScoreless(e) == e.move.kind \in {"pass", "exchange"}

Record(m, computed) ==
    [move |-> m, note |-> None, challenged |-> FALSE, computed |-> computed]

(* advancePlayer, in the order of ids *)
NextPlayer(players, p) ==
    LET later == {q \in players : q > p} IN
    IF later = {} THEN Min(players) ELSE Min(later)

(* What a record that is not a placement adds to its player's score. *)
ScoreDelta(m) ==
    CASE m.kind = "adjustment" -> m.amount
      [] m.kind \in {"time", "end"} -> IF m.score = None THEN 0 ELSE m.score
      [] OTHER -> 0

-----------------------------------------------------------------------------
(* parseGcg *)

ParseInit ==
    [players |-> {}, history |-> <<>>, board |-> EmptyBoard,
     scores |-> [p \in Players |-> 0], current |-> None, last |-> None,
     racks |-> [p \in Players |-> 0], incomplete |-> 0, warnings |-> {}, failed |-> FALSE]

PragmaThrows(p, l) ==
    CASE l.kind = "player" -> l.id \notin Players \/ l.id \in p.players
      [] l.kind = "rack" -> l.id \notin p.players \/ l.rack \notin Rack
      [] l.kind = "incomplete" -> l.rack \notin Rack
      [] OTHER -> FALSE

(* A time record without a rack has the short form, whose score is needed,  *)
(* and so has an end bonus.                                                 *)
MoveThrows(p, m) ==
    \/ Len(p.history) >= MaxRecords
    \/ m.player \notin p.players
    \/ m.rack \notin Rack
    \/ m.kind \notin {"time", "end"} /\ m.rack = 0
    \/ m.kind \in {"time", "end"} /\ m.rack = 0 /\ m.score = None
    \/ m.kind = "end" /\ m.unused \notin Rack
    \/ m.kind = "exchange" /\ m.count \notin 1..7
    \/ m.kind = "adjustment" /\ m.total = None
    \/ m.kind = "place" /\ PlaceThrows(p.board, m)

LineThrows(p, l) ==
    IF l.kind \in MoveKinds THEN MoveThrows(p, l) ELSE PragmaThrows(p, l)

(* #note belongs to the record before it. *)
ParsePragma(p, l) ==
    CASE l.kind = "player" -> [p EXCEPT !.players = @ \cup {l.id}]
      [] l.kind = "rack" -> [p EXCEPT !.racks[l.id] = l.rack]
      [] l.kind = "incomplete" -> [p EXCEPT !.incomplete = l.rack]
      [] l.kind = "note" /\ p.history # <<>> ->
             [p EXCEPT !.history[Len(p.history)].note = l.text]
      [] OTHER -> p

(* checkDeclaredTotal *)
Checked(p, m) ==
    IF m.total \in {None, p.scores[m.player]} THEN p
    ELSE [p EXCEPT !.warnings = @ \cup {"total"}]

ParsePlace(p, m) ==
    LET computed == ComputedScore(p.board, m)
        scoreWarning == IF m.score \in {None, computed} THEN {} ELSE {"score"} IN
    Checked([p EXCEPT
        !.warnings = @ \cup PlacementWarnings(p.board, m) \cup scoreWarning,
        !.history = Append(@, Record(m, computed)),
        !.board = Placed(@, m),
        !.scores[m.player] = @ + computed,
        !.current = NextPlayer(p.players, m.player),
        !.last = [index |-> Len(p.history) + 1, squares |-> NewSquares(p.board, m),
                  score |-> computed]], m)

ParsePassOrExchange(p, m) ==
    Checked([p EXCEPT !.history = Append(@, Record(m, None)),
                      !.current = NextPlayer(p.players, m.player), !.last = None], m)

(* A phony challenge withdraws the placement just before it, from the score *)
(* of the player who made it.                                               *)
Challenger(p, m) == m.player  \* mutant: from the score of the challenge's player
Challenged(p, m) == p.history[p.last.index].move.player

ParsePhony(p, m) ==
    LET recorded == Append(p.history, Record(m, None))
        withdrawn == p.last # None /\ p.last.index = Len(p.history) IN
    Checked(IF withdrawn
            THEN [p EXCEPT !.history = [recorded EXCEPT ![p.last.index].challenged = TRUE],
                           !.board = Without(@, p.last.squares),
                           !.scores[Challenged(p, m)] = @ - p.last.score,
                           !.last = None]
            ELSE [p EXCEPT !.history = recorded, !.warnings = @ \cup {"phony"},
                           !.last = None], m)

ParseBonus(p, m) ==
    Checked([p EXCEPT !.history = Append(@, Record(m, None)),
                      !.scores[m.player] = @ + ScoreDelta(m), !.last = None], m)

ParseMove(p, m) ==
    CASE m.kind = "place" -> ParsePlace(p, m)
      [] m.kind \in {"pass", "exchange"} -> ParsePassOrExchange(p, m)
      [] m.kind = "phony" -> ParsePhony(p, m)
      [] OTHER -> ParseBonus(p, m)

(* One turn of parseGcg's loop; after a throw nothing is read any more. *)
ParseLine(p, l) ==
    CASE p.failed -> p
      [] LineThrows(p, l) -> [p EXCEPT !.failed = TRUE]
      [] OTHER -> IF l.kind \in MoveKinds THEN ParseMove(p, l) ELSE ParsePragma(p, l)

ParseText(lines) == FoldLeft(ParseLine, ParseInit, lines)

(* What parseGcg returns besides. *)
FinalRack(p) ==
    IF p.incomplete # 0 THEN p.incomplete
    ELSE IF p.current # None THEN p.racks[p.current] ELSE 0

FinalScores(p) ==
    LET others == p.players \ {p.current}
        ScoreOf(players) == IF players = {} THEN 0 ELSE p.scores[Min(players)] IN
    [onTurn |-> IF p.current # None THEN p.scores[p.current] ELSE ScoreOf(p.players),
     opponent |-> ScoreOf(others)]

Places(history) == {i \in DOMAIN history : history[i].move.kind = "place"}

ScorelessEver(history) ==  \* mutant: a placement does not end the count
    Min({MaxScoreless, Cardinality({i \in DOMAIN history : IsScoreless(history[i])})})
(* Passes and exchanges since the last placement. *)
ScorelessTurns(history) ==
    LET since == {i \in DOMAIN history : IsScoreless(history[i])
                                         /\ \A j \in Places(history) : j < i}
    IN Min({MaxScoreless, Cardinality(since)})

FinalTurn(p) ==
    [number |-> Cardinality(Places(p.history)) + 1,
     scorelessTurns |-> ScorelessTurns(p.history)]

-----------------------------------------------------------------------------
(* replayGcgHistory *)

FrameInit(players) ==
    [at |-> 0, board |-> EmptyBoard, scores |-> [p \in Players |-> 0],
     current |-> IF players = {} THEN None ELSE Min(players),
     places |-> 0, scoreless |-> 0, last |-> None, placed |-> {}]

FrameTurn(f) ==
    [number |-> f.places + 1, scorelessTurns |-> Min({MaxScoreless, f.scoreless})]

FrameThrows(f, e) == e.move.kind = "place" /\ PlaceThrows(f.board, e.move)

FramePlace(players, f, m) ==
    LET computed == ComputedScore(f.board, m) IN
    [f EXCEPT !.at = @ + 1, !.board = Placed(@, m),
              !.scores[m.player] = @ + computed, !.places = @ + 1, !.scoreless = 0,
              !.current = NextPlayer(players, m.player), !.placed = NewSquares(f.board, m),
              !.last = [index |-> f.at + 1, squares |-> NewSquares(f.board, m),
                        player |-> m.player, score |-> computed]]

FramePassOrExchange(players, f, m) ==
    [f EXCEPT !.at = @ + 1, !.current = NextPlayer(players, m.player),
              !.scoreless = @ + 1, !.last = None, !.placed = {}]

NoRefund(f) == 0  \* mutant: the score of a withdrawn placement stays
Refund(f) == f.last.score

FramePhony(f) ==
    IF f.last # None /\ f.last.index = f.at
    THEN [f EXCEPT !.at = @ + 1, !.board = Without(@, f.last.squares),
                   !.scores[f.last.player] = @ - Refund(f), !.last = None, !.placed = {}]
    ELSE [f EXCEPT !.at = @ + 1, !.last = None, !.placed = {}]

FrameBonus(f, m) ==
    [f EXCEPT !.at = @ + 1, !.scores[m.player] = @ + ScoreDelta(m),
              !.last = None, !.placed = {}]

(* The frame after the record e. *)
NextFrame(players, f, e) ==
    CASE e.move.kind = "place" -> FramePlace(players, f, e.move)
      [] IsScoreless(e) -> FramePassOrExchange(players, f, e.move)
      [] e.move.kind = "phony" -> FramePhony(f)
      [] OTHER -> FrameBonus(f, e.move)

(* The frame after the first n records of a history that does not throw. *)
FrameAfter(players, history, n) ==
    FoldLeft(LAMBDA f, e : NextFrame(players, f, e), FrameInit(players),
             SubSeq(history, 1, n))

-----------------------------------------------------------------------------
(* exportGcg *)

ChallengeAlways(e, phonyNext) == e.challenged  \* mutant: also when one is recorded
ChallengeMissing(e, phonyNext) == e.challenged /\ ~phonyNext

(* exportEntry: an end bonus is written without the rack, and a withdrawn   *)
(* placement gets the challenge that history lacks.                         *)
ExportEntry(e, phonyNext) ==
    LET m == e.move
        line == IF m.kind = "end" THEN [m EXCEPT !.rack = 0] ELSE m
        challenge == [kind |-> "phony", player |-> m.player, rack |-> m.rack,
                      score |-> IF m.score = None THEN None ELSE -m.score,
                      total |-> m.total] IN
    <<line>> \o (IF ChallengeMissing(e, phonyNext) THEN <<challenge>> ELSE <<>>)
             \o (IF e.note = None THEN <<>> ELSE <<[kind |-> "note", text |-> e.note]>>)

(* The players come in the order of their ids. *)
ExportText(players, history, finalRack, finalPlayer) ==
    LET Declared(id) == IF id \in players THEN <<[kind |-> "player", id |-> id]>> ELSE <<>>
        Entry(i) == ExportEntry(history[i], i < Len(history)
                                            /\ history[i + 1].move.kind = "phony")
        rack == IF finalRack # 0 /\ finalPlayer \in players
                THEN <<[kind |-> "rack", id |-> finalPlayer, rack |-> finalRack]>> ELSE <<>>
    IN FlattenSeq([id \in Players |-> Declared(id)])
           \o FlattenSeq([i \in DOMAIN history |-> Entry(i)]) \o rack
=============================================================================
