-------------------------- MODULE GcgEditor_proofs --------------------------
(***************************************************************************)
(* Theorems about GcgEditor: the position of an imported game, however its *)
(* records are stepped through, edited, reopened and left.                 *)
(***************************************************************************)
EXTENDS GcgEditor, Gcg_proofs

DraftNames == {"gcg", "position", "history", "players", "finalPlayer", "final", "cursor"}

(* What final holds of a draft that was opened. *)
Finals == [rack : 0..7, scores : [onTurn : Nat, opponent : Nat],
           turn : [number : Nat \ {0}, scorelessTurns : 0..MaxScoreless]]

OnSquares(b) == DOMAIN b \subseteq Square /\ b = [s \in DOMAIN b |-> b[s]]

PositionOK(p) == p = At(p.board, Final(p)) /\ OnSquares(p.board) /\ Final(p) \in Finals

DraftOK(d) ==
    /\ d = [x \in DraftNames |-> d[x]]
    /\ PositionOK(d.position)
    /\ d.gcg \in BOOLEAN
    /\ d.players \in (SUBSET Players) \cup {None}
    /\ d.finalPlayer \in Players \cup {None}

(* The records of the draft are those of a file that parseGcg accepted. *)
FromFile(d) ==
    \E p, seen : /\ Story(p, seen) /\ Detailed(p, seen)
                 /\ d.history = p.history /\ d.players = p.players /\ p.players # {}

(* A draft with records shows its final position, or replays one of them,   *)
(* and keeps in final what it needs to return.                              *)
IsGame(d, final) ==
    /\ d.gcg /\ FromFile(d)
    /\ d.cursor \in 0..Len(d.history) \cup {None}
    /\ d.final = final /\ final \in Finals
    /\ d.position = IF d.cursor = None THEN At(FinalFrame(d).board, final)
                    ELSE ReplayPositionAt(d, d.cursor, final)

DraftInv ==
    draft # None =>
        /\ DraftOK(draft)
        /\ IF draft.history = <<>> THEN draft.cursor = None ELSE IsGame(draft, kept)

(* The file x was made of such a draft. *)
ExportOK(x) ==
    /\ DraftOK(x.of) /\ x.text = ExportedText(x.of) /\ x.warned = SnapshotWarning(x.of)
    /\ x.of.history # <<>> => \E final : IsGame(x.of, final)

IInv == DraftInv /\ (exported # None => ExportOK(exported))

-----------------------------------------------------------------------------
(* Positions *)

LEMMA FinalsNotNone == None \notin Finals
<1>1. Finals \subseteq Snapshots
    BY GcgAssumption DEF Finals, Snapshots, Rack
<1> QED
    BY <1>1, EditorAssumption

LEMMA MinOfTwo ==
    ASSUME NEW a \in Nat, NEW b \in Nat
    PROVE  Min({a, b}) = IF a <= b THEN a ELSE b
<1>1. {a, b} \subseteq Nat /\ {a, b} # {}
    OBVIOUS
<1>2. Min({a, b}) \in {a, b} /\ \A y \in {a, b} : Min({a, b}) <= y
    BY <1>1, MinNat
<1> QED
    BY <1>2

LEMMA AtFields ==
    ASSUME NEW board, NEW final \in Finals
    PROVE  /\ At(board, final).board = board /\ At(board, final).rack = final.rack
           /\ At(board, final).scores = final.scores /\ At(board, final).turn = final.turn
           /\ Final(At(board, final)) = final
           /\ OnSquares(board) => PositionOK(At(board, final))
<1>1. /\ At(board, final).board = board /\ At(board, final).rack = final.rack
      /\ At(board, final).scores = final.scores /\ At(board, final).turn = final.turn
    BY DEF At, Position
<1>2. Final(At(board, final)) = final
    BY <1>1 DEF Final, Finals
<1> QED
    BY <1>1, <1>2 DEF PositionOK

LEMMA PositionIs ==
    ASSUME NEW board, OnSquares(board), NEW rack \in 0..7,
           NEW scores \in [onTurn : Nat, opponent : Nat],
           NEW turn \in [number : Nat \ {0}, scorelessTurns : 0..MaxScoreless]
    PROVE  PositionOK(Position(board, rack, scores, turn))
<1> DEFINE final == [rack |-> rack, scores |-> scores, turn |-> turn]
<1>1. final \in Finals
    BY DEF Finals
<1>2. Position(board, rack, scores, turn) = At(board, final)
    BY DEF At, Position
<1> QED
    BY <1>1, <1>2, AtFields

LEMMA ClampedNat == \A n \in Int : Clamped(n) \in Nat /\ (n \in Nat => Clamped(n) = n)
BY DEF Clamped

(* The turn of a frame that follows a game is well-formed, and the last     *)
(* frame's is the one parseGcg returns.                                     *)
LEMMA TurnOK ==
    ASSUME NEW f, NEW p, NEW seen, Story(p, seen), Follows(f, p, seen)
    PROVE  /\ FrameTurn(f) \in [number : Nat \ {0}, scorelessTurns : 0..MaxScoreless]
           /\ f.at = Len(p.history) => FrameTurn(f) = FinalTurn(p)
<1> DEFINE h == p.history
           n == Len(h)
<1>1. f.places \in Nat /\ f.scoreless \in Nat
    BY DEF Follows, IsFrame
<1>2. MaxScoreless \in Nat
    BY GcgAssumption
<1>3. Min({MaxScoreless, f.scoreless}) \in 0..MaxScoreless
    BY <1>1, <1>2, MinOfTwo
<1>4. FrameTurn(f) \in [number : Nat \ {0}, scorelessTurns : 0..MaxScoreless]
    BY <1>1, <1>3 DEF FrameTurn
<1>5. ASSUME f.at = n
      PROVE  FrameTurn(f) = FinalTurn(p)
    <2>0. DOMAIN h = 1..n
        BY DEF Story, IsParse, IsHistory, IsSeq
    <2>1. Places(h) = PlacesTo(h, n)
        BY <2>0 DEF Places, PlacesTo
    <2>2. {i \in DOMAIN h : IsScoreless(h[i]) /\ \A j \in Places(h) : j < i} = ScorelessTo(h, n)
        BY <2>0, <2>1 DEF PlacesTo, ScorelessTo
    <2>3. /\ f.places = Cardinality(PlacesTo(h, n))
          /\ f.scoreless = Cardinality(ScorelessTo(h, n))
        BY <1>5 DEF Follows
    <2> QED
        BY <2>1, <2>2, <2>3 DEF FrameTurn, FinalTurn, ScorelessTurns
<1> QED
    BY <1>4, <1>5

LEMMA ScoreOfOthers ==
    ASSUME NEW others \in SUBSET Players, others # {}
    PROVE  Min(others) \in Players
<1>1. others \subseteq Nat
    BY DEF Players
<1> QED
    BY <1>1, MinNat

(* Every record can be shown, and the last one shows the final position.    *)
LEMMA ReplayPositionOK ==
    ASSUME NEW d, FromFile(d), NEW index \in 0..Len(d.history), NEW final \in Finals
    PROVE  /\ PositionOK(ReplayPositionAt(d, index, final))
           /\ index = Len(d.history) =>
                  ReplayPositionAt(d, index, final) = At(FinalFrame(d).board, final)
           /\ ReplayPositionAt(d, index, final).board = Frame(d, index).board
<1>1. PICK p, seen : /\ Story(p, seen) /\ d.history = p.history /\ d.players = p.players
                     /\ p.players # {}
    BY DEF FromFile
<1> DEFINE h == p.history
           n == Len(h)
           f == Frame(d, index)
<1>2. n \in Nat /\ IsHistory(h) /\ d.players \in SUBSET Players /\ index \in Nat
    BY <1>1 DEF Story, IsParse, IsHistory, IsSeq
<1>3. Follows(f, p, seen) /\ f.at = index
    BY <1>1, FrameAfterFollows DEF Frame
<1> HIDE DEF f
<1>4. /\ OnSquares(f.board) /\ f.scores \in [Players -> Int]
      /\ f.current \in d.players
    BY <1>1, <1>3 DEF Follows, IsFrame, BoardOK, OnSquares
<1>5. CASE index = n
    <2>1. ReplayPositionAt(d, index, final) = At(f.board, final)
        BY <1>1, <1>2, <1>5 DEF ReplayPositionAt, FrameCount, f
    <2>2. FinalFrame(d) = f
        BY <1>1, <1>5 DEF FinalFrame, f
    <2> QED
        BY <1>4, <2>1, <2>2, AtFields DEF f
<1>6. CASE index # n
    <2> DEFINE e == Upcoming(d, index)
               mover == IF IsDecision(e) THEN e.move.player ELSE f.current
               others == d.players \ {mover}
               rack == IF IsDecision(e) THEN UsableRack(e.move.rack) ELSE 0
               scores == [onTurn |-> Clamped(f.scores[mover]),
                          opponent |-> IF others = {} THEN 0
                                       ELSE Clamped(f.scores[Min(others)])]
    <2>1. index + 1 \in 1..n /\ ~(index >= n)
        BY <1>1, <1>2, <1>6
    <2>2. IsEntry(e)
        BY <1>1, <1>2, <2>1 DEF Upcoming, IsHistory
    <2>3. ReplayPositionAt(d, index, final) = Position(f.board, rack, scores, FrameTurn(f))
        <3>1. ~(index >= FrameCount(d) - 1)
            BY <1>1, <1>2, <2>1 DEF FrameCount
        <3> QED
            BY <3>1 DEF ReplayPositionAt, f
    <2>4. rack \in 0..7
        <3>1. e.move.rack \in 0..15
            BY <2>2 DEF IsEntry, Rack
        <3> QED
            BY <3>1 DEF UsableRack
    <2>5. mover \in Players
        BY <1>2, <1>4, <2>2 DEF IsEntry
    <2>6. scores \in [onTurn : Nat, opponent : Nat]
        <3> HIDE DEF mover
        <3>1. Clamped(f.scores[mover]) \in Nat
            BY <1>4, <2>5, ClampedNat
        <3>2. others # {} => Clamped(f.scores[Min(others)]) \in Nat
            <4>1. others \in SUBSET Players
                BY <1>2
            <4> HIDE DEF others
            <4> QED
                BY <1>4, <4>1, ClampedNat, ScoreOfOthers
        <3> QED
            BY <3>1, <3>2
    <2>7. FrameTurn(f) \in [number : Nat \ {0}, scorelessTurns : 0..MaxScoreless]
        BY <1>1, <1>3, TurnOK
    <2> HIDE DEF rack, scores
    <2>8. PositionOK(Position(f.board, rack, scores, FrameTurn(f)))
        BY <1>4, <2>4, <2>6, <2>7, PositionIs
    <2> QED
        BY <1>1, <1>6, <2>3, <2>8 DEF Position, f
<1> QED
    BY <1>5, <1>6

-----------------------------------------------------------------------------
(* draftStateFromUnknown *)

LEMMA NormalisedPosition ==
    ASSUME NEW q, PositionOK(q)
    PROVE  [q EXCEPT !.rack = UsableRack(@), !.scores = ClampedScores(@)] = q
<1>1. /\ q = [board |-> q.board, rack |-> q.rack, scores |-> q.scores, turn |-> q.turn]
      /\ q.rack \in 0..7 /\ q.scores \in [onTurn : Nat, opponent : Nat]
    BY DEF PositionOK, At, Position, Final, Finals
<1>2. UsableRack(q.rack) = q.rack
    BY <1>1 DEF UsableRack
<1>3. ClampedScores(q.scores) = q.scores
    BY <1>1, ClampedNat DEF ClampedScores
<1> QED
    BY <1>1, <1>2, <1>3

Usable(q) == [q EXCEPT !.rack = UsableRack(@), !.scores = ClampedScores(@)]

LEMMA UsablePosition ==
    ASSUME NEW board, NEW rack, NEW scores, NEW turn,
           NEW q, q = Position(board, rack, scores, turn)
    PROVE  Usable(q) = Position(board, UsableRack(rack), ClampedScores(scores), turn)
<1> DEFINE names == {"board", "rack", "scores", "turn"}
           e == [q EXCEPT !.rack = UsableRack(@), !.scores = ClampedScores(@)]
<1>1. /\ q = [x \in names |-> q[x]] /\ q.board = board /\ q.rack = rack
      /\ q.scores = scores /\ q.turn = turn
    BY DEF Position
<1>2. /\ e = [x \in names |-> e[x]] /\ e.board = board /\ e.rack = UsableRack(rack)
      /\ e.scores = ClampedScores(scores) /\ e.turn = turn
    BY ONLY <1>1
<1> HIDE DEF e
<1>3. e = Position(board, UsableRack(rack), ClampedScores(scores), turn)
    BY ONLY <1>2 DEF Position
<1> QED
    BY <1>3 DEF e, Usable

(* A draft that was opened once is opened unchanged, replaying or not. *)
LEMMA NormalisedGame ==
    ASSUME NEW d, DraftOK(d), NEW final, IsGame(d, final)
    PROVE  Normalised(d) = d
<1> DEFINE position == [d.position EXCEPT !.rack = UsableRack(@), !.scores = ClampedScores(@)]
<1>1. d.gcg /\ d.final \in Finals /\ d.final # None /\ d.players # {}
    BY FinalsNotNone DEF IsGame, FromFile
<1>2. position = d.position
    BY NormalisedPosition DEF DraftOK
<1>3. /\ d.final.rack \in 0..7
      /\ [d.final EXCEPT !.scores = ClampedScores(@)] = d.final
    <2>1. /\ d.final = [rack |-> d.final.rack, scores |-> d.final.scores,
                        turn |-> d.final.turn]
          /\ d.final.rack \in 0..7 /\ d.final.scores \in [onTurn : Nat, opponent : Nat]
        BY <1>1 DEF Finals
    <2>2. ClampedScores(d.final.scores) = d.final.scores
        BY <2>1, ClampedNat DEF ClampedScores
    <2> QED
        BY <2>1, <2>2
<1> HIDE DEF position
<1>4. Normalised(d) = [d EXCEPT !.position = d.position, !.final = d.final,
                                !.players = d.players]
    <2> DEFINE final2 == IF d.final = None \/ d.final.rack > 7 THEN None
                         ELSE [d.final EXCEPT !.scores = ClampedScores(@)]
               players2 == IF d.players = {} THEN None ELSE d.players
    <2>1. Normalised(d) = [d EXCEPT !.position = position, !.final = final2,
                                    !.players = players2]
        BY <1>1 DEF Normalised, position
    <2>2. final2 = d.final
        BY <1>1, <1>3
    <2>3. players2 = d.players
        BY <1>1
    <2> HIDE DEF final2, players2
    <2> QED
        BY <1>2, <2>1, <2>2, <2>3
<1>5. d = [x \in DraftNames |-> d[x]]
    BY DEF DraftOK
<1> QED
    BY ONLY <1>4, <1>5 DEF DraftNames

(* A draft without records is opened with what it shows. *)
LEMMA NormalisedPlain ==
    ASSUME NEW d, DraftOK(d), d.history = <<>>, d.cursor = None \/ ~d.gcg
    PROVE  /\ DraftOK(Normalised(d))
           /\ Normalised(d).history = <<>> /\ Normalised(d).cursor = None
<1> DEFINE position == [d.position EXCEPT !.rack = UsableRack(@), !.scores = ClampedScores(@)]
           final == IF d.final = None \/ d.final.rack > 7 THEN None
                    ELSE [d.final EXCEPT !.scores = ClampedScores(@)]
           players == IF d.players = {} THEN None ELSE d.players
           e == Normalised(d)
<1>1. position = d.position /\ d = [x \in DraftNames |-> d[x]]
    BY NormalisedPosition DEF DraftOK
<1> HIDE DEF position
<1>2. CASE d.gcg
    <2>1. e = [d EXCEPT !.position = position, !.final = final, !.players = players]
        BY <1>2 DEF Normalised, position
    <2> HIDE DEF e, final, players
    <2>2. /\ e = [x \in DraftNames |-> e[x]]
          /\ e.position = position /\ e.players = players /\ e.gcg = d.gcg
          /\ e.finalPlayer = d.finalPlayer /\ e.history = d.history /\ e.cursor = d.cursor
        BY ONLY <1>1, <2>1 DEF DraftNames
    <2> QED
        <3>1. players \in (SUBSET Players) \cup {None}
            BY DEF DraftOK, players
        <3>2. DraftOK(e)
            BY <1>1, <2>2, <3>1 DEF DraftOK
        <3>3. e.history = <<>> /\ e.cursor = None
            BY <1>2, <2>2
        <3> QED
            BY <3>2, <3>3 DEF e
<1>3. CASE ~d.gcg
    <2>1. e = [d EXCEPT !.position = position, !.final = None, !.players = None,
                        !.finalPlayer = None, !.cursor = None]
        BY <1>3 DEF Normalised, position
    <2> HIDE DEF e
    <2>2. /\ e = [x \in DraftNames |-> e[x]]
          /\ e.position = position /\ e.players = None /\ e.gcg = d.gcg
          /\ e.finalPlayer = None /\ e.history = d.history /\ e.cursor = None
        BY ONLY <1>1, <2>1 DEF DraftNames
    <2> QED
        <3>1. DraftOK(e)
            BY <1>1, <2>2 DEF DraftOK
        <3>2. e.history = <<>> /\ e.cursor = None
            BY <2>2
        <3> QED
            BY <3>1, <3>2 DEF e
<1> QED
    BY <1>2, <1>3

-----------------------------------------------------------------------------
(* createImportedGcgScenario *)

LEMMA FinalOfParse ==
    ASSUME NEW p, IsParse(p), FinalRack(p) <= 7
    PROVE  /\ FinalRack(p) \in 0..7
           /\ FinalScores(p) = [onTurn |-> FinalScores(p).onTurn,
                                opponent |-> FinalScores(p).opponent]
           /\ FinalScores(p).onTurn \in Int /\ FinalScores(p).opponent \in Int
<1>1. FinalRack(p) \in 0..15
    <2>1. p.current # None => p.racks[p.current] \in 0..15
        BY DEF IsParse, Rack
    <2> QED
        BY <2>1 DEF FinalRack, IsParse, Rack
<1>2. ASSUME NEW players \in SUBSET Players
      PROVE  (IF players = {} THEN 0 ELSE p.scores[Min(players)]) \in Int
    BY ScoreOfOthers DEF IsParse
<1>3. /\ (IF p.players \ {p.current} = {} THEN 0 ELSE p.scores[Min(p.players \ {p.current})])
             \in Int
      /\ (IF p.players = {} THEN 0 ELSE p.scores[Min(p.players)]) \in Int
      /\ p.current # None => p.scores[p.current] \in Int
    <2>1. p.players \in SUBSET Players /\ p.players \ {p.current} \in SUBSET Players
        BY DEF IsParse
    <2> QED
        BY <1>2, <2>1 DEF IsParse
<1> QED
    BY <1>1, <1>3 DEF FinalScores

LEMMA ImportedOK ==
    ASSUME NEW p, NEW seen, Story(p, seen), Detailed(p, seen), FinalRack(p) <= 7,
           NEW d, d = Normalised(ImportedState(p))
    PROVE  /\ DraftOK(d)
           /\ IF d.history = <<>> THEN d.cursor = None ELSE IsGame(d, Final(d.position))
<1> DEFINE raw == Position(p.board, FinalRack(p), FinalScores(p), FinalTurn(p))
           rack == FinalRack(p)
           scores == ClampedScores(FinalScores(p))
           final == [rack |-> rack, scores |-> scores, turn |-> FinalTurn(p)]
           players == IF p.players = {} THEN None ELSE p.players
           f == FrameAfter(p.players, p.history, Len(p.history))
<1>0. IsParse(p) /\ Len(p.history) \in 0..Len(p.history) /\ IsSeq(p.history)
    BY DEF Story, IsParse, IsHistory, IsSeq
<1>1. rack \in 0..7 /\ scores \in [onTurn : Nat, opponent : Nat]
    BY <1>0, FinalOfParse, ClampedNat DEF ClampedScores
<1>2. Follows(f, p, seen) /\ f.at = Len(p.history)
    BY <1>0, FrameAfterFollows
<1> HIDE DEF f
<1>3. FinalTurn(p) \in [number : Nat \ {0}, scorelessTurns : 0..MaxScoreless]
    BY <1>2, TurnOK
<1>4. f.board = p.board /\ OnSquares(p.board)
    BY <1>0, <1>2 DEF Follows, SameGame, Story, StorySeen, StoryEnds, IsParse, BoardOK,
                      OnSquares
<1> HIDE DEF rack, scores
<1>5. final \in Finals
    BY <1>1, <1>3 DEF Finals
<1>6. /\ raw.board = p.board /\ raw.rack = rack /\ raw.scores = FinalScores(p)
      /\ raw.turn = FinalTurn(p)
      /\ Final(raw) = [rack |-> rack, scores |-> FinalScores(p), turn |-> FinalTurn(p)]
    BY DEF Position, Final, rack
<1>7. [raw EXCEPT !.rack = UsableRack(@), !.scores = ClampedScores(@)] = At(p.board, final)
    <2>1. UsableRack(rack) = rack
        BY <1>1 DEF UsableRack
    <2>2. [raw EXCEPT !.rack = UsableRack(@), !.scores = ClampedScores(@)]
              = Position(p.board, UsableRack(rack), scores, FinalTurn(p))
        <3>1. Usable(raw) = Position(p.board, UsableRack(rack), scores, FinalTurn(p))
            BY UsablePosition DEF rack, scores
        <3> HIDE DEF raw
        <3> QED
            BY ONLY <3>1 DEF Usable
    <2> QED
        BY <2>1, <2>2 DEF At
<1>8. /\ ~(Final(raw).rack > 7)
      /\ [Final(raw) EXCEPT !.scores = ClampedScores(@)] = final
    BY <1>1, <1>6 DEF scores
<1>9. Final(raw) # None
    <2>1. Final(raw) \in Snapshots
        <3>1. FinalScores(p) \in [onTurn : Int, opponent : Int]
            BY <1>0, FinalOfParse
        <3>2. rack \in Rack /\ FinalTurn(p) \in [number : Nat, scorelessTurns : Nat]
            BY <1>1, <1>3, GcgAssumption DEF Rack
        <3> QED
            BY <1>6, <3>1, <3>2 DEF Snapshots
    <2> QED
        BY <2>1, EditorAssumption
<1>10. PICK t \in BOOLEAN : t = TRUE
    OBVIOUS
<1> DEFINE e == ImportedState(p)
<1>11. /\ e = [x \in DraftNames |-> e[x]]
       /\ e.gcg = t /\ e.position = raw /\ e.history = p.history /\ e.players = p.players
       /\ e.finalPlayer = p.current /\ e.final = Final(raw) /\ e.cursor = None
    <2> HIDE DEF raw
    <2>1. e = [gcg |-> t, position |-> raw, history |-> p.history, players |-> p.players,
               finalPlayer |-> p.current, final |-> Final(raw), cursor |-> None]
        BY <1>10, Zenon DEF ImportedState, raw
    <2> HIDE DEF e
    <2> QED
        BY ONLY <2>1 DEF DraftNames
<1>12. d = [e EXCEPT !.position = At(p.board, final), !.final = final, !.players = players]
    <2> HIDE DEF e, raw, final
    <2>1. e.gcg
        BY <1>10, <1>11
    <2>2. d = Normalised(e)
        BY DEF e
    <2> DEFINE position2 == [e.position EXCEPT !.rack = UsableRack(@),
                                               !.scores = ClampedScores(@)]
               final2 == IF e.final = None \/ e.final.rack > 7 THEN None
                         ELSE [e.final EXCEPT !.scores = ClampedScores(@)]
               players2 == IF e.players = {} THEN None ELSE e.players
    <2>3. Normalised(e) = [e EXCEPT !.position = position2, !.final = final2,
                                    !.players = players2]
        BY <2>1 DEF Normalised
    <2>4. position2 = At(p.board, final)
        BY <1>7, <1>11
    <2>5. final2 = final
        BY <1>8, <1>9, <1>11
    <2>6. players2 = players
        BY <1>11
    <2> HIDE DEF position2, final2, players2, players
    <2> QED
        BY <2>2, <2>3, <2>4, <2>5, <2>6
<1> HIDE DEF e, raw, final, players
<1>13. /\ d = [x \in DraftNames |-> d[x]]
       /\ d.gcg = t /\ d.position = At(p.board, final) /\ d.history = p.history
       /\ d.players = players /\ d.finalPlayer = p.current /\ d.final = final
       /\ d.cursor = None
    BY ONLY <1>11, <1>12 DEF DraftNames
<1>14. PositionOK(d.position) /\ Final(d.position) = final
    BY <1>4, <1>5, <1>13, AtFields
<1>15. DraftOK(d)
    <2>1. players \in (SUBSET Players) \cup {None} /\ p.current \in Players \cup {None}
        BY <1>0 DEF IsParse, players
    <2>2. d.gcg \in BOOLEAN
        BY <1>10, <1>13
    <2> QED
        BY ONLY <1>13, <1>14, <2>1, <2>2 DEF DraftOK
<1>16. ASSUME d.history # <<>>
       PROVE  IsGame(d, final)
    <2>1. p.players # {}
        <3>1. Len(p.history) # 0
            <4> SUFFICES ASSUME Len(p.history) = 0
                         PROVE  FALSE
                OBVIOUS
            <4>1. p.history = <<>>
                BY <1>0 DEF IsSeq
            <4> QED
                BY <1>13, <1>16, <4>1
        <3>2. 1 \in 1..Len(p.history) /\ 2 \in 1..Len(seen)
            BY <1>0, <3>1 DEF Story, StorySeen, IsSeq
        <3>3. p.history[1].move.player \in seen[1 + 1].players
            BY <3>2 DEF Story, StoryRecords, Recorded
        <3>4. seen[2].players \subseteq p.players
            BY <3>2 DEF Story, StorySeen
        <3> QED
            BY <3>3, <3>4
    <2>2. d.players = p.players
        BY <1>13, <2>1 DEF players
    <2>3. FromFile(d)
        BY <1>13, <2>1, <2>2 DEF FromFile
    <2>4. FinalFrame(d).board = p.board
        BY <1>4, <1>13, <2>2 DEF FinalFrame, Frame, f
    <2>5. d.gcg
        BY <1>10, <1>13
    <2> QED
        BY <1>5, <1>13, <2>3, <2>4, <2>5 DEF IsGame
<1> QED
    BY <1>13, <1>14, <1>15, <1>16

-----------------------------------------------------------------------------
(* The inductive invariant *)

LEMMA SameFrames ==
    ASSUME NEW d, NEW e, e.history = d.history, e.players = d.players
    PROVE  /\ FromFile(d) => FromFile(e)
           /\ FinalFrame(e) = FinalFrame(d)
           /\ \A index, final :
                  ReplayPositionAt(e, index, final) = ReplayPositionAt(d, index, final)
<1>1. FromFile(d) => FromFile(e)
    BY DEF FromFile
<1>2. \A n : Frame(e, n) = Frame(d, n)
    BY DEF Frame
<1>3. FinalFrame(e) = FinalFrame(d)
    BY <1>2 DEF FinalFrame
<1>4. ASSUME NEW index, NEW final
      PROVE  ReplayPositionAt(e, index, final) = ReplayPositionAt(d, index, final)
    <2>1. Frame(e, index) = Frame(d, index)
        BY <1>2
    <2>2. Upcoming(e, index) = Upcoming(d, index) /\ FrameCount(e) = FrameCount(d)
        BY DEF Upcoming, FrameCount
    <2> QED
        BY <2>1, <2>2, Zenon DEF ReplayPositionAt
<1> QED
    BY <1>1, <1>3, <1>4

LEMMA GameFrames ==
    ASSUME NEW d, DraftOK(d), NEW final, IsGame(d, final), d.history # <<>>
    PROVE  HasFrames(d) /\ Len(d.history) \in Nat /\ d.final = final /\ final # None
<1>1. d.players \in SUBSET Players /\ Len(d.history) \in Nat
    BY DEF IsGame, FromFile, Story, IsParse, IsHistory, IsSeq
<1>2. d.players # None
    BY <1>1, EditorAssumption
<1> QED
    BY <1>1, <1>2, FinalsNotNone DEF IsGame, HasFrames

LEMMA Bounded ==
    ASSUME NEW index \in Int, NEW last \in Nat
    PROVE  Max({0, Min({index, last})}) \in 0..last
<1>1. Min({index, last}) = IF index <= last THEN index ELSE last
    <2> DEFINE Least(x) == x \in {index, last} /\ \A y \in {index, last} : x <= y
               m == IF index <= last THEN index ELSE last
    <2>1. Least(m) /\ \A x : Least(x) => x = m
        OBVIOUS
    <2>2. Least(CHOOSE x : Least(x))
        <3> HIDE DEF Least
        <3> QED
            BY <2>1
    <2>3. Min({index, last}) = CHOOSE x : Least(x)
        BY DEF Min
    <2> QED
        BY <2>1, <2>2, <2>3
<1>2. ASSUME NEW b \in Int, b <= last
      PROVE  Max({0, b}) \in 0..last
    <2> DEFINE Greatest(x) == x \in {0, b} /\ \A y \in {0, b} : x >= y
               m == IF b >= 0 THEN b ELSE 0
    <2>1. Greatest(m) /\ \A x : Greatest(x) => x = m
        OBVIOUS
    <2>2. Greatest(CHOOSE x : Greatest(x))
        <3> HIDE DEF Greatest
        <3> QED
            BY <2>1
    <2>3. Max({0, b}) = CHOOSE x : Greatest(x)
        BY DEF Max
    <2> QED
        BY <1>2, <2>1, <2>2, <2>3
<1>3. Min({index, last}) \in Int /\ Min({index, last}) <= last
    BY <1>1
<1> QED
    BY <1>2, <1>3

LEMMA ImportStep ==
    ASSUME NEW lines \in Games, Import(lines)
    PROVE  DraftInv'
<1> DEFINE p == ParseText(lines)
<1>1. IsSeq(lines) /\ \A i \in 1..Len(lines) : WellFormed(lines[i])
    <2>1. lines \in Seq({lines[i] : i \in DOMAIN lines})
        BY EditorAssumption
    <2> DEFINE R == {lines[i] : i \in DOMAIN lines}
    <2>2. lines \in Seq(R)
        BY <2>1
    <2> HIDE DEF R
    <2>3. Len(lines) \in Nat /\ DOMAIN lines = 1..Len(lines) /\ IsSeq(lines)
        BY <2>2, LenProperties DEF IsSeq
    <2> QED
        BY <2>3, EditorAssumption
<1>2. PICK seen : Story(p, seen) /\ Detailed(p, seen)
    BY <1>1, ParseTextStory
<1> HIDE DEF p
<1>3. /\ FinalRack(p) <= 7 /\ draft' = Normalised(ImportedState(p))
      /\ kept' = Final(draft'.position)
    BY DEF Import, p
<1>4. /\ DraftOK(draft')
      /\ IF draft'.history = <<>> THEN draft'.cursor = None
         ELSE IsGame(draft', Final(draft'.position))
    BY <1>2, <1>3, ImportedOK
<1> QED
    BY <1>3, <1>4 DEF DraftInv

LEMMA CursorStep ==
    ASSUME DraftInv, NEW index \in Int \cup {None}, MoveReplayCursor(index)
    PROVE  DraftInv'
<1>1. draft # None /\ HasFrames(draft) /\ draft.history # <<>>
    BY DEF MoveReplayCursor, HasFrames
<1>2. DraftOK(draft) /\ IsGame(draft, kept)
    BY <1>1 DEF DraftInv
<1>3. /\ Len(draft.history) \in Nat /\ draft.final = kept /\ kept # None
      /\ kept \in Finals /\ FromFile(draft)
    BY <1>1, <1>2, GameFrames DEF IsGame
<1> DEFINE last == Len(draft.history)
           bounded == IF index = None THEN None ELSE Max({0, Min({index, last})})
           shown == IF bounded = None THEN last ELSE bounded
           position == ReplayPositionAt(draft, shown, kept)
<1>4. /\ bounded \in 0..last \cup {None} /\ shown \in 0..last
      /\ bounded # None => shown = bounded
    <2>1. index # None => bounded \in 0..last
        BY <1>3, Bounded
    <2> QED
        BY <1>3, <2>1
<1>5. draft' = [draft EXCEPT !.position = position, !.final = kept, !.cursor = bounded]
    <2>1. FinalSnapshot(draft) = kept
        BY <1>3 DEF FinalSnapshot
    <2>2. FrameCount(draft) - 1 = last
        BY <1>3 DEF FrameCount
    <2> QED
        BY <2>1, <2>2 DEF MoveReplayCursor
<1>6. /\ PositionOK(position)
      /\ shown = last => position = At(FinalFrame(draft).board, kept)
    BY <1>3, <1>4, ReplayPositionOK
<1> HIDE DEF bounded, position
<1>7. draft = [x \in DraftNames |-> draft[x]]
    BY <1>2 DEF DraftOK
<1>8. /\ draft' = [x \in DraftNames |-> draft'[x]]
      /\ draft'.position = position /\ draft'.final = kept /\ draft'.cursor = bounded
      /\ draft'.gcg = draft.gcg /\ draft'.history = draft.history
      /\ draft'.players = draft.players /\ draft'.finalPlayer = draft.finalPlayer
    BY ONLY <1>5, <1>7 DEF DraftNames
<1>9. DraftOK(draft')
    BY <1>2, <1>6, <1>8 DEF DraftOK
<1>10. draft'.position = IF draft'.cursor = None THEN At(FinalFrame(draft').board, kept)
                         ELSE ReplayPositionAt(draft', draft'.cursor, kept)
    <2>1. FinalFrame(draft') = FinalFrame(draft)
        BY <1>8, SameFrames
    <2>2. \A i, f : ReplayPositionAt(draft', i, f) = ReplayPositionAt(draft, i, f)
        BY <1>8, SameFrames
    <2>3. CASE bounded = None
        BY <1>6, <1>8, <2>1, <2>3
    <2>4. CASE bounded # None
        BY <1>4, <1>8, <2>2, <2>4 DEF position
    <2> QED
        BY <2>3, <2>4
<1>11. kept' = kept
    BY DEF MoveReplayCursor
<1>12. IsGame(draft', kept)
    <2>1. FromFile(draft')
        BY <1>3, <1>8, SameFrames
    <2>2. draft.gcg
        BY <1>2 DEF IsGame
    <2> QED
        BY <1>3, <1>4, <1>8, <1>10, <2>1, <2>2 DEF IsGame
<1> QED
    BY <1>1, <1>8, <1>9, <1>11, <1>12 DEF DraftInv

LEMMA RackStep ==
    ASSUME DraftInv, NEW rack \in RackEdits, EditRack(rack)
    PROVE  DraftInv'
<1>1. draft # None /\ ~Replaying(draft) /\ rack \in 0..7 /\ DraftOK(draft)
    BY EditorAssumption DEF EditRack, DraftInv
<1> DEFINE old == draft.position
           position == [old EXCEPT !.rack = rack]
<1>2. old = At(old.board, Final(old)) /\ Final(old) \in Finals
    BY <1>1 DEF DraftOK, PositionOK
<1>3. position = At(old.board, [Final(old) EXCEPT !.rack = rack])
    <2> HIDE DEF old
    <2>1. old = [board |-> old.board, rack |-> old.rack, scores |-> old.scores,
                 turn |-> old.turn]
        BY <1>2 DEF At, Position, Final
    <2> QED
        BY ONLY <2>1 DEF At, Position, Final
<1>4. [Final(old) EXCEPT !.rack = rack] \in Finals
    <2> HIDE DEF old
    <2> QED
        BY <1>1, <1>2 DEF Finals
<1>5. PositionOK(position)
    <2>1. OnSquares(old.board)
        BY <1>1 DEF DraftOK, PositionOK
    <2> QED
        BY <1>3, <1>4, <2>1, AtFields
<1>6. draft = [x \in DraftNames |-> draft[x]]
    BY <1>1 DEF DraftOK
<1>7. CASE draft.history = <<>>
    <2>1. draft' = [draft EXCEPT !.position = position]
        BY <1>6, <1>7 DEF EditRack, RackEdited, DraftNames
    <2> HIDE DEF position
    <2>2. /\ draft' = [x \in DraftNames |-> draft'[x]]
          /\ draft'.position = position /\ draft'.cursor = draft.cursor
          /\ draft'.gcg = draft.gcg /\ draft'.history = draft.history
          /\ draft'.players = draft.players /\ draft'.finalPlayer = draft.finalPlayer
        BY ONLY <1>6, <2>1 DEF DraftNames
    <2>3. DraftOK(draft')
        BY <1>1, <1>5, <2>2 DEF DraftOK
    <2> QED
        BY <1>1, <1>7, <2>2, <2>3 DEF DraftInv
<1>8. CASE draft.history # <<>>
    <2>1. IsGame(draft, kept)
        BY <1>1, <1>8 DEF DraftInv
    <2>2. HasFrames(draft) /\ draft.final = kept /\ kept # None /\ kept \in Finals /\ draft.gcg
        BY <1>1, <1>8, <2>1, GameFrames DEF IsGame
    <2>3. draft.cursor = None /\ old = At(FinalFrame(draft).board, kept)
        BY <1>1, <2>1, <2>2 DEF Replaying, IsGame
    <2> DEFINE final == [kept EXCEPT !.rack = rack]
    <2>4. Final(old) = kept /\ old.board = FinalFrame(draft).board
        BY <2>2, <2>3, AtFields
    <2>5. kept' = final /\ final \in Finals /\ position = At(FinalFrame(draft).board, final)
        BY <1>3, <1>4, <1>8, <2>4 DEF EditRack
    <2>6. draft' = [draft EXCEPT !.position = position, !.final = final]
        <3>1. [draft EXCEPT !.position.rack = rack].final = draft.final
            BY <1>6 DEF DraftNames
        <3> QED
            BY <1>6, <1>8, <2>2, <3>1 DEF EditRack, RackEdited, DraftNames
    <2> HIDE DEF position, final, old
    <2>7. /\ draft' = [x \in DraftNames |-> draft'[x]]
          /\ draft'.position = position /\ draft'.cursor = draft.cursor
          /\ draft'.final = final
          /\ draft'.gcg = draft.gcg /\ draft'.history = draft.history
          /\ draft'.players = draft.players /\ draft'.finalPlayer = draft.finalPlayer
        BY ONLY <1>6, <2>6 DEF DraftNames
    <2>8. DraftOK(draft')
        BY <1>1, <1>5, <2>7 DEF DraftOK
    <2>9. FinalFrame(draft') = FinalFrame(draft) /\ FromFile(draft')
        BY <2>1, <2>7, SameFrames DEF IsGame
    <2>10. IsGame(draft', final)
        BY <2>2, <2>3, <2>5, <2>7, <2>9 DEF IsGame
    <2> QED
        BY <1>8, <2>5, <2>7, <2>8, <2>10 DEF DraftInv
<1> QED
    BY <1>7, <1>8

LEMMA BoardStep ==
    ASSUME DraftInv, EditBoard
    PROVE  DraftInv'
<1>1. draft # None /\ ~Replaying(draft) /\ DraftOK(draft)
    BY DEF EditBoard, DraftInv
<1> DEFINE old == draft.position
           board == [s \in DOMAIN old.board \cup {BoardEdit.square} |->
                        IF s = BoardEdit.square THEN BoardEdit.tile ELSE old.board[s]]
           position == [old EXCEPT !.board = board]
<1>2. old = At(old.board, Final(old)) /\ Final(old) \in Finals /\ OnSquares(board)
    BY <1>1, EditorAssumption DEF DraftOK, PositionOK, OnSquares
<1>3. draft = [x \in DraftNames |-> draft[x]]
    BY <1>1 DEF DraftOK
<1>4. draft.cursor = None
    <2>1. CASE draft.history = <<>>
        BY <1>1, <2>1 DEF DraftInv
    <2>2. CASE draft.history # <<>>
        <3>1. IsGame(draft, kept)
            BY <1>1, <2>2 DEF DraftInv
        <3>2. HasFrames(draft)
            BY <1>1, <2>2, <3>1, GameFrames
        <3> QED
            BY <1>1, <3>2 DEF Replaying
    <2> QED
        BY <2>1, <2>2
<1>5. draft.history # <<>> => draft.gcg
    BY <1>1 DEF DraftInv, IsGame
<1>6. draft' = IF draft.gcg /\ draft.history # <<>>
               THEN [[draft EXCEPT !.position.board = board]
                       EXCEPT !.history = <<>>, !.gcg = FALSE, !.players = None,
                              !.finalPlayer = None]
               ELSE [draft EXCEPT !.position.board = board]
    BY DEF EditBoard
<1>7. [draft EXCEPT !.position.board = board] = [draft EXCEPT !.position = position]
    <2> HIDE DEF board
    <2> QED
        BY ONLY <1>3 DEF DraftNames
<1> HIDE DEF board
<1>8. PositionOK(position)
    <2> HIDE DEF old
    <2>1. old = [board |-> old.board, rack |-> old.rack, scores |-> old.scores,
                 turn |-> old.turn]
        BY <1>2 DEF At, Position, Final
    <2>2. position = At(board, Final(old))
        BY ONLY <2>1 DEF At, Position, Final
    <2> HIDE DEF position
    <2> QED
        BY <1>2, <2>2, AtFields
<1> HIDE DEF position
<1> DEFINE next == [draft EXCEPT !.position = position]
<1>9. /\ next = [x \in DraftNames |-> next[x]]
      /\ next.position = position /\ next.cursor = draft.cursor
      /\ next.gcg = draft.gcg /\ next.history = draft.history
      /\ next.players = draft.players /\ next.finalPlayer = draft.finalPlayer
    BY ONLY <1>3 DEF DraftNames
<1> HIDE DEF next
<1>10. CASE draft.history = <<>>
    <2>1. draft' = next
        BY <1>6, <1>7, <1>10 DEF next
    <2>2. DraftOK(next)
        BY <1>1, <1>8, <1>9 DEF DraftOK
    <2> QED
        BY <1>4, <1>9, <1>10, <2>1, <2>2 DEF DraftInv
<1>11. CASE draft.history # <<>>
    <2>1. PICK t \in BOOLEAN : t = FALSE
        OBVIOUS
    <2>2. draft' = [next EXCEPT !.history = <<>>, !.gcg = t, !.players = None,
                                !.finalPlayer = None]
        <3>1. draft' = [next EXCEPT !.history = <<>>, !.gcg = FALSE, !.players = None,
                                    !.finalPlayer = None]
            BY <1>5, <1>6, <1>7, <1>11, Zenon DEF next
        <3> QED
            BY <2>1, <3>1, Zenon
    <2>3. /\ draft' = [x \in DraftNames |-> draft'[x]]
          /\ draft'.position = position /\ draft'.cursor = draft.cursor
          /\ draft'.gcg = t /\ draft'.history = <<>>
          /\ draft'.players = None /\ draft'.finalPlayer = None
        BY ONLY <1>9, <2>2 DEF DraftNames
    <2>4. DraftOK(draft')
        BY ONLY <1>8, <2>1, <2>3 DEF DraftOK
    <2> QED
        BY <1>4, <2>3, <2>4 DEF DraftInv
<1> QED
    BY <1>10, <1>11

LEMMA BranchStep ==
    ASSUME DraftInv, BranchFromReplay
    PROVE  DraftInv'
<1>1. draft # None /\ DraftOK(draft)
    BY DEF BranchFromReplay, DraftInv
<1>2. PICK t \in BOOLEAN : t = FALSE
    OBVIOUS
<1> DEFINE e == [draft EXCEPT !.history = <<>>, !.gcg = t, !.players = None,
                              !.finalPlayer = None, !.final = None, !.cursor = None]
<1>3. draft' = Normalised(e)
    <2>1. draft' = Normalised([draft EXCEPT !.history = <<>>, !.gcg = FALSE,
                                !.players = None, !.finalPlayer = None,
                                !.final = None, !.cursor = None])
        BY DEF BranchFromReplay
    <2> QED
        BY <1>2, <2>1, Zenon
<1>4. draft = [x \in DraftNames |-> draft[x]]
    BY <1>1 DEF DraftOK
<1>5. /\ e = [x \in DraftNames |-> e[x]]
      /\ e.position = draft.position /\ e.cursor = None
      /\ e.gcg = t /\ e.history = <<>>
      /\ e.players = None /\ e.finalPlayer = None
    BY ONLY <1>4 DEF DraftNames
<1> HIDE DEF e
<1>6. PositionOK(e.position)
    BY <1>1, <1>5 DEF DraftOK
<1>7. DraftOK(e)
    BY ONLY <1>2, <1>5, <1>6 DEF DraftOK
<1>8. /\ DraftOK(Normalised(e)) /\ Normalised(e).history = <<>>
      /\ Normalised(e).cursor = None
    BY <1>5, <1>7, NormalisedPlain
<1> QED
    BY <1>3, <1>8 DEF DraftInv

LEMMA ReopenStep ==
    ASSUME DraftInv, Reopen
    PROVE  DraftInv'
<1>1. draft # None /\ DraftOK(draft) /\ draft' = Normalised(draft) /\ kept' = kept
    BY DEF Reopen, DraftInv
<1>2. CASE draft.history = <<>>
    <2>1. draft.cursor = None
        BY <1>1, <1>2 DEF DraftInv
    <2>2. /\ DraftOK(Normalised(draft)) /\ Normalised(draft).history = <<>>
          /\ Normalised(draft).cursor = None
        BY <1>1, <1>2, <2>1, NormalisedPlain
    <2> QED
        BY <1>1, <2>2 DEF DraftInv
<1>3. CASE draft.history # <<>>
    <2>1. IsGame(draft, kept)
        BY <1>1, <1>3 DEF DraftInv
    <2>2. draft' = draft
        BY <1>1, <2>1, NormalisedGame
    <2> QED
        BY <1>1, <2>2 DEF DraftInv
<1> QED
    BY <1>2, <1>3

LEMMA CursorIndex ==
    ASSUME DraftInv, draft # None, HasFrames(draft)
    PROVE  /\ DraftOK(draft) /\ IsGame(draft, kept) /\ Len(draft.history) \in Nat
           /\ draft.cursor # None => Cursor(draft) = draft.cursor
<1>1. draft.history # <<>> /\ DraftOK(draft) /\ IsGame(draft, kept)
    BY DEF DraftInv, HasFrames
<1>2. Len(draft.history) \in Nat
    BY <1>1, GameFrames
<1>3. ASSUME draft.cursor # None
      PROVE  Cursor(draft) = draft.cursor
    <2>1. draft.cursor \in Nat /\ draft.cursor <= Len(draft.history)
        BY <1>1, <1>2, <1>3 DEF IsGame
    <2> QED
        BY <1>2, <2>1, MinOfTwo DEF Cursor
<1> QED
    BY <1>1, <1>2, <1>3

LEMMA ExportStep ==
    ASSUME DraftInv, ExportGcgFile
    PROVE  DraftInv' /\ ExportOK(exported')
<1>1. /\ draft # None /\ draft' = draft /\ kept' = kept
      /\ exported' = [text |-> ExportedText(draft), warned |-> SnapshotWarning(draft),
                      of |-> draft]
    BY DEF ExportGcgFile
<1>2. /\ exported'.text = ExportedText(draft) /\ exported'.warned = SnapshotWarning(draft)
      /\ exported'.of = draft
    BY <1>1
<1>3. DraftInv'
    BY <1>1 DEF DraftInv
<1> QED
    BY <1>1, <1>2, <1>3 DEF DraftInv, ExportOK

LEMMA IInvInit == Init => IInv
BY DEF Init, IInv, DraftInv

LEMMA IInvNext == IInv /\ [Next]_vars => IInv'
<1> SUFFICES ASSUME IInv, [Next]_vars
             PROVE  IInv'
    OBVIOUS
<1>0. DraftInv
    BY DEF IInv
<1>1. ASSUME NEW lines \in Games, Import(lines)
      PROVE  DraftInv' /\ exported' = exported
    BY <1>1, ImportStep DEF Import
<1>2. CASE StartReplay
    <2>1. MoveReplayCursor(0) /\ 0 \in Int
        BY <1>2 DEF StartReplay
    <2>2. DraftInv'
        BY <1>0, <2>1, CursorStep
    <2>3. exported' = exported
        BY <2>1 DEF MoveReplayCursor
    <2> QED
        BY <2>2, <2>3 DEF IInv
<1>3. CASE Step
    <2>1. PICK index \in {Cursor(draft) - 1, Cursor(draft) + 1, 0, Len(draft.history)} :
              MoveReplayCursor(index)
        BY <1>3 DEF Step
    <2>2. draft # None /\ HasFrames(draft) /\ draft.cursor # None
        BY <1>3 DEF Step, Replaying
    <2>3. Cursor(draft) \in Nat /\ Len(draft.history) \in Nat
        BY <1>0, <2>2, CursorIndex DEF IsGame
    <2>4. index \in Int
        BY <2>3
    <2>5. DraftInv' /\ exported' = exported
        BY <1>0, <2>1, <2>4, CursorStep DEF MoveReplayCursor
    <2> QED
        BY <2>5 DEF IInv
<1>4. CASE ReturnToFinal
    <2>1. DraftInv' /\ exported' = exported
        BY <1>0, <1>4, CursorStep DEF ReturnToFinal, MoveReplayCursor
    <2> QED
        BY <2>1 DEF IInv
<1>5. ASSUME NEW rack \in RackEdits, EditRack(rack)
      PROVE  DraftInv' /\ exported' = exported
    BY <1>0, <1>5, RackStep DEF EditRack
<1>6. CASE EditBoard
    <2>1. DraftInv' /\ exported' = exported
        BY <1>0, <1>6, BoardStep DEF EditBoard
    <2> QED
        BY <2>1 DEF IInv
<1>7. CASE BranchFromReplay
    <2>1. DraftInv' /\ exported' = exported
        BY <1>0, <1>7, BranchStep DEF BranchFromReplay
    <2> QED
        BY <2>1 DEF IInv
<1>8. CASE Reopen
    <2>1. DraftInv' /\ exported' = exported
        BY <1>0, <1>8, ReopenStep DEF Reopen
    <2> QED
        BY <2>1 DEF IInv
<1>9. CASE ExportGcgFile
    BY <1>0, <1>9, ExportStep DEF IInv
<1>10. CASE UNCHANGED vars
    BY <1>10 DEF vars, IInv, DraftInv
<1>11. ASSUME DraftInv', exported' = exported
       PROVE  IInv'
    BY <1>11 DEF IInv
<1> QED
    BY <1>1, <1>2, <1>3, <1>4, <1>5, <1>6, <1>7, <1>8, <1>9, <1>10, <1>11 DEF Next

(* A draft of an imported game always holds records that parseGcg accepted,  *)
(* a position at one of them, and the final position to return to; opening   *)
(* it again changes nothing.                                                 *)
THEOREM Invariant == Spec => []IInv
<1> QED
    BY IInvInit, IInvNext, PTL DEF Spec

(* Every position the editor shows of an imported game has tiles within the *)
(* squares, a rack that fits, scores that are not negative and a turn       *)
(* parseGcg could have counted, whichever record is shown.                  *)
THEOREM TypeCorrect == Spec => []TypeOK
<1>1. IInv => TypeOK
    <2> SUFFICES ASSUME IInv, draft # None
                 PROVE  /\ IsPosition(draft.position)
                        /\ draft.cursor \in Nat \cup {None}
                        /\ draft.gcg \in BOOLEAN
                        /\ draft.players \in (SUBSET Players) \cup {None}
                        /\ draft.finalPlayer \in Players \cup {None}
        BY DEF TypeOK
    <2>1. DraftOK(draft)
        BY DEF IInv, DraftInv
    <2>2. IsPosition(draft.position)
        BY <2>1 DEF DraftOK, PositionOK, OnSquares, IsPosition, Final, Finals
    <2>3. draft.cursor \in Nat \cup {None}
        <3>1. CASE draft.history = <<>>
            BY <3>1 DEF IInv, DraftInv
        <3>2. CASE draft.history # <<>>
            BY <3>2 DEF IInv, DraftInv, IsGame
        <3> QED
            BY <3>1, <3>2
    <2> QED
        BY <2>1, <2>2, <2>3 DEF DraftOK
<1> QED
    BY <1>1, Invariant, PTL

(* moveReplayCursor returns to the position the game was imported with, and *)
(* the rack the user gave it since: however many records were shown before, *)
(* and wherever the draft was reopened on the way.                          *)
THEOREM ReturnCorrect == Spec => []FinalPositionRestored
<1>1. IInv => FinalPositionRestored
    <2> SUFFICES ASSUME IInv, draft # None, HasFrames(draft),
                        ~Replaying(draft) \/ Cursor(draft) = Len(draft.history)
                 PROVE  draft.position = At(FinalFrame(draft).board, kept)
        BY DEF FinalPositionRestored
    <2>1. IsGame(draft, kept) /\ (draft.cursor # None => Cursor(draft) = draft.cursor)
        BY CursorIndex DEF IInv
    <2>2. CASE draft.cursor = None
        BY <2>1, <2>2 DEF IsGame
    <2>3. CASE draft.cursor # None
        <3>1. Replaying(draft)
            BY <2>3 DEF Replaying
        <3>2. draft.cursor = Len(draft.history) /\ draft.cursor \in 0..Len(draft.history)
            BY <2>1, <2>3, <3>1 DEF IsGame
        <3> QED
            BY <2>1, <2>3, <3>2, ReplayPositionOK DEF IsGame
    <2> QED
        BY <2>2, <2>3
<1> QED
    BY <1>1, Invariant, PTL

(* While a record is shown, the analysis works on the board before that     *)
(* record, and on a rack only if the record's own player was on turn.       *)
THEOREM AnalysedCorrect == Spec => []AnalysedPositionIsShown
<1>1. IInv => AnalysedPositionIsShown
    <2> SUFFICES ASSUME IInv, draft # None, Replaying(draft),
                        Cursor(draft) < Len(draft.history)
                 PROVE  /\ draft.position.board = Frame(draft, Cursor(draft)).board
                        /\ draft.position.rack # 0 =>
                              /\ IsDecision(draft.history[Cursor(draft) + 1])
                              /\ draft.position.rack
                                    = draft.history[Cursor(draft) + 1].move.rack
        BY DEF AnalysedPositionIsShown
    <2> DEFINE c == Cursor(draft)
               e == Upcoming(draft, c)
    <2>1. draft.cursor # None /\ HasFrames(draft)
        BY DEF Replaying
    <2>2. /\ IsGame(draft, kept) /\ c = draft.cursor /\ Len(draft.history) \in Nat
        BY <2>1, CursorIndex DEF IInv
    <2>3. /\ draft.position = ReplayPositionAt(draft, c, kept)
          /\ c \in 0..Len(draft.history) /\ kept \in Finals /\ FromFile(draft)
        BY <2>1, <2>2 DEF IsGame
    <2> HIDE DEF c
    <2>4. draft.position.board = Frame(draft, c).board
        BY <2>3, ReplayPositionOK
    <2>5. draft.position.rack = IF IsDecision(e) THEN UsableRack(e.move.rack) ELSE 0
        <3>1. ~(c >= FrameCount(draft) - 1)
            BY <2>2, <2>3 DEF FrameCount, c
        <3> QED
            BY <2>3, <3>1 DEF ReplayPositionAt, Position
    <2>6. e = draft.history[c + 1]
        BY DEF Upcoming
    <2>7. draft.position.rack # 0 => IsDecision(e) /\ draft.position.rack = e.move.rack
        BY <2>5 DEF UsableRack
    <2> QED
        BY <2>4, <2>6, <2>7 DEF c
<1> QED
    BY <1>1, Invariant, PTL

(* A GCG file exported outside a replay leads back to the board on the      *)
(* screen, or comes with the warning that no record accounts for it.  It    *)
(* may fail to be read at all, see ExportIsRead in GcgGame.                 *)
THEOREM ExportCorrect == Spec => []ExportKeepsBoard
<1>1. IInv => ExportKeepsBoard
    <2> DEFINE d == exported.of
               rack == d.position.rack
               again == ParseText(exported.text)
    <2> SUFFICES ASSUME IInv, exported # None, ~Replaying(d), ~exported.warned
                 PROVE  again.failed \/ again.board = d.position.board
        BY DEF ExportKeepsBoard
    <2>1. /\ DraftOK(d) /\ again = ParseText(ExportText(ExportPlayers(d), d.history, rack,
                                                       d.finalPlayer))
          /\ ~SnapshotWarning(d)
        BY DEF IInv, ExportOK, ExportedText
    <2>2. CASE d.history = <<>>
        <3>1. again.failed \/ again.board = EmptyBoard
            BY <2>1, <2>2, NothingRead
        <3>2. Places(d.history) = {}
            BY <2>2 DEF Places
        <3>3. d.position.board = EmptyBoard
            BY <2>1, <3>2 DEF SnapshotWarning, DraftOK, PositionOK, OnSquares, EmptyBoard
        <3> QED
            BY <3>1, <3>3
    <2>3. CASE d.history # <<>>
        <3>1. PICK final : IsGame(d, final)
            BY <2>3 DEF IInv, ExportOK
        <3>2. HasFrames(d) /\ d.cursor = None /\ d.players # None /\ final \in Finals
            BY <2>1, <2>3, <3>1, GameFrames DEF Replaying, HasFrames, IsGame
        <3>3. PICK p, seen : /\ Story(p, seen) /\ Detailed(p, seen)
                             /\ d.history = p.history /\ d.players = p.players
            BY <3>1 DEF IsGame, FromFile
        <3>4. d.position.board = FrameAfter(p.players, p.history, Len(p.history)).board
            BY <3>1, <3>2, <3>3, AtFields DEF IsGame, FinalFrame, Frame
        <3>5. FrameAfter(p.players, p.history, Len(p.history)).board = p.board
            <4>1. Len(p.history) \in 0..Len(p.history)
                BY <3>3 DEF Story, IsParse, IsHistory, IsSeq
            <4> QED
                BY <3>3, <4>1, FrameAfterFollows DEF Follows, SameGame, Story, StorySeen,
                                                     StoryEnds
        <3>6. rack \in Rack
            BY <2>1 DEF DraftOK, PositionOK, Final, Finals, Rack
        <3>7. again = ParseText(ExportText(p.players, p.history, rack, d.finalPlayer))
            BY <2>1, <3>2, <3>3 DEF ExportPlayers
        <3> HIDE DEF again, rack
        <3>8. again.failed \/ SameAgain(again, p, rack, d.finalPlayer)
            BY ONLY <3>3, <3>6, <3>7, ReadAgain
        <3> QED
            BY <3>4, <3>5, <3>8 DEF SameAgain
    <2> QED
        BY <2>2, <2>3
<1> QED
    BY <1>1, Invariant, PTL
=============================================================================
