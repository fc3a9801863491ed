----------------------------- MODULE GcgEditor -----------------------------
(***************************************************************************)
(* An imported game in the editor (product/web/src/main.tsx): the draft    *)
(* that createImportedGcgScenario makes of a parsed file, stepping through *)
(* its records, editing its final position, reopening it from the browser  *)
(* or from an exported JSON file, branching from a record, and exporting   *)
(* it as GCG again.                                                        *)
(***************************************************************************)
EXTENDS Gcg

CONSTANTS Games,     \* files to import, each a sequence of lines
          RackEdits, \* racks the user makes in the rack editor
          BoardEdit  \* the tile, and its square, that the user puts on the board

(* What imported.final holds. *)
Snapshots == [rack : Rack, scores : [onTurn : Int, opponent : Int],
              turn : [number : Nat, scorelessTurns : Nat]]

ASSUME EditorAssumption ==
    /\ \A g \in Games : /\ g \in Seq({g[i] : i \in DOMAIN g})
                        /\ \A i \in DOMAIN g : WellFormed(g[i])
    /\ RackEdits \subseteq 0..7 /\ BoardEdit.square \in Square
    /\ \A players \in SUBSET Players : players # None
    /\ None \notin Snapshots

VARIABLES
    draft,     \* draftState, None before the import
    exported,  \* the last file exportGcgFile made, None before
    kept       \* history: what the final position of the game must be

vars == <<draft, exported, kept>>

Clamped(n) == IF n < 0 THEN 0 ELSE n
RawScores(s) == s  \* mutant: a score below zero is taken over
ClampedScores(s) == [onTurn |-> Clamped(s.onTurn), opponent |-> Clamped(s.opponent)]
UsableRack(r) == IF r <= 7 THEN r ELSE 0

Position(board, rack, scores, turn) ==
    [board |-> board, rack |-> rack, scores |-> scores, turn |-> turn]
Final(position) ==
    [rack |-> position.rack, scores |-> position.scores, turn |-> position.turn]
At(board, final) == Position(board, final.rack, final.scores, final.turn)

(* draftStateFromUnknown, which every draft passes when a scenario or an    *)
(* exported JSON file is opened.  Metadata that is neither a game's nor a   *)
(* fork's is dropped.                                                       *)
Normalised(d) ==
    LET position == [d.position EXCEPT !.rack = UsableRack(@), !.scores = ClampedScores(@)]
        final == IF d.final = None \/ d.final.rack > 7 THEN None
                 ELSE [d.final EXCEPT !.scores = ClampedScores(@)] IN
    IF d.gcg THEN [d EXCEPT !.position = position, !.final = final,
                            !.players = IF @ = {} THEN None ELSE @]
    ELSE [d EXCEPT !.position = position, !.final = None, !.players = None,
                   !.finalPlayer = None, !.cursor = None]

(* createImportedGcgScenario *)
ImportedState(p) ==
    LET position == Position(p.board, FinalRack(p), FinalScores(p), FinalTurn(p)) IN
    [gcg |-> TRUE, position |-> position, history |-> p.history, players |-> p.players,
     finalPlayer |-> p.current, final |-> Final(position), cursor |-> None]

(* replayFrames: there are none without a game, nor when the replay throws. *)
HasFrames(d) == d.gcg /\ d.players # None /\ d.history # <<>>
FrameCount(d) == Len(d.history) + 1
Frame(d, n) == FrameAfter(d.players, d.history, n)
FinalFrame(d) == Frame(d, Len(d.history))

Cursor(d) == Min({d.cursor, Len(d.history)})  \* activeReplayIndex
Replaying(d) == d.cursor # None /\ HasFrames(d)

PlayedBefore(d, index) == d.history[Max({1, index})]  \* mutant: the record played last
Upcoming(d, index) == d.history[index + 1]

(* replayPositionAt *)
ReplayPositionAt(d, index, final) ==
    LET frame == Frame(d, index)
        entry == Upcoming(d, index)
        mover == IF IsDecision(entry) THEN entry.move.player ELSE frame.current
        others == d.players \ {mover}
        ScoreOf(player) == Clamped(frame.scores[player]) IN
    IF index >= FrameCount(d) - 1 THEN At(frame.board, final)
    ELSE Position(frame.board,
                  IF IsDecision(entry) THEN UsableRack(entry.move.rack) ELSE 0,
                  [onTurn |-> ScoreOf(mover),
                   opponent |-> IF others = {} THEN 0 ELSE ScoreOf(Min(others))],
                  FrameTurn(frame))

(* The final position as it is kept while the game is replayed. *)
SnapshotAlways(d) == Final(d.position)  \* mutant: captured again at every step
FinalSnapshot(d) ==
    IF d.final # None THEN d.final
    ELSE IF d.cursor = None THEN Final(d.position)
    ELSE [Final(d.position) EXCEPT !.rack = 0]

-----------------------------------------------------------------------------
Init ==
    /\ draft = None /\ exported = None /\ kept = None

(* prepareGcgImport accepts the file and the scenario is opened. *)
Import(lines) ==
    LET p == ParseText(lines) IN
    /\ draft = None
    /\ ~p.failed /\ FinalRack(p) <= 7
    /\ draft' = Normalised(ImportedState(p))
    /\ kept' = Final(draft'.position)
    /\ UNCHANGED exported

(* moveReplayCursor, to the record `index' or, for None, to the end. *)
MoveReplayCursor(index) ==
    /\ draft # None /\ HasFrames(draft)
    /\ LET final == FinalSnapshot(draft)
           last == FrameCount(draft) - 1
           bounded == IF index = None THEN None ELSE Max({0, Min({index, last})}) IN
       draft' = [draft EXCEPT
           !.position = ReplayPositionAt(draft, IF bounded = None THEN last ELSE bounded, final),
           !.final = final, !.cursor = bounded]
    /\ UNCHANGED <<exported, kept>>

StartReplay == draft # None /\ ~Replaying(draft) /\ MoveReplayCursor(0)

Step ==
    /\ draft # None /\ Replaying(draft)
    /\ \E index \in {Cursor(draft) - 1, Cursor(draft) + 1, 0, Len(draft.history)} :
        MoveReplayCursor(index)

ReturnToFinal == draft # None /\ Replaying(draft) /\ MoveReplayCursor(None)

(* markPositionEdited for the rack *)
RackEdited(d, rack) ==
    LET next == [d EXCEPT !.position.rack = rack] IN
    IF d.gcg /\ d.history # <<>> /\ d.final # None
    THEN [next EXCEPT !.final.rack = rack] ELSE next

EditRack(rack) ==
    /\ draft # None /\ ~Replaying(draft)
    /\ draft' = RackEdited(draft, rack)
    /\ kept' = IF draft.history = <<>> THEN kept ELSE [kept EXCEPT !.rack = rack]
    /\ UNCHANGED exported

(* markPositionEdited for the board: the game is given up. *)
EditBoard ==
    /\ draft # None /\ ~Replaying(draft)
    /\ LET b == draft.position.board
           next == [draft EXCEPT !.position.board =
                       [s \in DOMAIN b \cup {BoardEdit.square} |->
                           IF s = BoardEdit.square THEN BoardEdit.tile ELSE b[s]]] IN
       draft' = IF draft.gcg /\ draft.history # <<>>
                THEN [next EXCEPT !.history = <<>>, !.gcg = FALSE, !.players = None,
                                  !.finalPlayer = None]
                ELSE next
    /\ UNCHANGED <<exported, kept>>

(* branchFromReplay: an editable copy of the position, in a new scenario. *)
BranchFromReplay ==
    /\ draft # None /\ Replaying(draft)
    /\ draft' = Normalised([draft EXCEPT !.history = <<>>, !.gcg = FALSE,
                                !.players = None, !.finalPlayer = None,
                                !.final = None, !.cursor = None])
    /\ UNCHANGED <<exported, kept>>

(* A reload, a reconnection, another tab's version, or the JSON file        *)
(* exported a moment ago.                                                   *)
Reopen ==
    /\ draft # None
    /\ draft' = Normalised(draft)
    /\ UNCHANGED <<exported, kept>>

-----------------------------------------------------------------------------
(* exportGcgFile *)

ExportPlayers(d) == IF d.players = None THEN {1, 2} ELSE d.players

ExportedText(d) ==
    ExportText(ExportPlayers(d), d.history, d.position.rack, d.finalPlayer)

(* exportGcg warns of a board that no record accounts for. *)
NeverWarns(d) == FALSE  \* mutant: the snapshot is dropped silently
SnapshotWarning(d) ==
    DOMAIN d.position.board # {} /\ Places(d.history) = {}

ExportGcgFile ==
    /\ draft # None
    /\ exported' = [text |-> ExportedText(draft), warned |-> SnapshotWarning(draft),
                    of |-> draft]
    /\ UNCHANGED <<draft, kept>>

Next ==
    \/ \E lines \in Games : Import(lines)
    \/ StartReplay \/ Step \/ ReturnToFinal
    \/ \E rack \in RackEdits : EditRack(rack)
    \/ EditBoard \/ BranchFromReplay \/ Reopen \/ ExportGcgFile

Spec == Init /\ [][Next]_vars

-----------------------------------------------------------------------------
(* Properties *)

IsPosition(p) ==
    /\ DOMAIN p.board \subseteq Square /\ p.rack \in 0..7
    /\ p.scores.onTurn \in Nat /\ p.scores.opponent \in Nat
    /\ p.turn.number \in Nat \ {0} /\ p.turn.scorelessTurns \in 0..MaxScoreless

TypeOK ==
    draft # None =>
        /\ IsPosition(draft.position)
        /\ draft.cursor \in Nat \cup {None}
        /\ draft.gcg \in BOOLEAN
        /\ draft.players \in (SUBSET Players) \cup {None}
        /\ draft.finalPlayer \in Players \cup {None}

(* main.tsx:330-331, moveReplayCursor: however the records are stepped      *)
(* through, reopened and left, the position outside a replay, and at its    *)
(* last record, is the final one, with the rack the user last gave it.      *)
FinalPositionRestored ==
    draft # None /\ HasFrames(draft) /\ (~Replaying(draft) \/ Cursor(draft) = Len(draft.history))
        => draft.position = At(FinalFrame(draft).board, kept)

(* While a record is shown, the position the analysis works on holds the    *)
(* board of that record, whatever was reopened on the way, and a rack that  *)
(* was recorded for the player on turn.                                     *)
AnalysedPositionIsShown ==
    draft # None /\ Replaying(draft) /\ Cursor(draft) < Len(draft.history)
        => /\ draft.position.board = Frame(draft, Cursor(draft)).board
           /\ draft.position.rack # 0 =>
                  /\ IsDecision(draft.history[Cursor(draft) + 1])
                  /\ draft.position.rack = draft.history[Cursor(draft) + 1].move.rack

(* A GCG file exported outside a replay either leads back to the board that *)
(* was on the screen, or comes with a warning, or cannot be read at all     *)
(* (see ExportIsRead, GcgGame).                                             *)
ExportKeepsBoard ==
    exported # None /\ ~Replaying(exported.of) /\ ~exported.warned
        => LET again == ParseText(exported.text) IN
           again.failed \/ again.board = exported.of.position.board

(* gcg.test.ts:103-104: "expect(reparsed.finalRack).toBe(parsed.finalRack)", *)
(* for the file the editor exports of a game with a player on turn.         *)
ExportKeepsFinalRack ==
    exported # None /\ HasFrames(exported.of) /\ exported.of.finalPlayer # None
        => LET again == ParseText(exported.text) IN
           again.failed \/ FinalRack(again) = exported.of.final.rack
=============================================================================
