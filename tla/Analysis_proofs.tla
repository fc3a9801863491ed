--------------------------- MODULE Analysis_proofs ---------------------------
(***************************************************************************)
(* Proofs about the analyses of a tab, for any number of runs, scenarios   *)
(* and boards: TypeOK, SpinnerHasRun, ResultsFitBoard, which rests on      *)
(* draftWriteVersionRef telling apart the boards the draft has had, and    *)
(* StoppedShowsNothing, which rests on analysisAbortRef keeping the        *)
(* controller of the run begun last for as long as that run is under way.  *)
(***************************************************************************)
EXTENDS Analysis, TLAPS

Active(r) == run[r].pc \notin {"idle", "done"}

(* A run under way has a write version of the past; while it is the present *)
(* one, the draft still holds the board the run was started for.            *)
VersionTells ==
    \A r \in Runs : Active(r) =>
        /\ run[r].version <= version
        /\ run[r].version = version => run[r].board = board

(* The run begun last can be aborted while it is under way, and a stop that *)
(* came since has aborted it.                                               *)
StopsLatest ==
    latest # Nobody /\ Active(latest) =>
        abortRef = latest /\ (stopped => run[latest].aborted)

IInv == TypeOK /\ SpinnerHasRun /\ VersionTells /\ StopsLatest

(* What the steps that do not belong to a run may do to the runs. *)
RunsKept ==
    /\ run' \in [Runs -> RunStates]
    /\ \A r \in Runs : /\ run'[r].pc = run[r].pc
                       /\ run'[r].version = run[r].version
                       /\ run'[r].board = run[r].board
    /\ StopsLatest' /\ latest' = latest /\ stopped' \in BOOLEAN

(* The draft is unchanged, or its version is. *)
DraftTold == UNCHANGED draftVars \/ (version < MaxVersion /\ version' = version + 1)

LEMMA Aborting == IInv /\ AbortNow => RunsKept
<1> SUFFICES ASSUME IInv, AbortNow PROVE RunsKept
  OBVIOUS
<1>1. run \in [Runs -> RunStates] /\ latest \in Runs \cup {Nobody}
  BY DEF IInv, TypeOK
<1>2. run' = [r \in Runs |-> [run[r] EXCEPT !.aborted = @ \/ r = abortRef]]
  BY DEF AbortNow
<1>3. ASSUME NEW r \in Runs
      PROVE  /\ run'[r] \in RunStates
             /\ run'[r].pc = run[r].pc
             /\ run'[r].version = run[r].version
             /\ run'[r].board = run[r].board
             /\ r = abortRef => run'[r].aborted
  <2>1. run[r] \in RunStates
    BY <1>1
  <2>2. run'[r] = [run[r] EXCEPT !.aborted = @ \/ r = abortRef]
    BY <1>2
  <2>3. (run[r].aborted \/ r = abortRef) \in BOOLEAN
    OBVIOUS
  <2> QED
    BY <2>1, <2>2, <2>3 DEF RunStates
<1>4. run' \in [Runs -> RunStates]
  BY <1>2, <1>3
<1>5. StopsLatest'
  <2> SUFFICES ASSUME latest' # Nobody, Active(latest)'
               PROVE  abortRef' = latest' /\ run'[latest'].aborted
    BY DEF StopsLatest
  <2>1. latest' = latest /\ latest \in Runs /\ abortRef' = abortRef
    BY <1>1 DEF AbortNow
  <2>2. Active(latest)
    BY <1>3, <2>1 DEF Active
  <2>3. abortRef = latest
    BY <2>1, <2>2 DEF IInv, StopsLatest
  <2> QED
    BY <1>3, <2>1, <2>3
<1> QED
  BY <1>3, <1>4, <1>5 DEF RunsKept, AbortNow

LEMMA Keeping == IInv /\ UNCHANGED <<run, abortRef, history>> => RunsKept
  BY DEF IInv, TypeOK, RunsKept, StopsLatest, Active, history

LEMMA AbortTypes ==
    IInv /\ AbortNow => /\ RunsKept /\ ~analyzing' /\ analyzing' \in BOOLEAN
                        /\ jobRef' = Nobody /\ abortRef' = abortRef
  BY Aborting DEF AbortNow

(* A step that keeps the runs under way and tells of its writes keeps what  *)
(* is known of the runs.                                                    *)
LEMMA KeptTells ==
    ASSUME IInv, RunsKept, DraftTold, analyzing' => analyzing
    PROVE  SpinnerHasRun' /\ VersionTells' /\ StopsLatest'
<1>1. SpinnerHasRun'
  BY DEF IInv, SpinnerHasRun, RunsKept
<1>2. VersionTells'
  <2> SUFFICES ASSUME NEW r \in Runs, Active(r)'
               PROVE  /\ run'[r].version <= version'
                      /\ run'[r].version = version' => run'[r].board = board'
    BY DEF VersionTells
  <2>1. Active(r)
    BY DEF Active, RunsKept
  <2>2. run[r].version <= version /\ (run[r].version = version => run[r].board = board)
    BY <2>1 DEF IInv, VersionTells
  <2>3. version \in Nat /\ run[r].version \in Nat
    BY AnalysisAssumption DEF IInv, TypeOK, RunStates
  <2> QED
    BY <2>2, <2>3 DEF RunsKept, DraftTold, draftVars
<1> QED
  BY <1>1, <1>2 DEF RunsKept

LEMMA InitIInv == Init => IInv
<1> SUFFICES ASSUME Init PROVE IInv
  OBVIOUS
<1>1. TypeOK
  <2>1. run \in [Runs -> RunStates]
    <3>1. NoRun("idle") \in RunStates
      BY AnalysisAssumption DEF NoRun, RunStates, PCs
    <3> QED
      BY <3>1 DEF Init
  <2>2. job \in [Runs -> {"none", "active", "succeeded", "ended"}]
    BY DEF Init
  <2>3. version \in 0..MaxVersion
    BY AnalysisAssumption DEF Init
  <2> QED
    BY <2>1, <2>2, <2>3 DEF Init, TypeOK
<1>2. SpinnerHasRun /\ VersionTells /\ StopsLatest
  BY DEF Init, SpinnerHasRun, VersionTells, StopsLatest, Active, NoRun
<1> QED
  BY <1>1, <1>2 DEF IInv

(* The draft's writers, and cancelAnalysis. *)
LEMMA DraftIInv == IInv /\ (Draft \/ Cancel \/ CancelEnd) => IInv'
<1> SUFFICES ASSUME IInv, Draft \/ Cancel \/ CancelEnd PROVE IInv'
  OBVIOUS
<1> USE AnalysisAssumption DEF place, leaving, draftVars, refs, history
<1>1. ASSUME NEW b \in Boards, Edit(b) PROVE IInv'
  <2>1. RunsKept
    BY <1>1, Keeping DEF Edit
  <2>2. TypeOK'
    BY <1>1 DEF Edit, WriteDraft, IInv, TypeOK
  <2> QED
    BY <1>1, <2>1, <2>2, KeptTells DEF IInv, Edit, WriteDraft, DraftTold
<1>2. ASSUME NEW b \in Boards, MoveReplayCursor(b) PROVE IInv'
  <2>1. RunsKept
    BY <1>2, AbortTypes DEF MoveReplayCursor, StopAnalysis
  <2>2. TypeOK'
    <3>1. version' \in 0..MaxVersion /\ board' \in Boards
      BY <1>2 DEF WriteDraft, IInv, TypeOK, MoveReplayCursor
    <3>2. UNCHANGED job /\ job' \in [Runs -> {"none", "active", "succeeded", "ended"}]
      BY <1>2 DEF IInv, TypeOK, MoveReplayCursor
    <3> QED
      BY <1>2, <2>1, <3>1, <3>2, AbortTypes
         DEF MoveReplayCursor, StopAnalysis, IInv, TypeOK, RunsKept
  <2> QED
    BY <1>2, <2>1, <2>2, KeptTells, AbortTypes
       DEF IInv, MoveReplayCursor, StopAnalysis, WriteDraft, DraftTold
<1>3. ASSUME NEW b \in Boards, OpenFails(b) PROVE IInv'
  <2>1. RunsKept
    BY <1>3, Keeping DEF OpenFails
  <2>2. TypeOK'
    <3>1. version' \in 0..MaxVersion /\ board' \in Boards
      BY <1>3 DEF WriteDraft, IInv, TypeOK, OpenFails
    <3>2. UNCHANGED job /\ job' \in [Runs -> {"none", "active", "succeeded", "ended"}]
      BY <1>3 DEF IInv, TypeOK, OpenFails
    <3> QED
      BY <1>3, <3>1, <3>2 DEF OpenFails, IInv, TypeOK
  <2> QED
    BY <1>3, <2>1, <2>2, KeptTells DEF IInv, OpenFails, WriteDraft, DraftTold
<1>4. ASSUME NEW b \in Boards, Adopt(b) PROVE IInv'
  <2>1. RunsKept
    BY <1>4, Keeping, AbortTypes DEF Adopt, MayStopAnalysis, StopAnalysis
  <2>2. TypeOK'
    <3>1. version' \in 0..MaxVersion /\ board' \in Boards
      BY <1>4 DEF WriteDraft, IInv, TypeOK, Adopt
    <3>2. UNCHANGED job /\ job' \in [Runs -> {"none", "active", "succeeded", "ended"}]
      BY <1>4 DEF IInv, TypeOK, Adopt
    <3> QED
      BY <1>4, <2>1, <3>1, <3>2, AbortTypes
         DEF Adopt, MayStopAnalysis, StopAnalysis, IInv, TypeOK, RunsKept
  <2> QED
    BY <1>4, <2>1, <2>2, KeptTells, AbortTypes
       DEF IInv, Adopt, MayStopAnalysis, StopAnalysis, WriteDraft, DraftTold
<1>5. ASSUME NEW s \in Scenarios \cup {Nobody}, NEW b \in Boards, Reconnect(s, b)
      PROVE  IInv'
  <2>1. RunsKept
    BY <1>5, Keeping DEF Reconnect
  <2>2. TypeOK'
    <3>1. s \in Scenarios
      BY <1>5 DEF Reconnect, Hydrates, IInv, TypeOK
    <3> QED
      BY <1>5, <3>1 DEF Reconnect, WriteDraft, IInv, TypeOK
  <2> QED
    BY <1>5, <2>1, <2>2, KeptTells DEF IInv, Reconnect, WriteDraft, DraftTold
<1>6. ASSUME NEW s \in Scenarios, NEW b \in Boards, Open(s, b) PROVE IInv'
  <2>1. RunsKept
    BY <1>6, Keeping DEF Open
  <2>2. TypeOK'
    <3>1. version' \in 0..MaxVersion /\ board' \in Boards
      BY <1>6 DEF WriteDraft, IInv, TypeOK, Open
    <3>2. UNCHANGED job /\ job' \in [Runs -> {"none", "active", "succeeded", "ended"}]
      BY <1>6 DEF IInv, TypeOK, Open
    <3> QED
      BY <1>6, <3>1, <3>2 DEF Open, IInv, TypeOK
  <2> QED
    BY <1>6, <2>1, <2>2, KeptTells DEF IInv, Open, WriteDraft, DraftTold
<1>7. CASE Leave
  <2>1. RunsKept
    BY <1>7, AbortTypes DEF Leave, StopAnalysis
  <2>2. TypeOK'
    BY <1>7, <2>1, AbortTypes DEF Leave, StopAnalysis, IInv, TypeOK, RunsKept
  <2> QED
    BY <1>7, <2>1, <2>2, KeptTells, AbortTypes DEF IInv, Leave, StopAnalysis, DraftTold
<1>8. CASE Orphan
  <2>1. RunsKept
    BY <1>8, Keeping, AbortTypes DEF Orphan, MayStopAnalysis, StopAnalysis
  <2>2. TypeOK'
    BY <1>8, <2>1, AbortTypes DEF Orphan, MayStopAnalysis, StopAnalysis, IInv, TypeOK, RunsKept
  <2> QED
    BY <1>8, <2>1, <2>2, KeptTells, AbortTypes
       DEF IInv, Orphan, MayStopAnalysis, StopAnalysis, DraftTold
<1>9. CASE Disconnect
  <2>1. RunsKept
    BY <1>9, Keeping DEF Disconnect
  <2>2. TypeOK'
    BY <1>9 DEF Disconnect, IInv, TypeOK
  <2> QED
    BY <1>9, <2>1, <2>2, KeptTells DEF IInv, Disconnect, DraftTold
<1>10. CASE Cancel
  <2>1. RunsKept
    BY <1>10, Keeping, AbortTypes DEF Cancel
  <2>2. TypeOK'
    BY <1>10, <2>1, AbortTypes DEF Cancel, IInv, TypeOK, RunsKept
  <2> QED
    BY <1>10, <2>1, <2>2, KeptTells, AbortTypes DEF IInv, Cancel, DraftTold
<1>11. CASE CancelEnd
  <2>1. RunsKept
    BY <1>11, AbortTypes DEF CancelEnd
  <2>2. TypeOK'
    BY <1>11, <2>1, AbortTypes DEF CancelEnd, IInv, TypeOK, RunsKept
  <2> QED
    BY <1>11, <2>1, <2>2, KeptTells, AbortTypes DEF IInv, CancelEnd, DraftTold
<1> QED
  BY <1>1, <1>2, <1>3, <1>4, <1>5, <1>6, <1>7, <1>8, <1>9, <1>10, <1>11 DEF Draft

(* The moves shown stay or go, or the run shows those of its own board,     *)
(* which is still the draft's as far as the run can tell.                   *)
MovesTold(r) ==
    \/ moves' \in {moves, Nobody}
    \/ /\ Active(r) /\ ~Elsewhere(r) /\ ~Changed(r) /\ ~run[r].aborted
       /\ Show(r)

(* What a step of a run does to the runs and to the references. *)
Goes(r) ==
    \/ Finally(r)
    \/ \E pc \in PCs \ {"idle", "done"} :
           /\ Active(r) /\ SetRun(r, pc)
           /\ jobRef' \in {jobRef, r} /\ UNCHANGED <<analyzing, cancelled, abortRef>>

LEMMA StepTold ==
    ASSUME NEW r \in Runs, IInv, Step(r)
    PROVE  MovesTold(r) /\ Goes(r) /\ RunUnchanged /\ ready' \in BOOLEAN /\ UNCHANGED job
<1> USE DEF MovesTold, Goes, Active, SetRun, refs, Fail, PCs
<1>0. ready \in BOOLEAN
  BY DEF IInv, TypeOK
<1>1. CASE Saved(r)
  BY <1>1 DEF Saved
<1>2. CASE SaveFailed(r)
  BY <1>0, <1>2 DEF SaveFailed
<1>3. CASE RequestFailed(r)
  BY <1>0, <1>3 DEF RequestFailed
<1>4. CASE FastAnswer(r)
  BY <1>0, <1>4 DEF FastAnswer, Answers
<1>5. CASE JobAnswer(r)
  BY <1>0, <1>5 DEF JobAnswer
<1>6. CASE PollAnswer(r)
  BY <1>0, <1>6 DEF PollAnswer, PollStale, Answers
<1>7. CASE SleepOver(r)
  BY <1>0, <1>7 DEF SleepOver, PollStale
<1>8. CASE Deleted(r)
  BY <1>0, <1>8 DEF Deleted
<1>9. CASE Undone(r)
  BY <1>0, <1>9 DEF Undone
<1> QED
  BY <1>1, <1>2, <1>3, <1>4, <1>5, <1>6, <1>7, <1>8, <1>9 DEF Step

(* What a run shows is of the board and the session on the screen. *)
LEMMA ShowsBoard ==
    ASSUME NEW r \in Runs, IInv, MovesTold(r), moves' \notin {moves, Nobody}
    PROVE  /\ moves' \in Results
           /\ moves'.board = board /\ moves'.session = session /\ moves'.run = r
<1>1. run[r].board = board
  BY DEF MovesTold, Changed, IInv, VersionTells
<1>2. run[r].session = session
  BY DEF MovesTold, Elsewhere, place
<1>3. moves' = [run |-> r, session |-> session, board |-> board]
  BY <1>1, <1>2 DEF MovesTold, Show
<1>4. board \in Boards /\ session \in Scenarios
  BY DEF IInv, TypeOK
<1> QED
  BY <1>3, <1>4 DEF Results

LEMMA GoesTypes ==
    ASSUME NEW r \in Runs, IInv, Goes(r)
    PROVE  /\ run' \in [Runs -> RunStates]
           /\ analyzing' \in BOOLEAN /\ cancelled' \in BOOLEAN
           /\ jobRef' \in Runs \cup {Nobody} /\ abortRef' \in Runs \cup {Nobody}
<1>0. /\ run \in [Runs -> RunStates]
      /\ analyzing \in BOOLEAN /\ cancelled \in BOOLEAN
      /\ jobRef \in Runs \cup {Nobody} /\ abortRef \in Runs \cup {Nobody}
  BY DEF IInv, TypeOK
<1>1. CASE Finally(r)
  <2>1. NoRun("done") \in RunStates
    BY AnalysisAssumption DEF NoRun, RunStates, PCs
  <2> QED
    BY <1>0, <1>1, <2>1 DEF Finally, Release, NotAnalyzing
<1>2. ASSUME NEW pc \in PCs, SetRun(r, pc), jobRef' \in {jobRef, r},
             UNCHANGED <<analyzing, cancelled, abortRef>>
      PROVE  /\ run' \in [Runs -> RunStates]
             /\ analyzing' \in BOOLEAN /\ cancelled' \in BOOLEAN
             /\ jobRef' \in Runs \cup {Nobody} /\ abortRef' \in Runs \cup {Nobody}
  <2>1. [run[r] EXCEPT !.pc = pc] \in RunStates
    BY <1>0 DEF RunStates
  <2> QED
    BY <1>0, <1>2, <2>1 DEF SetRun
<1> QED
  BY <1>1, <1>2 DEF Goes

LEMMA GoesTells ==
    ASSUME NEW r \in Runs, IInv, Goes(r), UNCHANGED <<draftVars, history>>
    PROVE  SpinnerHasRun' /\ VersionTells' /\ StopsLatest'
<1>0. /\ run \in [Runs -> RunStates] /\ latest \in Runs \cup {Nobody}
      /\ SpinnerHasRun /\ VersionTells /\ StopsLatest
  BY DEF IInv, TypeOK
<1> USE DEF draftVars, history
<1>1. CASE Finally(r)
  <2>1. ASSUME NEW q \in Runs, Active(q)' PROVE Active(q) /\ run'[q] = run[q] /\ q # r
    BY <1>0, <1>1, <2>1 DEF Finally, Active, NoRun
  <2>2. ~analyzing'
    BY <1>1 DEF Finally, NotAnalyzing
  <2>3. StopsLatest'
    <3> SUFFICES ASSUME latest # Nobody, Active(latest)'
                 PROVE  abortRef' = latest /\ (stopped => run'[latest].aborted)
      BY DEF StopsLatest
    <3>1. Active(latest) /\ run'[latest] = run[latest] /\ latest # r
      BY <1>0, <2>1
    <3>2. abortRef = latest /\ (stopped => run[latest].aborted)
      BY <1>0, <3>1 DEF StopsLatest
    <3> QED
      BY <1>1, <3>1, <3>2 DEF Finally, Release
  <2> QED
    BY <1>0, <2>1, <2>2, <2>3 DEF SpinnerHasRun, VersionTells
<1>2. ASSUME NEW pc \in PCs \ {"idle", "done"}, Active(r), SetRun(r, pc),
             UNCHANGED <<analyzing, abortRef>>
      PROVE  SpinnerHasRun' /\ VersionTells' /\ StopsLatest'
  <2>1. run'[r] = [run[r] EXCEPT !.pc = pc] /\ \A q \in Runs \ {r} : run'[q] = run[q]
    BY <1>0, <1>2 DEF SetRun
  <2>2. /\ run'[r].pc = pc /\ run'[r].version = run[r].version
        /\ run'[r].board = run[r].board /\ run'[r].aborted = run[r].aborted
    BY <1>0, <2>1 DEF RunStates
  <2>3. SpinnerHasRun'
    BY <1>2, <2>2 DEF SpinnerHasRun
  <2>4. VersionTells'
    BY <1>0, <1>2, <2>1, <2>2 DEF VersionTells, Active
  <2>5. StopsLatest'
    BY <1>0, <1>2, <2>1, <2>2 DEF StopsLatest, Active
  <2> QED
    BY <2>3, <2>4, <2>5
<1> QED
  BY <1>1, <1>2 DEF Goes

LEMMA StepIInv == ASSUME NEW r \in Runs PROVE IInv /\ Step(r) => IInv'
<1> SUFFICES ASSUME IInv, Step(r) PROVE IInv'
  OBVIOUS
<1>1. MovesTold(r) /\ Goes(r) /\ RunUnchanged /\ ready' \in BOOLEAN /\ UNCHANGED job
  BY StepTold
<1>2. moves' \in Results \cup {Nobody}
  BY <1>1, ShowsBoard DEF IInv, TypeOK
<1>3. TypeOK'
  BY <1>1, <1>2, GoesTypes DEF IInv, TypeOK, RunUnchanged, place, leaving, draftVars, history
<1>4. SpinnerHasRun' /\ VersionTells' /\ StopsLatest'
  BY <1>1, GoesTells DEF RunUnchanged
<1> QED
  BY <1>3, <1>4 DEF IInv

LEMMA AnalyzeIInv ==
    ASSUME NEW r \in Runs, NEW deep \in BOOLEAN PROVE IInv /\ Analyze(r, deep) => IInv'
<1> SUFFICES ASSUME IInv, Analyze(r, deep) PROVE IInv'
  OBVIOUS
<1> DEFINE new == [pc |-> "saving", local |-> local, session |-> session, board |-> board,
                   version |-> version, deep |-> deep, aborted |-> FALSE]
<1>1. new \in RunStates
  BY DEF IInv, TypeOK, RunStates, PCs
<1>2. run' = [run EXCEPT ![r] = new] /\ run \in [Runs -> RunStates]
  BY DEF Analyze, IInv, TypeOK
<1>3. run' \in [Runs -> RunStates]
  BY <1>1, <1>2
<1>4. run'[r] = new /\ \A q \in Runs \ {r} : run'[q] = run[q]
  BY <1>2
<1>5. TypeOK'
  BY <1>3 DEF Analyze, IInv, TypeOK, place, leaving, draftVars
<1>6. SpinnerHasRun'
  BY <1>4 DEF SpinnerHasRun
<1>7. VersionTells'
  <2>1. version' = version /\ board' = board /\ version \in Nat
    BY AnalysisAssumption DEF Analyze, draftVars, IInv, TypeOK
  <2> QED
    BY <1>4, <2>1 DEF IInv, VersionTells, Active
<1>8. StopsLatest'
  BY DEF Analyze, StopsLatest
<1> QED
  BY <1>5, <1>6, <1>7, <1>8 DEF IInv

LEMMA JobIInv ==
    ASSUME NEW r \in Runs PROVE IInv /\ (JobMade(r) \/ JobRuns(r)) => IInv'
<1> SUFFICES ASSUME IInv, JobMade(r) \/ JobRuns(r) PROVE IInv'
  OBVIOUS
<1> USE DEF RunUnchanged, place, leaving, draftVars, refs, history
<1>1. UNCHANGED <<run, moves, analyzing, ready, refs>> /\ RunUnchanged
  BY DEF JobMade, JobRuns
<1>2. job' \in [Runs -> {"none", "active", "succeeded", "ended"}]
  BY DEF JobMade, JobRuns, IInv, TypeOK
<1>3. TypeOK'
  BY <1>1, <1>2 DEF IInv, TypeOK
<1> QED
  BY <1>1, <1>3, Keeping, KeptTells DEF IInv, DraftTold

LEMMA NextIInv == IInv /\ [Next]_vars => IInv'
<1> SUFFICES ASSUME IInv, [Next]_vars PROVE IInv'
  OBVIOUS
<1>1. CASE UNCHANGED vars
  <2>1. TypeOK'
    BY <1>1 DEF IInv, TypeOK, vars, place, leaving, draftVars, refs, history
  <2> QED
    BY <1>1, <2>1, Keeping, KeptTells DEF IInv, DraftTold, vars, draftVars, refs
<1> QED
  BY <1>1, DraftIInv, StepIInv, AnalyzeIInv, JobIInv DEF Next

LEMMA Invariant == Spec => []IInv
  BY InitIInv, NextIInv, PTL DEF Spec

(* The tab's state stays well formed; in particular a run that shows its    *)
(* moves was started in a scenario with a session.                          *)
THEOREM TypeCorrect == Spec => []TypeOK
<1>1. IInv => TypeOK
  BY DEF IInv
<1> QED
  BY <1>1, Invariant, PTL

(* While the controls show an analysis, a run is under way that resets them *)
(* (analyze's finally block), whatever is edited, switched or cancelled.    *)
THEOREM SpinnerIsBacked == Spec => []SpinnerHasRun
<1>1. IInv => SpinnerHasRun
  BY DEF IInv
<1> QED
  BY <1>1, Invariant, PTL

(* The moves that appear are those of the position and of the session on    *)
(* the screen, after any number of edits, switches and analyses meanwhile.  *)
THEOREM ResultsAreOfBoard == Spec => ResultsFitBoard
<1> DEFINE Fit == moves' # moves /\ moves' # Nobody
                      => moves'.board = board' /\ moves'.session = session'
<1>1. IInv /\ [Next]_vars => [Fit]_vars
  <2> SUFFICES ASSUME IInv, Next, moves' # moves, moves' # Nobody
               PROVE  moves'.board = board' /\ moves'.session = session'
    BY DEF vars
  <2>1. PICK r \in Runs : Step(r)
    BY DEF Next, Draft, Edit, MoveReplayCursor, OpenFails, Adopt, Reconnect, Open, Leave,
           Orphan, Disconnect, Cancel, CancelEnd, Analyze, JobMade, JobRuns
  <2>2. MovesTold(r) /\ RunUnchanged
    BY <2>1, StepTold
  <2> QED
    BY <2>2, ShowsBoard DEF RunUnchanged, place, draftVars
<1> QED
  BY <1>1, Invariant, PTL DEF Spec, ResultsFitBoard

(* Once analysing is stopped, the analysis begun last shows no moves any    *)
(* more: whatever finally blocks came in between, the abort has reached it. *)
THEOREM StoppedIsSilent == Spec => StoppedShowsNothing
<1> DEFINE Silent == moves' # moves /\ moves' # Nobody /\ stopped => moves'.run # latest
<1>1. IInv /\ [Next]_vars => [Silent]_vars
  <2> SUFFICES ASSUME IInv, Next, moves' # moves, moves' # Nobody, stopped,
                      moves'.run = latest
               PROVE  FALSE
    BY DEF vars
  <2>1. PICK r \in Runs : Step(r)
    BY DEF Next, Draft, Edit, MoveReplayCursor, OpenFails, Adopt, Reconnect, Open, Leave,
           Orphan, Disconnect, Cancel, CancelEnd, Analyze, JobMade, JobRuns
  <2>2. MovesTold(r)
    BY <2>1, StepTold
  <2>3. latest = r
    BY <2>2, ShowsBoard
  <2>4. Active(r) /\ ~run[r].aborted
    BY <2>2 DEF MovesTold
  <2> QED
    BY <2>3, <2>4, AnalysisAssumption DEF IInv, StopsLatest
<1> QED
  BY <1>1, Invariant, PTL DEF Spec, StoppedShowsNothing
=============================================================================
