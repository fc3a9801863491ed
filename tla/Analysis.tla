------------------------------ MODULE Analysis ------------------------------
(***************************************************************************)
(* Analyses of the position in one editor tab (product/web/src/main.tsx):  *)
(* analyze, persistSession, pollDeepJob and cancelAnalysis, every await of *)
(* which lets edits, replay steps, scenario switches, reconnections and    *)
(* other analyses in.  A run is one call of analyze; its pc names what it  *)
(* awaits.  A board stands for the position (content) of a draft; version  *)
(* is draftWriteVersionRef.  A scenario's session bears its name.          *)
(***************************************************************************)
EXTENDS Naturals

CONSTANTS Runs,        \* calls of analyze
          Scenarios,   \* scenarios, and their sessions
          Boards,      \* positions
          MaxVersion,  \* bound on the writes of the draft
          Nobody       \* a null reference

ASSUME AnalysisAssumption ==
    MaxVersion \in Nat /\ Nobody \notin Runs \cup Scenarios \cup Boards

VARIABLES
    local, session,       \* activeLocalIdRef, sessionIdRef
    board, version,       \* the draft
    ready,                \* sessionReady
    moves,                \* the moves shown: whose, for which session and board
    analyzing, cancelled, \* analyzing, analysisCancelledRef
    jobRef, abortRef,     \* activeJobIdRef, analysisAbortRef
    cancelling,           \* a cancelAnalysis awaits its DELETE
    switching, previous,  \* activateScenario is under way, and what it left
    orphaned,             \* orphanedScenarioTitle is set
    run,                  \* the calls of analyze
    latest, stopped,      \* history: the run begun last, and whether analysing was
                          \* stopped since
    job                   \* the deep jobs on the server, one per run

place     == <<local, session>>
leaving   == <<switching, previous, orphaned>>
draftVars == <<board, version>>
refs      == <<cancelled, jobRef, abortRef>>
history   == <<latest, stopped>>
vars == <<place, draftVars, ready, moves, analyzing, refs, cancelling, leaving, run, job,
          history>>

PCs == {"idle", "saving", "asking", "polling", "sleeping", "deleting", "undoing", "done"}

RunStates == [pc : PCs, local : Scenarios \cup {Nobody}, session : Scenarios \cup {Nobody},
              board : Boards \cup {Nobody}, version : 0..MaxVersion, deep : BOOLEAN,
              aborted : BOOLEAN]
Results   == [run : Runs, session : Scenarios, board : Boards]

TypeOK ==
    /\ local \in Scenarios \cup {Nobody} /\ session \in Scenarios
    /\ board \in Boards /\ version \in 0..MaxVersion
    /\ ready \in BOOLEAN
    /\ moves \in Results \cup {Nobody}
    /\ analyzing \in BOOLEAN /\ cancelled \in BOOLEAN /\ cancelling \in BOOLEAN
    /\ jobRef \in Runs \cup {Nobody} /\ abortRef \in Runs \cup {Nobody}
    /\ switching \in BOOLEAN /\ orphaned \in BOOLEAN
    /\ previous \in Scenarios \cup {Nobody}
    /\ run \in [Runs -> RunStates]
    /\ job \in [Runs -> {"none", "active", "succeeded", "ended"}]
    /\ latest \in Runs \cup {Nobody} /\ stopped \in BOOLEAN

(* A run that has not begun, or is over. *)
NoRun(pc) == [pc |-> pc, local |-> Nobody, session |-> Nobody, board |-> Nobody,
              version |-> 0, deep |-> FALSE, aborted |-> FALSE]

(* A tab that has hydrated and reached its session. *)
Init ==
    /\ local \in Scenarios /\ session = local
    /\ board \in Boards /\ version = 0 /\ ready = TRUE
    /\ moves = Nobody
    /\ analyzing = FALSE /\ cancelled = FALSE /\ cancelling = FALSE
    /\ jobRef = Nobody /\ abortRef = Nobody
    /\ switching = FALSE /\ previous = Nobody /\ orphaned = FALSE
    /\ run = [r \in Runs |-> NoRun("idle")]
    /\ job = [r \in Runs |-> "none"]
    /\ latest = Nobody /\ stopped = FALSE

-----------------------------------------------------------------------------
(* The draft and the place it belongs to *)

WriteDraft(b) ==  \* setDraftState
    version < MaxVersion /\ version' = version + 1 /\ board' = b

(* markPositionEdited, changeLexicon: the moves shown go. *)
Edit(b) ==
    /\ b # board /\ WriteDraft(b)
    /\ moves' = Nobody
    /\ UNCHANGED <<place, ready, analyzing, refs, cancelling, leaving, run, job, history>>

(* analysisAbortRef.current?.abort(), and the controls reset. *)
AbortNow ==
    /\ run' = [r \in Runs |-> [run[r] EXCEPT !.aborted = @ \/ r = abortRef]]
    /\ jobRef' = Nobody /\ analyzing' = FALSE
    /\ stopped' = TRUE /\ UNCHANGED <<abortRef, latest>>

(* stopAnalysisForScenarioSwitch; its DELETE of the job is not awaited, and *)
(* a job may end at any time anyway.                                        *)
StopAnalysis == AbortNow /\ cancelled' = TRUE

MayStopAnalysis == StopAnalysis \/ UNCHANGED <<analyzing, refs, run, history>>

MoveReplayCursor(b) ==
    /\ StopAnalysis
    /\ WriteDraft(b)
    /\ moves' = Nobody
    /\ UNCHANGED <<place, ready, cancelling, leaving, job>>

(* activateScenario: up to the awaits on the store ... *)
Leave ==
    /\ ~switching /\ switching' = TRUE
    /\ StopAnalysis
    /\ previous' = local /\ local' = Nobody /\ ready' = FALSE
    /\ UNCHANGED <<session, draftVars, moves, cancelling, orphaned, job>>

(* ... and then the scenario is opened, *)
Open(s, b) ==
    /\ switching /\ switching' = FALSE
    /\ s # previous /\ previous' = Nobody
    /\ local' = s /\ session' = s /\ orphaned' = FALSE
    /\ WriteDraft(b) /\ moves' = Nobody
    /\ UNCHANGED <<ready, analyzing, refs, cancelling, run, job, history>>

(* or the outgoing one restored, or its draft kept as an orphan, or a clean *)
(* draft left without a scenario.                                           *)
OpenFails(b) ==
    /\ switching /\ switching' = FALSE /\ previous' = Nobody
    /\ \/ previous # Nobody /\ local' = previous /\ session' = previous
          /\ WriteDraft(b) /\ UNCHANGED orphaned
       \/ previous # Nobody /\ local' = Nobody /\ session' = previous
          /\ WriteDraft(b) /\ orphaned' = TRUE
       \/ previous # Nobody /\ b = board /\ orphaned' = TRUE
          /\ UNCHANGED <<place, draftVars>>
       \/ b = board /\ local' = (IF previous = Nobody THEN local ELSE Nobody)
          /\ UNCHANGED <<session, draftVars, orphaned>>
    /\ UNCHANGED <<ready, moves, analyzing, refs, cancelling, run, job, history>>

(* preserveActiveDraftAsOrphan *)
Orphan ==
    /\ local # Nobody /\ local' = Nobody /\ orphaned' = TRUE
    /\ MayStopAnalysis
    /\ UNCHANGED <<session, draftVars, ready, moves, cancelling, switching, previous, job>>

(* adoptScenarioFromAnotherTab: the record another tab stored is shown. *)
Adopt(b) ==
    /\ local # Nobody
    /\ WriteDraft(b) /\ ready' = FALSE
    /\ MayStopAnalysis
    /\ UNCHANGED <<place, moves, cancelling, leaving, job>>

(* The offline event, or the start of a reconnection. *)
Disconnect ==
    /\ ready /\ ready' = FALSE
    /\ UNCHANGED <<place, draftVars, moves, analyzing, refs, cancelling, leaving, run, job,
                   history>>

HydratesActive == {local}  \* mutant: whatever activeLocalIdRef says
(* The scenario hydration loads: the one that is open, otherwise what the   *)
(* store's active pointer names, unless the draft is an orphan.             *)
Hydrates ==
    IF local # Nobody THEN {local} ELSE IF orphaned THEN {} ELSE Scenarios

(* The hydration effect: the stored record, then the server's state when    *)
(* there are no local edits, are written to the draft.                      *)
Reconnect(s, b) ==
    /\ ~ready /\ s \in Hydrates
    /\ WriteDraft(b) /\ local' = s /\ session' = s /\ ready' = TRUE
    /\ UNCHANGED <<moves, analyzing, refs, cancelling, leaving, run, job, history>>

-----------------------------------------------------------------------------
(* analyze *)

SetRun(r, pc) == run' = [run EXCEPT ![r].pc = pc]

Elsewhere(r) == <<run[r].local, run[r].session>> # place
NeverChanged(r) == FALSE  \* mutant: draftWriteVersionRef is not compared
Changed(r)   == run[r].version # version

Analyze(r, deep) ==
    /\ ~analyzing /\ ready                    \* the button's disabled, and the guard
    /\ run[r].pc = "idle"
    /\ cancelled' = FALSE /\ abortRef' = r /\ analyzing' = TRUE
    /\ run' = [run EXCEPT ![r] =
           [pc |-> "saving", local |-> local, session |-> session, board |-> board,
            version |-> version, deep |-> deep, aborted |-> FALSE]]
    /\ latest' = r /\ stopped' = FALSE
    /\ UNCHANGED <<place, draftVars, ready, moves, jobRef, cancelling, leaving, job>>

StillAnalyzing == UNCHANGED analyzing  \* mutant: the spinner is never cleared
NotAnalyzing == analyzing' = FALSE

ReleaseAny(r) == Nobody  \* mutant: the controller is cleared, whoever's it is
Release(r) == IF abortRef = r THEN Nobody ELSE abortRef

(* The finally block: it clears a job reference and a flag that another run *)
(* may have set since, but only its own controller.                         *)
Finally(r) ==
    /\ abortRef' = Release(r)
    /\ jobRef' = Nobody /\ NotAnalyzing /\ UNCHANGED cancelled
    /\ run' = [run EXCEPT ![r] = NoRun("done")]

(* The catch block. *)
Fail(r) == moves' = IF cancelled THEN moves ELSE Nobody

Show(r) == moves' = [run |-> r, session |-> run[r].session, board |-> run[r].board]

RunUnchanged == UNCHANGED <<place, draftVars, cancelling, leaving, history>>

(* persistSession returned; its PUT is not abortable.  The POST that        *)
(* follows carries the signal: an aborted run has its fetch rejected.       *)
Saved(r) ==
    /\ run[r].pc = "saving"
    /\ \/ ~Elsewhere(r) /\ ready' = TRUE /\ ~Changed(r)
          /\ SetRun(r, "asking") /\ UNCHANGED <<moves, analyzing, refs>>
       \/ ~Elsewhere(r) /\ ready' = TRUE /\ Changed(r)
          /\ Fail(r) /\ Finally(r)
    /\ RunUnchanged /\ UNCHANGED job

(* A conflict, an HTTP or network error, or a scenario switched meanwhile. *)
SaveFailed(r) ==
    /\ run[r].pc = "saving"
    /\ Fail(r) /\ Finally(r)
    /\ RunUnchanged /\ UNCHANGED <<ready, job>>

(* Any answer but the one wanted: the catch block, then finally. *)
RequestFailed(r) ==
    /\ run[r].pc \in {"asking", "polling"} \/ (run[r].pc = "sleeping" /\ run[r].aborted)
    /\ Fail(r) /\ Finally(r)
    /\ RunUnchanged /\ UNCHANGED <<ready, job>>

AbortIgnored(r) == TRUE  \* mutant: the requests do not carry the signal
Answers(r) == ~run[r].aborted

(* The engine's answer to the fast analysis of the persisted position. *)
FastAnswer(r) ==
    /\ run[r].pc = "asking" /\ ~run[r].deep /\ Answers(r)
    /\ IF Elsewhere(r) \/ Changed(r) THEN Fail(r) ELSE Show(r)
    /\ Finally(r)
    /\ RunUnchanged /\ UNCHANGED <<ready, job>>

(* The server has made the job, and says so; a job the draft no longer      *)
(* matches is deleted first.                                                *)
JobMade(r) ==
    /\ run[r].pc = "asking" /\ run[r].deep /\ job[r] = "none" /\ ~run[r].aborted
    /\ job' = [job EXCEPT ![r] = "active"]
    /\ UNCHANGED <<ready, moves, analyzing, refs, run>> /\ RunUnchanged

JobAnswer(r) ==
    /\ run[r].pc = "asking" /\ job[r] # "none" /\ Answers(r)
    /\ \/ Elsewhere(r) /\ Fail(r) /\ Finally(r)
       \/ ~Elsewhere(r)
          /\ jobRef' = r /\ SetRun(r, IF Changed(r) THEN "deleting" ELSE "polling")
          /\ UNCHANGED <<moves, analyzing, cancelled, abortRef>>
    /\ RunUnchanged /\ UNCHANGED <<ready, job>>

PollStale(r) ==
    /\ ~Elsewhere(r) /\ Changed(r)
    /\ Fail(r)
    /\ IF cancelled \/ jobRef = Nobody
       THEN Finally(r)
       ELSE SetRun(r, "undoing") /\ UNCHANGED <<analyzing, refs>>

PollAnswer(r) ==
    /\ run[r].pc = "polling" /\ Answers(r)
    /\ \/ Elsewhere(r) /\ Fail(r) /\ Finally(r)
       \/ PollStale(r)
       \/ /\ ~Elsewhere(r) /\ ~Changed(r)
          /\ \/ job[r] = "succeeded" /\ Show(r) /\ Finally(r)
             \/ job[r] = "ended" /\ Fail(r) /\ Finally(r)
             \/ job[r] = "active" /\ SetRun(r, "sleeping")
                /\ UNCHANGED <<moves, analyzing, refs>>
    /\ RunUnchanged /\ UNCHANGED <<ready, job>>

(* One second later. *)
SleepOver(r) ==
    /\ run[r].pc = "sleeping" /\ ~run[r].aborted
    /\ \/ Elsewhere(r) /\ Fail(r) /\ Finally(r)
       \/ PollStale(r)
       \/ /\ ~Elsewhere(r) /\ ~Changed(r) /\ SetRun(r, "polling")
          /\ UNCHANGED <<moves, analyzing, refs>>
    /\ RunUnchanged /\ UNCHANGED <<ready, job>>

(* The DELETE of a job made for a draft that has changed; the catch block   *)
(* then deletes it once more.                                               *)
Deleted(r) ==
    /\ run[r].pc = "deleting"
    /\ Fail(r)
    /\ IF cancelled \/ jobRef = Nobody
       THEN Finally(r)
       ELSE SetRun(r, "undoing") /\ UNCHANGED <<analyzing, refs>>
    /\ RunUnchanged /\ UNCHANGED <<ready, job>>

Undone(r) ==
    /\ run[r].pc = "undoing"
    /\ Finally(r)
    /\ RunUnchanged /\ UNCHANGED <<ready, moves, job>>

JobRuns(r) ==
    /\ job[r] = "active"
    /\ \E end \in {"succeeded", "ended"} : job' = [job EXCEPT ![r] = end]
    /\ UNCHANGED <<ready, moves, analyzing, refs, run>> /\ RunUnchanged

-----------------------------------------------------------------------------
(* cancelAnalysis *)

Cancel ==
    /\ analyzing /\ cancelled' = TRUE
    /\ IF jobRef = Nobody
       THEN AbortNow /\ UNCHANGED cancelling
       ELSE cancelling' = TRUE /\ UNCHANGED <<run, jobRef, abortRef, analyzing, history>>
    /\ UNCHANGED <<place, draftVars, ready, moves, leaving, job>>

CancelEnd ==
    /\ cancelling /\ cancelling' = FALSE
    /\ AbortNow
    /\ UNCHANGED <<place, draftVars, ready, moves, cancelled, leaving, job>>

-----------------------------------------------------------------------------
Step(r) ==
    \/ Saved(r) \/ SaveFailed(r) \/ RequestFailed(r) \/ FastAnswer(r) \/ JobAnswer(r)
    \/ PollAnswer(r) \/ SleepOver(r) \/ Deleted(r) \/ Undone(r)

Draft ==
    \/ \E b \in Boards : Edit(b) \/ MoveReplayCursor(b) \/ OpenFails(b) \/ Adopt(b)
    \/ \E s \in Scenarios \cup {Nobody}, b \in Boards : Reconnect(s, b)
    \/ \E s \in Scenarios, b \in Boards : Open(s, b)
    \/ Leave \/ Orphan \/ Disconnect

Next ==
    \/ Draft \/ Cancel \/ CancelEnd
    \/ \E r \in Runs : (\E deep \in BOOLEAN : Analyze(r, deep)) \/ Step(r) \/ JobMade(r) \/ JobRuns(r)

Spec == Init /\ [][Next]_vars

-----------------------------------------------------------------------------
(* Properties *)

(* Whatever happened while a request was under way, the moves that appear   *)
(* are those of the position and session on the screen.                     *)
ResultsFitBoard ==
    [][moves' # moves /\ moves' # Nobody
         => moves'.board = board' /\ moves'.session = session']_vars

(* Once analysing is stopped - cancelAnalysis has aborted, a replay step, a *)
(* switch or a removal came - the analysis begun last shows no moves any    *)
(* more, whatever it awaits and although the finally blocks of earlier runs *)
(* may come between its start and the stop and write the same references.   *)
(* aborted is not asked: that the abort reaches that run is what is shown.  *)
StoppedShowsNothing ==
    [][moves' # moves /\ moves' # Nobody /\ stopped => moves'.run # latest]_vars

(* The controls do not stay in the state of an analysis: while they show    *)
(* one, a call of analyze is under way whose finally block will reset them, *)
(* whatever was edited, switched, cancelled or failed meanwhile.            *)
SpinnerHasRun == analyzing => \E r \in Runs : run[r].pc \notin {"idle", "done"}

(* docs/ux.md:109: results are attached to their source revision and never  *)
(* silently applied to a changed board.                                     *)
MovesFitBoard == moves # Nobody => moves.board = board

(* Stopping silences the runs begun earlier, too. *)
StopSilencesAll == [][moves' # moves /\ moves' # Nobody => ~stopped]_vars
=============================================================================
