-------------------------- MODULE Supervisor_proofs --------------------------
(***************************************************************************)
(* Proofs about the supervisor, for any number of calls, cancellations and *)
(* process slots, any ids and any capacities: TypeOK, AtMostOneChild,      *)
(* NoCallLost, CleanChild and RightAnswer, then AcknowledgedMeansStopped   *)
(* and the refinement of EngineService.  The invariant comes in layers,    *)
(* each of which uses the ones before it.                                  *)
(***************************************************************************)
EXTENDS SupervisorProps, SequenceTheorems, TLAPS

(* Where the goroutine is, and what it holds: it waits for a child in order *)
(* to go somewhere, and has an active call exactly in execute and until it  *)
(* has responded.                                                           *)
PcHolds ==
    /\ pc \in {"terminate", "grace"} <=> after # "none"
    /\ cur # NoCall <=> pc \in {"write", "await", "callback", "respond"} \/ after = "respond"
    /\ writer # "none" <=> cur # NoCall
    /\ cur = NoCall => result = NoReply /\ ~replace

Control == TypeOK /\ PcHolds

-----------------------------------------------------------------------------
(* Who takes a step *)

CallerStep == \E c \in Calls : Caller(c) \/ Expire(c)
CancelStep == \E k \in Cancels : CancelCall(k) \/ CancelReturn(k) \/ CancelGone(k)
SelectStep == \E k \in Cancels : AcknowledgeOther(k) \/ CancelActive(k)
WorkerStep == \E p \in Procs : Worker(p)
OtherStep  == Close \/ Write \/ CallbackReturns \/ StartTimeout \/ UNCHANGED vars

LEMMA Steps ==
    [Next]_vars <=>
        CallerStep \/ CancelStep \/ SelectStep \/ WorkerStep \/ Run \/ OtherStep
  BY DEF Next, CallerStep, CancelStep, SelectStep, WorkerStep, OtherStep, Quiescent

(* The contexts and callers, the cancellations and the channels are touched *)
(* by few.                                                                  *)
Frame ==
    /\ UNCHANGED callVars \/ CallerStep
    /\ UNCHANGED cancelVars \/ CancelStep \/ SelectStep \/ Terminated
    /\ UNCHANGED chanVars \/ (\E c \in Calls : Submit(c)) \/ TakeRequest \/ Respond
    /\ UNCHANGED cur \/ TakeRequest \/ Respond

LEMMA Frames == [Next]_vars => Frame
<1> SUFFICES ASSUME [Next]_vars PROVE Frame
  OBVIOUS
<1> USE DEF Frame, vars, outside, execVars, CallerUnchanged, CancellerUnchanged, ExecUnchanged,
            RestartUnchanged, WorkerUnchanged
<1>1. CASE CallerStep
  <2>1. UNCHANGED <<cancelVars, cur>>
    BY <1>1 DEF CallerStep, Caller, Submit, Refuse, Receive, Expire
  <2> QED
    BY <1>1, <2>1 DEF CallerStep, Caller, Refuse, Receive, Expire
<1>2. CASE CancelStep \/ SelectStep
  BY <1>2 DEF CancelStep, SelectStep, CancelCall, CancelReturn, CancelGone,
              AcknowledgeOther, CancelActive
<1>3. CASE WorkerStep
  BY <1>3 DEF WorkerStep, Worker, WorkerReady, WorkerTake, WorkerReject, WorkerProgress,
              WorkerFinish, WorkerGarbage, WorkerExit, Wait
<1>4. CASE Run
  BY <1>4 DEF Run, GraceOver, RunStop, RunChildDone, ExecStop, ExecExpired, ExecChildDone,
              Written, ReadExpired, OutputClosed, ReadEvent, Retire, Restart, Delay, Start,
              StartDied, StartRead, Started, StartFailed, ReturnUnready, CloseDone,
              Terminated, TakeRequest, Respond
<1>5. CASE OtherStep
  BY <1>5 DEF OtherStep, Close, Write, CallbackReturns, StartTimeout
<1> QED
  BY <1>1, <1>2, <1>3, <1>4, <1>5, Steps

-----------------------------------------------------------------------------
(* Types *)

(* The replies the supervisor makes up are none of the worker's. *)
LEMMA ReplyFacts ==
    /\ \A kind \in {"none", "cancelled", "context", "overloaded", "unavailable", "protocol"} :
           Own(kind) \in Replies /\ Own(kind).kind = kind /\ kind \notin Terminals
    /\ NoReply \in Replies /\ NoReply.kind = "none"
    /\ \A e \in Events : e.kind \in Terminals => e \in Replies /\ e # NoReply
    /\ \A kind \in EventKinds, c \in Calls \cup {NoCall} : [kind |-> kind, of |-> c] \in Events
  BY SupervisorAssumption DEF Own, NoReply, Replies, ReplyKinds, Events, EventKinds

CallTypes ==
    /\ caller \in [Calls -> {"new", "waiting", "returned"}]
    /\ expired \in [Calls -> BOOLEAN]
    /\ reply \in [Calls -> Replies]
    /\ canceller \in [Cancels -> {"new", "sending", "waiting", "told", "failed"}]
    /\ ack \in [Cancels -> BOOLEAN]

ChanTypes ==
    /\ requests \in Seq(Calls) /\ Len(requests) <= MaxQueued
    /\ response \in [Calls -> Replies]
    /\ stop \in BOOLEAN /\ done \in BOOLEAN /\ ready \in BOOLEAN

LoopTypes ==
    /\ pc \in PCs /\ after \in {"none", "respond", "restart", "failed", "return"}
    /\ cur \in Calls \cup {NoCall}
    /\ result \in Replies
    /\ replace \in BOOLEAN /\ first \in BOOLEAN
    /\ acking \in Cancels \cup {NoCancel}
    /\ writer \in {"none", "pending", "ok", "failed"}

ProcTypes ==
    /\ child \in Procs
    /\ os \in [Procs -> {"running", "exiting", "gone"}]
    /\ signal \in [Procs -> {"none", "eof", "kill"}]
    /\ inbox \in [Procs -> Seq(Calls)]
    /\ job \in [Procs -> Calls \cup {NoCall}]
    /\ out \in [Procs -> Seq(Events)]

LEMMA Types == TypeOK <=> CallTypes /\ ChanTypes /\ LoopTypes /\ ProcTypes
  BY DEF TypeOK, CallTypes, ChanTypes, LoopTypes, ProcTypes

LEMMA CallTypesNext == TypeOK /\ [Next]_vars => CallTypes'
<1> SUFFICES ASSUME CallTypes, ChanTypes, Frame PROVE CallTypes'
  BY Types, Frames
<1>1. /\ caller' \in [Calls -> {"new", "waiting", "returned"}]
      /\ expired' \in [Calls -> BOOLEAN]
      /\ reply' \in [Calls -> Replies]
  <2>1. CASE UNCHANGED callVars
    BY <2>1 DEF CallTypes, callVars
  <2>2. ASSUME NEW c \in Calls, NEW r \in Replies, Return(c, r)
        PROVE  /\ caller' \in [Calls -> {"new", "waiting", "returned"}]
               /\ expired' \in [Calls -> BOOLEAN]
               /\ reply' \in [Calls -> Replies]
    BY <2>2 DEF Return, CallTypes
  <2>3. ASSUME NEW c \in Calls, Submit(c) \/ Expire(c)
        PROVE  /\ caller' \in [Calls -> {"new", "waiting", "returned"}]
               /\ expired' \in [Calls -> BOOLEAN]
               /\ reply' \in [Calls -> Replies]
    BY <2>3 DEF Submit, Expire, CallTypes
  <2>4. ASSUME NEW c \in Calls, Refuse(c) \/ Receive(c) PROVE \E r \in Replies : Return(c, r)
    BY <2>4, ReplyFacts DEF Refuse, Receive, CallTypes, ChanTypes
  <2> QED
    BY <2>1, <2>2, <2>3, <2>4 DEF Frame, CallerStep, Caller
<1>2. /\ canceller' \in [Cancels -> {"new", "sending", "waiting", "told", "failed"}]
      /\ ack' \in [Cancels -> BOOLEAN]
  <2>1. CASE UNCHANGED cancelVars
    BY <2>1 DEF CallTypes, cancelVars
  <2>2. CASE CancelStep
    BY <2>2 DEF CancelStep, CancelCall, CancelReturn, CancelGone, CallTypes
  <2>3. CASE SelectStep
    BY <2>3 DEF SelectStep, AcknowledgeOther, CancelActive, CallTypes
  <2>4. CASE Terminated
    BY <2>4 DEF Terminated, Acknowledge, CallTypes
  <2> QED
    BY <2>1, <2>2, <2>3, <2>4 DEF Frame
<1> QED
  BY <1>1, <1>2 DEF CallTypes

LEMMA ChanTypesNext == Control /\ [Next]_vars => ChanTypes'
<1> SUFFICES ASSUME Control, ChanTypes, LoopTypes, [Next]_vars, Frame PROVE ChanTypes'
  BY Types, Frames DEF Control
<1>1. /\ requests' \in Seq(Calls) /\ Len(requests') <= MaxQueued
      /\ response' \in [Calls -> Replies]
  <2>1. CASE UNCHANGED chanVars
    BY <2>1 DEF ChanTypes, chanVars
  <2>2. ASSUME NEW c \in Calls, Submit(c)
        PROVE  /\ requests' \in Seq(Calls) /\ Len(requests') <= MaxQueued
               /\ response' \in [Calls -> Replies]
    BY <2>2, SupervisorAssumption DEF Submit, HasRoom, ChanTypes
  <2>3. CASE TakeRequest
    BY <2>3, SupervisorAssumption, ReplyFacts DEF TakeRequest, Answer, ChanTypes
  <2>4. CASE Respond
    BY <2>4 DEF Respond, Answer, ChanTypes, LoopTypes
  <2> QED
    BY <2>1, <2>2, <2>3, <2>4 DEF Frame
<1>2. stop' \in BOOLEAN /\ done' \in BOOLEAN /\ ready' \in BOOLEAN
  <2> USE DEF ChanTypes, vars, outside, CallerUnchanged, CancellerUnchanged, ExecUnchanged,
              RestartUnchanged, WorkerUnchanged
  <2>1. CASE CallerStep
    BY <2>1 DEF CallerStep, Caller, Submit, Refuse, Receive, Expire
  <2>2. CASE CancelStep \/ SelectStep
    BY <2>2 DEF CancelStep, SelectStep, CancelCall, CancelReturn, CancelGone,
                AcknowledgeOther, CancelActive
  <2>3. CASE WorkerStep
    BY <2>3 DEF WorkerStep, Worker, WorkerReady, WorkerTake, WorkerReject, WorkerProgress,
                WorkerFinish, WorkerGarbage, WorkerExit, Wait
  <2>4. CASE Run
    BY <2>4 DEF Run, GraceOver, RunStop, RunChildDone, ExecStop, ExecExpired, ExecChildDone,
                Written, ReadExpired, OutputClosed, ReadEvent, Retire, Restart, Delay, Start,
                StartDied, StartRead, Started, StartFailed, ReturnUnready, CloseDone,
                Terminated, TakeRequest, Respond, Unready
  <2>5. CASE OtherStep
    BY <2>5 DEF OtherStep, Close, Write, CallbackReturns, StartTimeout, Unready
  <2> QED
    BY <2>1, <2>2, <2>3, <2>4, <2>5, Steps
<1> QED
  BY <1>1, <1>2 DEF ChanTypes

LEMMA PcNext == Control /\ [Next]_vars => PcHolds' /\ pc' \in PCs
                        /\ after' \in {"none", "respond", "restart", "failed", "return"}
<1> SUFFICES ASSUME Control, PcHolds, LoopTypes, [Next]_vars
             PROVE  PcHolds' /\ pc' \in PCs
                    /\ after' \in {"none", "respond", "restart", "failed", "return"}
  BY Types DEF Control
<1> USE DEF PcHolds, LoopTypes, PCs, vars, outside, execVars, CallerUnchanged,
            CancellerUnchanged, ExecUnchanged, RestartUnchanged, WorkerUnchanged
<1>1. CASE CallerStep
  BY <1>1 DEF CallerStep, Caller, Submit, Refuse, Receive, Expire
<1>2. CASE CancelStep \/ SelectStep
  BY <1>2 DEF CancelStep, SelectStep, CancelCall, CancelReturn, CancelGone,
              AcknowledgeOther, CancelActive, Abandon, Terminate, Reply, Executing
<1>3. CASE WorkerStep
  BY <1>3 DEF WorkerStep, Worker, WorkerReady, WorkerTake, WorkerReject, WorkerProgress,
              WorkerFinish, WorkerGarbage, WorkerExit, Wait
<1>4. CASE Run
  <2>1. CASE Terminated \/ GraceOver \/ RunStop \/ RunChildDone
    BY <2>1 DEF Terminated, GraceOver, RunStop, RunChildDone, Terminate, StopGracefully
  <2>2. CASE TakeRequest
    <3>1. requests # <<>> => Head(requests) \in Calls
      BY Types DEF Control, ChanTypes
    <3> QED
      BY <2>2, <3>1, SupervisorAssumption DEF TakeRequest, StartExecute, Skip
  <2>3. CASE ExecStop \/ ExecExpired \/ ExecChildDone
    BY <2>3 DEF ExecStop, ExecExpired, ExecChildDone, Executing, StopGracefully, Abandon,
                Terminate, Reply
  <2>4. CASE Written
    BY <2>4 DEF Written, Abandon, Terminate, Reply
  <2>5. CASE ReadExpired \/ OutputClosed \/ ReadEvent
    BY <2>5 DEF ReadExpired, OutputClosed, ReadEvent, Abandon, Terminate, Reply
  <2>6. CASE Respond
    BY <2>6 DEF Respond
  <2>7. CASE Retire \/ Restart \/ Delay \/ Start \/ StartDied \/ StartRead
    BY <2>7 DEF Retire, Restart, Delay, Start, StartDied, StartRead, Terminate
  <2>8. CASE Started \/ StartFailed \/ ReturnUnready \/ CloseDone
    BY <2>8 DEF Started, StartFailed, AfterFailure, ReturnUnready, CloseDone
  <2> QED
    BY <1>4, <2>1, <2>2, <2>3, <2>4, <2>5, <2>6, <2>7, <2>8 DEF Run
<1>5. CASE OtherStep
  BY <1>5 DEF OtherStep, Close, Write, CallbackReturns, StartTimeout, Terminate
<1> QED
  BY <1>1, <1>2, <1>3, <1>4, <1>5, Steps

LEMMA LoopTypesNext == Control /\ [Next]_vars => LoopTypes'
<1> SUFFICES ASSUME Control, LoopTypes, [Next]_vars
             PROVE  /\ cur' \in Calls \cup {NoCall} /\ result' \in Replies
                    /\ replace' \in BOOLEAN /\ first' \in BOOLEAN
                    /\ acking' \in Cancels \cup {NoCancel}
                    /\ writer' \in {"none", "pending", "ok", "failed"}
  BY Types, PcNext DEF Control, LoopTypes
<1> USE DEF LoopTypes, vars, outside, execVars, CallerUnchanged, CancellerUnchanged,
            ExecUnchanged, RestartUnchanged, WorkerUnchanged
<1>1. CASE CallerStep
  BY <1>1 DEF CallerStep, Caller, Submit, Refuse, Receive, Expire
<1>2. CASE CancelStep \/ SelectStep
  BY <1>2, ReplyFacts
     DEF CancelStep, SelectStep, CancelCall, CancelReturn, CancelGone, AcknowledgeOther,
         CancelActive, Abandon, Reply
<1>3. CASE WorkerStep
  BY <1>3 DEF WorkerStep, Worker, WorkerReady, WorkerTake, WorkerReject, WorkerProgress,
              WorkerFinish, WorkerGarbage, WorkerExit, Wait
<1>4. CASE Run
  <2>1. CASE Terminated \/ GraceOver \/ RunStop \/ RunChildDone
    BY <2>1 DEF Terminated, GraceOver, RunStop, RunChildDone
  <2>2. CASE TakeRequest
    <3>1. requests # <<>> => Head(requests) \in Calls
      BY Types DEF Control, ChanTypes
    <3> QED
      BY <2>2, <3>1 DEF TakeRequest, StartExecute, Skip
  <2>3. CASE ExecStop \/ ExecExpired \/ ExecChildDone
    BY <2>3, ReplyFacts DEF ExecStop, ExecExpired, ExecChildDone, Abandon, Reply
  <2>4. CASE Written
    BY <2>4, ReplyFacts DEF Written, Abandon, Reply
  <2>5. CASE ReadExpired \/ OutputClosed
    BY <2>5, ReplyFacts DEF ReadExpired, OutputClosed, Abandon, Reply
  <2>6. CASE ReadEvent
    <3>1. out[child] # <<>> => Head(out[child]) \in Events
      BY Types DEF Control, ProcTypes
    <3> QED
      BY <2>6, <3>1, ReplyFacts DEF ReadEvent, Reply
  <2>7. CASE Respond
    BY <2>7, ReplyFacts DEF Respond
  <2>8. CASE Retire \/ Restart \/ Delay \/ Start \/ StartDied \/ StartRead
    BY <2>8 DEF Retire, Restart, Delay, Start, StartDied, StartRead
  <2>9. CASE Started \/ StartFailed \/ ReturnUnready \/ CloseDone
    BY <2>9 DEF Started, StartFailed, ReturnUnready, CloseDone
  <2> QED
    BY <1>4, <2>1, <2>2, <2>3, <2>4, <2>5, <2>6, <2>7, <2>8, <2>9 DEF Run
<1>5. CASE OtherStep
  BY <1>5 DEF OtherStep, Close, Write, CallbackReturns, StartTimeout
<1> QED
  BY <1>1, <1>2, <1>3, <1>4, <1>5, Steps

(* What a step may do to the processes: the supervisor signals its child,   *)
(* reads an event of it, writes a request or starts another; a worker works *)
(* or ends.                                                                 *)
SignalStep == /\ UNCHANGED <<child, os, inbox, job>>
              /\ UNCHANGED signal \/ (\E s \in {"eof", "kill"} : Signal(s))
              /\ \/ UNCHANGED out
                 \/ out' = [out EXCEPT ![child] = IF @ = <<>> THEN @ ELSE Tail(@)]
ProcStep == SignalStep \/ Write \/ Start \/ WorkerStep

LEMMA ProcSteps == [Next]_vars => ProcStep
<1> SUFFICES ASSUME [Next]_vars PROVE ProcStep
  OBVIOUS
<1> USE DEF ProcStep, SignalStep, vars, outside, procVars, CallerUnchanged,
            CancellerUnchanged, ExecUnchanged, RestartUnchanged
<1>1. CASE CallerStep
  BY <1>1 DEF CallerStep, Caller, Submit, Refuse, Receive, Expire
<1>2. CASE CancelStep \/ SelectStep
  BY <1>2 DEF CancelStep, SelectStep, CancelCall, CancelReturn, CancelGone,
              AcknowledgeOther, CancelActive, Abandon, Terminate
<1>3. CASE Run
  <2>1. CASE Terminated \/ GraceOver \/ RunStop \/ RunChildDone \/ TakeRequest
    BY <2>1 DEF Terminated, GraceOver, RunStop, RunChildDone, TakeRequest, Terminate,
                StopGracefully
  <2>2. CASE ExecStop \/ ExecExpired \/ ExecChildDone \/ Written
    BY <2>2 DEF ExecStop, ExecExpired, ExecChildDone, Written, StopGracefully, Abandon,
                Terminate
  <2>3. CASE ReadExpired \/ OutputClosed \/ ReadEvent
    BY <2>3 DEF ReadExpired, OutputClosed, ReadEvent, Abandon, Terminate
  <2>4. CASE Respond \/ Retire \/ Restart \/ Delay \/ StartDied \/ StartRead
    BY <2>4 DEF Respond, Retire, Restart, Delay, StartDied, StartRead, Terminate
  <2>5. CASE Started \/ StartFailed \/ ReturnUnready \/ CloseDone
    BY <2>5 DEF Started, StartFailed, ReturnUnready, CloseDone
  <2> QED
    BY <1>3, <2>1, <2>2, <2>3, <2>4, <2>5 DEF Run
<1>4. CASE OtherStep
  BY <1>4 DEF OtherStep, Close, CallbackReturns, StartTimeout, Terminate
<1> QED
  BY <1>1, <1>2, <1>3, <1>4, Steps

LEMMA ProcTypesNext == Control /\ [Next]_vars => ProcTypes'
<1> SUFFICES ASSUME ProcTypes, LoopTypes, PcHolds, ProcStep PROVE ProcTypes'
  BY Types, ProcSteps DEF Control
<1>1. CASE SignalStep
  <2>1. out' \in [Procs -> Seq(Events)]
    <3>1. out[child] # <<>> => Tail(out[child]) \in Seq(Events)
      BY DEF ProcTypes
    <3>2. CASE UNCHANGED out
      BY <3>2 DEF ProcTypes
    <3>3. CASE out' = [out EXCEPT ![child] = IF @ = <<>> THEN @ ELSE Tail(@)]
      BY <3>1, <3>3 DEF ProcTypes
    <3> QED
      BY <1>1, <3>2, <3>3 DEF SignalStep
  <2>2. signal' \in [Procs -> {"none", "eof", "kill"}]
    BY <1>1 DEF SignalStep, Signal, ProcTypes
  <2> QED
    BY <1>1, <2>1, <2>2 DEF SignalStep, ProcTypes
<1>2. CASE Write
  <2>1. cur \in Calls
    BY <1>2 DEF Write, PcHolds, LoopTypes
  <2>2. inbox' \in [Procs -> Seq(Calls)]
    <3>1. Append(inbox[child], cur) \in Seq(Calls)
      BY <2>1 DEF ProcTypes
    <3> QED
      BY <1>2, <3>1 DEF Write, ProcTypes
  <2> QED
    BY <1>2, <2>2 DEF Write, ProcTypes
<1>3. CASE Start
  <2>1. CASE UNCHANGED <<child, procVars>>
    BY <2>1 DEF ProcTypes, procVars
  <2>2. ASSUME NEW p \in Procs, child' = p, os' = [os EXCEPT ![p] = "running"],
               signal' = [q \in Procs |-> IF Live(q) THEN signal[q] ELSE "none"],
               out' = [q \in Procs |-> IF Live(q) THEN out[q] ELSE <<>>],
               UNCHANGED <<inbox, job>>
        PROVE  ProcTypes'
    <3>1. out' \in [Procs -> Seq(Events)]
      BY <2>2 DEF ProcTypes
    <3>2. signal' \in [Procs -> {"none", "eof", "kill"}]
      BY <2>2 DEF ProcTypes
    <3> QED
      BY <2>2, <3>1, <3>2 DEF ProcTypes
  <2> QED
    BY <1>3, <2>1, <2>2 DEF Start
<1>4. CASE WorkerStep
  <2>1. PICK p \in Procs : Worker(p)
    BY <1>4 DEF WorkerStep
  <2> USE DEF WorkerUnchanged, ProcTypes
  <2>2. ASSUME NEW kind \in EventKinds, NEW c \in Calls \cup {NoCall}, Emit(p, kind, c)
        PROVE  out' \in [Procs -> Seq(Events)]
    <3>1. [kind |-> kind, of |-> c] \in Events
      BY ReplyFacts
    <3> QED
      BY <2>2, <3>1 DEF Emit
  <2>3. {"ready", "note", "bad"} \cup Terminals \subseteq EventKinds
    BY DEF EventKinds
  <2>4. CASE WorkerReady(p) \/ WorkerProgress(p) \/ WorkerGarbage(p)
    BY <2>2, <2>3, <2>4 DEF WorkerReady, WorkerProgress, WorkerGarbage
  <2>5. inbox[p] # <<>> => Head(inbox[p]) \in Calls /\ Tail(inbox[p]) \in Seq(Calls)
    OBVIOUS
  <2>6. CASE WorkerTake(p)
    BY <2>2, <2>3, <2>5, <2>6 DEF WorkerTake
  <2>7. CASE WorkerReject(p)
    BY <2>2, <2>3, <2>5, <2>7 DEF WorkerReject
  <2>8. CASE WorkerFinish(p)
    BY <2>2, <2>3, <2>8 DEF WorkerFinish
  <2>9. CASE WorkerExit(p)
    BY <2>9 DEF WorkerExit
  <2>10. CASE Wait(p)
    <3>1. PICK n \in 0..Len(out[p]) : out' = [out EXCEPT ![p] = SubSeq(@, 1, n)]
      BY <2>10 DEF Wait
    <3>2. SubSeq(out[p], 1, n) \in Seq(Events)
      OBVIOUS
    <3> QED
      BY <2>10, <3>1, <3>2 DEF Wait
  <2> QED
    BY <2>1, <2>4, <2>6, <2>7, <2>8, <2>9, <2>10 DEF Worker
<1> QED
  BY <1>1, <1>2, <1>3, <1>4 DEF ProcStep

LEMMA InitControl == Init => Control
<1> SUFFICES ASSUME Init PROVE Control
  OBVIOUS
<1> USE SupervisorAssumption, ReplyFacts DEF Init
<1>1. CallTypes /\ ChanTypes
  <2>1. <<>> \in Seq(Calls) /\ Len(<<>>) = 0 /\ 0 <= MaxQueued
    OBVIOUS
  <2> QED
    BY <2>1 DEF CallTypes, ChanTypes
<1>2. LoopTypes /\ PcHolds
  BY DEF LoopTypes, PcHolds, PCs
<1>3. ProcTypes
  BY DEF ProcTypes
<1> QED
  BY <1>1, <1>2, <1>3, Types DEF Control

LEMMA ControlNext == Control /\ [Next]_vars => Control'
  BY CallTypesNext, ChanTypesNext, LoopTypesNext, ProcTypesNext, PcNext, Types
     DEF Control, CallTypes, ChanTypes, LoopTypes, ProcTypes, TypeOK

-----------------------------------------------------------------------------
(* One child *)

(* Only the child lives, and it does not live any more where the goroutine  *)
(* is about to start another one or to return.                              *)
OneChild ==
    /\ \A p \in Procs : Live(p) => p = child
    /\ pc \in {"restart", "delay", "start", "failed", "return", "closing", "done"}
           => ~Live(child)
    /\ done <=> pc = "done"
    /\ pc \in {"closing", "done"} => ~ready

LEMMA OneChildNext == Control /\ OneChild /\ [Next]_vars => OneChild'
<1> SUFFICES ASSUME Control, OneChild, PcHolds, ProcTypes, LoopTypes, [Next]_vars
             PROVE  OneChild'
  BY Types DEF Control
<1> USE DEF OneChild, Live, vars, outside, procVars, CallerUnchanged, CancellerUnchanged,
            ExecUnchanged, RestartUnchanged
<1>1. CASE CallerStep
  BY <1>1 DEF CallerStep, Caller, Submit, Refuse, Receive, Expire
<1>2. CASE CancelStep \/ SelectStep
  <2>1. UNCHANGED <<child, os, done, ready>>
    BY <1>2 DEF CancelStep, SelectStep, CancelCall, CancelReturn, CancelGone,
                AcknowledgeOther, CancelActive
  <2>2. UNCHANGED pc \/ (pc \in {"write", "await"} /\ pc' = "terminate")
    BY <1>2 DEF CancelStep, SelectStep, CancelCall, CancelReturn, CancelGone,
                AcknowledgeOther, CancelActive, Abandon, Terminate, Executing
  <2> QED
    BY <2>1, <2>2
<1>3. CASE WorkerStep
  <2>1. PICK p \in Procs : Worker(p)
    BY <1>3 DEF WorkerStep
  <2>2. UNCHANGED <<child, pc, done, ready>>
    BY <2>1 DEF Worker, WorkerReady, WorkerTake, WorkerReject, WorkerProgress, WorkerFinish,
                WorkerGarbage, WorkerExit, Wait, WorkerUnchanged
  <2>3. \A q \in Procs : Live(q)' => Live(q)
    BY <2>1 DEF Worker, WorkerReady, WorkerTake, WorkerReject, WorkerProgress, WorkerFinish,
                WorkerGarbage, WorkerExit, Wait, ProcTypes
  <2> QED
    BY <2>2, <2>3 DEF ProcTypes
<1>4. CASE Run
  <2>1. CASE Terminated
    BY <2>1 DEF Terminated, PcHolds, LoopTypes
  <2>2. CASE GraceOver \/ RunStop \/ RunChildDone \/ TakeRequest
    BY <2>2 DEF GraceOver, RunStop, RunChildDone, TakeRequest, StartExecute, Skip,
                Terminate, StopGracefully, Unready
  <2>3. CASE ExecStop \/ ExecExpired \/ ExecChildDone \/ Written
    <3>1. UNCHANGED <<child, os, done, ready>>
      BY <2>3 DEF ExecStop, ExecExpired, ExecChildDone, Written
    <3>2. pc \in {"write", "await"} /\ pc' \in {"terminate", "grace", "respond", "await"}
      BY <2>3 DEF ExecStop, ExecExpired, ExecChildDone, Written, StopGracefully, Abandon,
                  Terminate, Executing
    <3> QED
      BY <3>1, <3>2
  <2>4. CASE ReadExpired \/ OutputClosed \/ ReadEvent
    <3>1. UNCHANGED <<child, os, done, ready>>
      BY <2>4 DEF ReadExpired, OutputClosed, ReadEvent
    <3>2. pc = "await" /\ pc' \in {"terminate", "respond", "callback", "await"}
      BY <2>4 DEF ReadExpired, OutputClosed, ReadEvent, Abandon, Terminate
    <3> QED
      BY <3>1, <3>2
  <2>5. CASE Respond \/ Retire \/ Restart \/ Delay
    BY <2>5 DEF Respond, Retire, Restart, Delay, Terminate, Unready
  <2>6. CASE Start
    <3>1. CASE UNCHANGED <<child, procVars>>
      BY <2>6, <3>1 DEF Start
    <3>2. ASSUME NEW p \in Procs, ~Live(p), child' = p, os' = [os EXCEPT ![p] = "running"],
                 pc' = "starting"
          PROVE  OneChild'
      <4>1. pc = "start" /\ ~Live(child) /\ UNCHANGED done
        BY <2>6 DEF Start
      <4> QED
        BY <3>2, <4>1 DEF ProcTypes
    <3> QED
      BY <2>6, <3>1, <3>2 DEF Start
  <2>7. CASE StartDied \/ StartRead \/ Started
    BY <2>7 DEF StartDied, StartRead, Started, Terminate
  <2>8. CASE StartFailed \/ ReturnUnready \/ CloseDone
    BY <2>8 DEF StartFailed, AfterFailure, ReturnUnready, CloseDone, Unready
  <2> QED
    BY <1>4, <2>1, <2>2, <2>3, <2>4, <2>5, <2>6, <2>7, <2>8 DEF Run
<1>5. CASE OtherStep
  BY <1>5 DEF OtherStep, Close, Write, CallbackReturns, StartTimeout, Terminate, Unready
<1> QED
  BY <1>1, <1>2, <1>3, <1>4, <1>5, Steps

-----------------------------------------------------------------------------
(* No call is lost *)

Unanswered(c) == response[c] = NoReply /\ caller[c] # "new"

(* A call is queued once, or active, or answered, and what is to be sent to *)
(* the active call is an answer.                                            *)
Accounted ==
    /\ \A i, j \in DOMAIN requests : requests[i] = requests[j] => i = j
    /\ \A i \in DOMAIN requests : requests[i] # cur /\ Unanswered(requests[i])
    /\ cur # NoCall => Unanswered(cur)
    /\ \A c \in Calls : caller[c] = "new" => response[c] = NoReply
    /\ pc = "respond" \/ after = "respond" => result # NoReply
    /\ \A c \in Calls : caller[c] = "waiting" =>
           (\E i \in DOMAIN requests : requests[i] = c) \/ cur = c \/ response[c] # NoReply

(* What execute returns to run is an answer. *)
LEMMA ResultNext ==
    Control /\ Accounted /\ [Next]_vars =>
        (pc' = "respond" \/ after' = "respond" => result' # NoReply)
<1> SUFFICES ASSUME Control, PcHolds, ProcTypes, [Next]_vars,
                    pc = "respond" \/ after = "respond" => result # NoReply
             PROVE  pc' = "respond" \/ after' = "respond" => result' # NoReply
  BY Types DEF Control, Accounted
<1>1. \A kind \in {"cancelled", "context", "unavailable", "protocol"} : Own(kind) # NoReply
  BY DEF Own, NoReply
<1> USE DEF PcHolds, vars, outside, execVars, CallerUnchanged, CancellerUnchanged,
            ExecUnchanged, RestartUnchanged, WorkerUnchanged
<1>2. CASE CallerStep
  BY <1>2 DEF CallerStep, Caller, Submit, Refuse, Receive, Expire
<1>3. CASE CancelStep \/ SelectStep
  BY <1>1, <1>3 DEF CancelStep, SelectStep, CancelCall, CancelReturn, CancelGone,
              AcknowledgeOther, CancelActive, Abandon, Terminate, Reply
<1>4. CASE WorkerStep
  BY <1>4 DEF WorkerStep, Worker, WorkerReady, WorkerTake, WorkerReject, WorkerProgress,
              WorkerFinish, WorkerGarbage, WorkerExit, Wait
<1>5. CASE Run
  <2>1. CASE Terminated \/ GraceOver \/ RunStop \/ RunChildDone \/ TakeRequest
    BY <2>1 DEF Terminated, GraceOver, RunStop, RunChildDone, TakeRequest, StartExecute,
                Skip, Terminate, StopGracefully
  <2>2. CASE ExecStop \/ ExecExpired \/ ExecChildDone \/ Written
    BY <1>1, <2>2 DEF ExecStop, ExecExpired, ExecChildDone, Written, Executing,
                      StopGracefully, Abandon, Terminate, Reply
  <2>3. CASE ReadExpired \/ OutputClosed
    BY <1>1, <2>3 DEF ReadExpired, OutputClosed, Abandon, Terminate, Reply
  <2>4. CASE ReadEvent
    <3>1. Head(out[child]) \in Events
      BY <2>4 DEF ReadEvent, ProcTypes
    <3> QED
      BY <1>1, <2>4, <3>1, ReplyFacts DEF ReadEvent, Reply
  <2>5. CASE Respond \/ Retire \/ Restart \/ Delay \/ Start \/ StartDied \/ StartRead
    BY <2>5 DEF Respond, Retire, Restart, Delay, Start, StartDied, StartRead, Terminate
  <2>6. CASE Started \/ StartFailed \/ ReturnUnready \/ CloseDone
    BY <2>6 DEF Started, StartFailed, AfterFailure, ReturnUnready, CloseDone
  <2> QED
    BY <1>5, <2>1, <2>2, <2>3, <2>4, <2>5, <2>6 DEF Run
<1>6. CASE OtherStep
  BY <1>6 DEF OtherStep, Close, Write, CallbackReturns, StartTimeout, Terminate
<1> QED
  BY <1>2, <1>3, <1>4, <1>5, <1>6, Steps

LEMMA AccountedNext == Control /\ Accounted /\ [Next]_vars => Accounted'
<1> SUFFICES ASSUME Control, Accounted, [Next]_vars, Frame,
                    PcHolds, CallTypes, ChanTypes, LoopTypes,
                    pc' = "respond" \/ after' = "respond" => result' # NoReply
             PROVE  Accounted'
  BY Frames, ResultNext, Types DEF Control
<1>1. CASE UNCHANGED <<callVars, chanVars, cur>>
  BY <1>1 DEF Accounted, Unanswered, callVars, chanVars
<1>2. ASSUME NEW c \in Calls, Submit(c) PROVE Accounted'
  <2>1. /\ requests' = Append(requests, c) /\ caller' = [caller EXCEPT ![c] = "waiting"]
        /\ caller[c] = "new" /\ UNCHANGED <<response, cur>>
    BY <1>2 DEF Submit, CallerUnchanged, execVars
  <2>2. /\ DOMAIN requests' = 1..(Len(requests) + 1)
        /\ \A i \in DOMAIN requests : i \in DOMAIN requests' /\ requests'[i] = requests[i]
        /\ requests'[Len(requests) + 1] = c
        /\ \A i \in DOMAIN requests' : i \in DOMAIN requests \/ i = Len(requests) + 1
    BY <2>1 DEF ChanTypes
  <2>3. cur # c /\ response[c] = NoReply /\ \A i \in DOMAIN requests : requests[i] # c
    BY <2>1, SupervisorAssumption DEF Accounted, Unanswered
  <2>4. \A q \in Calls : caller'[q] = IF q = c THEN "waiting" ELSE caller[q]
    BY <2>1 DEF CallTypes
  <2>5. \A i \in DOMAIN requests : requests[i] \in Calls
    BY DEF ChanTypes
  <2>6. Len(requests) + 1 \in DOMAIN requests'
    BY <2>2 DEF ChanTypes
  <2>7. \A i, j \in DOMAIN requests' : requests'[i] = requests'[j] => i = j
    BY <2>2, <2>3 DEF Accounted
  <2>8. \A i \in DOMAIN requests' : requests'[i] # cur' /\ Unanswered(requests[i])'
    BY <2>1, <2>2, <2>3, <2>4, <2>5 DEF Accounted, Unanswered
  <2>9. cur' # NoCall => Unanswered(cur)'
    BY <2>1, <2>3, <2>4 DEF Accounted, Unanswered, LoopTypes
  <2>10. \A q \in Calls : caller'[q] = "waiting" =>
            (\E i \in DOMAIN requests' : requests'[i] = q) \/ cur' = q \/ response'[q] # NoReply
    BY <2>1, <2>2, <2>4, <2>6 DEF Accounted
  <2> QED
    BY <2>1, <2>4, <2>7, <2>8, <2>9, <2>10 DEF Accounted
<1>3. ASSUME NEW c \in Calls, Refuse(c) \/ Receive(c) \/ Expire(c) PROVE Accounted'
  <2>1. UNCHANGED <<chanVars, cur>>
    BY <1>3 DEF Refuse, Receive, Expire, CallerUnchanged, execVars
  <2>2. caller' \in {caller, [caller EXCEPT ![c] = "returned"]}
    BY <1>3 DEF Refuse, Receive, Expire, Return
  <2>3. \A q \in Calls : caller'[q] = caller[q] \/ caller'[q] = "returned"
    BY <2>2 DEF CallTypes
  <2>4. \A i \in DOMAIN requests : requests[i] \in Calls
    BY DEF ChanTypes
  <2> QED
    BY <2>1, <2>3, <2>4 DEF Accounted, Unanswered, chanVars, LoopTypes
<1>4. CASE TakeRequest
  <2> DEFINE c == Head(requests)
  <2>1. /\ requests # <<>> /\ requests' = Tail(requests) /\ c \in Calls /\ c = requests[1]
        /\ cur = NoCall /\ UNCHANGED callVars
    BY <1>4 DEF TakeRequest, PcHolds, ChanTypes
  <2>2. /\ Len(requests) \in Nat /\ Len(requests) >= 1
        /\ DOMAIN requests = 1..Len(requests)
        /\ DOMAIN requests' = 1..(Len(requests) - 1)
        /\ \A i \in 1..(Len(requests) - 1) : requests'[i] = requests[i + 1]
    BY <2>1 DEF ChanTypes
  <2>3. \A i \in DOMAIN requests' :
            i + 1 \in DOMAIN requests /\ i + 1 # 1 /\ requests'[i] = requests[i + 1]
    BY <2>2
  <2>4. \A i \in DOMAIN requests' : requests'[i] # c
    BY <2>1, <2>2, <2>3 DEF Accounted
  <2>5. \A i, j \in DOMAIN requests' : requests'[i] = requests'[j] => i = j
    <3> SUFFICES ASSUME NEW i \in DOMAIN requests', NEW j \in DOMAIN requests',
                        requests'[i] = requests'[j]
                 PROVE  i = j
      OBVIOUS
    <3>1. i + 1 = j + 1
      BY <2>3 DEF Accounted
    <3> QED
      BY <2>2, <3>1
  <2>6. Unanswered(c) /\ \A i \in DOMAIN requests : requests[i] \in Calls
    BY <2>1, <2>2 DEF Accounted, ChanTypes
  <2>7. \A q \in Calls : (\E i \in DOMAIN requests : requests[i] = q)
            => q = c \/ \E i \in DOMAIN requests' : requests'[i] = q
    <3> SUFFICES ASSUME NEW i \in DOMAIN requests, i # 1
                 PROVE  \E j \in DOMAIN requests' : requests'[j] = requests[i]
      BY <2>1
    <3>1. i - 1 \in DOMAIN requests' /\ requests'[i - 1] = requests[i]
      BY <2>2
    <3> QED
      BY <3>1
  <2>8. CASE Answer(c, Own("context")) /\ Skip(c)
    <3>1. cur' = NoCall
      BY <2>1, <2>8 DEF Skip
    <3>2. \A q \in Calls : response'[q] = IF q = c THEN Own("context") ELSE response[q]
      BY <2>1, <2>8 DEF Answer, ChanTypes
    <3>3. Own("context") # NoReply
      BY DEF Own, NoReply
    <3>4. \A i \in DOMAIN requests' : requests'[i] # cur' /\ Unanswered(requests[i])'
      BY <2>1, <2>3, <2>4, <2>6, <3>1, <3>2, SupervisorAssumption
         DEF Accounted, Unanswered, callVars
    <3>5. \A q \in Calls : caller'[q] = "new" => response'[q] = NoReply
      BY <2>1, <2>6, <3>2 DEF Accounted, Unanswered, callVars
    <3>6. \A q \in Calls : caller'[q] = "waiting" =>
            (\E i \in DOMAIN requests' : requests'[i] = q) \/ cur' = q \/ response'[q] # NoReply
      BY <2>1, <2>7, <3>2, <3>3, SupervisorAssumption DEF Accounted, callVars
    <3> QED
      BY <2>5, <3>1, <3>4, <3>5, <3>6 DEF Accounted
  <2>9. CASE StartExecute(c) /\ UNCHANGED response
    <3>1. cur' = c
      BY <2>9 DEF StartExecute
    <3>2. \A i \in DOMAIN requests' : requests'[i] # cur' /\ Unanswered(requests[i])'
      BY <2>1, <2>3, <2>4, <2>9, <3>1 DEF Accounted, Unanswered, callVars
    <3>3. Unanswered(cur)'
      BY <2>1, <2>6, <2>9, <3>1 DEF Unanswered, callVars
    <3>4. \A q \in Calls : caller'[q] = "waiting" =>
            (\E i \in DOMAIN requests' : requests'[i] = q) \/ cur' = q \/ response'[q] # NoReply
      BY <2>1, <2>7, <2>9, <3>1, SupervisorAssumption DEF Accounted, callVars
    <3> QED
      BY <2>1, <2>5, <2>9, <3>2, <3>3, <3>4 DEF Accounted, callVars
  <2> QED
    BY <1>4, <2>8, <2>9 DEF TakeRequest
<1>5. CASE Respond
  <2>1. /\ cur \in Calls /\ result # NoReply /\ cur' = NoCall
        /\ UNCHANGED <<callVars, requests>>
    BY <1>5 DEF Respond, PcHolds, LoopTypes, Accounted
  <2>2. \A q \in Calls : response'[q] = IF q = cur THEN result ELSE response[q]
    BY <1>5, <2>1 DEF Respond, Answer, ChanTypes
  <2>3. \A i \in DOMAIN requests : requests[i] \in Calls
    BY DEF ChanTypes
  <2>4. \A i \in DOMAIN requests' : requests'[i] # cur' /\ Unanswered(requests[i])'
    BY <2>1, <2>2, <2>3, SupervisorAssumption DEF Accounted, Unanswered, callVars
  <2>5. \A q \in Calls : caller'[q] = "new" => response'[q] = NoReply
    BY <2>1, <2>2, SupervisorAssumption DEF Accounted, Unanswered, callVars
  <2>6. \A q \in Calls : caller'[q] = "waiting" =>
            (\E i \in DOMAIN requests' : requests'[i] = q) \/ cur' = q \/ response'[q] # NoReply
    BY <2>1, <2>2 DEF Accounted, callVars
  <2> QED
    BY <2>1, <2>4, <2>5, <2>6 DEF Accounted
<1> QED
  BY <1>1, <1>2, <1>3, <1>4, <1>5 DEF Frame, CallerStep, Caller

-----------------------------------------------------------------------------
(* A clean child *)

OnlyBad(s) == \A i \in DOMAIN s : s[i].kind = "bad"

Idle(p)  == job[p] = NoCall /\ inbox[p] = <<>>
Clean(p) == Idle(p) /\ OnlyBad(out[p])

(* A child that is starting has nothing to do, and its ready event comes    *)
(* first.                                                                   *)
Booting(p) ==
    /\ Idle(p)
    /\ \A i \in DOMAIN out[p] : out[p][i].kind = "bad" \/ (i = 1 /\ out[p][i].kind = "ready")

(* A child that was given the call c reads it, computes it or has finished  *)
(* it: every valid event is the call's, and nothing follows its terminal.   *)
Serves(p, c) ==
    /\ job[p] \in {NoCall, c}
    /\ inbox[p] = <<>> \/ (inbox[p] = <<c>> /\ job[p] = NoCall /\ OnlyBad(out[p]))
    /\ \A i \in DOMAIN out[p] :
           \/ out[p][i].kind = "bad"
           \/ out[p][i].of = c /\ out[p][i].kind \in Terminals \cup {"note"}
    /\ \A i \in DOMAIN out[p] : out[p][i].kind \in Terminals =>
           /\ job[p] = NoCall
           /\ \A j \in DOMAIN out[p] : i < j => out[p][j].kind = "bad"

MayServe == pc \in {"idle", "started"} \/ (pc = "write" /\ writer = "pending")
                \/ (pc = "respond" /\ ~replace)

ChildInv ==
    /\ \A p \in Procs : os[p] # "running" => Idle(p)
    /\ pc = "starting" => Booting(child)
    /\ Live(child) /\ MayServe => Clean(child)
    /\ pc \in {"write", "await", "callback"} /\ writer = "ok" => Serves(child, cur)
    /\ pc \in {"await", "callback"} => writer = "ok"
    /\ pc = "respond" /\ ~replace /\ Live(child) => writer # "pending"

LEMMA Appending ==
    ASSUME NEW s \in Seq(Events), NEW e \in Events
    PROVE  \A i \in DOMAIN Append(s, e) :
               \/ i \in DOMAIN s /\ Append(s, e)[i] = s[i] /\ i < Len(s) + 1
               \/ i = Len(s) + 1 /\ Append(s, e)[i] = e
  OBVIOUS

LEMMA Cutting ==
    ASSUME NEW s \in Seq(Events), s # <<>>
    PROVE  /\ Head(s) \in Events /\ 1 \in DOMAIN s /\ Head(s) = s[1]
           /\ \A i \in DOMAIN Tail(s) : /\ i + 1 \in DOMAIN s /\ 1 < i + 1 /\ i \in Nat
                                        /\ Tail(s)[i] = s[i + 1]
  OBVIOUS

LEMMA Shortening ==
    ASSUME NEW s \in Seq(Events), NEW n \in 0..Len(s)
    PROVE  \A i \in DOMAIN SubSeq(s, 1, n) : i \in DOMAIN s /\ SubSeq(s, 1, n)[i] = s[i]
  OBVIOUS

(* What a worker does to the child's state. *)
LEMMA WorkerKeeps ==
    ASSUME Control, OneChild, NEW p \in Procs, Worker(p)
    PROVE  /\ p = child /\ UNCHANGED <<pc, writer, replace, cur, child>>
           /\ Live(child)' => Live(child)
           /\ \A q \in Procs \ {child} : os'[q] = os[q] /\ job'[q] = job[q] /\ inbox'[q] = inbox[q]
           /\ os'[child] # "running" /\ (os[child] # "running" => Idle(child)) => Idle(child)'
           /\ pc # "starting" /\ Clean(child) => Clean(child)'
           /\ Booting(child) => Booting(child)'
           /\ \A c \in Calls : pc # "starting" /\ Serves(child, c) => Serves(child, c)'
<1> USE SupervisorAssumption DEF Idle
<1>0. ProcTypes
  BY Types DEF Control
<1>1. p = child
  BY DEF OneChild, Live, Worker, WorkerReady, WorkerTake, WorkerReject, WorkerProgress,
         WorkerFinish, WorkerGarbage, WorkerExit, Wait
<1>2. UNCHANGED <<pc, writer, replace, cur, child>>
  BY DEF Worker, WorkerReady, WorkerTake, WorkerReject, WorkerProgress, WorkerFinish,
         WorkerGarbage, WorkerExit, Wait, WorkerUnchanged, execVars
<1>3. /\ Live(child)' => Live(child)
      /\ \A q \in Procs \ {child} : os'[q] = os[q] /\ job'[q] = job[q] /\ inbox'[q] = inbox[q]
  BY <1>0, <1>1, <1>2
     DEF Live, ProcTypes, Worker, WorkerReady, WorkerTake, WorkerReject, WorkerProgress,
         WorkerFinish, WorkerGarbage, WorkerExit, Wait
<1>4. os'[child] # "running" /\ (os[child] # "running" => Idle(child)) => Idle(child)'
  BY <1>0, <1>1, <1>2
     DEF ProcTypes, Worker, WorkerReady, WorkerTake, WorkerReject, WorkerProgress,
         WorkerFinish, WorkerGarbage, WorkerExit, Wait
<1> DEFINE Goal == /\ pc # "starting" /\ Clean(child) => Clean(child)'
                   /\ Booting(child) => Booting(child)'
                   /\ \A c \in Calls : pc # "starting" /\ Serves(child, c) => Serves(child, c)'
<1>5. /\ out[child] \in Seq(Events) /\ inbox[child] \in Seq(Calls)
      /\ job[child] \in Calls \cup {NoCall}
  BY <1>0 DEF ProcTypes
<1>6. ASSUME NEW kind \in EventKinds, NEW c \in Calls \cup {NoCall}, Emit(child, kind, c)
      PROVE  /\ out'[child] = Append(out[child], [kind |-> kind, of |-> c])
             /\ \A i \in DOMAIN out'[child] :
                   \/ /\ i \in DOMAIN out[child] /\ i < Len(out[child]) + 1
                      /\ out'[child][i] = out[child][i]
                   \/ i = Len(out[child]) + 1 /\ out'[child][i] = [kind |-> kind, of |-> c]
  <2>1. out'[child] = Append(out[child], [kind |-> kind, of |-> c])
    BY <1>0, <1>6 DEF Emit, ProcTypes
  <2>2. [kind |-> kind, of |-> c] \in Events
    BY ReplyFacts
  <2> QED
    BY <1>5, <2>1, <2>2, Appending
<1>7. ASSUME WorkerReady(p) PROVE Goal
  <2>1. Emit(child, "ready", NoCall) /\ UNCHANGED <<inbox, job>> /\ pc = "starting"
        /\ out[child] = <<>>
    BY <1>1, <1>7 DEF WorkerReady
  <2>2. Len(out[child]) = 0 /\ DOMAIN out[child] = {}
    BY <2>1
  <2>3. \A i \in DOMAIN out'[child] : i = 1 /\ out'[child][i].kind = "ready"
    <3>1. \A i \in DOMAIN out'[child] :
              i = 1 /\ out'[child][i] = [kind |-> "ready", of |-> NoCall]
      BY <1>6, <2>1, <2>2 DEF EventKinds
    <3> QED
      BY <3>1
  <2>4. Booting(child) => Booting(child)'
    BY <1>2, <2>1, <2>3 DEF Booting
  <2> QED
    BY <2>1, <2>4
<1>8. ASSUME WorkerTake(p) PROVE Goal
  <2> DEFINE c == Head(inbox[child])
  <2>1. /\ Emit(child, "note", c) /\ job[child] = NoCall /\ inbox[child] # <<>> /\ c \in Calls
        /\ job'[child] = c /\ inbox'[child] = Tail(inbox[child])
    BY <1>0, <1>1, <1>5, <1>8 DEF WorkerTake, ProcTypes
  <2>2. \A i \in DOMAIN out'[child] :
            \/ /\ i \in DOMAIN out[child] /\ i < Len(out[child]) + 1
               /\ out'[child][i] = out[child][i]
            \/ out'[child][i] = [kind |-> "note", of |-> c]
    BY <1>6, <2>1 DEF EventKinds
  <2>3. ~Clean(child) /\ ~Booting(child)
    BY <2>1 DEF Clean, Booting
  <2>4. ASSUME NEW q \in Calls, Serves(child, q) PROVE Serves(child, q)'
    <3>1. inbox[child] = <<q>> /\ OnlyBad(out[child])
      BY <2>1, <2>4 DEF Serves
    <3>2. c = q /\ inbox'[child] = <<>> /\ job'[child] = q
      BY <2>1, <3>1
    <3>3. \A i \in DOMAIN out'[child] :
              out'[child][i].kind = "bad" \/ out'[child][i] = [kind |-> "note", of |-> q]
      BY <2>2, <3>1, <3>2 DEF OnlyBad
    <3>4. "note" \notin Terminals /\ "bad" \notin Terminals
      OBVIOUS
    <3> QED
      BY <1>2, <3>2, <3>3, <3>4 DEF Serves
  <2> QED
    BY <2>3, <2>4
<1>9. ASSUME WorkerReject(p) PROVE Goal
  <2> DEFINE c == Head(inbox[child])
  <2>1. /\ Emit(child, "error", c) /\ job[child] = NoCall /\ inbox[child] # <<>> /\ c \in Calls
        /\ job'[child] = NoCall /\ inbox'[child] = Tail(inbox[child]) /\ "error" \in Terminals
    BY <1>0, <1>1, <1>5, <1>9 DEF WorkerReject, ProcTypes
  <2>2. \A i \in DOMAIN out'[child] :
            \/ /\ i \in DOMAIN out[child] /\ i < Len(out[child]) + 1
               /\ out'[child][i] = out[child][i]
            \/ i = Len(out[child]) + 1 /\ out'[child][i] = [kind |-> "error", of |-> c]
    BY <1>6, <2>1 DEF EventKinds
  <2>3. ~Clean(child) /\ ~Booting(child)
    BY <2>1 DEF Clean, Booting
  <2>4. ASSUME NEW q \in Calls, Serves(child, q) PROVE Serves(child, q)'
    <3>1. inbox[child] = <<q>> /\ OnlyBad(out[child])
      BY <2>1, <2>4 DEF Serves
    <3>2. c = q /\ inbox'[child] = <<>>
      BY <2>1, <3>1
    <3>3. \A i \in DOMAIN out'[child] :
              \/ out'[child][i].kind = "bad" /\ i < Len(out[child]) + 1
              \/ i = Len(out[child]) + 1 /\ out'[child][i] = [kind |-> "error", of |-> q]
      BY <2>2, <3>1, <3>2 DEF OnlyBad
    <3>4. "bad" \notin Terminals
      OBVIOUS
    <3>5. \A i \in DOMAIN out'[child] : i \in Nat
      BY <1>5, <2>2
    <3>6. ASSUME NEW i \in DOMAIN out'[child], out'[child][i].kind \in Terminals,
                 NEW j \in DOMAIN out'[child], i < j
          PROVE  out'[child][j].kind = "bad"
      BY <1>5, <3>3, <3>4, <3>5, <3>6
    <3>7. \A i \in DOMAIN out'[child] :
              out'[child][i].kind = "bad"
                    \/ (out'[child][i].of = q /\ out'[child][i].kind \in Terminals \cup {"note"})
      BY <2>1, <3>3
    <3> QED
      BY <1>2, <2>1, <3>2, <3>6, <3>7 DEF Serves
  <2> QED
    BY <2>3, <2>4
<1>10. ASSUME WorkerProgress(p) PROVE Goal
  <2>1. /\ Emit(child, "note", job[child]) /\ job[child] \in Calls
        /\ UNCHANGED <<job, inbox>>
    BY <1>1, <1>5, <1>10 DEF WorkerProgress
  <2>2. \A i \in DOMAIN out'[child] :
            \/ /\ i \in DOMAIN out[child] /\ i < Len(out[child]) + 1
               /\ out'[child][i] = out[child][i]
            \/ out'[child][i] = [kind |-> "note", of |-> job[child]]
    BY <1>6, <2>1 DEF EventKinds
  <2>3. ~Clean(child) /\ ~Booting(child)
    BY <2>1 DEF Clean, Booting
  <2>4. ASSUME NEW q \in Calls, Serves(child, q) PROVE Serves(child, q)'
    <3>1. /\ job[child] = q /\ inbox[child] = <<>>
          /\ \A i \in DOMAIN out[child] : out[child][i].kind \notin Terminals
      BY <2>1, <2>4 DEF Serves
    <3>2. \A i \in DOMAIN out'[child] :
              /\ out'[child][i].kind \notin Terminals
              /\ out'[child][i].kind = "bad"
                    \/ (out'[child][i].of = q /\ out'[child][i].kind \in Terminals \cup {"note"})
      BY <2>2, <2>4, <3>1 DEF Serves
    <3> QED
      BY <1>2, <2>1, <3>1, <3>2 DEF Serves
  <2> QED
    BY <2>3, <2>4
<1>11. ASSUME WorkerFinish(p) PROVE Goal
  <2>1. PICK kind \in Terminals : Emit(child, kind, job[child])
    BY <1>1, <1>11 DEF WorkerFinish
  <2>2. /\ job[child] \in Calls /\ job'[child] = NoCall /\ inbox'[child] = inbox[child]
    BY <1>0, <1>1, <1>5, <1>11 DEF WorkerFinish, ProcTypes
  <2>3. \A i \in DOMAIN out'[child] :
            \/ /\ i \in DOMAIN out[child] /\ i < Len(out[child]) + 1
               /\ out'[child][i] = out[child][i]
            \/ i = Len(out[child]) + 1 /\ out'[child][i] = [kind |-> kind, of |-> job[child]]
    BY <1>6, <2>1, <2>2 DEF EventKinds
  <2>4. ~Clean(child) /\ ~Booting(child)
    BY <2>2 DEF Clean, Booting
  <2>5. ASSUME NEW q \in Calls, Serves(child, q) PROVE Serves(child, q)'
    <3>1. /\ job[child] = q /\ inbox[child] = <<>>
          /\ \A i \in DOMAIN out[child] : out[child][i].kind \notin Terminals
      BY <2>2, <2>5 DEF Serves
    <3>2. \A i \in DOMAIN out'[child] :
              out'[child][i].kind = "bad"
                    \/ (out'[child][i].of = q /\ out'[child][i].kind \in Terminals \cup {"note"})
      BY <2>3, <2>5, <3>1 DEF Serves
    <3>3. \A i \in DOMAIN out'[child] : out'[child][i].kind \in Terminals =>
              i = Len(out[child]) + 1
      BY <2>3, <3>1
    <3>4. \A i \in DOMAIN out'[child] : i < Len(out[child]) + 1 \/ i = Len(out[child]) + 1
      BY <2>3
    <3>5. \A i, j \in DOMAIN out'[child] : out'[child][i].kind \in Terminals => ~(i < j)
      <4>1. Len(out[child]) \in Nat /\ \A i \in DOMAIN out'[child] : i \in Nat
        BY <1>5, <2>3
      <4> QED
        BY <3>3, <3>4, <4>1
    <3> QED
      BY <1>2, <2>2, <3>1, <3>2, <3>5 DEF Serves
  <2> QED
    BY <2>4, <2>5
<1>12. ASSUME WorkerGarbage(p) PROVE Goal
  <2>1. Emit(child, "bad", NoCall) /\ UNCHANGED <<job, inbox>>
    BY <1>1, <1>12 DEF WorkerGarbage
  <2>2. \A i \in DOMAIN out'[child] :
            \/ /\ i \in DOMAIN out[child] /\ i < Len(out[child]) + 1
               /\ out'[child][i] = out[child][i]
            \/ i = Len(out[child]) + 1 /\ out'[child][i] = [kind |-> "bad", of |-> NoCall]
    BY <1>6, <2>1 DEF EventKinds
  <2>3. (Clean(child) => Clean(child)') /\ (Booting(child) => Booting(child)')
    BY <1>2, <2>1, <2>2 DEF Clean, Booting, OnlyBad
  <2>4. ASSUME NEW q \in Calls, Serves(child, q) PROVE Serves(child, q)'
    <3>1. "bad" \notin Terminals
      OBVIOUS
    <3>2. OnlyBad(out[child]) => OnlyBad(out[child])'
      BY <1>2, <2>2 DEF OnlyBad
    <3>3. \A i \in DOMAIN out'[child] :
              out'[child][i].kind = "bad"
                    \/ (out'[child][i].of = q /\ out'[child][i].kind \in Terminals \cup {"note"})
      BY <2>2, <2>4 DEF Serves
    <3>4. ASSUME NEW i \in DOMAIN out'[child], out'[child][i].kind \in Terminals
          PROVE  /\ job[child] = NoCall
                 /\ \A j \in DOMAIN out'[child] : i < j => out'[child][j].kind = "bad"
      <4>1. i \in DOMAIN out[child] /\ out'[child][i] = out[child][i]
        BY <2>2, <3>1, <3>4
      <4> QED
        BY <2>2, <2>4, <3>4, <4>1 DEF Serves
    <3> QED
      BY <1>2, <2>1, <2>4, <3>2, <3>3, <3>4 DEF Serves
  <2> QED
    BY <2>3, <2>4
<1>13. ASSUME WorkerExit(p) PROVE Goal
  <2>1. job'[child] = NoCall /\ inbox'[child] = <<>> /\ UNCHANGED out
    BY <1>0, <1>1, <1>13 DEF WorkerExit, ProcTypes
  <2>2. (Clean(child) => Clean(child)') /\ (Booting(child) => Booting(child)')
    BY <1>2, <2>1 DEF Clean, Booting, OnlyBad
  <2>3. \A q \in Calls : Serves(child, q) => Serves(child, q)'
    BY <1>2, <2>1 DEF Serves
  <2> QED
    BY <2>2, <2>3
<1>14. ASSUME Wait(p) PROVE Goal
  <2>1. UNCHANGED <<job, inbox>>
    BY <1>14 DEF Wait
  <2>2. PICK n \in 0..Len(out[child]) : out'[child] = SubSeq(out[child], 1, n)
    BY <1>0, <1>1, <1>14 DEF Wait, ProcTypes
  <2>3. \A i \in DOMAIN out'[child] : i \in DOMAIN out[child] /\ out'[child][i] = out[child][i]
    BY <1>5, <2>2, Shortening
  <2>4. (Clean(child) => Clean(child)') /\ (Booting(child) => Booting(child)')
    BY <1>2, <2>1, <2>3 DEF Clean, Booting, OnlyBad
  <2>5. ASSUME NEW q \in Calls, Serves(child, q) PROVE Serves(child, q)'
    <3>1. OnlyBad(out[child]) => OnlyBad(out[child])'
      BY <1>2, <2>3 DEF OnlyBad
    <3>2. \A i \in DOMAIN out'[child] :
              out'[child][i].kind = "bad"
                    \/ (out'[child][i].of = q /\ out'[child][i].kind \in Terminals \cup {"note"})
      BY <2>3, <2>5 DEF Serves
    <3>3. \A i \in DOMAIN out'[child] : out'[child][i].kind \in Terminals =>
              /\ job[child] = NoCall
              /\ \A j \in DOMAIN out'[child] : i < j => out'[child][j].kind = "bad"
      BY <2>3, <2>5 DEF Serves
    <3> QED
      BY <1>2, <2>1, <2>5, <3>1, <3>2, <3>3 DEF Serves
  <2> QED
    BY <2>4, <2>5
<1>15. Goal
  BY <1>1, <1>7, <1>8, <1>9, <1>10, <1>11, <1>12, <1>13, <1>14 DEF Worker
<1> QED
  BY <1>1, <1>2, <1>3, <1>4, <1>15

(* A step of the supervisor that signals its child and reads nothing leaves *)
(* it as it is.                                                             *)
LEMMA Untouched ==
    ASSUME UNCHANGED <<child, os, inbox, job, out>>
    PROVE  /\ Live(child)' = Live(child)
           /\ \A p \in Procs : Idle(p)' = Idle(p)
           /\ Clean(child)' = Clean(child) /\ Booting(child)' = Booting(child)
           /\ \A c \in Calls : Serves(child, c)' = Serves(child, c)
  BY DEF Live, Idle, Clean, OnlyBad, Booting, Serves

(* The processes' part of ChildInv, and the goroutine's.                    *)
IdleDead == \A p \in Procs : os[p] # "running" => Idle(p)
ChildAt ==
    /\ pc = "starting" => Booting(child)
    /\ Live(child) /\ MayServe => Clean(child)
    /\ pc \in {"write", "await", "callback"} /\ writer = "ok" => Serves(child, cur)
    /\ pc \in {"await", "callback"} => writer = "ok"
    /\ pc = "respond" /\ ~replace /\ Live(child) => writer # "pending"

(* A child whose terminal event was read is clean; other valid events leave *)
(* it serving.                                                              *)
LEMMA Reading ==
    ASSUME Control, ChildInv, ReadEvent
    PROVE  /\ UNCHANGED <<child, os, inbox, job>>
           /\ LET e == Head(out[child]) IN
              /\ e.kind \in Terminals => e.of = cur /\ Clean(child)'
              /\ Valid(e) => e.of = cur
              /\ Serves(child, cur)'
<1> DEFINE s == out[child]
<1> USE SupervisorAssumption
<1>1. /\ pc = "await" /\ s # <<>> /\ out' = [out EXCEPT ![child] = Tail(@)]
      /\ UNCHANGED <<child, os, inbox, job, cur>>
  BY DEF ReadEvent, ExecUnchanged
<1>2. s \in Seq(Events) /\ out'[child] = Tail(s)
  BY <1>1, Types DEF Control, ProcTypes
<1>3. Serves(child, cur)
  BY <1>1 DEF ChildInv
<1>4. /\ 1 \in DOMAIN s /\ Head(s) = s[1]
      /\ \A i \in DOMAIN Tail(s) : i + 1 \in DOMAIN s /\ 1 < i + 1 /\ Tail(s)[i] = s[i + 1]
  BY <1>1, <1>2, Cutting
<1>5. ASSUME Head(s).kind \in Terminals PROVE Head(s).of = cur /\ Clean(child)'
  <2>1. job[child] = NoCall /\ \A i \in DOMAIN s : 1 < i => s[i].kind = "bad"
    BY <1>3, <1>4, <1>5 DEF Serves
  <2>2. inbox[child] = <<>>
    BY <1>3, <1>4, <1>5 DEF Serves, OnlyBad
  <2>3. Head(s).of = cur
    BY <1>3, <1>4, <1>5 DEF Serves
  <2>4. \A i \in DOMAIN Tail(s) : Tail(s)[i].kind = "bad"
    BY <1>4, <2>1
  <2> QED
    BY <1>1, <1>2, <2>1, <2>2, <2>3, <2>4 DEF Clean, Idle, OnlyBad
<1>6. Valid(Head(s)) => Head(s).of = cur
  BY <1>3, <1>4 DEF Serves, Valid
<1>7. Serves(child, cur)'
  <2>1. OnlyBad(s) => OnlyBad(Tail(s))
    BY <1>4 DEF OnlyBad
  <2>2. \A i \in DOMAIN Tail(s) :
            Tail(s)[i].kind = "bad"
               \/ (Tail(s)[i].of = cur /\ Tail(s)[i].kind \in Terminals \cup {"note"})
    BY <1>3, <1>4 DEF Serves
  <2>3. ASSUME NEW i \in DOMAIN Tail(s), Tail(s)[i].kind \in Terminals
        PROVE  /\ job[child] = NoCall
               /\ \A j \in DOMAIN Tail(s) : i < j => Tail(s)[j].kind = "bad"
    <3>1. i + 1 \in DOMAIN s /\ s[i + 1].kind \in Terminals
      BY <1>4, <2>3
    <3>2. \A j \in DOMAIN Tail(s) : i < j => i + 1 < j + 1
      BY <1>2, <1>1
    <3> QED
      BY <1>3, <1>4, <3>1, <3>2 DEF Serves
  <2> QED
    BY <1>1, <1>2, <1>3, <2>1, <2>2, <2>3 DEF Serves
<1> QED
  BY <1>1, <1>5, <1>6, <1>7

LEMMA ChildNext == Control /\ OneChild /\ ChildInv /\ [Next]_vars => ChildInv'
<1> SUFFICES ASSUME Control, OneChild, ChildInv, IdleDead, ChildAt, PcHolds, LoopTypes,
                    ProcTypes, [Next]_vars
             PROVE  IdleDead' /\ ChildAt'
  BY Types DEF Control, ChildInv, IdleDead, ChildAt
<1> USE SupervisorAssumption DEF MayServe
<1>1. CASE WorkerStep
  <2>1. PICK p \in Procs : Worker(p)
    BY <1>1 DEF WorkerStep
  <2>2. /\ UNCHANGED <<pc, writer, replace, cur, child>>
        /\ Live(child)' => Live(child)
        /\ \A q \in Procs \ {child} : os'[q] = os[q] /\ job'[q] = job[q] /\ inbox'[q] = inbox[q]
        /\ os'[child] # "running" /\ (os[child] # "running" => Idle(child)) => Idle(child)'
        /\ pc # "starting" /\ Clean(child) => Clean(child)'
        /\ Booting(child) => Booting(child)'
        /\ \A c \in Calls : pc # "starting" /\ Serves(child, c) => Serves(child, c)'
    BY <2>1, WorkerKeeps
  <2>3. ASSUME NEW q \in Procs, os'[q] # "running" PROVE Idle(q)'
    BY <2>2, <2>3 DEF IdleDead, Idle
  <2>4. pc \in {"write", "await", "callback"} => cur \in Calls
    BY DEF PcHolds, LoopTypes
  <2>5. ChildAt'
    BY <2>2, <2>4 DEF ChildAt
  <2> QED
    BY <2>3, <2>5 DEF IdleDead
<1>2. CASE Write
  <2>1. UNCHANGED <<pc, cur, replace, child, os, out, job>> /\ writer = "pending"
    BY <1>2 DEF Write, outside
  <2>2. Live(child)' = Live(child)
    BY <2>1 DEF Live
  <2>3. cur \in Calls
    BY <2>1 DEF PcHolds, LoopTypes
  <2>4. CASE os[child] = "running" /\ signal[child] # "eof"
    <3>1. /\ writer' = "ok" /\ inbox' = [inbox EXCEPT ![child] = Append(@, cur)]
          /\ Live(child)
      BY <1>2, <2>4 DEF Write, Live
    <3>2. inbox'[child] = Append(inbox[child], cur)
            /\ \A q \in Procs \ {child} : inbox'[q] = inbox[q]
      BY <3>1 DEF ProcTypes
    <3>3. IdleDead'
      BY <2>1, <2>4, <3>2 DEF IdleDead, Idle
    <3>4. ASSUME pc = "write" PROVE Serves(child, cur)'
      <4>1. Clean(child)
        BY <2>1, <3>1, <3>4 DEF ChildAt
      <4>2. inbox'[child] = <<cur>>
        BY <2>3, <3>2, <4>1 DEF Clean, Idle
      <4>3. "bad" \notin Terminals
        OBVIOUS
      <4> QED
        BY <2>1, <4>1, <4>2, <4>3 DEF Serves, Clean, Idle, OnlyBad
    <3>5. pc \notin {"await", "callback", "idle", "started", "starting"}
      BY <2>1 DEF ChildAt, PcHolds
    <3>6. ~(pc = "respond" /\ ~replace)
      BY <2>1, <3>1 DEF ChildAt
    <3> QED
      BY <2>1, <3>1, <3>3, <3>4, <3>5, <3>6 DEF ChildAt
  <2>5. CASE ~(os[child] = "running" /\ signal[child] # "eof")
    <3>1. writer' = "failed" /\ UNCHANGED inbox
      BY <1>2, <2>5 DEF Write
    <3>2. UNCHANGED <<child, os, inbox, job, out>>
      BY <2>1, <3>1
    <3> QED
      BY <2>1, <3>1, <3>2, Untouched DEF IdleDead, ChildAt
  <2> QED
    BY <2>4, <2>5
<1>3. CASE Start
  <2>1. CASE UNCHANGED <<child, procVars>> /\ pc' = "failed"
    BY <2>1, Untouched DEF IdleDead, ChildAt, procVars
  <2>2. ASSUME NEW p \in Procs, ~Live(p), child' = p, os' = [os EXCEPT ![p] = "running"],
               out' = [q \in Procs |-> IF Live(q) THEN out[q] ELSE <<>>],
               UNCHANGED <<inbox, job>>, pc' = "starting"
        PROVE  IdleDead' /\ ChildAt'
    <3>1. Idle(p)
      BY <2>2 DEF IdleDead, Live
    <3>2. IdleDead'
      BY <2>2 DEF IdleDead, Idle, ProcTypes
    <3>3. out'[p] = <<>>
      BY <2>2
    <3>4. Booting(child)'
      BY <2>2, <3>1, <3>3 DEF Booting, Idle
    <3> QED
      BY <2>2, <3>2, <3>4 DEF ChildAt
  <2> QED
    BY <1>3, <2>1, <2>2 DEF Start
<1>4. CASE ReadEvent
  <2>1. UNCHANGED <<child, os, inbox, job, writer, cur>> /\ pc = "await"
    BY <1>4 DEF ReadEvent, ExecUnchanged
  <2>2. IdleDead' /\ writer = "ok"
    BY <2>1 DEF IdleDead, Idle, ChildAt
  <2>3. Serves(child, cur)'
    BY <1>4, Reading
  <2>4. Head(out[child]).kind \in Terminals => Clean(child)'
    BY <1>4, Reading
  <2>5. \/ pc' = "respond" /\ replace'
        \/ pc' \in {"await", "callback"}
        \/ pc' = "respond" /\ Head(out[child]).kind \in Terminals
    BY <1>4 DEF ReadEvent, Reply
  <2> QED
    BY <2>1, <2>2, <2>3, <2>4, <2>5 DEF ChildAt
<1>5. CASE StartRead
  <2>1. /\ UNCHANGED <<child, os, inbox, job>> /\ pc = "starting" /\ out[child] # <<>>
        /\ out' = [out EXCEPT ![child] = Tail(@)]
        /\ pc' \in {"started", "terminate"}
    BY <1>5 DEF StartRead, Terminate
  <2>2. IdleDead' /\ Booting(child)
    BY <2>1 DEF IdleDead, Idle, ChildAt
  <2>3. \A i \in DOMAIN Tail(out[child]) :
            /\ i + 1 \in DOMAIN out[child] /\ 1 < i + 1
            /\ Tail(out[child])[i] = out[child][i + 1]
    BY <2>1, Cutting DEF ProcTypes
  <2>4. \A i \in DOMAIN Tail(out[child]) : Tail(out[child])[i].kind = "bad"
    BY <2>2, <2>3 DEF Booting
  <2>5. Clean(child)'
    BY <2>1, <2>2, <2>4 DEF Booting, Clean, Idle, OnlyBad, ProcTypes
  <2> QED
    BY <2>1, <2>2, <2>5 DEF ChildAt
<1>6. CASE ReadExpired
  <2>1. UNCHANGED <<child, os, inbox, job>> /\ pc' = "terminate"
    BY <1>6 DEF ReadExpired, ExecUnchanged, Abandon, Terminate
  <2> QED
    BY <2>1 DEF IdleDead, Idle, ChildAt
<1>7. ASSUME UNCHANGED <<child, os, inbox, job, out>>, ChildAt' PROVE IdleDead' /\ ChildAt'
  BY <1>7, Untouched DEF IdleDead
<1> USE Untouched DEF ChildAt, vars, outside, execVars, procVars, CallerUnchanged,
                      CancellerUnchanged, ExecUnchanged, RestartUnchanged
<1>8. CASE CallerStep
  <2>1. UNCHANGED <<pc, writer, replace, cur, child, os, inbox, job, out>>
    BY <1>8 DEF CallerStep, Caller, Submit, Refuse, Receive, Expire
  <2> QED
    BY <1>7, <2>1, LoopTypes DEF PcHolds, LoopTypes
<1>9. CASE CancelStep \/ SelectStep
  <2>1. UNCHANGED <<writer, cur, child, os, inbox, job, out>>
    BY <1>9 DEF CancelStep, SelectStep, CancelCall, CancelReturn, CancelGone,
                AcknowledgeOther, CancelActive
  <2>2. UNCHANGED <<pc, replace>> \/ pc' = "terminate"
    BY <1>9 DEF CancelStep, SelectStep, CancelCall, CancelReturn, CancelGone,
                AcknowledgeOther, CancelActive, Abandon, Terminate
  <2> QED
    BY <1>7, <2>1, <2>2 DEF PcHolds, LoopTypes
<1>10. CASE Terminated
  <2>1. /\ UNCHANGED <<writer, replace, cur, child, os, inbox, job, out>>
        /\ ~Live(child) /\ pc' \in {"respond", "restart", "failed", "return"}
    BY <1>10 DEF Terminated, PcHolds, LoopTypes
  <2> QED
    BY <1>7, <2>1
<1>11. CASE TakeRequest
  <2>1. /\ UNCHANGED <<replace, child, os, inbox, job, out>> /\ pc = "idle"
        /\ (UNCHANGED <<pc, writer, cur>>) \/ (pc' = "write" /\ writer' = "pending")
    BY <1>11 DEF TakeRequest, StartExecute, Skip
  <2> QED
    BY <1>7, <2>1
<1>12. CASE Written
  <2>1. /\ UNCHANGED <<writer, cur, child, os, inbox, job, out>> /\ pc = "write"
        /\ writer \in {"ok", "failed"}
    BY <1>12 DEF Written, PcHolds, LoopTypes
  <2>2. \/ pc' = "terminate"
        \/ pc' = "respond" /\ replace'
        \/ pc' = "await" /\ writer = "ok"
    BY <1>12, <2>1 DEF Written, Abandon, Terminate, Reply
  <2>3. CASE pc' = "terminate"
    BY <1>7, <2>1, <2>3
  <2>4. CASE pc' = "respond" /\ replace'
    BY <1>7, <2>1, <2>4
  <2>5. CASE pc' = "await" /\ writer = "ok"
    <3>1. Serves(child, cur) /\ cur \in Calls
      BY <2>1, <2>5 DEF PcHolds, LoopTypes
    <3>2. Serves(child, cur)' = Serves(child, cur)
      BY <2>1, <3>1 DEF Serves, OnlyBad
    <3> QED
      BY <1>7, <2>1, <2>5, <3>1, <3>2
  <2> QED
    BY <2>2, <2>3, <2>4, <2>5
<1>13. CASE Respond
  <2>1. /\ UNCHANGED <<child, os, inbox, job, out>> /\ pc = "respond"
        /\ pc' = IF replace THEN "retire" ELSE "idle"
    BY <1>13 DEF Respond
  <2> QED
    BY <1>7, <2>1
<1>14. CASE Started
  <2>1. UNCHANGED <<child, os, inbox, job, out>> /\ pc = "started" /\ pc' = "idle"
    BY <1>14 DEF Started
  <2> QED
    BY <1>7, <2>1
<1>15. CASE ExecStop \/ ExecExpired \/ ExecChildDone \/ OutputClosed
  <2>1. UNCHANGED <<child, os, inbox, job, out>>
    BY <1>15 DEF ExecStop, ExecExpired, ExecChildDone, OutputClosed
  <2>2. pc' \in {"terminate", "grace"} \/ (pc' = "respond" /\ replace')
    BY <1>15 DEF ExecStop, ExecExpired, ExecChildDone, OutputClosed, StopGracefully, Abandon,
                 Terminate, Reply
  <2> QED
    BY <1>7, <2>1, <2>2
<1>16. CASE GraceOver \/ RunStop \/ RunChildDone \/ Retire \/ Restart \/ Delay \/ StartDied
            \/ StartFailed \/ ReturnUnready \/ CloseDone
  <2>1. UNCHANGED <<child, os, inbox, job, out>>
    BY <1>16 DEF GraceOver, RunStop, RunChildDone, Retire, Restart, Delay, StartDied,
                 StartFailed, ReturnUnready, CloseDone
  <2>2. pc' \in {"terminate", "grace", "restart", "delay", "start", "failed", "return",
                 "closing", "done"}
    BY <1>16 DEF GraceOver, RunStop, RunChildDone, Retire, Restart, Delay, StartDied,
                 StartFailed, AfterFailure, ReturnUnready, CloseDone, StopGracefully, Terminate
  <2> QED
    BY <1>7, <2>1, <2>2
<1>17. CASE Close \/ StartTimeout \/ CallbackReturns \/ UNCHANGED vars
  <2>1. UNCHANGED <<writer, cur, child, os, inbox, job, out>>
    BY <1>17 DEF Close, StartTimeout, CallbackReturns
  <2>2. \/ UNCHANGED <<pc, replace>>
        \/ pc' = "terminate"
        \/ pc = "callback" /\ pc' = "await"
    BY <1>17 DEF Close, StartTimeout, CallbackReturns, Terminate
  <2> QED
    BY <1>7, <2>1, <2>2 DEF PcHolds, LoopTypes
<1> QED
  BY <1>1, <1>2, <1>3, <1>4, <1>5, <1>6, <1>8, <1>9, <1>10, <1>11, <1>12, <1>13, <1>14,
     <1>15, <1>16, <1>17, Steps DEF Run, OtherStep

-----------------------------------------------------------------------------
(* Right answers *)

(* What is on its way to a caller was computed for it. *)
RightInv ==
    /\ result.kind \in Terminals => result.of = cur
    /\ \A c \in Calls : response[c].kind \in Terminals => response[c].of = c
    /\ RightAnswer

(* A result of the engine comes from an event that was read. *)
LEMMA ResultOf ==
    ASSUME Control, ChildInv, RightInv, [Next]_vars, result'.kind \in Terminals
    PROVE  result'.of = cur'
<1> USE SupervisorAssumption DEF vars, outside, execVars, CallerUnchanged,
        CancellerUnchanged, ExecUnchanged, RestartUnchanged, WorkerUnchanged
<1>1. \A kind \in {"cancelled", "context", "unavailable", "protocol"} :
          Own(kind).kind \notin Terminals
  BY ReplyFacts
<1>2. NoReply.kind \notin Terminals
  BY ReplyFacts
<1>3. CASE UNCHANGED <<result, cur>>
  BY <1>3 DEF RightInv
<1>4. CASE ReadEvent
  <2>1. \/ UNCHANGED result
        \/ result' = Own("protocol")
        \/ result' = Head(out[child]) /\ Head(out[child]).kind \in Terminals
    BY <1>4 DEF ReadEvent, Reply
  <2>2. UNCHANGED cur
    BY <1>4 DEF ReadEvent
  <2>3. Head(out[child]).kind \in Terminals => Head(out[child]).of = cur
    BY <1>4, Reading
  <2> QED
    BY <1>1, <2>1, <2>2, <2>3 DEF RightInv
<1>5. CASE CancelStep \/ SelectStep
  BY <1>1, <1>3, <1>5 DEF CancelStep, SelectStep, CancelCall, CancelReturn, CancelGone,
              AcknowledgeOther, CancelActive, Abandon, Reply
<1>6. CASE ExecStop \/ ExecExpired \/ ExecChildDone \/ OutputClosed \/ ReadExpired
  BY <1>1, <1>6 DEF ExecStop, ExecExpired, ExecChildDone, OutputClosed, ReadExpired, Abandon,
                    Reply
<1>7. CASE Written
  BY <1>1, <1>3, <1>7 DEF Written, Abandon, Reply
<1>8. CASE TakeRequest
  <2>1. UNCHANGED result /\ result = NoReply
    BY <1>8 DEF TakeRequest, Control, PcHolds
  <2> QED
    BY <1>2, <2>1
<1>9. CASE Respond
  BY <1>2, <1>9 DEF Respond
<1>10. CASE CallerStep
  BY <1>3, <1>10 DEF CallerStep, Caller, Submit, Refuse, Receive, Expire
<1>11. CASE WorkerStep
  BY <1>3, <1>11 DEF WorkerStep, Worker, WorkerReady, WorkerTake, WorkerReject,
              WorkerProgress, WorkerFinish, WorkerGarbage, WorkerExit, Wait
<1>12. CASE Terminated \/ GraceOver \/ RunStop \/ RunChildDone \/ Retire \/ Restart \/ Delay
            \/ Start \/ StartDied \/ StartRead \/ Started \/ StartFailed \/ ReturnUnready
            \/ CloseDone
  BY <1>3, <1>12 DEF Terminated, GraceOver, RunStop, RunChildDone, Retire, Restart, Delay,
              Start, StartDied, StartRead, Started, StartFailed, ReturnUnready, CloseDone
<1>13. CASE OtherStep
  BY <1>3, <1>13 DEF OtherStep, Close, Write, CallbackReturns, StartTimeout
<1> QED
  BY <1>4, <1>5, <1>6, <1>7, <1>8, <1>9, <1>10, <1>11, <1>12, <1>13, Steps DEF Run

LEMMA RightNext == Control /\ ChildInv /\ RightInv /\ [Next]_vars => RightInv'
<1> SUFFICES ASSUME Control, ChildInv, RightInv, [Next]_vars, Frame, CallTypes, ChanTypes,
                    PcHolds, LoopTypes
             PROVE  RightInv'
  BY Frames, Types DEF Control
<1>1. result'.kind \in Terminals => result'.of = cur'
  BY ResultOf
<1>2. \A c \in Calls : response'[c].kind \in Terminals => response'[c].of = c
  <2>1. CASE UNCHANGED chanVars \/ (\E c \in Calls : Submit(c))
    BY <2>1 DEF RightInv, chanVars, Submit
  <2>2. CASE TakeRequest
    <3>1. response' \in {response, [response EXCEPT ![Head(requests)] = Own("context")]}
      BY <2>2 DEF TakeRequest, Answer
    <3>2. Own("context").kind \notin Terminals
      BY ReplyFacts
    <3> QED
      BY <3>1, <3>2 DEF RightInv, ChanTypes
  <2>3. CASE Respond
    <3>1. response' = [response EXCEPT ![cur] = result] /\ cur \in Calls
      BY <2>3 DEF Respond, Answer, PcHolds, LoopTypes
    <3> QED
      BY <3>1 DEF RightInv, ChanTypes
  <2> QED
    BY <2>1, <2>2, <2>3 DEF Frame
<1>3. RightAnswer'
  <2>1. CASE UNCHANGED callVars
    BY <2>1 DEF RightInv, RightAnswer, callVars
  <2>2. ASSUME NEW c \in Calls, Submit(c) \/ Expire(c) PROVE RightAnswer'
    BY <2>2 DEF Submit, Expire, RightInv, RightAnswer
  <2>3. ASSUME NEW c \in Calls, Refuse(c) \/ Receive(c) PROVE RightAnswer'
    <3>1. PICK r : Return(c, r) /\ (r.kind \in Terminals => r = response[c])
      BY <2>3, ReplyFacts DEF Refuse, Receive
    <3> QED
      BY <3>1 DEF Return, RightInv, RightAnswer, CallTypes
  <2> QED
    BY <2>1, <2>2, <2>3 DEF Frame, CallerStep, Caller
<1> QED
  BY <1>1, <1>2, <1>3 DEF RightInv

-----------------------------------------------------------------------------
(* The invariant and the theorems *)

IInv == Control /\ OneChild /\ Accounted /\ ChildInv /\ RightInv

LEMMA InitIInv == Init => IInv
<1> SUFFICES ASSUME Init PROVE IInv
  OBVIOUS
<1> USE SupervisorAssumption DEF Init
<1>1. OneChild
  BY DEF OneChild, Live
<1>2. Accounted
  BY DEF Accounted
<1>3. ChildInv
  BY DEF ChildInv, Idle, Clean, OnlyBad, MayServe
<1>4. RightInv
  BY ReplyFacts DEF RightInv, RightAnswer
<1> QED
  BY <1>1, <1>2, <1>3, <1>4, InitControl DEF IInv

LEMMA Invariant == Spec => []IInv
<1>1. IInv /\ [Next]_vars => IInv'
  BY ControlNext, OneChildNext, AccountedNext, ChildNext, RightNext DEF IInv
<1> QED
  BY <1>1, InitIInv, PTL DEF Spec

(* The supervisor's state stays well formed; in particular its queue never  *)
(* grows beyond MaxQueued.                                                  *)
THEOREM TypeCorrect == Spec => []TypeOK
<1>1. IInv => TypeOK
  BY DEF IInv, Control
<1> QED
  BY <1>1, Invariant, PTL

(* There is at most one worker process, and none, nor readiness, once run   *)
(* has returned.                                                            *)
THEOREM OneChildAtMost == Spec => []AtMostOneChild
<1>1. IInv => AtMostOneChild
  <2> SUFFICES ASSUME IInv PROVE AtMostOneChild
    OBVIOUS
  <2>1. OneChild
    BY DEF IInv
  <2>2. \A p, q \in Procs : Live(p) /\ Live(q) => p = q
    BY <2>1 DEF OneChild
  <2>3. done => ~ready /\ \A p \in Procs : ~Live(p)
    BY <2>1 DEF OneChild
  <2> QED
    BY <2>2, <2>3 DEF AtMostOneChild
<1> QED
  BY <1>1, Invariant, PTL

(* Every waiting call is queued, active or answered, and answered once.     *)
THEOREM CallsAccounted == Spec => []NoCallLost
<1>1. IInv => NoCallLost
  BY DEF IInv, Control, PcHolds, Accounted, Unanswered, NoCallLost
<1> QED
  BY <1>1, Invariant, PTL

(* A live child that a request is written to is idle and has left nothing   *)
(* of an earlier call unread.                                               *)
THEOREM ChildIsClean == Spec => []CleanChild
<1>1. IInv => CleanChild
  BY DEF IInv, ChildInv, MayServe, Clean, Idle, OnlyBad, CleanChild
<1> QED
  BY <1>1, Invariant, PTL

(* A caller that gets the engine's answer gets the one computed for its own *)
(* call, however many calls share its id.                                   *)
THEOREM AnswersAreRight == Spec => []RightAnswer
<1>1. IInv => RightAnswer
  BY DEF IInv, RightInv
<1> QED
  BY <1>1, Invariant, PTL

-----------------------------------------------------------------------------
(* Two more theorems: the supervisor implements EngineService, and an       *)
(* acknowledged cancellation means that nobody computes the cancelled       *)
(* request (AcknowledgedMeansStopped).  They rest on IInv, strengthened by  *)
(* what the end of a call says of the child: a child whose stdin was closed *)
(* is waited for, a failed write means a dead child, a deadline or          *)
(* cancellation is reported for a dead child only, and a child holds only   *)
(* calls that left the queue.                                               *)

(* The child behind a failed write *)

Signalled == os[child] = "running" /\ signal[child] = "eof" => pc \in {"grace", "terminate"}

WriteFailed == pc = "write" /\ writer = "failed" => os[child] # "running"

Halting == Signalled /\ WriteFailed

(* The steps of the goroutine and of its callers signal the child only on   *)
(* the way to a wait for its end, and begin a write with a pending writer.  *)
Waits ==
    /\ UNCHANGED <<child, os>>
    /\ pc' \in {"grace", "terminate"} \/ (UNCHANGED signal /\ pc \notin {"grace", "terminate"})
          \/ ~Live(child)
    /\ pc' # "write" \/ writer' = "pending" \/ UNCHANGED <<pc, writer>>

LEMMA WaitSteps ==
    ASSUME Control, [Next]_vars PROVE Waits \/ Start \/ Write \/ WorkerStep
<1> USE DEF Waits, vars, outside, execVars, procVars, CallerUnchanged, CancellerUnchanged,
            ExecUnchanged, RestartUnchanged
<1>1. CASE CallerStep
  BY <1>1 DEF CallerStep, Caller, Submit, Refuse, Receive, Expire
<1>2. CASE CancelStep \/ SelectStep
  BY <1>2 DEF CancelStep, SelectStep, CancelCall, CancelReturn, CancelGone,
              AcknowledgeOther, CancelActive, Abandon, Terminate, Executing
<1>3. CASE Run
  <2>1. CASE Terminated \/ GraceOver \/ RunStop \/ RunChildDone \/ TakeRequest
    BY <2>1 DEF Terminated, GraceOver, RunStop, RunChildDone, TakeRequest, StartExecute, Skip,
                Terminate, StopGracefully, Control, TypeOK
  <2>2. CASE ExecStop \/ ExecExpired \/ ExecChildDone \/ Written
    BY <2>2 DEF ExecStop, ExecExpired, ExecChildDone, Written, Executing, StopGracefully,
                Abandon, Terminate
  <2>3. CASE ReadExpired \/ OutputClosed \/ ReadEvent
    BY <2>3 DEF ReadExpired, OutputClosed, ReadEvent, Abandon, Terminate
  <2>4. CASE Respond \/ Retire \/ Restart \/ Delay \/ StartDied \/ StartRead
    BY <2>4 DEF Respond, Retire, Restart, Delay, StartDied, StartRead, Terminate
  <2>5. CASE Started \/ StartFailed \/ ReturnUnready \/ CloseDone
    BY <2>5 DEF Started, StartFailed, AfterFailure, ReturnUnready, CloseDone
  <2> QED
    BY <1>3, <2>1, <2>2, <2>3, <2>4, <2>5 DEF Run
<1>4. CASE OtherStep
  BY <1>4 DEF OtherStep, Close, CallbackReturns, StartTimeout, Terminate
<1> QED
  BY <1>1, <1>2, <1>3, <1>4, Steps

LEMMA HaltingNext == ASSUME Control, Halting, [Next]_vars PROVE Halting'
<1> USE DEF Halting, Signalled, WriteFailed
<1>1. ProcTypes /\ PcHolds
  BY Types DEF Control
<1>2. CASE Waits
  BY <1>2 DEF Waits, Live
<1>3. CASE Start
  <2>1. CASE UNCHANGED <<child, procVars>> /\ pc' = "failed"
    BY <1>3, <2>1 DEF Start, procVars
  <2>2. ASSUME NEW p \in Procs, ~Live(p), child' = p, pc' = "starting",
               signal' = [q \in Procs |-> IF Live(q) THEN signal[q] ELSE "none"]
        PROVE  Halting'
    BY <2>2
  <2> QED
    BY <1>3, <2>1, <2>2 DEF Start
<1>4. CASE Write
  BY <1>4 DEF Write, outside
<1>5. CASE WorkerStep
  <2>1. PICK p \in Procs : Worker(p)
    BY <1>5 DEF WorkerStep
  <2>2. UNCHANGED <<pc, writer, child, signal>>
    BY <2>1 DEF Worker, WorkerReady, WorkerTake, WorkerReject, WorkerProgress, WorkerFinish,
                WorkerGarbage, WorkerExit, Wait, WorkerUnchanged, execVars
  <2>3. os'[child] = "running" => os[child] = "running"
    BY <1>1, <2>1 DEF Worker, WorkerReady, WorkerTake, WorkerReject, WorkerProgress,
                WorkerFinish, WorkerGarbage, WorkerExit, Wait, ProcTypes
  <2> QED
    BY <2>2, <2>3
<1> QED
  BY <1>2, <1>3, <1>4, <1>5, WaitSteps

(* A cancellation is acknowledged by a select only for another id: the      *)
(* child is idle or serves the active call.                                 *)
LEMMA AcknowledgeNext ==
    ASSUME IInv, Halting, [Next]_vars,
           NEW k \in Cancels, NEW p \in Procs, ack'[k], ~ack[k], os[p] = "running",
           NEW c \in Calls, IdOf[c] = TargetOf[k]
    PROVE  job[p] # c /\ \A i \in DOMAIN inbox[p] : inbox[p][i] # c
<1>1. /\ Control /\ CallTypes /\ LoopTypes /\ PcHolds /\ OneChild /\ ChildInv
  BY Types DEF IInv, Control
<1>2. p = child /\ Live(child)
  BY <1>1 DEF OneChild, Live
<1>3. c # NoCall
  BY SupervisorAssumption
<1>4. CASE Terminated
  BY <1>2, <1>4 DEF Terminated
<1>5. CASE CancelStep
  BY <1>5 DEF CancelStep, CancelCall, CancelReturn, CancelGone
<1>6. CASE SelectStep
  <2>1. PICK h \in Cancels : AcknowledgeOther(h) \/ CancelActive(h)
    BY <1>6 DEF SelectStep
  <2>2. AcknowledgeOther(h) /\ h = k
    BY <1>1, <2>1 DEF AcknowledgeOther, CancelActive, CallTypes
  <2>3. CASE Clean(child)
    BY <1>2, <1>3, <2>3 DEF Clean, Idle
  <2>4. CASE Serves(child, cur) /\ cur # c
    BY <1>2, <1>3, <2>4 DEF Serves
  <2>5. CASE pc = "idle"
    BY <1>1, <1>2, <2>3, <2>5 DEF ChildInv, MayServe
  <2>6. CASE pc \in Executing /\ TargetOf[k] # IdOf[cur]
    <3>1. cur # c /\ writer # "none"
      BY <1>1, <2>6 DEF PcHolds, Executing
    <3>2. writer = "failed" => pc = "await"
      BY <1>2, <2>6 DEF Halting, WriteFailed, Executing
    <3>3. Clean(child) \/ Serves(child, cur)
      BY <1>1, <1>2, <2>6, <3>1, <3>2 DEF ChildInv, MayServe, Executing, LoopTypes
    <3> QED
      BY <2>3, <2>4, <3>1, <3>3
  <2> QED
    BY <2>2, <2>5, <2>6 DEF AcknowledgeOther, OtherTarget
<1>7. CASE UNCHANGED cancelVars
  BY <1>7 DEF cancelVars
<1> QED
  BY <1>4, <1>5, <1>6, <1>7, Frames DEF Frame

(* An acknowledged cancellation means that no running worker computes, or   *)
(* is about to compute, a request with the cancelled id.                    *)
THEOREM CancelledIsStopped == Spec => AcknowledgedMeansStopped
<1>1. Init => Halting
  BY DEF Init, Halting, Signalled, WriteFailed
<1>2. IInv /\ Halting /\ [Next]_vars => Halting'
  BY HaltingNext DEF IInv
<1>3. IInv /\ Halting /\ [Next]_vars =>
          [\A k \in Cancels, p \in Procs :
              ack'[k] /\ ~ack[k] /\ os[p] = "running" =>
                  \A c \in Calls : IdOf[c] = TargetOf[k] =>
                      job[p] # c /\ \A i \in DOMAIN inbox[p] : inbox[p][i] # c]_vars
  BY AcknowledgeNext
<1> QED
  BY <1>1, <1>2, <1>3, Invariant, PTL DEF Spec, AcknowledgedMeansStopped

-----------------------------------------------------------------------------
(* What execute returns *)

(* A reply the supervisor makes up carries no call; a deadline or a         *)
(* cancellation is answered once the child is gone; a child that answered   *)
(* is kept.                                                                 *)
ResultInv ==
    /\ result.kind \in Terminals \/ result \in
          {NoReply, Own("context"), Own("cancelled"), Own("unavailable"), Own("protocol")}
    /\ pc = "respond" /\ result \in {Own("context"), Own("cancelled")} => ~Live(child)
    /\ result.kind \in Terminals => ~replace

(* How a step may change it. *)
Returns ==
    \/ UNCHANGED <<result, replace>> /\ (pc' # "respond" \/ UNCHANGED pc)
    \/ result' \in {Own("context"), Own("cancelled")} /\ pc' = "terminate"
    \/ result' \in {Own("unavailable"), Own("protocol")}
    \/ result'.kind \in Terminals /\ ~replace'
    \/ result' = NoReply
    \/ UNCHANGED <<result, replace, child, os>> /\ ~Live(child)

LEMMA ReturnSteps == ASSUME Control, [Next]_vars PROVE Returns
<1> USE DEF Returns, vars, outside, execVars, CallerUnchanged, CancellerUnchanged,
            ExecUnchanged, RestartUnchanged, WorkerUnchanged
<1>1. CASE CallerStep
  BY <1>1 DEF CallerStep, Caller, Submit, Refuse, Receive, Expire
<1>2. CASE CancelStep \/ SelectStep
  BY <1>2 DEF CancelStep, SelectStep, CancelCall, CancelReturn, CancelGone,
              AcknowledgeOther, CancelActive, Abandon, Terminate, Reply
<1>3. CASE WorkerStep
  BY <1>3 DEF WorkerStep, Worker, WorkerReady, WorkerTake, WorkerReject, WorkerProgress,
              WorkerFinish, WorkerGarbage, WorkerExit, Wait
<1>4. CASE Run
  <2>1. CASE Terminated
    BY <2>1 DEF Terminated, procVars
  <2>2. CASE GraceOver \/ RunStop \/ RunChildDone \/ TakeRequest
    BY <2>2 DEF GraceOver, RunStop, RunChildDone, TakeRequest, StartExecute, Skip, Terminate,
                StopGracefully
  <2>3. CASE ExecStop \/ ExecExpired \/ ExecChildDone
    BY <2>3 DEF ExecStop, ExecExpired, ExecChildDone, Abandon, Terminate, Reply
  <2>4. CASE Written
    BY <2>4 DEF Written, Abandon, Terminate, Reply
  <2>5. CASE ReadExpired \/ OutputClosed \/ ReadEvent
    BY <2>5 DEF ReadExpired, OutputClosed, ReadEvent, Abandon, Terminate, Reply
  <2>6. CASE Respond
    BY <2>6 DEF Respond
  <2>7. CASE Retire \/ Restart \/ Delay \/ Start \/ StartDied \/ StartRead
    BY <2>7 DEF Retire, Restart, Delay, Start, StartDied, StartRead, Terminate
  <2>8. CASE Started \/ StartFailed \/ ReturnUnready \/ CloseDone
    BY <2>8 DEF Started, StartFailed, AfterFailure, ReturnUnready, CloseDone
  <2> QED
    BY <1>4, <2>1, <2>2, <2>3, <2>4, <2>5, <2>6, <2>7, <2>8 DEF Run
<1>5. CASE OtherStep
  BY <1>5 DEF OtherStep, Close, Write, CallbackReturns, StartTimeout, Terminate
<1> QED
  BY <1>1, <1>2, <1>3, <1>4, <1>5, Steps

(* A process that is gone stays gone while the goroutine is to respond. *)
LEMMA GoneStays ==
    ASSUME Control, [Next]_vars, pc = "respond" PROVE Live(child)' => Live(child)
<1>1. PcHolds /\ ProcTypes
  BY Types DEF Control
<1>2. CASE SignalStep
  BY <1>2 DEF SignalStep, Live
<1>3. CASE Write
  BY <1>3 DEF Write, Live
<1>4. CASE Start
  BY <1>4 DEF Start
<1>5. CASE WorkerStep
  <2>1. PICK p \in Procs : Worker(p)
    BY <1>5 DEF WorkerStep
  <2>2. UNCHANGED child /\ (os'[child] # "gone" => os[child] # "gone")
    BY <1>1, <2>1 DEF Worker, WorkerReady, WorkerTake, WorkerReject, WorkerProgress,
                WorkerFinish, WorkerGarbage, WorkerExit, Wait, WorkerUnchanged, ProcTypes
  <2> QED
    BY <2>2 DEF Live
<1> QED
  BY <1>2, <1>3, <1>4, <1>5, ProcSteps DEF ProcStep

LEMMA ResultInvNext == ASSUME Control, ResultInv, [Next]_vars PROVE ResultInv'
<1>1. \A kind \in {"none", "cancelled", "context", "unavailable", "protocol"} :
          Own(kind).kind = kind /\ kind \notin Terminals
  BY ReplyFacts
<1>2. NoReply = Own("none")
  BY DEF NoReply
<1>3. UNCHANGED pc /\ pc = "respond" /\ Live(child)' => Live(child)
  BY GoneStays
<1>4. UNCHANGED <<child, os>> => Live(child)' = Live(child)
  BY DEF Live
<1> QED
  BY <1>1, <1>2, <1>3, <1>4, GoneStays, ReturnSteps DEF ResultInv, Returns

-----------------------------------------------------------------------------
(* What a process holds *)

(* A call that a process holds has left the queue and is active or answered. *)
Owned(c) == (\A i \in DOMAIN requests : requests[i] # c) /\ (cur = c \/ response[c] # NoReply)

Holds(p, c) == job[p] = c \/ \E i \in DOMAIN inbox[p] : inbox[p][i] = c

OwnedInv == \A p \in Procs, c \in Calls : Holds(p, c) => Owned(c)

TellInv == \A c \in Calls : caller[c] # "returned" => reply[c] = NoReply

LEMMA OwnedNext ==
    ASSUME Control, Accounted, [Next]_vars, NEW c \in Calls, Owned(c) PROVE Owned(c)'
<1>1. CallTypes /\ ChanTypes /\ LoopTypes /\ PcHolds
  BY Types DEF Control
<1>2. CASE UNCHANGED <<chanVars, cur>>
  BY <1>2 DEF Owned, chanVars
<1>3. ASSUME NEW d \in Calls, Submit(d) PROVE Owned(c)'
  <2>1. /\ requests' = Append(requests, d) /\ UNCHANGED <<response, cur>>
        /\ caller[d] = "new"
    BY <1>3 DEF Submit, CallerUnchanged, execVars
  <2>2. c # d
    BY <2>1, SupervisorAssumption DEF Owned, Accounted, Unanswered
  <2>3. \A i \in DOMAIN requests' : requests'[i] = d \/ (i \in DOMAIN requests /\ requests'[i] = requests[i])
    BY <1>1, <2>1 DEF ChanTypes
  <2> QED
    BY <2>1, <2>2, <2>3 DEF Owned
<1>4. CASE TakeRequest
  <2>1. /\ requests' = Tail(requests) /\ requests # <<>> /\ cur = NoCall
        /\ response' \in {response, [response EXCEPT ![Head(requests)] = Own("context")]}
    BY <1>1, <1>4 DEF TakeRequest, Answer, PcHolds
  <2>2. \A i \in DOMAIN requests' : i + 1 \in DOMAIN requests /\ requests'[i] = requests[i + 1]
    BY <1>1, <2>1 DEF ChanTypes
  <2>3. response[c] # NoReply /\ Own("context") # NoReply
    BY <2>1, SupervisorAssumption DEF Owned, Own, NoReply
  <2>4. response'[c] # NoReply
    BY <1>1, <2>1, <2>3 DEF ChanTypes
  <2> QED
    BY <2>2, <2>4 DEF Owned
<1>5. CASE Respond
  <2>1. /\ response' = [response EXCEPT ![cur] = result] /\ result # NoReply
        /\ cur \in Calls /\ UNCHANGED requests
    BY <1>1, <1>5 DEF Respond, Answer, Accounted, PcHolds, LoopTypes
  <2>2. response'[c] # NoReply
    BY <1>1, <2>1 DEF ChanTypes, Owned
  <2> QED
    BY <2>1, <2>2 DEF Owned
<1> QED
  BY <1>2, <1>3, <1>4, <1>5, Frames DEF Frame

(* A process gets hold of a call by a write only.                           *)
LEMMA HoldsStep ==
    ASSUME Control, [Next]_vars, NEW p \in Procs, NEW c \in Calls, Holds(p, c)'
    PROVE  Holds(p, c) \/ (Write /\ c = cur)
<1>1. /\ LoopTypes /\ PcHolds /\ ProcTypes
  BY Types DEF Control
<1>2. inbox[p] \in Seq(Calls) /\ c # NoCall
  BY <1>1, SupervisorAssumption DEF ProcTypes
<1>3. CASE SignalStep \/ Start
  BY <1>3 DEF SignalStep, Start, procVars, Holds
<1>4. CASE Write
  <2>1. cur \in Calls /\ UNCHANGED job
    BY <1>1, <1>4 DEF Write, PcHolds, LoopTypes
  <2>2. inbox'[p] \in {inbox[p], Append(inbox[p], cur)}
    BY <1>1, <1>4 DEF Write, ProcTypes
  <2>3. \A i \in DOMAIN inbox'[p] :
            inbox'[p][i] = cur \/ (i \in DOMAIN inbox[p] /\ inbox'[p][i] = inbox[p][i])
    <3>1. CASE inbox'[p] = inbox[p]
      BY <3>1
    <3>2. CASE inbox'[p] = Append(inbox[p], cur)
      BY <1>2, <2>1, <3>2
    <3> QED
      BY <2>2, <3>1, <3>2
  <2> QED
    BY <1>4, <2>1, <2>3 DEF Holds
<1>5. CASE WorkerStep
  <2>1. PICK q \in Procs : Worker(q)
    BY <1>5 DEF WorkerStep
  <2>2. \/ inbox'[p] = inbox[p]
        \/ inbox[p] # <<>> /\ inbox'[p] = Tail(inbox[p])
        \/ inbox'[p] = <<>>
    BY <1>1, <2>1 DEF Worker, WorkerReady, WorkerTake, WorkerReject, WorkerProgress,
       WorkerFinish, WorkerGarbage, WorkerExit, Wait, ProcTypes
  <2>3. \/ job'[p] \in {job[p], NoCall}
        \/ inbox[p] # <<>> /\ job'[p] = Head(inbox[p])
    BY <1>1, <2>1 DEF Worker, WorkerReady, WorkerTake, WorkerReject, WorkerProgress,
       WorkerFinish, WorkerGarbage, WorkerExit, Wait, ProcTypes
  <2>4. inbox[p] # <<>> => 1 \in DOMAIN inbox[p] /\ Head(inbox[p]) = inbox[p][1]
    BY <1>2
  <2>5. inbox[p] # <<>> => \A i \in DOMAIN Tail(inbox[p]) :
            i + 1 \in DOMAIN inbox[p] /\ Tail(inbox[p])[i] = inbox[p][i + 1]
    BY <1>2
  <2>6. \A i \in DOMAIN inbox'[p] : \E j \in DOMAIN inbox[p] : inbox'[p][i] = inbox[p][j]
    <3>1. CASE inbox'[p] = inbox[p]
      BY <3>1
    <3>2. CASE inbox[p] # <<>> /\ inbox'[p] = Tail(inbox[p])
      BY <2>5, <3>2
    <3>3. CASE inbox'[p] = <<>>
      BY <3>3
    <3> QED
      BY <2>2, <3>1, <3>2, <3>3
  <2>7. CASE job'[p] = c
    BY <1>2, <2>3, <2>4, <2>7 DEF Holds
  <2>8. CASE \E i \in DOMAIN inbox'[p] : inbox'[p][i] = c
    BY <2>6, <2>8 DEF Holds
  <2> QED
    BY <2>7, <2>8 DEF Holds
<1> QED
  BY <1>3, <1>4, <1>5, ProcSteps DEF ProcStep

LEMMA OwnedInvNext == ASSUME Control, Accounted, OwnedInv, [Next]_vars PROVE OwnedInv'
<1> SUFFICES ASSUME NEW p \in Procs, NEW c \in Calls, Holds(p, c)' PROVE Owned(c)'
  BY DEF OwnedInv
<1>1. CASE Holds(p, c)
  BY <1>1, OwnedNext DEF OwnedInv
<1>2. CASE Write /\ c = cur
  BY <1>2 DEF Write, outside, chanVars, Owned, Accounted
<1> QED
  BY <1>1, <1>2, HoldsStep

LEMMA TellInvNext == ASSUME Control, TellInv, [Next]_vars PROVE TellInv'
<1>1. CallTypes
  BY Types DEF Control
<1>2. CASE UNCHANGED callVars
  BY <1>2 DEF TellInv, callVars
<1>3. ASSUME NEW c \in Calls, Submit(c) \/ Expire(c) PROVE TellInv'
  BY <1>1, <1>3 DEF Submit, Expire, TellInv, CallTypes
<1>4. ASSUME NEW c \in Calls, NEW r, Return(c, r) PROVE TellInv'
  BY <1>1, <1>4 DEF Return, TellInv, CallTypes
<1> QED
  BY <1>2, <1>3, <1>4, Frames DEF Frame, CallerStep, Caller, Refuse, Receive

-----------------------------------------------------------------------------
(* The refinement *)

Inv == IInv /\ Halting /\ ResultInv /\ OwnedInv /\ TellInv

Queued(c) == \E i \in DOMAIN requests : requests[i] = c

(* The calls the engine computes, and Service's variable phase. *)
Engine == {job[p] : p \in Procs} \ {NoCall}
Phases == [c \in Calls |-> Phase(c)]

(* A step that leaves the channels, the active call, the workers' jobs and  *)
(* the replies alone is invisible to EngineService.                         *)
LEMMA Invisible ==
    ASSUME UNCHANGED <<chanVars, cur, job, reply>> PROVE UNCHANGED Service!vars
  BY DEF Service!vars, Phase, chanVars

LEMMA PhaseMoves ==
    ASSUME NEW c \in Calls, NEW ph,
           \A d \in Calls : Phase(d)' = IF d = c THEN ph ELSE Phase(d)
    PROVE  Phases' = [Phases EXCEPT ![c] = ph]
  BY DEF Phases

(* DoWithProgress enqueues, or tells its caller. *)
LEMMA CallerServes == ASSUME Inv, CallerStep PROVE [Service!Next]_(Service!vars)
<1>1. /\ Accounted /\ TellInv /\ CallTypes /\ ChanTypes /\ LoopTypes
  BY Types DEF Inv, IInv, Control
<1>2. PICK c \in Calls : Submit(c) \/ Refuse(c) \/ Receive(c) \/ Expire(c)
  BY DEF CallerStep, Caller
<1>3. UNCHANGED <<cur, job, response>>
  BY <1>2 DEF Submit, Refuse, Receive, Expire, CallerUnchanged, execVars, procVars, chanVars
<1>4. caller[c] = "new" => ~Queued(c) /\ cur # c /\ response[c] = NoReply
  BY <1>1, SupervisorAssumption DEF Queued, Accounted, Unanswered
<1>5. CASE Submit(c)
  <2>1. requests' = Append(requests, c) /\ UNCHANGED reply /\ caller[c] = "new"
    BY <1>5 DEF Submit
  <2>2. \A d \in Calls : Queued(d)' <=> d = c \/ Queued(d)
    <3>1. DOMAIN requests' = 1..(Len(requests) + 1) /\ DOMAIN requests = 1..Len(requests)
      BY <1>1, <2>1 DEF ChanTypes
    <3>2. /\ \A i \in DOMAIN requests : i \in DOMAIN requests' /\ requests'[i] = requests[i]
          /\ Len(requests) + 1 \in DOMAIN requests' /\ requests'[Len(requests) + 1] = c
          /\ \A i \in DOMAIN requests' : i \in DOMAIN requests \/ i = Len(requests) + 1
      BY <1>1, <2>1, <3>1 DEF ChanTypes
    <3> QED
      BY <3>2 DEF Queued
  <2>3. \A d \in Calls : Phase(d)' = IF d = c THEN "queued" ELSE Phase(d)
    BY <1>3, <2>2 DEF Phase, Queued
  <2>4. Phase(c) = "new" /\ reply[c] = Service!Unanswered
    BY <1>1, <1>4, <2>1 DEF Phase, Queued, TellInv, NoReply, Own, Service!Unanswered,
                            Service!Own
  <2>5. Service!Enqueue(c)
    BY <1>3, <2>1, <2>3, <2>4, PhaseMoves DEF Service!Enqueue, Phases
  <2> QED
    BY <2>5 DEF Service!Next
<1>6. CASE Expire(c)
  BY <1>3, <1>6, Invisible DEF Expire
<1>7. CASE Refuse(c) \/ Receive(c)
  <2>1. PICK r : /\ Return(c, r)
                 /\ \/ r \in {Own("context"), Own("unavailable")}
                    \/ r = response[c] /\ r # NoReply
                    \/ r = Own("overloaded") /\ caller[c] = "new"
    BY <1>7 DEF Refuse, Receive
  <2>2. reply[c] = NoReply /\ UNCHANGED <<chanVars, cur, job>>
    BY <1>1, <1>3, <1>7 DEF Refuse, Receive, TellInv
  <2>3. UNCHANGED <<Phases, Engine, response>> /\ reply' = [reply EXCEPT ![c] = r]
    BY <2>1, <2>2 DEF Phases, Engine, Phase, chanVars, Return
  <2>4. r # NoReply
    BY <2>1 DEF Own, NoReply
  <2>5. caller[c] = "new" => Phase(c) = "new"
    BY <1>4 DEF Phase, Queued
  <2>6. Service!Tell(c)
    BY <2>1, <2>2, <2>3, <2>4, <2>5
       DEF Service!Tell, Service!Unanswered, Service!Own, Own, NoReply, Phases, Engine
  <2> QED
    BY <2>6 DEF Service!Next
<1> QED
  BY <1>2, <1>5, <1>6, <1>7

(* A worker takes up a call or stops computing one.                         *)
LEMMA WorkerServes == ASSUME Inv, WorkerStep PROVE [Service!Next]_(Service!vars)
<1>1. /\ OneChild /\ ChildInv /\ OwnedInv /\ ProcTypes
  BY Types DEF Inv, IInv, Control
<1>2. PICK p \in Procs : Worker(p)
  BY DEF WorkerStep
<1>3. UNCHANGED <<chanVars, cur, reply, response>>
  BY <1>2 DEF Worker, WorkerReady, WorkerTake, WorkerReject, WorkerProgress, WorkerFinish,
              WorkerGarbage, WorkerExit, Wait, WorkerUnchanged, outside, execVars, callVars,
              chanVars
<1>4. UNCHANGED Phases
  BY <1>3 DEF Phases, Phase, chanVars
<1>5. os[p] = "running" => \A q \in Procs \ {p} : job[q] = NoCall
  BY <1>1 DEF OneChild, Live, ChildInv, Idle
<1>6. CASE UNCHANGED job
  BY <1>3, <1>6, Invisible
<1>7. CASE os[p] = "running" /\ job' = [job EXCEPT ![p] = NoCall]
  <2>1. Engine' = {}
    BY <1>1, <1>5, <1>7 DEF Engine, ProcTypes
  <2>2. CASE Engine = {}
    BY <1>3, <1>4, <2>1, <2>2 DEF Service!vars, Phases, Engine
  <2>3. CASE Engine # {}
    BY <1>3, <1>4, <2>1, <2>3 DEF Service!Next, Service!Stop, Phases, Engine
  <2> QED
    BY <2>2, <2>3
<1>8. CASE WorkerTake(p)
  <2>1. PICK c \in Calls : /\ os[p] = "running" /\ job[p] = NoCall /\ inbox[p] # <<>>
                           /\ c = Head(inbox[p]) /\ job' = [job EXCEPT ![p] = c]
    <3>1. inbox[p] \in Seq(Calls)
      BY <1>1 DEF ProcTypes
    <3>2. inbox[p] # <<>> => Head(inbox[p]) \in Calls
      BY <3>1
    <3> QED
      BY <1>8, <3>2 DEF WorkerTake
  <2>2. inbox[p][1] = c /\ 1 \in DOMAIN inbox[p]
    BY <1>1, <2>1 DEF ProcTypes
  <2>3. Phase(c) \in {"serving", "served"}
    BY <1>1, <2>2 DEF OwnedInv, Holds, Owned, Phase
  <2>4. Engine = {}
    BY <1>5, <2>1 DEF Engine
  <2>5. Engine' = {c}
    <3>1. \A q \in Procs : job'[q] = IF q = p THEN c ELSE NoCall
      BY <1>1, <1>5, <2>1 DEF ProcTypes
    <3> QED
      BY <3>1, SupervisorAssumption DEF Engine
  <2>6. Service!Compute(c)
    BY <1>3, <1>4, <2>3, <2>4, <2>5 DEF Service!Compute, Phases, Engine
  <2> QED
    BY <2>6 DEF Service!Next
<1> QED
  BY <1>2, <1>6, <1>7, <1>8 DEF Worker, WorkerReady, WorkerReject, WorkerProgress,
     WorkerFinish, WorkerGarbage, WorkerExit, Wait

(* No call in the queue is computed, nor any by a process that is gone.     *)
LEMMA NotComputed ==
    ASSUME Inv
    PROVE  /\ \A c \in Calls : Queued(c) => c \notin Engine
           /\ ~Live(child) \/ Clean(child) => Engine = {}
<1>1. OneChild /\ ChildInv /\ OwnedInv
  BY DEF Inv, IInv
<1>2. \A c \in Calls : Queued(c) => c \notin Engine
  BY <1>1 DEF OwnedInv, Holds, Owned, Queued, Engine
<1>3. \A p \in Procs : p # child => job[p] = NoCall
  BY <1>1 DEF OneChild, ChildInv, Live, Idle
<1>4. ~Live(child) \/ Clean(child) => \A p \in Procs : job[p] = NoCall
  BY <1>1, <1>3 DEF ChildInv, Live, Clean, Idle
<1> QED
  BY <1>2, <1>4 DEF Engine

(* run takes a call from the queue: it is served, or answered at once.      *)
LEMMA TakeServes == ASSUME Inv, TakeRequest PROVE [Service!Next]_(Service!vars)
<1>1. /\ Accounted /\ ChanTypes /\ PcHolds
  BY Types DEF Inv, IInv, Control
<1>2. PICK c \in Calls :
          /\ requests # <<>> /\ requests' = Tail(requests) /\ cur = NoCall
          /\ c = Head(requests) /\ c = requests[1] /\ c # NoCall
          /\ UNCHANGED <<job, reply>>
  BY <1>1, SupervisorAssumption DEF TakeRequest, PcHolds, ChanTypes, callVars, procVars
<1>3. /\ DOMAIN requests = 1..Len(requests) /\ DOMAIN requests' = 1..(Len(requests) - 1)
      /\ 1 \in DOMAIN requests /\ Len(requests) \in Nat
      /\ \A i \in DOMAIN requests' : requests'[i] = requests[i + 1]
  BY <1>1, <1>2 DEF ChanTypes
<1>4. \A d \in Calls : Queued(d)' <=> d # c /\ Queued(d)
  <2>1. \A i \in DOMAIN requests' : i + 1 \in DOMAIN requests /\ i + 1 # 1
    BY <1>3
  <2>2. \A i \in DOMAIN requests : i # 1 =>
            i - 1 \in DOMAIN requests' /\ requests'[i - 1] = requests[i]
    BY <1>3
  <2>3. \A d \in Calls : Queued(d)' => d # c /\ Queued(d)
    BY <1>1, <1>2, <1>3, <2>1 DEF Queued, Accounted
  <2>4. \A d \in Calls : d # c /\ Queued(d) => Queued(d)'
    BY <1>2, <2>2 DEF Queued
  <2> QED
    BY <2>3, <2>4
<1>5. Queued(c)
  BY <1>2, <1>3 DEF Queued
<1>6. Phase(c) = "queued" /\ UNCHANGED Engine
  BY <1>2, <1>5 DEF Phase, Queued, Engine
<1>7. CASE Answer(c, Own("context")) /\ Skip(c)
  <2>1. response' = [response EXCEPT ![c] = Own("context")] /\ UNCHANGED cur
    BY <1>7 DEF Answer, Skip
  <2>2. \A d \in Calls : Phase(d)' = IF d = c THEN "served" ELSE Phase(d)
    <3>1. Phase(c)' = "served"
      BY <1>1, <1>2, <1>4, <2>1 DEF Phase, Queued, ChanTypes, Own, NoReply
    <3>2. \A d \in Calls : d # c => Phase(d)' = Phase(d)
      BY <1>1, <1>4, <2>1 DEF Phase, Queued, ChanTypes
    <3> QED
      BY <3>1, <3>2
  <2>3. Own("context") \in [kind : Service!Kinds, of : Calls \cup {NoCall}]
    BY DEF Own, Service!Kinds
  <2>4. Service!Answer(c, Own("context"))
    BY <1>2, <1>5, <1>6, <2>1, <2>2, NotComputed, PhaseMoves
       DEF Service!Answer, Service!Own, Own, Phases, Engine
  <2> QED
    BY <1>2, <2>3, <2>4 DEF Service!Next
<1>8. CASE StartExecute(c) /\ UNCHANGED response
  <2>1. cur' = c
    BY <1>8 DEF StartExecute
  <2>2. \A d \in Calls : Phase(d)' = IF d = c THEN "serving" ELSE Phase(d)
    BY <1>2, <1>4, <1>8, <2>1, SupervisorAssumption DEF Phase, Queued
  <2>3. \A d \in Calls : Phase(d) # "serving"
    BY <1>2, SupervisorAssumption DEF Phase
  <2>4. Service!Begin(c)
    BY <1>2, <1>6, <1>8, <2>2, <2>3, PhaseMoves DEF Service!Begin, Phases, Engine
  <2> QED
    BY <1>2, <2>4 DEF Service!Next
<1> QED
  BY <1>2, <1>7, <1>8 DEF TakeRequest

(* run sends what execute returned. *)
LEMMA RespondServes == ASSUME Inv, Respond PROVE [Service!Next]_(Service!vars)
<1>1. /\ Accounted /\ ChanTypes /\ PcHolds /\ LoopTypes /\ ChildInv /\ RightInv /\ ResultInv
  BY Types DEF Inv, IInv, Control
<1>2. PICK c \in Calls :
          /\ c = cur /\ cur' = NoCall /\ c # NoCall /\ pc = "respond"
          /\ result # NoReply /\ response' = [response EXCEPT ![c] = result]
          /\ UNCHANGED <<requests, job, reply>>
  BY SupervisorAssumption, <1>1 DEF Respond, Answer, PcHolds, LoopTypes, Accounted, callVars, procVars
<1>3. ~Queued(c) /\ \A d \in Calls : Queued(d)' = Queued(d)
  BY <1>1, <1>2 DEF Accounted, Queued
<1>4. Phase(c) = "serving" /\ UNCHANGED Engine
  BY <1>2, <1>3 DEF Phase, Queued, Engine
<1>5. \A d \in Calls : Phase(d)' = IF d = c THEN "served" ELSE Phase(d)
  <2>1. Phase(c)' = "served"
    <3>1. response'[c] = result
      BY <1>1, <1>2 DEF ChanTypes
    <3> QED
      BY <1>2, <1>3, <3>1 DEF Phase, Queued
  <2>2. \A d \in Calls : d # c => Phase(d)' = Phase(d)
    BY <1>1, <1>2, <1>3, SupervisorAssumption DEF Phase, Queued, ChanTypes
  <2> QED
    BY <2>1, <2>2
<1>6. CASE result.kind \in Terminals
  <2>1. result.of = c
    BY <1>1, <1>2, <1>6 DEF RightInv
  <2>2. ~Live(child) \/ Clean(child)
    BY <1>1, <1>2, <1>6 DEF ResultInv, ChildInv, MayServe
  <2>3. c \notin Engine
    BY <2>2, NotComputed
  <2>4. result \in [kind : Service!Kinds, of : Calls \cup {NoCall}]
    BY <1>1, <1>2, <1>6, <2>1 DEF Service!Kinds, LoopTypes, Replies
  <2>5. Service!Answer(c, result)
    BY <1>2, <1>4, <1>5, <1>6, <2>1, <2>3, PhaseMoves DEF Service!Answer, Phases, Engine
  <2> QED
    BY <1>2, <2>4, <2>5 DEF Service!Next
<1>7. CASE result \in {Own("context"), Own("cancelled")}
  <2>1. c \notin Engine
    BY <1>1, <1>2, <1>7, NotComputed DEF ResultInv
  <2>2. result \in [kind : Service!Kinds, of : Calls \cup {NoCall}]
    BY <1>7 DEF Service!Kinds, Own
  <2>3. Service!Answer(c, result)
    BY <1>2, <1>4, <1>5, <1>7, <2>1, PhaseMoves
       DEF Service!Answer, Service!Own, Own, Phases, Engine
  <2> QED
    BY <1>2, <2>2, <2>3 DEF Service!Next
<1>8. CASE result \in {Own("unavailable"), Own("protocol")}
  <2>1. result \in [kind : Service!Kinds, of : Calls \cup {NoCall}]
    BY <1>8 DEF Service!Kinds, Own
  <2>2. Service!Answer(c, result)
    BY <1>2, <1>4, <1>5, <1>8, PhaseMoves
       DEF Service!Answer, Service!Own, Own, Phases, Engine
  <2> QED
    BY <1>2, <2>1, <2>2 DEF Service!Next
<1> QED
  BY <1>1, <1>2, <1>6, <1>7, <1>8 DEF ResultInv

LEMMA StepServes == ASSUME Inv, [Next]_vars PROVE [Service!Next]_(Service!vars)
<1>1. CASE WorkerStep
  BY <1>1, WorkerServes
<1>2. CASE CallerStep
  BY <1>2, CallerServes
<1>3. CASE TakeRequest
  BY <1>3, TakeServes
<1>4. CASE Respond
  BY <1>4, RespondServes
<1>5. CASE ~WorkerStep /\ ~CallerStep /\ ~TakeRequest /\ ~Respond
  <2>1. UNCHANGED callVars /\ UNCHANGED <<chanVars, cur>>
    BY <1>5, Frames DEF Frame, CallerStep, Caller
  <2>2. UNCHANGED job
    BY <1>5, ProcSteps DEF ProcStep, SignalStep, Write, Start, procVars
  <2> QED
    BY <2>1, <2>2, Invisible DEF callVars
<1> QED
  BY <1>1, <1>2, <1>3, <1>4, <1>5

LEMMA InitInv == Init => Inv /\ Service!Init
<1> SUFFICES ASSUME Init PROVE Inv /\ Service!Init
  OBVIOUS
<1> USE SupervisorAssumption DEF Init
<1>1. Halting
  BY DEF Halting, Signalled, WriteFailed
<1>2. ResultInv
  BY ReplyFacts DEF ResultInv
<1>3. OwnedInv
  BY DEF OwnedInv, Holds
<1>4. TellInv
  BY DEF TellInv
<1>5. Service!Init
  <2>1. \A c \in Calls : Phase(c) = "new"
    BY DEF Phase
  <2>2. {job[p] : p \in Procs} \ {NoCall} = {}
    OBVIOUS
  <2> QED
    BY <2>1, <2>2 DEF Service!Init, Service!Unanswered, Service!Own, NoReply, Own
<1> QED
  BY <1>1, <1>2, <1>3, <1>4, <1>5, InitIInv DEF Inv

(* The supervisor is an engine service: calls are served one at a time,     *)
(* each is answered at most once and with its own result, and a deadline or *)
(* a cancellation is its answer only when nobody computes it any more.      *)
THEOREM Refines == Spec => ServiceSpec
<1>1. Inv /\ IInv' /\ [Next]_vars => Inv'
  BY HaltingNext, ResultInvNext, OwnedInvNext, TellInvNext DEF Inv, IInv
<1>2. Inv /\ [Next]_vars => [Service!Next]_(Service!vars)
  BY StepServes
<1> QED
  BY <1>1, <1>2, InitInv, Invariant, PTL DEF Spec, ServiceSpec, Service!Spec

=============================================================================
