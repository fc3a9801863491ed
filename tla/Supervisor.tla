----------------------------- MODULE Supervisor -----------------------------
(***************************************************************************)
(* The Go supervisor of the native engine worker                           *)
(* (product/server/go/supervisor.go).  One goroutine, run, owns one child  *)
(* process; HTTP handlers hand it work through the bounded channel         *)
(* requests and cancellations through the unbuffered channel cancels.      *)
(* Every select of the Go code is a state (pc), every ready branch of it   *)
(* an action.  A child's pipe and its events channel are one sequence,     *)
(* out[p]; every reply to a call records in `of' the call the answer was   *)
(* computed for, which the code does not know: it compares only ids.       *)
(***************************************************************************)
EXTENDS Naturals, Sequences, FiniteSets

CONSTANTS Calls,        \* calls of DoWithProgress, one per HTTP request
          Cancels,      \* calls of Cancel, one per HTTP request
          Ids,          \* request ids: chosen by clients, not always unique
          IdOf,         \* the id of a call
          TargetOf,     \* the id a cancellation names
          Streaming,    \* calls that pass a progress callback
          Procs,        \* operating-system processes (slots, reused)
          Terminals,    \* terminal events a worker sends
          MayClose,     \* whether the program ever closes the supervisor
          MaxQueued,    \* SupervisorConfig.MaxQueued
          MaxOut,       \* events that fit a child's pipe and channel
          NoCall, NoCancel

ASSUME SupervisorAssumption ==
    /\ IdOf \in [Calls -> Ids]
    /\ TargetOf \in [Cancels -> Ids]
    /\ Streaming \subseteq Calls
    /\ MaxQueued \in Nat \ {0}
    /\ MaxOut \in Nat \ {0}
    /\ NoCall \notin Calls
    /\ NoCancel \notin Cancels
    /\ Procs # {}
    /\ Terminals \subseteq {"result", "error"}
    /\ MayClose \in BOOLEAN

VARIABLES
    caller, expired, reply,     \* the DoWithProgress calls and their contexts
    canceller, ack,             \* the Cancel calls, each one's response channel
    requests, response,         \* channel requests, each call's response channel
    stop, done, ready,          \* the stop and done channels, meta.Ready
    pc, after, cur, result, replace, acking, writer, first,  \* the run goroutine
    child, os, signal, inbox, job, out                       \* the child processes

callVars   == <<caller, expired, reply>>
cancelVars == <<canceller, ack>>
chanVars   == <<requests, response>>
execVars   == <<cur, result, replace, acking, writer>>
procVars   == <<os, signal, inbox, job, out>>
outside    == <<callVars, cancelVars, chanVars, stop, done>>  \* not the loop's own
vars       == <<outside, ready, pc, after, execVars, first, child, procVars>>

-----------------------------------------------------------------------------
(* Values *)

ReplyKinds == Terminals \cup
              {"none", "cancelled", "context", "overloaded", "unavailable", "protocol"}
Replies    == [kind : ReplyKinds, of : Calls \cup {NoCall}]
EventKinds == Terminals \cup {"ready", "note", "bad"}  \* note: started or progress
Events     == [kind : EventKinds, of : Calls \cup {NoCall}]

Own(kind)  == [kind |-> kind, of |-> NoCall]  \* a reply the supervisor makes up
NoReply    == Own("none")

PCs == {"idle", "write", "await", "callback", "respond", "retire", "restart",
        "delay", "start", "starting", "started", "failed", "grace", "terminate",
        "return", "closing", "done"}

Executing == {"write", "await"}     \* the two selects of execute

TypeOK ==
    /\ caller \in [Calls -> {"new", "waiting", "returned"}]
    /\ expired \in [Calls -> BOOLEAN]
    /\ reply \in [Calls -> Replies]
    /\ canceller \in [Cancels -> {"new", "sending", "waiting", "told", "failed"}]
    /\ ack \in [Cancels -> BOOLEAN]
    /\ requests \in Seq(Calls) /\ Len(requests) <= MaxQueued
    /\ response \in [Calls -> Replies]
    /\ stop \in BOOLEAN /\ done \in BOOLEAN /\ ready \in BOOLEAN
    /\ pc \in PCs /\ after \in {"none", "respond", "restart", "failed", "return"}
    /\ cur \in Calls \cup {NoCall}
    /\ result \in Replies
    /\ replace \in BOOLEAN /\ first \in BOOLEAN
    /\ acking \in Cancels \cup {NoCancel}
    /\ writer \in {"none", "pending", "ok", "failed"}
    /\ child \in Procs
    /\ os \in [Procs -> {"running", "exiting", "gone"}]
    /\ signal \in [Procs -> {"none", "eof", "kill"}]
    /\ inbox \in [Procs -> Seq(Calls)]
    /\ job \in [Procs -> Calls \cup {NoCall}]
    /\ out \in [Procs -> Seq(Events)]

(* StartSupervisor returned: the first child has sent its ready event. *)
Init ==
    /\ caller = [c \in Calls |-> "new"]
    /\ expired = [c \in Calls |-> FALSE]
    /\ reply = [c \in Calls |-> NoReply]
    /\ canceller = [k \in Cancels |-> "new"]
    /\ ack = [k \in Cancels |-> FALSE]
    /\ requests = <<>>
    /\ response = [c \in Calls |-> NoReply]
    /\ stop = FALSE /\ done = FALSE /\ ready = TRUE
    /\ pc = "idle" /\ after = "none"
    /\ cur = NoCall /\ result = NoReply /\ replace = FALSE
    /\ acking = NoCancel /\ writer = "none" /\ first = TRUE
    /\ child \in Procs
    /\ os = [p \in Procs |-> IF p = child THEN "running" ELSE "gone"]
    /\ signal = [p \in Procs |-> "none"]
    /\ inbox = [p \in Procs |-> <<>>]
    /\ job = [p \in Procs |-> NoCall]
    /\ out = [p \in Procs |-> <<>>]

-----------------------------------------------------------------------------
(* DoWithProgress: a first select that never blocks, then a second one *)

Return(c, r) ==
    /\ caller' = [caller EXCEPT ![c] = "returned"]
    /\ reply' = [reply EXCEPT ![c] = r]
    /\ UNCHANGED expired

CallerUnchanged ==
    UNCHANGED <<cancelVars, stop, done, ready, pc, after, execVars, first, child, procVars>>

HasRoomFor2 == Len(requests) <= MaxQueued  \* mutant: off by one
HasRoom     == Len(requests) < MaxQueued

Submit(c) ==
    /\ caller[c] = "new" /\ HasRoom
    /\ caller' = [caller EXCEPT ![c] = "waiting"]
    /\ requests' = Append(requests, c)
    /\ UNCHANGED <<expired, reply, response>> /\ CallerUnchanged

Refuse(c) ==
    /\ caller[c] = "new"
    /\ \/ expired[c] /\ Return(c, Own("context"))
       \/ done /\ Return(c, Own("unavailable"))
       \/ /\ ~expired[c] /\ ~done /\ ~HasRoom
          /\ Return(c, Own("overloaded"))
    /\ UNCHANGED chanVars /\ CallerUnchanged

(* response[c] keeps its value once received: the channel is not used again. *)
Receive(c) ==
    /\ caller[c] = "waiting"
    /\ \/ response[c] # NoReply /\ Return(c, response[c])
       \/ expired[c] /\ Return(c, Own("context"))
       \/ done /\ Return(c, Own("unavailable"))
    /\ UNCHANGED chanVars /\ CallerUnchanged

(* The deadline of the call's context passes, or its client goes away. *)
Expire(c) ==
    /\ caller[c] # "returned" /\ ~expired[c]
    /\ expired' = [expired EXCEPT ![c] = TRUE]
    /\ UNCHANGED <<caller, reply, chanVars>> /\ CallerUnchanged

-----------------------------------------------------------------------------
(* Cancel: its context has no deadline, it ends when the client goes away, *)
(* and only Cancel looks at it                                             *)

CancellerUnchanged ==
    UNCHANGED <<callVars, chanVars, stop, done, ready, pc, after, execVars, first, child,
                procVars>>

CancelCall(k) ==
    /\ canceller[k] = "new"
    /\ canceller' = [canceller EXCEPT ![k] = "sending"]
    /\ UNCHANGED ack /\ CancellerUnchanged

CancelReturn(k) ==
    /\ \/ /\ canceller[k] = "waiting" /\ ack[k]
          /\ canceller' = [canceller EXCEPT ![k] = "told"]
       \/ /\ canceller[k] \in {"sending", "waiting"} /\ done
          /\ canceller' = [canceller EXCEPT ![k] = "failed"]
    /\ UNCHANGED ack /\ CancellerUnchanged

CancelGone(k) ==
    /\ canceller[k] \in {"sending", "waiting"}
    /\ canceller' = [canceller EXCEPT ![k] = "failed"]
    /\ UNCHANGED ack /\ CancellerUnchanged

-----------------------------------------------------------------------------
(* Ends of a child: terminate waits for the process it killed,             *)
(* stopGracefully closes its stdin first and kills it after the grace      *)

Live(p) == os[p] # "gone"

Signal(s) == signal' = [signal EXCEPT ![child] = IF Live(child) THEN s ELSE @]

TerminateNoWait(next) ==  \* mutant: the exit of the killed child is not awaited
    pc' = next /\ after' = "none" /\ Signal("kill")
TerminateNoKill(next) ==  \* mutant: the exit of the child is awaited, not forced
    pc' = "terminate" /\ after' = next /\ UNCHANGED signal
Terminate(next)      == pc' = "terminate" /\ after' = next /\ Signal("kill")
StopGracefully(next) == pc' = "grace" /\ after' = next /\ Signal("eof")

Unready == ready' = FALSE

AcknowledgeNobody == UNCHANGED ack  \* mutant: no acknowledgement
Acknowledge == ack' = [k \in Cancels |-> ack[k] \/ k = acking]

(* The channel p.done is closed: the wait is over.  A cancellation that     *)
(* ended the active call is acknowledged here, once the child is gone.      *)
Terminated ==
    /\ pc \in {"terminate", "grace"} /\ ~Live(child)
    /\ pc' = after /\ after' = "none"
    /\ acking' = NoCancel
    /\ Acknowledge
    /\ UNCHANGED <<callVars, canceller, chanVars, stop, done, ready, cur, result, replace,
                   writer, first, child, procVars>>

GraceOver ==
    /\ pc = "grace"
    /\ Terminate(after)
    /\ UNCHANGED <<outside, ready, execVars, first, child, os, inbox, job, out>>

-----------------------------------------------------------------------------
(* Close: setReady(false), close(stop) and lifecycleCancel, in that order;  *)
(* then it waits for done.                                                  *)

Close ==
    /\ MayClose /\ ~stop /\ stop' = TRUE /\ Unready
    /\ UNCHANGED <<callVars, cancelVars, chanVars, done, pc, after, execVars, first, child,
                   procVars>>

-----------------------------------------------------------------------------
(* run: the select of an idle supervisor *)

RunStop ==
    /\ pc = "idle" /\ stop
    /\ StopGracefully("return")
    /\ UNCHANGED <<outside, ready, execVars, first, child, os, inbox, job, out>>

RunChildDone ==
    /\ pc = "idle" /\ ~Live(child)
    /\ Unready /\ pc' = "restart" /\ first' = TRUE
    /\ UNCHANGED <<outside, after, execVars, child, procVars>>

AnswerUnlessStopping(c, r) ==  \* mutant: no response once stop is closed
    response' = IF stop THEN response ELSE [response EXCEPT ![c] = r]
Answer(c, r) == response' = [response EXCEPT ![c] = r]

StartExecute(c) == pc' = "write" /\ cur' = c /\ writer' = "pending"
Skip(c) == UNCHANGED <<pc, cur, writer>>

TakeRequest ==
    /\ pc = "idle" /\ requests # <<>>
    /\ requests' = Tail(requests)
    /\ LET c == Head(requests) IN
       \/ expired[c] /\ Answer(c, Own("context")) /\ Skip(c)
       \/ ~expired[c] /\ StartExecute(c) /\ UNCHANGED response
    /\ UNCHANGED <<callVars, cancelVars, stop, done, ready, after, result, replace, acking,
                   first, child, procVars>>

(* A cancellation of anything but the active call is acknowledged at once,  *)
(* by run and by both selects of execute.                                   *)
AnyTarget(k)   == TRUE  \* mutant: the target is not compared
OtherTarget(k) == TargetOf[k] # IdOf[cur]

AcknowledgeOther(k) ==
    /\ canceller[k] = "sending"
    /\ pc = "idle" \/ (pc \in Executing /\ OtherTarget(k))
    /\ canceller' = [canceller EXCEPT ![k] = "waiting"]
    /\ ack' = [ack EXCEPT ![k] = TRUE]
    /\ UNCHANGED <<callVars, chanVars, stop, done, ready, pc, after, execVars, first,
                   child, procVars>>

-----------------------------------------------------------------------------
(* execute: the branches its two selects share *)

(* execute returns (r, replace) and run sends r to the caller. *)
ReplyReuse(r, again) == result' = r /\ replace' = FALSE  \* mutant: never replaced
Reply(r, again) == result' = r /\ replace' = again

(* The active call is given up: its child is terminated before execute      *)
(* returns, and replaced afterwards.                                        *)
AbandonReuse(r) ==  \* mutant: the child goes on and serves the next call
    pc' = "respond" /\ Reply(r, FALSE) /\ UNCHANGED <<after, signal>>
AbandonLate(r) ==   \* mutant: the child is terminated after the answer only
    pc' = "respond" /\ Reply(r, TRUE) /\ UNCHANGED <<after, signal>>
Abandon(r) == Terminate("respond") /\ Reply(r, TRUE)

ExecUnchanged == UNCHANGED <<callVars, chanVars, stop, done, ready, cur, first, child, os,
                             inbox, job>>

ExecStop ==
    /\ pc \in Executing /\ stop
    /\ StopGracefully("respond") /\ Reply(Own("unavailable"), FALSE)
    /\ UNCHANGED <<cancelVars, acking, writer, out>> /\ ExecUnchanged

ExpiredWithEvent == expired[cur] /\ out[child] # <<>>  \* mutant: seen too late
Expired == expired[cur]

ExecExpired ==
    /\ pc \in Executing /\ Expired
    /\ Abandon(Own("context"))
    /\ UNCHANGED <<cancelVars, acking, writer, out>> /\ ExecUnchanged

CancelActive(k) ==
    /\ pc \in Executing
    /\ canceller[k] = "sending" /\ TargetOf[k] = IdOf[cur]
    /\ canceller' = [canceller EXCEPT ![k] = "waiting"]
    /\ acking' = k
    /\ Abandon(Own("cancelled"))
    /\ UNCHANGED <<ack, writer, out>> /\ ExecUnchanged

ExecChildDone ==
    /\ pc \in Executing /\ ~Live(child)
    /\ pc' = "respond" /\ Reply(Own("unavailable"), TRUE)
    /\ UNCHANGED <<cancelVars, acking, writer, out, after, signal>> /\ ExecUnchanged

(* The goroutine that writes the request line, and its report on writeDone. *)
Write ==
    /\ writer = "pending"
    /\ IF os[child] = "running" /\ signal[child] # "eof"
       THEN /\ writer' = "ok"
            /\ inbox' = [inbox EXCEPT ![child] = Append(@, cur)]
       ELSE writer' = "failed" /\ UNCHANGED inbox
    /\ UNCHANGED <<outside, ready, pc, after, cur, result, replace, acking, first, child,
                   os, signal, job, out>>

Written ==
    /\ pc = "write" /\ writer # "pending"
    /\ IF expired[cur]
       THEN Abandon(Own("context"))
       ELSE /\ IF writer = "failed"
               THEN pc' = "respond" /\ Reply(Own("unavailable"), TRUE)
               ELSE pc' = "await" /\ UNCHANGED <<result, replace>>
            /\ UNCHANGED <<after, signal>>
    /\ UNCHANGED <<cancelVars, acking, writer, out>> /\ ExecUnchanged

-----------------------------------------------------------------------------
(* execute: the events of the child *)

ReadExpired ==
    /\ pc = "await" /\ expired[cur]
    /\ out[child] # <<>> \/ os[child] # "running"
    /\ out' = [out EXCEPT ![child] = IF @ = <<>> THEN @ ELSE Tail(@)]
    /\ Abandon(Own("context"))
    /\ UNCHANGED <<cancelVars, acking, writer>> /\ ExecUnchanged

(* The reader closes p.events at the end of the child's output. *)
OutputClosed ==
    /\ pc = "await" /\ ~expired[cur]
    /\ out[child] = <<>> /\ os[child] # "running"
    /\ pc' = "respond" /\ Reply(Own("unavailable"), TRUE)
    /\ UNCHANGED <<cancelVars, acking, writer, out, after, signal>> /\ ExecUnchanged

(* validateWorkerEvent: the right protocol, a known event, the active id. *)
Valid(e) == e.kind \in Terminals \cup {"note"} /\ IdOf[e.of] = IdOf[cur]

ReadEvent ==
    /\ pc = "await" /\ ~expired[cur] /\ out[child] # <<>>
    /\ out' = [out EXCEPT ![child] = Tail(@)]
    /\ LET e == Head(out[child]) IN
       \/ /\ ~Valid(e)
          /\ pc' = "respond" /\ Reply(Own("protocol"), TRUE)
       \/ /\ Valid(e) /\ e.kind = "note"
          /\ pc' = IF cur \in Streaming THEN "callback" ELSE "await"
          /\ UNCHANGED <<result, replace>>
       \/ /\ Valid(e) /\ e.kind \in Terminals
          /\ pc' = "respond" /\ Reply(e, FALSE)
    /\ UNCHANGED <<cancelVars, acking, writer, after, signal>> /\ ExecUnchanged

(* call.progress runs on the supervisor's goroutine.  The HTTP callback     *)
(* returns when its channel takes the event or the call's context ends.    *)
CallbackReturns ==
    /\ pc = "callback" /\ pc' = "await"
    /\ UNCHANGED <<cancelVars, acking, writer, out, after, signal, result, replace>>
    /\ ExecUnchanged

Respond ==
    /\ pc = "respond"
    /\ Answer(cur, result)
    /\ pc' = IF replace THEN "retire" ELSE "idle"
    /\ cur' = NoCall /\ result' = NoReply /\ replace' = FALSE /\ writer' = "none"
    /\ UNCHANGED <<callVars, cancelVars, requests, stop, done, ready, after, acking, first,
                   child, procVars>>

-----------------------------------------------------------------------------
(* run and restartChild: the replacement of a child *)

Retire ==
    /\ pc = "retire"
    /\ Unready /\ first' = TRUE
    /\ Terminate("restart")
    /\ UNCHANGED <<outside, execVars, child, os, inbox, job, out>>

RestartUnchanged == UNCHANGED <<outside, execVars>>

(* The head of restartChild's loop: stop is tested, the delay skipped once. *)
Restart ==
    /\ pc = "restart"
    /\ pc' = IF stop THEN "return" ELSE IF first THEN "start" ELSE "delay"
    /\ UNCHANGED <<ready, after, first, child, procVars>> /\ RestartUnchanged

Delay ==
    /\ pc = "delay"
    /\ \/ pc' = "start"
       \/ stop /\ pc' = "return"
    /\ UNCHANGED <<ready, after, first, child, procVars>> /\ RestartUnchanged

(* startChild: cmd.Start makes a process or fails. *)
Start ==
    /\ pc = "start"
    /\ \/ \E p \in Procs :
            /\ ~Live(p)
            /\ child' = p
            /\ os' = [os EXCEPT ![p] = "running"]
            /\ signal' = [q \in Procs |-> IF Live(q) THEN signal[q] ELSE "none"]
            /\ out' = [q \in Procs |-> IF Live(q) THEN out[q] ELSE <<>>]
            /\ UNCHANGED <<inbox, job>>
            /\ pc' = "starting"
       \/ pc' = "failed" /\ UNCHANGED <<child, procVars>>
    /\ UNCHANGED <<ready, after, first>> /\ RestartUnchanged

(* startChild: the wait for the ready event.  The startup timeout may pass  *)
(* at any time; lifecycleCancel (stop) ends the same context.               *)
StartTimeout ==
    /\ pc = "starting"
    /\ Terminate("failed")
    /\ UNCHANGED <<ready, first, child, os, inbox, job, out>> /\ RestartUnchanged

StartDied ==
    /\ pc = "starting" /\ ~Live(child)
    /\ pc' = "failed"
    /\ UNCHANGED <<ready, after, first, child, procVars>> /\ RestartUnchanged

StartRead ==
    /\ pc = "starting" /\ out[child] # <<>>
    /\ out' = [out EXCEPT ![child] = Tail(@)]
    /\ IF ~stop /\ Head(out[child]).kind = "ready"
       THEN pc' = "started" /\ UNCHANGED <<after, signal>>
       ELSE Terminate("failed")
    /\ UNCHANGED <<ready, first, child, os, inbox, job>> /\ RestartUnchanged

(* recordStarted: Close may have called setReady(false) just before. *)
Started ==
    /\ pc = "started"
    /\ ready' = TRUE /\ pc' = "idle" /\ first' = TRUE
    /\ UNCHANGED <<after, child, procVars>> /\ RestartUnchanged

AfterOneFailure == "return"  \* mutant: a failed start is not retried
AfterFailure == IF stop THEN "return" ELSE "restart"

(* recordStartError *)
StartFailed ==
    /\ pc = "failed"
    /\ Unready /\ first' = FALSE
    /\ pc' = AfterFailure
    /\ UNCHANGED <<after, child, procVars>> /\ RestartUnchanged

(* run's deferred calls: setReady(false), then close(done) *)
ReturnUnready ==
    /\ pc = "return"
    /\ Unready /\ pc' = "closing"
    /\ UNCHANGED <<after, first, child, procVars>> /\ RestartUnchanged

CloseDone ==
    /\ pc = "closing"
    /\ done' = TRUE /\ pc' = "done"
    /\ UNCHANGED <<callVars, cancelVars, chanVars, stop, ready, after, execVars, first,
                   child, procVars>>

-----------------------------------------------------------------------------
(* The child process, as main.cpp and the kernel behave: one request at a   *)
(* time, notes before the terminal event; it may crash, hang or misbehave.  *)

WorkerUnchanged ==
    UNCHANGED <<outside, ready, pc, after, execVars, first, child>>

Emit(p, kind, c) ==
    /\ Len(out[p]) < MaxOut
    /\ out' = [out EXCEPT ![p] = Append(@, [kind |-> kind, of |-> c])]

WorkerReady(p) ==
    /\ os[p] = "running" /\ p = child /\ pc = "starting" /\ out[p] = <<>>
    /\ Emit(p, "ready", NoCall)
    /\ UNCHANGED <<os, signal, inbox, job>> /\ WorkerUnchanged

WorkerTake(p) ==
    /\ os[p] = "running" /\ job[p] = NoCall /\ inbox[p] # <<>>
    /\ job' = [job EXCEPT ![p] = Head(inbox[p])]
    /\ inbox' = [inbox EXCEPT ![p] = Tail(@)]
    /\ Emit(p, "note", Head(inbox[p]))
    /\ UNCHANGED <<os, signal>> /\ WorkerUnchanged

(* An envelope main.cpp rejects is answered without a started event. *)
WorkerReject(p) ==
    /\ os[p] = "running" /\ job[p] = NoCall /\ inbox[p] # <<>> /\ "error" \in Terminals
    /\ inbox' = [inbox EXCEPT ![p] = Tail(@)]
    /\ Emit(p, "error", Head(inbox[p]))
    /\ UNCHANGED <<os, signal, job>> /\ WorkerUnchanged

WorkerProgress(p) ==
    /\ os[p] = "running" /\ job[p] # NoCall
    /\ Emit(p, "note", job[p])
    /\ UNCHANGED <<os, signal, inbox, job>> /\ WorkerUnchanged

WorkerFinish(p) ==
    /\ os[p] = "running" /\ job[p] # NoCall
    /\ \E kind \in Terminals : Emit(p, kind, job[p])
    /\ job' = [job EXCEPT ![p] = NoCall]
    /\ UNCHANGED <<os, signal, inbox>> /\ WorkerUnchanged

(* A line the supervisor rejects: garbage, a blank line, a foreign id. *)
WorkerGarbage(p) ==
    /\ os[p] = "running"
    /\ \A i \in DOMAIN out[p] : out[p][i].kind # "bad"
    /\ Emit(p, "bad", NoCall)
    /\ UNCHANGED <<os, signal, inbox, job>> /\ WorkerUnchanged

(* A crash, a kill or the end of stdin; then cmd.Wait returns, p.done is    *)
(* closed and the reader may drop what it had not passed on yet.            *)
WorkerExit(p) ==
    /\ os[p] = "running"
    /\ os' = [os EXCEPT ![p] = "exiting"]
    /\ job' = [job EXCEPT ![p] = NoCall]
    /\ inbox' = [inbox EXCEPT ![p] = <<>>]
    /\ UNCHANGED <<signal, out>> /\ WorkerUnchanged

Wait(p) ==
    /\ os[p] = "exiting"
    /\ os' = [os EXCEPT ![p] = "gone"]
    /\ \E n \in 0..Len(out[p]) : out' = [out EXCEPT ![p] = SubSeq(@, 1, n)]
    /\ UNCHANGED <<signal, inbox, job>> /\ WorkerUnchanged
-----------------------------------------------------------------------------
(* Everybody has gone home: the only states the system may stay in. *)
Quiescent ==
    /\ pc = "done" /\ os[child] = "gone"
    /\ \A c \in Calls : caller[c] = "returned"
    /\ \A k \in Cancels : canceller[k] \in {"told", "failed"}
    /\ UNCHANGED vars

Caller(c) == Submit(c) \/ Refuse(c) \/ Receive(c)

Worker(p) ==
    \/ WorkerReady(p) \/ WorkerTake(p) \/ WorkerReject(p) \/ WorkerProgress(p)
    \/ WorkerFinish(p) \/ WorkerGarbage(p) \/ WorkerExit(p) \/ Wait(p)

(* The actions of the run goroutine but the ones it may have to wait for:   *)
(* the cancellations, a callback, the startup of a child.                   *)
Run ==
    \/ Terminated \/ GraceOver \/ RunStop \/ RunChildDone \/ TakeRequest
    \/ ExecStop \/ ExecExpired \/ ExecChildDone \/ Written
    \/ ReadExpired \/ OutputClosed \/ ReadEvent \/ Respond
    \/ Retire \/ Restart \/ Delay \/ Start \/ StartDied \/ StartRead \/ Started
    \/ StartFailed \/ ReturnUnready \/ CloseDone

Next ==
    \/ \E c \in Calls : Caller(c) \/ Expire(c)
    \/ \E k \in Cancels :
           \/ CancelCall(k) \/ CancelReturn(k) \/ CancelGone(k)
           \/ AcknowledgeOther(k) \/ CancelActive(k)
    \/ Close
    \/ Run \/ Write \/ CallbackReturns \/ StartTimeout
    \/ \E p \in Procs : Worker(p)
    \/ Quiescent

(* Goroutines are scheduled and processes run (weak fairness); a select     *)
(* picks uniformly among its ready branches, so no branch that is ready     *)
(* again and again is passed over for ever (strong fairness); every call    *)
(* has a deadline; a killed process, or an idle one at the end of its       *)
(* stdin, exits.  StartsEventually is an assumption on the environment: a   *)
(* worker that is started again and again comes up in the end.  A worker    *)
(* may hang, a client may never read a stream, nobody need call Close.      *)
StartsEventually ==
    /\ SF_vars(Start /\ pc' = "starting")
    /\ SF_vars(StartRead /\ pc' = "started")
    /\ \A p \in Procs : SF_vars(WorkerReady(p))

Fairness ==
    /\ \A c \in Calls : WF_vars(Caller(c)) /\ WF_vars(Expire(c))
    /\ WF_vars(Run) /\ SF_vars(TakeRequest) /\ SF_vars(RunStop \/ ExecStop)
    /\ WF_vars(Write) /\ WF_vars(CallbackReturns /\ expired[cur]) /\ WF_vars(StartTimeout)
    /\ \A p \in Procs :
           /\ WF_vars(WorkerExit(p) /\ (signal[p] = "kill" \/ (signal[p] = "eof" /\ job[p] = NoCall)))
           /\ WF_vars(Wait(p))

CancelFairness ==
    \A k \in Cancels :
        WF_vars(CancelReturn(k)) /\ SF_vars(AcknowledgeOther(k) \/ CancelActive(k))

Spec == Init /\ [][Next]_vars
FairSpec == Spec /\ Fairness /\ StartsEventually
CancelSpec == FairSpec /\ CancelFairness
=============================================================================
