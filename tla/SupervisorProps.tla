-------------------------- MODULE SupervisorProps --------------------------
(***************************************************************************)
(* What the supervisor guarantees (see Supervisor), and the refinement of  *)
(* EngineService.                                                          *)
(***************************************************************************)
EXTENDS Supervisor

-----------------------------------------------------------------------------
(* Safety *)

(* At most one worker process exists at any time: every path of the         *)
(* supervisor that gives up a child waits for its exit before the next      *)
(* startChild.  Once run has returned there is none, and meta.Ready is      *)
(* false: a restart that raced with Close, and set it, has not outlived it. *)
AtMostOneChild ==
    /\ \A p, q \in Procs : Live(p) /\ Live(q) => p = q
    /\ done => ~ready /\ \A p \in Procs : ~Live(p)

(* A call is answered with the worker's result or error for that very call, *)
(* even when two calls carry the same id: a late event of an abandoned call *)
(* never reaches its successor, because the child of a cancelled, expired   *)
(* or confused call is replaced, never reused.                              *)
RightAnswer ==
    \A c \in Calls : reply[c].kind \in Terminals => reply[c].of = c

(* A live child that execute writes a request to is not computing anything  *)
(* and has left no valid event of an earlier request unread.  (Once stop is *)
(* closed, run may still pick a request for the child it just stopped; that *)
(* write fails.)                                                            *)
CleanChild ==
    pc = "write" /\ writer = "pending" /\ Live(child) =>
        /\ job[child] = NoCall /\ inbox[child] = <<>>
        /\ \A i \in DOMAIN out[child] : out[child][i].kind = "bad"

(* When a cancellation is acknowledged, no live worker computes or is about *)
(* to compute a request with the cancelled id.                              *)
AcknowledgedMeansStopped ==
    [][\A k \in Cancels, p \in Procs :
          ack'[k] /\ ~ack[k] /\ os[p] = "running" =>
              \A c \in Calls : IdOf[c] = TargetOf[k] =>
                  job[p] # c /\ \A i \in DOMAIN inbox[p] : inbox[p][i] # c]_vars

(* A waiting call is queued, active or answered: none falls between two     *)
(* children or is forgotten by a replacement.  And none is answered twice:  *)
(* a second send on its channel, of capacity one, could block the           *)
(* supervisor for ever.                                                     *)
NoCallLost ==
    /\ \A c \in Calls : caller[c] = "waiting" =>
        \/ \E i \in DOMAIN requests : requests[i] = c
        \/ cur = c
        \/ response[c] # NoReply
    /\ pc = "respond" => response[cur] = NoReply

-----------------------------------------------------------------------------
(* Refinement: the supervisor implements EngineService *)

Phase(c) ==
    IF \E i \in DOMAIN requests : requests[i] = c THEN "queued"
    ELSE IF cur = c THEN "serving"
    ELSE IF response[c] # NoReply THEN "served" ELSE "new"

Service == INSTANCE EngineService WITH
    phase <- [c \in Calls |-> Phase(c)],
    computing <- {job[p] : p \in Procs} \ {NoCall},
    answer <- response

(* Every step of the supervisor is a step of EngineService or leaves what   *)
(* it speaks of unchanged: one engine computes one call at a time, and the  *)
(* deadline and cancellation answers are given once the engine has stopped. *)
ServiceSpec == Service!Spec

-----------------------------------------------------------------------------
(* Liveness *)

(* Close ends: whatever the run goroutine is doing, it observes stop. *)
CloseEnds == stop ~> done

(* A queued call leaves the queue: a hanging worker, a crashing worker, a   *)
(* reader that never drains its stream delay it at most until a deadline.   *)
QueueMoves ==
    \A c \in Calls :
        caller[c] = "waiting" /\ (\E i \in DOMAIN requests : requests[i] = c)
            ~> (\A i \in DOMAIN requests : requests[i] # c) \/ done

(* A cancellation is acknowledged although it has no deadline of its own.   *)
CancelAnswered ==
    \A k \in Cancels : canceller[k] = "sending" ~> canceller[k] \in {"told", "failed"}

(* A supervisor that lost its child serves again, or is being closed.       *)
Recovers == pc = "restart" ~> pc = "idle" \/ stop
=============================================================================
