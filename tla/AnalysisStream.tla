--------------------------- MODULE AnalysisStream ---------------------------
(***************************************************************************)
(* One request of the analysis route (streamAnalysis in                    *)
(* product/server/go/http.go): the handler's select loop, the goroutine    *)
(* that waits for DoWithProgress, and the progress callback, which runs on *)
(* the supervisor's goroutine and hands events over through a bounded      *)
(* channel.  What the supervisor does meanwhile is Supervisor's subject;   *)
(* here it produces started, numbered progress events and one terminal     *)
(* result, or a result alone.                                              *)
(***************************************************************************)
EXTENDS Naturals, Sequences

CONSTANTS ProgressCap,   \* make(chan WorkerEvent, 16)
          MaxEvents      \* bound: started and progress events of one analysis

ASSUME StreamAssumption == ProgressCap \in Nat /\ MaxEvents \in Nat \ {0}

VARIABLES
    produced,   \* events the worker has produced for this call; the first is started
    holding,    \* the event a blocked callback holds, 0 if no callback runs
    progress,   \* the progress channel
    call,       \* DoWithProgress: "running", "ended"
    result,     \* the result channel
    expired,    \* ctx is done
    handler,    \* "select", "drain", "returned"
    headers,    \* headersWritten
    written,    \* events and errors the client was sent
    broken      \* a write failed or the client disconnected

vars == <<produced, holding, progress, call, result, expired, handler, headers, written,
          broken>>

Kinds == {"result", "error"}      \* terminal events; context errors among them
Sent  == [at : Nat, kind : Kinds \cup {"progress", "failure"}]

Event(n)    == [at |-> n, kind |-> "progress"]
Terminal(k) == [at |-> 0, kind |-> k]
Failure     == [at |-> 0, kind |-> "failure"]  \* a JSON error body, with its status

TypeOK ==
    /\ produced \in 0..MaxEvents /\ holding \in 0..MaxEvents
    /\ progress \in Seq(1..MaxEvents) /\ Len(progress) <= ProgressCap
    /\ call \in {"running", "ended"}
    /\ result \in Kinds \cup {"none"}
    /\ expired \in BOOLEAN /\ broken \in BOOLEAN /\ headers \in BOOLEAN
    /\ handler \in {"select", "drain", "returned"}
    /\ written \in Seq(Sent)

Init ==
    /\ produced = 0 /\ holding = 0 /\ progress = <<>>
    /\ call = "running" /\ result = "none"
    /\ expired = FALSE /\ handler = "select" /\ headers = FALSE
    /\ written = <<>> /\ broken = FALSE

-----------------------------------------------------------------------------
(* The supervisor's side *)

(* The supervisor reads an event of the worker and calls the callback,      *)
(* unless ctx is done.                                                      *)
Callback ==
    /\ call = "running" /\ ~expired /\ holding = 0 /\ produced < MaxEvents
    /\ produced' = produced + 1 /\ holding' = produced + 1
    /\ UNCHANGED <<progress, call, result, expired, handler, headers, written,
                   broken>>

RoomForOneMore == Len(progress) <= ProgressCap  \* mutant: off by one
RoomForEvent   == Len(progress) < ProgressCap

HandOver ==
    /\ holding # 0 /\ RoomForEvent
    /\ progress' = Append(progress, holding) /\ holding' = 0
    /\ UNCHANGED <<produced, call, result, expired, handler, headers, written,
                   broken>>

NeverLets == FALSE  \* mutant: the callback only waits for room
Lets == handler = "returned" \/ expired

(* The callback's other branches: done is closed, or ctx is. *)
GiveUpHandOver ==
    /\ holding # 0 /\ Lets
    /\ holding' = 0
    /\ UNCHANGED <<produced, progress, call, result, expired, handler, headers, written,
                   broken>>

(* DoWithProgress returns the supervisor's response, when no callback is    *)
(* running, or a context error as soon as ctx is done.                     *)
End(k) ==
    /\ call = "running" /\ (holding = 0 \/ (expired /\ k = "error"))
    /\ call' = "ended" /\ result' = k
    /\ UNCHANGED <<produced, holding, progress, expired, handler, headers, written,
                   broken>>

(* The deadline with its grace passes, or the client goes away. *)
Expire ==
    /\ ~expired /\ expired' = TRUE
    /\ broken' \in {broken, TRUE}
    /\ UNCHANGED <<produced, holding, progress, call, result, handler, headers, written>>

-----------------------------------------------------------------------------
(* The handler *)

(* writeEvent: a failed write cancels ctx and the handler returns. *)
Write(e, next) ==
    \/ /\ written' = Append(written, e) /\ handler' = next
       /\ UNCHANGED <<expired, broken>>
    \/ /\ expired' = TRUE /\ broken' = TRUE /\ handler' = "returned"
       /\ UNCHANGED written

StreamHead(next) ==
    /\ headers' = TRUE /\ progress' = Tail(progress)
    /\ Write(Event(Head(progress)), next)

(* case event := <-progress, before and after the headers *)
StreamProgress ==
    /\ handler = "select" /\ progress # <<>>
    /\ StreamHead("select")
    /\ UNCHANGED <<produced, holding, call, result>>

(* case terminal := <-result, before the headers: buffered progress goes    *)
(* first; with none, the answer is a JSON body with a status of its own.    *)
DrainOrAnswer ==
    \/ progress # <<>> /\ StreamHead("drain")
    \/ /\ progress = <<>>
       /\ Write(Terminal(result), "returned") /\ UNCHANGED <<headers, progress>>

FirstTerminal ==
    /\ handler = "select" /\ ~headers /\ result # "none"
    /\ DrainOrAnswer
    /\ UNCHANGED <<produced, holding, call, result>>

Drain ==
    /\ handler = "drain" /\ DrainOrAnswer
    /\ UNCHANGED <<produced, holding, call, result>>

(* case terminal := <-result, after the headers: what is still buffered is  *)
(* dropped when select prefers the result.                                 *)
TerminalNoReturn == Write(Terminal(result), "select")  \* mutant: return forgotten
WriteTerminal    == Write(Terminal(result), "returned")

StreamTerminal ==
    /\ handler = "select" /\ headers /\ result # "none"
    /\ WriteTerminal
    /\ UNCHANGED <<produced, holding, progress, call, result, headers>>

BeforeHeaders == expired /\ ~headers  \* mutant: only the first select looks at ctx
CtxDone == expired

(* case <-ctx.Done(), in both selects *)
StreamExpired ==
    /\ handler = "select" /\ CtxDone
    /\ IF headers THEN handler' = "returned" /\ UNCHANGED <<written, broken>>
                  ELSE Write(Failure, "returned")
    /\ UNCHANGED <<produced, holding, progress, call, result, expired, headers>>

Handler == StreamProgress \/ FirstTerminal \/ Drain \/ StreamTerminal \/ StreamExpired

Next ==
    \/ Callback \/ HandOver \/ GiveUpHandOver \/ (\E k \in Kinds : End(k))
    \/ Expire \/ Handler
    \/ handler = "returned" /\ holding = 0 /\ call = "ended" /\ UNCHANGED vars

(* The goroutines run and the deadline passes.  The client need not read:   *)
(* while it does not, a Write may take for ever as far as the callback is   *)
(* concerned, so no fairness of the handler is used for CallbackEnds.       *)
Spec == Init /\ [][Next]_vars
CallbackFairness == WF_vars(HandOver) /\ WF_vars(GiveUpHandOver) /\ WF_vars(Expire)
HandlerFairness  == WF_vars(Handler)
FairSpec == Spec /\ CallbackFairness /\ HandlerFairness

-----------------------------------------------------------------------------
(* Properties *)

(* The client gets the worker's events in their order, the first one first, *)
(* and a terminal event or an error body once, at the end; an error body    *)
(* never follows events, and an answer without events does not overtake     *)
(* those that are buffered already.                                         *)
OrderKept ==
    /\ \A i, j \in DOMAIN written : i < j =>
        /\ written[i].kind = "progress"
        /\ written[j].kind = "progress" => written[i].at < written[j].at
        /\ written[j] # Failure
    /\ written # <<>> =>
        /\ written[1].kind = "progress" => written[1].at = 1
        /\ written[1].kind = "result" => progress = <<>>

(* README of the supervisor: a streamed answer ends with a terminal event,  *)
(* unless the client is gone.                                               *)
StreamEndsWithTerminal ==
    handler = "returned" /\ ~broken =>
        written # <<>> /\ written[Len(written)].kind # "progress"

(* The callback never holds the supervisor's goroutine beyond the call's    *)
(* deadline, whether the client reads or not.                               *)
CallbackEnds == holding # 0 ~> holding = 0

(* The handler returns. *)
HandlerEnds == <>(handler = "returned")
=============================================================================
