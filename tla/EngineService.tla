---------------------------- MODULE EngineService ----------------------------
(***************************************************************************)
(* What the supervisor promises to its callers, without children, channels *)
(* or goroutines.  A call is queued, served and answered at most once; the *)
(* engine computes one call at a time; the answer of a call is its own; a  *)
(* call that was cancelled or ran out of time is told so only when the     *)
(* engine no longer computes it; a reply is final.                         *)
(***************************************************************************)
EXTENDS FiniteSets

CONSTANTS Calls, NoCall, Terminals

VARIABLES phase,      \* "new", "queued", "serving", "served"
          computing,  \* the calls an engine process is computing
          answer,     \* what the engine answered to a call
          reply       \* what the caller was told

vars == <<phase, computing, answer, reply>>

Own(kind) == [kind |-> kind, of |-> NoCall]
Unanswered == Own("none")

Init ==
    /\ phase = [c \in Calls |-> "new"]
    /\ computing = {}
    /\ answer = [c \in Calls |-> Unanswered]
    /\ reply = [c \in Calls |-> Unanswered]

Enqueue(c) ==
    /\ phase[c] = "new" /\ reply[c] = Unanswered
    /\ phase' = [phase EXCEPT ![c] = "queued"]
    /\ UNCHANGED <<computing, answer, reply>>

Begin(c) ==
    /\ phase[c] = "queued"
    /\ \A d \in Calls : phase[d] # "serving"
    /\ phase' = [phase EXCEPT ![c] = "serving"]
    /\ UNCHANGED <<computing, answer, reply>>

(* A worker that misbehaved is killed only after its call was answered, and *)
(* may take up the request in between.                                      *)
Compute(c) ==
    /\ phase[c] \in {"serving", "served"} /\ computing = {}
    /\ computing' = {c}
    /\ UNCHANGED <<phase, answer, reply>>

Stop ==
    /\ computing # {} /\ computing' = {}
    /\ UNCHANGED <<phase, answer, reply>>

Answer(c, r) ==
    /\ phase[c] \in {"queued", "serving"}
    /\ \/ r.kind \in Terminals /\ r.of = c /\ phase[c] = "serving" /\ c \notin computing
       \/ r \in {Own("context"), Own("cancelled")} /\ c \notin computing
       \/ r \in {Own("unavailable"), Own("protocol")}
    /\ phase' = [phase EXCEPT ![c] = "served"]
    /\ answer' = [answer EXCEPT ![c] = r]
    /\ UNCHANGED <<computing, reply>>

Tell(c) ==
    /\ reply[c] = Unanswered
    /\ \E r \in {Own("context"), Own("unavailable")}
                \cup {answer[c]}
                \cup (IF phase[c] = "new" THEN {Own("overloaded")} ELSE {}) :
           /\ r # Unanswered
           /\ reply' = [reply EXCEPT ![c] = r]
    /\ UNCHANGED <<phase, computing, answer>>

Kinds == Terminals \cup {"context", "cancelled", "unavailable", "protocol"}

Next ==
    \/ \E c \in Calls : Enqueue(c) \/ Begin(c) \/ Compute(c) \/ Tell(c)
    \/ \E c \in Calls, r \in [kind : Kinds, of : Calls \cup {NoCall}] : Answer(c, r)
    \/ Stop

Spec == Init /\ [][Next]_vars
=============================================================================
