------------------------ MODULE AnalysisStream_proofs ------------------------
(***************************************************************************)
(* Proofs about a streamed analysis, for any capacity of the channel and   *)
(* any number of events: TypeOK, and OrderKept, which rests on the events  *)
(* being handed on without a gap as long as the handler listens.           *)
(***************************************************************************)
EXTENDS AnalysisStream, SequenceTheorems, TLAPS

Held == IF holding = 0 THEN 0 ELSE 1

(* While the handler listens, what is written, buffered and held are the    *)
(* events produced, in order and without a gap; only an expired call may    *)
(* have lost the last.                                                      *)
Flow ==
    handler # "returned" =>
        /\ \A i \in DOMAIN written : written[i] = Event(i)
        /\ \A i \in DOMAIN progress : progress[i] = Len(written) + i
        /\ holding # 0 => holding = Len(written) + Len(progress) + 1
        /\ ~expired => produced = Len(written) + Len(progress) + Held
        /\ headers <=> written # <<>>

(* The call's end and its result come together, and the result proper when  *)
(* no callback is running.                                                  *)
Answered ==
    /\ result = "none" <=> call = "running"
    /\ result = "result" => holding = 0
    /\ handler = "drain" => result # "none"
    /\ \A i \in DOMAIN written : written[i].kind = "result" => result = "result"

IInv == TypeOK /\ OrderKept /\ Flow /\ Answered

(* Events, terminal events and error bodies are told apart by their kinds. *)
LEMMA Kind ==
    /\ \A n \in Nat : /\ Event(n) \in Sent /\ Event(n) # Failure
                      /\ Event(n).at = n /\ Event(n).kind = "progress"
    /\ \A k \in Kinds : /\ Terminal(k) \in Sent /\ Terminal(k) # Failure
                        /\ Terminal(k).kind = k
    /\ Failure \in Sent /\ Failure.kind = "failure"
  BY DEF Event, Terminal, Failure, Sent, Kinds

LEMMA InitIInv == Init => IInv
<1> SUFFICES ASSUME Init PROVE IInv
  OBVIOUS
<1>1. progress = <<>> /\ written = <<>> /\ Len(progress) = 0 /\ Len(written) = 0
  BY DEF Init
<1>2. TypeOK
  <2>1. progress \in Seq(1..MaxEvents) /\ written \in Seq(Sent)
    BY <1>1
  <2>2. 0 \in 0..MaxEvents /\ 0 <= ProgressCap
    BY StreamAssumption
  <2> QED
    BY <1>1, <2>1, <2>2 DEF Init, TypeOK
<1>3. OrderKept /\ Flow /\ Answered
  BY <1>1 DEF Init, OrderKept, Flow, Answered, Held
<1> QED
  BY <1>2, <1>3 DEF IInv

(* The steps that write nothing and leave the handler where it is. *)
LEMMA CallIInv ==
    IInv /\ (Callback \/ HandOver \/ GiveUpHandOver \/ (\E k \in Kinds : End(k)) \/ Expire)
        => IInv'
<1> USE StreamAssumption DEF IInv, Kinds
<1>1. IInv /\ Callback => IInv'
  <2> SUFFICES ASSUME IInv, Callback PROVE IInv'
    OBVIOUS
  <2>1. TypeOK' /\ OrderKept' /\ Answered'
    BY DEF Callback, TypeOK, OrderKept, Answered, Failure, Event
  <2>2. Flow'
    BY DEF Callback, TypeOK, Flow, Held
  <2> QED
    BY <2>1, <2>2
<1>2. IInv /\ HandOver => IInv'
  <2> SUFFICES ASSUME IInv, HandOver PROVE IInv'
    OBVIOUS
  <2>1. /\ progress' \in Seq(1..MaxEvents) /\ Len(progress') = Len(progress) + 1
        /\ \A i \in 1..Len(progress) : progress'[i] = progress[i]
        /\ progress'[Len(progress) + 1] = holding
    BY DEF HandOver, TypeOK
  <2>2. TypeOK'
    BY <2>1 DEF HandOver, RoomForEvent, TypeOK
  <2>3. Flow'
    <3> SUFFICES ASSUME handler' # "returned"
                 PROVE  Flow'
      BY DEF Flow
    <3>1. \A i \in DOMAIN progress' : progress'[i] = Len(written') + i
      <4> SUFFICES ASSUME NEW i \in DOMAIN progress'
                   PROVE  progress'[i] = Len(written) + i
        BY DEF HandOver
      <4>1. i \in 1..Len(progress) \/ i = Len(progress) + 1
        BY <2>1 DEF TypeOK
      <4>2. DOMAIN progress = 1..Len(progress) /\ holding = Len(written) + Len(progress) + 1
        BY DEF HandOver, TypeOK, Flow
      <4>3. CASE i \in 1..Len(progress)
        BY <2>1, <4>2, <4>3 DEF HandOver, Flow
      <4>4. CASE i = Len(progress) + 1
        BY <2>1, <4>2, <4>4 DEF TypeOK
      <4> QED
        BY <4>1, <4>3, <4>4
    <3> QED
      BY <2>1, <3>1 DEF HandOver, TypeOK, Flow, Held
  <2>4. OrderKept' /\ Answered'
    <3>1. UNCHANGED <<written, result, call, handler>> /\ result # "result"
      BY DEF HandOver, Answered
    <3>2. written # <<>> => written[1].kind # "result"
      BY <3>1 DEF Answered, TypeOK
    <3> QED
      BY <3>1, <3>2 DEF OrderKept, Answered
  <2> QED
    BY <2>2, <2>3, <2>4
<1>3. IInv /\ GiveUpHandOver => IInv'
  <2> SUFFICES ASSUME IInv, GiveUpHandOver PROVE IInv'
    OBVIOUS
  <2>1. TypeOK' /\ OrderKept' /\ Answered'
    BY DEF GiveUpHandOver, TypeOK, OrderKept, Answered, Failure, Event
  <2>2. Flow'
    BY DEF GiveUpHandOver, Lets, TypeOK, Flow, Held
  <2> QED
    BY <2>1, <2>2
<1>4. ASSUME NEW k \in Kinds PROVE IInv /\ End(k) => IInv'
  <2> SUFFICES ASSUME IInv, End(k) PROVE IInv'
    OBVIOUS
  <2>1. TypeOK' /\ OrderKept' /\ Answered'
    BY DEF End, TypeOK, OrderKept, Answered, Failure, Event
  <2>2. Flow'
    BY DEF End, TypeOK, Flow, Held
  <2> QED
    BY <2>1, <2>2
<1>5. IInv /\ Expire => IInv'
  <2> SUFFICES ASSUME IInv, Expire PROVE IInv'
    OBVIOUS
  <2>1. TypeOK' /\ OrderKept' /\ Answered'
    BY DEF Expire, TypeOK, OrderKept, Answered, Failure, Event
  <2>2. Flow'
    BY DEF Expire, TypeOK, Flow, Held
  <2> QED
    BY <2>1, <2>2
<1> QED
  BY <1>1, <1>2, <1>3, <1>4, <1>5

(* A handler that listens has written events alone; whatever it writes now, *)
(* the order is kept if the first event is one, and what is neither an      *)
(* event nor its successor ends the stream.                                 *)
LEMMA WriteKeepsOrder ==
    ASSUME TypeOK, Flow, handler # "returned", NEW e \in Sent, NEW next,
           e = Event(Len(written) + 1)
               \/ (e.kind # "progress" /\ (e = Failure => written = <<>>)),
           written = <<>> /\ e.kind = "result" => progress' = <<>>,
           Write(e, next)
    PROVE  OrderKept' /\ written' \in Seq(Sent)
<1>1. CASE UNCHANGED written
  <2>1. \A i \in DOMAIN written : written'[i] = Event(i)
    BY <1>1 DEF Flow
  <2> QED
    BY <1>1, <2>1, Kind DEF OrderKept, TypeOK
<1>2. CASE written' = Append(written, e)
  <2>1. /\ written' \in Seq(Sent) /\ Len(written') = Len(written) + 1
        /\ \A i \in 1..Len(written) : written'[i] = Event(i)
        /\ written'[Len(written) + 1] = e
    BY <1>2 DEF TypeOK, Flow
  <2>2. ASSUME NEW i \in DOMAIN written', NEW j \in DOMAIN written', i < j
        PROVE  /\ written'[i].kind = "progress"
               /\ written'[j].kind = "progress" => written'[i].at < written'[j].at
               /\ written'[j] # Failure
    <3>1. i \in 1..Len(written) /\ written'[i] = Event(i) /\ written # <<>>
      BY <2>1, <2>2 DEF TypeOK
    <3>2. CASE j \in 1..Len(written)
      BY <2>1, <2>2, <3>1, <3>2, Kind DEF TypeOK
    <3>3. CASE j = Len(written) + 1
      BY <2>1, <2>2, <3>1, <3>3, Kind DEF TypeOK
    <3> QED
      BY <2>1, <2>2, <3>2, <3>3 DEF TypeOK
  <2>3. /\ written'[1].kind = "progress" => written'[1].at = 1
        /\ written'[1].kind = "result" => progress' = <<>>
    <3>1. CASE written = <<>>
      BY <2>1, <3>1 DEF Event
    <3>2. CASE written # <<>>
      <4>1. 1 \in 1..Len(written)
        BY <3>2 DEF TypeOK
      <4> QED
        BY <2>1, <4>1, <3>2, Kind DEF TypeOK
    <3> QED
      BY <3>1, <3>2
  <2> QED
    BY <2>1, <2>2, <2>3 DEF OrderKept
<1> QED
  BY <1>1, <1>2 DEF Write

(* The first event in the channel is the one that follows what is written. *)
LEMMA HeadFollows ==
    ASSUME TypeOK, Flow, handler # "returned", progress # <<>>
    PROVE  /\ Head(progress) = Len(written) + 1
           /\ Tail(progress) \in Seq(1..MaxEvents)
           /\ Len(Tail(progress)) = Len(progress) - 1
           /\ \A i \in 1..(Len(progress) - 1) : Tail(progress)[i] = Len(written) + i + 1
<1>1. Len(progress) >= 1 /\ Head(progress) = progress[1] /\ 1 \in DOMAIN progress
  BY DEF TypeOK
<1>2. Head(progress) = Len(written) + 1
  BY <1>1 DEF Flow
<1>3. Tail(progress) \in Seq(1..MaxEvents) /\ Len(Tail(progress)) = Len(progress) - 1
  BY <1>1 DEF TypeOK
<1>4. ASSUME NEW i \in 1..(Len(progress) - 1)
      PROVE  Tail(progress)[i] = Len(written) + i + 1
  <2>1. i + 1 \in DOMAIN progress /\ Tail(progress)[i] = progress[i + 1]
    BY <1>1 DEF TypeOK
  <2>2. progress[i + 1] = Len(written) + (i + 1)
    BY <2>1 DEF Flow
  <2> QED
    BY <2>1, <2>2 DEF TypeOK
<1> QED
  BY <1>2, <1>3, <1>4

(* An event goes from the channel to the client. *)
LEMMA HeadIInv ==
    ASSUME IInv, handler # "returned", progress # <<>>,
           NEW next \in {"select", "drain"}, StreamHead(next),
           UNCHANGED <<produced, holding, call, result>>, next = "drain" => result # "none"
    PROVE  IInv'
<1> DEFINE e == Event(Head(progress))
<1>1. /\ Head(progress) = Len(written) + 1 /\ Len(written) \in Nat
      /\ progress' \in Seq(1..MaxEvents) /\ Len(progress') = Len(progress) - 1
      /\ \A i \in 1..(Len(progress) - 1) : progress'[i] = Len(written) + i + 1
  BY HeadFollows DEF IInv, StreamHead, TypeOK
<1>2. e \in Sent /\ e = Event(Len(written) + 1) /\ e.kind = "progress"
  BY <1>1, Kind
<1>3. OrderKept' /\ written' \in Seq(Sent)
  BY <1>2, WriteKeepsOrder DEF IInv, StreamHead
<1>4. TypeOK'
  <2>1. Len(progress) \in Nat /\ Len(progress) <= ProgressCap
    BY DEF IInv, TypeOK
  <2>2. Len(progress') <= ProgressCap
    BY <1>1, <2>1, StreamAssumption
  <2>3. handler' \in {"select", "drain", "returned"} /\ headers' \in BOOLEAN
        /\ expired' \in BOOLEAN /\ broken' \in BOOLEAN
    BY DEF StreamHead, Write, IInv, TypeOK
  <2> QED
    BY <1>1, <1>3, <2>2, <2>3 DEF IInv, TypeOK
<1>5. Flow'
  <2> SUFFICES ASSUME handler' # "returned" PROVE Flow'
    BY DEF Flow
  <2>1. /\ Len(written') = Len(written) + 1
        /\ \A i \in 1..Len(written) : written'[i] = written[i]
        /\ written'[Len(written) + 1] = e /\ UNCHANGED expired
    <3>1. written' = Append(written, e) /\ UNCHANGED expired
      BY DEF StreamHead, Write
    <3> QED
      BY <1>2, <3>1 DEF IInv, TypeOK
  <2>2. ASSUME NEW i \in DOMAIN written' PROVE written'[i] = Event(i)
    <3>1. i \in 1..Len(written) \/ i = Len(written) + 1
      BY <1>3, <2>1 DEF IInv, TypeOK
    <3> QED
      BY <1>2, <2>1, <3>1 DEF IInv, TypeOK, Flow
  <2>3. ASSUME NEW i \in DOMAIN progress' PROVE progress'[i] = Len(written') + i
    <3>1. i \in 1..(Len(progress) - 1) /\ i \in Nat
      BY <1>1 DEF IInv, TypeOK
    <3>2. progress'[i] = Len(written) + i + 1
      BY <1>1, <3>1
    <3> QED
      BY <1>1, <2>1, <3>1, <3>2
  <2>4. headers' /\ written' # <<>>
    BY <1>1, <1>3, <2>1 DEF StreamHead
  <2>5. /\ holding' # 0 => holding' = Len(written') + Len(progress') + 1
        /\ ~expired' => produced' = Len(written') + Len(progress') + Held'
    <3>1. /\ holding # 0 => holding = Len(written) + Len(progress) + 1
          /\ ~expired => produced = Len(written) + Len(progress) + Held
          /\ UNCHANGED <<holding, produced, expired>> /\ Held' = Held
          /\ Len(progress) \in Nat /\ Held \in Nat
      BY <2>1 DEF IInv, TypeOK, Flow, Held
    <3> QED
      BY <1>1, <2>1, <3>1
  <2> QED
    BY <2>2, <2>3, <2>4, <2>5 DEF Flow
<1>6. Answered'
  <2>1. ASSUME NEW i \in DOMAIN written', written'[i].kind = "result"
        PROVE  result = "result"
    <3>1. CASE UNCHANGED written
      BY <2>1, <3>1 DEF IInv, Answered
    <3>2. CASE written' = Append(written, e)
      <4>1. i \in 1..Len(written) \/ i = Len(written) + 1
        BY <2>1, <3>2 DEF IInv, TypeOK
      <4> QED
        BY <1>2, <2>1, <3>2, <4>1 DEF IInv, TypeOK, Answered
    <3> QED
      BY <3>1, <3>2 DEF StreamHead, Write
  <2> QED
    BY <2>1 DEF IInv, Answered, StreamHead, Write
<1> QED
  BY <1>3, <1>4, <1>5, <1>6 DEF IInv

(* The handler's last words: the call's result, or an error body when the   *)
(* client has been sent nothing yet.                                        *)
LEMMA LastIInv ==
    ASSUME IInv, handler # "returned", NEW e \in Sent, Write(e, "returned"),
           \/ e = Failure /\ written = <<>>
           \/ /\ result \in Kinds /\ e = Terminal(result)
              /\ written = <<>> => progress = <<>>,
           UNCHANGED <<produced, holding, progress, call, result, headers>>
    PROVE  IInv'
<1>1. e.kind # "progress" /\ (e = Failure => written = <<>>)
  BY Kind DEF Kinds
<1>2. written = <<>> /\ e.kind = "result" => progress' = <<>>
  BY Kind DEF Kinds
<1>3. OrderKept' /\ written' \in Seq(Sent)
  BY <1>1, <1>2, WriteKeepsOrder DEF IInv
<1>4. handler' = "returned" /\ expired' \in BOOLEAN /\ broken' \in BOOLEAN
  BY DEF Write, IInv, TypeOK
<1>5. TypeOK' /\ Flow'
  BY <1>3, <1>4 DEF IInv, TypeOK, Flow
<1>6. Answered'
  <2>1. ASSUME NEW i \in DOMAIN written', written'[i].kind = "result"
        PROVE  result = "result"
    <3>1. CASE UNCHANGED written
      BY <2>1, <3>1 DEF IInv, Answered
    <3>2. CASE written' = Append(written, e)
      <4>1. i \in 1..Len(written) \/ i = Len(written) + 1
        BY <2>1, <3>2 DEF IInv, TypeOK
      <4> QED
        BY <2>1, <3>2, <4>1, Kind DEF IInv, TypeOK, Answered
    <3> QED
      BY <3>1, <3>2 DEF Write
  <2> QED
    BY <1>4, <2>1 DEF IInv, Answered
<1> QED
  BY <1>3, <1>5, <1>6 DEF IInv

LEMMA HandlerIInv == IInv /\ Handler => IInv'
<1> SUFFICES ASSUME IInv, Handler PROVE IInv'
  OBVIOUS
<1>0. result # "none" => result \in Kinds /\ Terminal(result) \in Sent
  BY Kind DEF IInv, TypeOK
<1>1. CASE StreamProgress
  BY <1>1, HeadIInv DEF StreamProgress
<1>2. CASE FirstTerminal \/ Drain
  <2>1. handler # "returned" /\ result \in Kinds /\ Terminal(result) \in Sent
    BY <1>0, <1>2 DEF FirstTerminal, Drain, IInv, Answered
  <2>2. CASE progress # <<>> /\ StreamHead("drain")
    BY <1>2, <2>1, <2>2, HeadIInv DEF FirstTerminal, Drain, Kinds
  <2>3. CASE progress = <<>> /\ Write(Terminal(result), "returned")
                /\ UNCHANGED <<headers, progress>>
    BY <1>2, <2>1, <2>3, LastIInv DEF FirstTerminal, Drain
  <2> QED
    BY <1>2, <2>2, <2>3 DEF FirstTerminal, Drain, DrainOrAnswer
<1>3. CASE StreamTerminal
  <2>1. written # <<>>
    BY <1>3 DEF StreamTerminal, IInv, Flow
  <2> QED
    BY <1>0, <1>3, <2>1, LastIInv DEF StreamTerminal, WriteTerminal
<1>4. CASE StreamExpired
  <2>1. CASE headers
    BY <1>4, <2>1 DEF StreamExpired, IInv, TypeOK, OrderKept, Flow, Answered
  <2>2. CASE ~headers
    <3>1. written = <<>> /\ Failure \in Sent /\ UNCHANGED expired
      BY <1>4, <2>2, Kind DEF StreamExpired, IInv, Flow
    <3> QED
      BY <1>4, <2>2, <3>1, LastIInv DEF StreamExpired
  <2> QED
    BY <2>1, <2>2
<1> QED
  BY <1>1, <1>2, <1>3, <1>4 DEF Handler

LEMMA NextIInv == IInv /\ [Next]_vars => IInv'
<1> SUFFICES ASSUME IInv, [Next]_vars PROVE IInv'
  OBVIOUS
<1>1. CASE UNCHANGED vars
  BY <1>1 DEF vars, IInv, TypeOK, OrderKept, Flow, Answered, Held
<1> QED
  BY <1>1, CallIInv, HandlerIInv DEF Next

LEMMA Invariant == Spec => []IInv
  BY InitIInv, NextIInv, PTL DEF Spec

(* The channel never holds more than its capacity, a callback holds one of  *)
(* the events produced, and what was written are events and answers.        *)
THEOREM TypeCorrect == Spec => []TypeOK
<1>1. IInv => TypeOK
  BY DEF IInv
<1> QED
  BY <1>1, Invariant, PTL

(* A client of the streaming route sees the worker's events in their order, *)
(* from the first one, and at most one terminal event or error body, last,  *)
(* whichever branch the handler's selects take.                             *)
THEOREM EventsInOrder == Spec => []OrderKept
<1>1. IInv => OrderKept
  BY DEF IInv
<1> QED
  BY <1>1, Invariant, PTL
=============================================================================
