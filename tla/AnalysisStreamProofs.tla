------------------------ MODULE AnalysisStreamProofs ------------------------
(***************************************************************************)
(* Proofs about AnalysisStream: no event reaches the client twice, and a   *)
(* stream the server ends has carried every event, however the request     *)
(* that subscribes, the engine's thread, a stop and lost connections       *)
(* interleave and however many info lines there are.                       *)
(***************************************************************************)
EXTENDS AnalysisStream, SequenceTheorems, TLAPS

-----------------------------------------------------------------------------
(* The inductive invariant. *)

\* What is on its way to the client: sent, queued, still to be replayed, or in the
\* reader thread's hand.
Pending(x) ==
  \/ Contains(sent, x) \/ Contains(event_queue, x) \/ Contains(to_replay, x)
  \/ reader = "call" /\ event = x

\* Nothing is on its way before the subscription, and the threads' positions agree
\* with the engine's state.
SessionInv ==
  /\ request = "start" => engine = "off"
  /\ request \in {"start", "subscribe", "refused"} => ~subscribed
  /\ ~subscribed => /\ sent = <<>> /\ event_queue = <<>> /\ to_replay = <<>>
                    /\ reader \notin {"call", "mark"} /\ ~sse_terminal
  /\ request = "accepted" => to_replay = <<>>
  /\ stream # "none" => request = "accepted"
  /\ engine \in {"answered", "dead"} => terminal
  /\ reader = "bestmove" => engine = "answered" /\ ~last_complete
  /\ last_complete => engine \in {"answered", "dead"}
  /\ reader = "call" => event \in Events

\* The history is the engine's info lines; an outcome is on its way only once the
\* engine has answered or died.
HistoryInv ==
  /\ Len(info_history) = infos /\ \A n \in 1..infos : info_history[n] = Info(n)
  /\ \A n \in Nat : Pending(Info(n)) => n \in 1..infos
  /\ \A o \in Outcomes : Pending(o) => engine \in {"answered", "dead"} /\ reader # "bestmove"

Apart(s, t) == \A x, y : Contains(s, x) /\ Contains(t, y) => ~Same(x, y)
Fresh(s, e) == \A x : Contains(s, x) => ~Same(x, e)

\* No event is on its way twice.
OnceInv ==
  /\ NoRepeat(sent) /\ NoRepeat(event_queue) /\ NoRepeat(to_replay)
  /\ Apart(sent, event_queue) /\ Apart(sent, to_replay) /\ Apart(event_queue, to_replay)
  /\ reader = "call" => Fresh(sent, event) /\ Fresh(event_queue, event) /\ Fresh(to_replay, event)

\* No event is lost but by a connection: after the subscription every info line is
\* on its way, and the stream is marked only behind an outcome.
WholeInv ==
  /\ reader = "mark" =>
       /\ event \in Outcomes /\ engine \in {"answered", "dead"}
       /\ losses = 0 => Contains(sent, event) \/ Contains(event_queue, event)
  /\ request = "replayed" => Contains(event_queue, Complete)
  /\ request = "replayed" \/ Contains(to_replay, Complete) \/ sse_terminal =>
       reader = "idle" /\ engine \in {"answered", "dead"}
  /\ sse_terminal /\ losses = 0 => \E o \in Outcomes : Contains(sent, o) \/ Contains(event_queue, o)
  /\ subscribed /\ losses = 0 => \A n \in 1..infos : Pending(Info(n))
  /\ stream \in {"done", "cut"} => sse_terminal /\ event_queue = <<>>

Inv == TypeOK /\ SessionInv /\ HistoryInv /\ OnceInv /\ WholeInv

-----------------------------------------------------------------------------
(* Events, and what queues of them hold. *)

\* An info line is told from every other and from an outcome.
LEMMA EventFacts ==
  /\ \A m, n : Info(m) = Info(n) => m = n
  /\ \A n : Info(n) \notin Outcomes
  /\ Complete \in Outcomes /\ Failure \in Outcomes /\ Complete # NoEvent
  /\ \A o \in Outcomes : o = Complete \/ o = Failure
  /\ \A e \in Events : e \in Outcomes \/ \E n \in 1..MaxInfos : e = Info(n)
  /\ \A n \in 1..MaxInfos : Info(n) \in Infos /\ Info(n) \in Events
  /\ Outcomes \subseteq Events /\ Infos \subseteq Events /\ NoEvent \notin Events
  /\ \A x, y : Same(x, y) => Same(y, x)
  /\ \A x \in Outcomes, y \in Outcomes : Same(x, y)
  /\ \A x, y : Same(x, y) => x = y \/ (x \in Outcomes /\ y \in Outcomes)
  /\ \A x : Same(x, x)
<1>1. /\ \A m, n : Info(m) = Info(n) => m = n
      /\ \A n : Info(n) # Complete /\ Info(n) # Failure /\ Info(n) # NoEvent
      /\ Complete # NoEvent /\ Failure # NoEvent
  BY DEF Info, Complete, Failure, NoEvent
<1> QED BY <1>1 DEF Outcomes, Infos, Events, Same

\* An event put at the end of a queue.
LEMMA InAppend ==
  ASSUME NEW S, NEW s \in Seq(S), NEW e \in S
  PROVE  /\ Append(s, e) \in Seq(S)
         /\ \A x : Contains(Append(s, e), x) <=> Contains(s, x) \/ x = e
         /\ NoRepeat(s) /\ Fresh(s, e) => NoRepeat(Append(s, e))
<1> DEFINE t == Append(s, e)
           n == Len(s)
<1>1. n \in Nat /\ t \in Seq(S) /\ Len(t) = n + 1
  OBVIOUS
<1>2. \A i \in 1..n : t[i] = s[i]
  OBVIOUS
<1>3. t[n + 1] = e
  OBVIOUS
<1>4. 1..(n + 1) = (1..n) \cup {n + 1}
  BY <1>1
<1> HIDE DEF t, n
<1>0. n + 1 \in 1..(n + 1)
  BY <1>1
<1>7. \A i \in 1..(n + 1) : i \in 1..n \/ i = n + 1
  BY <1>4
<1>8. \A i \in 1..n : i \in 1..(n + 1)
  BY <1>4
<1>5. \A x : Contains(t, x) <=> Contains(s, x) \/ x = e
  <2> TAKE x
  <2>1. Contains(t, x) <=> \E i \in 1..(n + 1) : t[i] = x
    BY <1>1 DEF Contains
  <2>2. Contains(s, x) <=> \E i \in 1..n : s[i] = x
    BY DEF Contains, n
  <2> QED BY <1>0, <1>2, <1>3, <1>7, <1>8, <2>1, <2>2, Zenon
<1>6. ASSUME NoRepeat(s), Fresh(s, e) PROVE NoRepeat(t)
  <2>1. \A i \in 1..n : ~Same(s[i], e) /\ ~Same(e, s[i])
    BY <1>6, EventFacts DEF Fresh, Contains, n
  <2>2. \A i, j \in 1..n : Same(s[i], s[j]) => i = j
    BY <1>6 DEF NoRepeat, n
  <2>3. ASSUME NEW i \in 1..(n + 1), NEW j \in 1..(n + 1), Same(t[i], t[j]) PROVE i = j
    <3>1. CASE i \in 1..n /\ j \in 1..n
      BY <1>2, <2>2, <2>3, <3>1
    <3>2. CASE i \in 1..n /\ j = n + 1
      BY <1>2, <1>3, <2>1, <2>3, <3>2
    <3>3. CASE i = n + 1 /\ j \in 1..n
      BY <1>2, <1>3, <2>1, <2>3, <3>3
    <3> QED BY <1>7, <3>1, <3>2, <3>3
  <2> QED BY <1>1, <2>3 DEF NoRepeat
<1> QED BY <1>1, <1>5, <1>6 DEF t

\* One queue behind another.
LEMMA InConcat ==
  ASSUME NEW S, NEW s \in Seq(S), NEW t \in Seq(S)
  PROVE  /\ s \o t \in Seq(S)
         /\ \A x : Contains(s \o t, x) <=> Contains(s, x) \/ Contains(t, x)
         /\ NoRepeat(s) /\ NoRepeat(t) /\ Apart(s, t) => NoRepeat(s \o t)
<1> DEFINE u == s \o t
           m == Len(s)
           n == Len(t)
<1>1. m \in Nat /\ n \in Nat /\ u \in Seq(S) /\ Len(u) = m + n
  OBVIOUS
<1>2. \A i \in 1..m : i \in 1..(m + n) /\ u[i] = s[i]
  OBVIOUS
<1>3. \A i \in 1..n : m + i \in 1..(m + n) /\ u[m + i] = t[i]
  OBVIOUS
<1> HIDE DEF u, m, n
<1>4. \A i \in 1..(m + n) : i \in 1..m \/ \E j \in 1..n : i = m + j
  <2> TAKE i \in 1..(m + n)
  <2>1. CASE i <= m
    BY <1>1, <2>1
  <2>2. CASE ~(i <= m)
    <3>1. i - m \in 1..n /\ i = m + (i - m)
      BY <1>1, <2>2
    <3> QED BY <3>1, Zenon
  <2> QED BY <2>1, <2>2
<1>5. \A x : Contains(u, x) <=> Contains(s, x) \/ Contains(t, x)
  <2> TAKE x
  <2>1. Contains(u, x) <=> \E i \in 1..(m + n) : u[i] = x
    BY <1>1 DEF Contains
  <2>2. Contains(s, x) <=> \E i \in 1..m : s[i] = x
    BY DEF Contains, m
  <2>3. Contains(t, x) <=> \E i \in 1..n : t[i] = x
    BY DEF Contains, n
  <2> QED BY <1>2, <1>3, <1>4, <2>1, <2>2, <2>3, Zenon
<1>6. ASSUME NoRepeat(s), NoRepeat(t), Apart(s, t) PROVE NoRepeat(u)
  <2>1. \A i \in 1..m, j \in 1..n : ~Same(s[i], t[j]) /\ ~Same(t[j], s[i])
    BY <1>6, EventFacts DEF Apart, Contains, m, n
  <2>2. \A i, j \in 1..m : Same(s[i], s[j]) => i = j
    BY <1>6 DEF NoRepeat, m
  <2>3. \A i, j \in 1..n : Same(t[i], t[j]) => i = j
    BY <1>6 DEF NoRepeat, n
  <2>4. SUFFICES ASSUME NEW i \in 1..(m + n), NEW j \in 1..(m + n), Same(u[i], u[j])
                 PROVE  i = j
    BY <1>1 DEF NoRepeat
  <2>5. CASE i \in 1..m /\ j \in 1..m
    BY <1>2, <2>2, <2>4, <2>5
  <2>6. CASE i \in 1..m /\ j \notin 1..m
    <3>1. PICK b \in 1..n : j = m + b
      BY <1>4, <2>6
    <3>2. u[i] = s[i] /\ u[j] = t[b]
      BY <1>2, <1>3, <2>6, <3>1
    <3> QED BY <2>1, <2>4, <2>6, <3>2
  <2>7. CASE i \notin 1..m /\ j \in 1..m
    <3>1. PICK a \in 1..n : i = m + a
      BY <1>4, <2>7
    <3>2. u[i] = t[a] /\ u[j] = s[j]
      BY <1>2, <1>3, <2>7, <3>1
    <3> QED BY <2>1, <2>4, <2>7, <3>2
  <2>8. CASE i \notin 1..m /\ j \notin 1..m
    <3>1. PICK a \in 1..n : i = m + a
      BY <1>4, <2>8
    <3>2. PICK b \in 1..n : j = m + b
      BY <1>4, <2>8
    <3>3. u[i] = t[a] /\ u[j] = t[b]
      BY <1>3, <3>1, <3>2
    <3> QED BY <2>3, <2>4, <3>1, <3>2, <3>3
  <2> QED BY <2>5, <2>6, <2>7, <2>8
<1> QED BY <1>1, <1>5, <1>6 DEF u

\* Taking the first of a queue.
LEMMA InTail ==
  ASSUME NEW S, NEW s \in Seq(S), s # <<>>
  PROVE  /\ Head(s) \in S /\ Tail(s) \in Seq(S)
         /\ \A x : Contains(s, x) <=> x = Head(s) \/ Contains(Tail(s), x)
         /\ NoRepeat(s) => NoRepeat(Tail(s)) /\ Fresh(Tail(s), Head(s))
<1> DEFINE t == Tail(s)
           n == Len(t)
<1>1. n \in Nat /\ t \in Seq(S) /\ Len(s) = n + 1 /\ Head(s) = s[1] /\ s[1] \in S
  OBVIOUS
<1>2. \A i \in 1..n : i + 1 \in 1..(n + 1) /\ t[i] = s[i + 1] /\ i + 1 # 1
  OBVIOUS
<1> HIDE DEF t, n
<1>3. \A i \in 1..(n + 1) : i = 1 \/ \E j \in 1..n : i = j + 1
  <2> TAKE i \in 1..(n + 1)
  <2>1. i # 1 => i - 1 \in 1..n /\ i = (i - 1) + 1
    BY <1>1
  <2> QED BY <2>1, Zenon
<1>4. 1 \in 1..(n + 1)
  BY <1>1
<1>5. \A x : Contains(s, x) <=> x = Head(s) \/ Contains(t, x)
  <2> TAKE x
  <2>1. Contains(s, x) => x = Head(s) \/ Contains(t, x)
    BY <1>1, <1>2, <1>3 DEF Contains, n
  <2>2. x = Head(s) => Contains(s, x)
    BY <1>1, <1>4 DEF Contains
  <2>3. Contains(t, x) => Contains(s, x)
    BY <1>1, <1>2, Zenon DEF Contains, n
  <2> QED BY <2>1, <2>2, <2>3
<1>6. ASSUME NoRepeat(s) PROVE NoRepeat(t) /\ Fresh(t, Head(s))
  <2>1. \A i, j \in 1..(n + 1) : Same(s[i], s[j]) => i = j
    BY <1>1, <1>6 DEF NoRepeat
  <2>2. ASSUME NEW i \in 1..n, NEW j \in 1..n, Same(t[i], t[j]) PROVE i = j
    <3>1. i + 1 = j + 1
      BY <1>2, <2>1, <2>2
    <3> QED BY <3>1
  <2>3. \A i \in 1..n : ~Same(t[i], s[1])
    BY <1>2, <1>4, <2>1
  <2> QED BY <1>1, <2>2, <2>3 DEF NoRepeat, Fresh, Contains, n
<1> QED BY <1>1, <1>5, <1>6 DEF t

\* The empty queue.
LEMMA InEmpty ==
  /\ \A x : ~Contains(<<>>, x)
  /\ NoRepeat(<<>>) /\ \A S : <<>> \in Seq(S)
BY DEF Contains, NoRepeat

-----------------------------------------------------------------------------
(* The invariant holds initially and every action keeps it. *)

\* Nothing has begun.
LEMMA InitInv == Init => Inv
<1> SUFFICES ASSUME Init PROVE Inv
  OBVIOUS
<1>1. TypeOK
  <2>1. 0 \in 0..MaxInfos /\ 0 \in 0..MaxLosses
    BY AnalysisAssumption
  <2>2. <<>> \in Seq(Infos) /\ <<>> \in Seq(Events)
    BY InEmpty
  <2> QED BY <2>1, <2>2, Zenon DEF Init, TypeOK
<1>2. SessionInv
  BY DEF Init, SessionInv
<1>3. HistoryInv
  <2>1. \A x : ~Pending(x)
    BY InEmpty DEF Init, Pending
  <2>2. info_history = <<>> /\ infos = 0
    BY DEF Init
  <2>3. Len(info_history) = infos /\ \A n \in 1..infos : info_history[n] = Info(n)
    BY <2>2
  <2> QED BY <2>1, <2>3 DEF HistoryInv
<1>4. OnceInv
  BY InEmpty DEF Init, OnceInv, Apart, Fresh
<1>5. WholeInv
  BY InEmpty DEF Init, WholeInv
<1> QED BY <1>1, <1>2, <1>3, <1>4, <1>5 DEF Inv

\* What a step must leave alone to leave every event where it is.
EventsKept == UNCHANGED <<sent, event_queue, to_replay, reader, event>>

\* Then nothing about the events themselves changes.
LEMMA EventsKeptKeeps ==
  ASSUME Inv, EventsKept, UNCHANGED <<infos, info_history, losses, sse_terminal>>,
         UNCHANGED <<subscribed, last_complete>> ,
         engine \in {"answered", "dead"} => engine' \in {"answered", "dead"},
         request' = "replayed" => request = "replayed",
         UNCHANGED stream \/ stream' \notin {"done", "cut"}
  PROVE  HistoryInv' /\ OnceInv' /\ WholeInv'
<1>1. \A x : Pending(x)' <=> Pending(x)
  BY DEF EventsKept, Pending
<1>2. HistoryInv /\ OnceInv /\ WholeInv
  BY DEF Inv
<1>3. HistoryInv'
  BY <1>1, <1>2 DEF EventsKept, HistoryInv
<1>4. OnceInv'
  BY <1>2 DEF EventsKept, OnceInv
<1>5. WholeInv'
  BY <1>1, <1>2 DEF EventsKept, WholeInv
<1> QED BY <1>3, <1>4, <1>5

\* The engine is started, or the request refused.
LEMMA StartAnalysisKeeps ==
  ASSUME Inv, StartAnalysis
  PROVE  Inv'
<1>1. TypeOK /\ SessionInv
  BY DEF Inv
<1>2. TypeOK'
  BY <1>1 DEF TypeOK, StartAnalysis, thread, session, sse, client
<1>3. SessionInv'
  BY <1>1 DEF TypeOK, SessionInv, StartAnalysis, thread, session, sse, client
<1>4. EventsKept /\ UNCHANGED <<infos, info_history, losses, sse_terminal, subscribed, last_complete>>
  BY DEF EventsKept, StartAnalysis, thread, session, sse, client
<1>5. /\ engine \in {"answered", "dead"} => engine' \in {"answered", "dead"}
      /\ request' = "replayed" => request = "replayed"
      /\ UNCHANGED stream \/ stream' \notin {"done", "cut"}
  BY <1>1 DEF SessionInv, StartAnalysis, client
<1> QED BY <1>2, <1>3, <1>4, <1>5, EventsKeptKeeps DEF Inv

\* The request answers once all is replayed.
LEMMA AcceptKeeps ==
  ASSUME Inv, Accept
  PROVE  Inv'
<1>1. TypeOK /\ SessionInv
  BY DEF Inv
<1>2. TypeOK'
  BY <1>1 DEF TypeOK, Accept, thread, session, sse, client
<1>3. SessionInv'
  BY <1>1 DEF TypeOK, SessionInv, Accept, thread, session, sse, client
<1>4. EventsKept /\ UNCHANGED <<infos, info_history, losses, sse_terminal, subscribed, last_complete>>
  BY DEF EventsKept, Accept, thread, session, sse, client
<1>5. /\ engine \in {"answered", "dead"} => engine' \in {"answered", "dead"}
      /\ request' = "replayed" => request = "replayed"
      /\ UNCHANGED stream \/ stream' \notin {"done", "cut"}
  BY <1>1 DEF SessionInv, Accept, client
<1> QED BY <1>2, <1>3, <1>4, <1>5, EventsKeptKeeps DEF Inv

\* A client connects.
LEMMA ConnectKeeps ==
  ASSUME Inv, Connect
  PROVE  Inv'
<1>1. TypeOK /\ SessionInv
  BY DEF Inv
<1>2. TypeOK'
  BY <1>1 DEF TypeOK, Connect, thread, session, sse, client
<1>3. SessionInv'
  BY <1>1 DEF TypeOK, SessionInv, Connect, thread, session, sse, client
<1>4. EventsKept /\ UNCHANGED <<infos, info_history, losses, sse_terminal, subscribed, last_complete>>
  BY DEF EventsKept, Connect, thread, session, sse, client
<1>5. /\ engine \in {"answered", "dead"} => engine' \in {"answered", "dead"}
      /\ request' = "replayed" => request = "replayed"
      /\ UNCHANGED stream \/ stream' \notin {"done", "cut"}
  BY <1>1 DEF SessionInv, Connect, client
<1> QED BY <1>2, <1>3, <1>4, <1>5, EventsKeptKeeps DEF Inv

\* DELETE asks the engine to stop.
LEMMA StopKeeps ==
  ASSUME Inv, Stop
  PROVE  Inv'
<1>1. TypeOK /\ SessionInv
  BY DEF Inv
<1>2. TypeOK'
  BY <1>1 DEF TypeOK, Stop, thread, session, sse, client
<1>3. SessionInv'
  BY <1>1 DEF TypeOK, SessionInv, Stop, thread, session, sse, client
<1>4. EventsKept /\ UNCHANGED <<infos, info_history, losses, sse_terminal, subscribed, last_complete>>
  BY DEF EventsKept, Stop, thread, session, sse, client
<1>5. /\ engine \in {"answered", "dead"} => engine' \in {"answered", "dead"}
      /\ request' = "replayed" => request = "replayed"
      /\ UNCHANGED stream \/ stream' \notin {"done", "cut"}
  BY <1>1 DEF SessionInv, Stop, client
<1> QED BY <1>2, <1>3, <1>4, <1>5, EventsKeptKeeps DEF Inv

\* ... and marks the session.
LEMMA MarkStoppedKeeps ==
  ASSUME Inv, MarkStopped
  PROVE  Inv'
<1>1. TypeOK /\ SessionInv
  BY DEF Inv
<1>2. TypeOK'
  <2>1. terminal' \in BOOLEAN /\ deleting' \in BOOLEAN
    BY DEF MarkStopped
  <2>2. UNCHANGED <<request, engine, reader, event, infos, subscribed, info_history, last_complete,
                    to_replay, event_queue, sse_terminal, stream, sent, losses>>
    BY DEF MarkStopped, thread, sse, client
  <2> QED BY <1>1, <2>1, <2>2 DEF TypeOK
<1>3. SessionInv'
  BY <1>1 DEF TypeOK, SessionInv, MarkStopped, thread, session, sse, client
<1>4. EventsKept /\ UNCHANGED <<infos, info_history, losses, sse_terminal, subscribed, last_complete>>
  BY DEF EventsKept, MarkStopped, thread, session, sse, client
<1>5. /\ engine \in {"answered", "dead"} => engine' \in {"answered", "dead"}
      /\ request' = "replayed" => request = "replayed"
      /\ UNCHANGED stream \/ stream' \notin {"done", "cut"}
  BY <1>1 DEF SessionInv, MarkStopped, client
<1> QED BY <1>2, <1>3, <1>4, <1>5, EventsKeptKeeps DEF Inv

\* The answer has come: nothing is on its way from it yet.
LEMMA OnBestmoveKeeps ==
  ASSUME Inv, OnBestmove
  PROVE  Inv'
<1>1. TypeOK /\ SessionInv /\ HistoryInv /\ OnceInv /\ WholeInv
  BY DEF Inv
<1>2. /\ engine = "searching" /\ reader = "idle" /\ engine' = "answered" /\ terminal' /\ reader' = "bestmove"
      /\ UNCHANGED <<request, event, infos, subscribed, info_history, last_complete, to_replay,
                     event_queue, sse_terminal, stream, sent, losses, deleting>>
  BY DEF OnBestmove, sse, client
<1>3. TypeOK'
  BY <1>1 DEF TypeOK, OnBestmove, sse, client
<1>4. SessionInv'
  BY <1>1, <1>2 DEF SessionInv
<1>5. \A x : Pending(x)' <=> Pending(x)
  BY <1>2 DEF Pending
<1>6. HistoryInv'
  BY <1>1, <1>2, <1>5 DEF HistoryInv
<1>7. OnceInv'
  BY <1>1, <1>2 DEF OnceInv
<1>8. WholeInv'
  BY <1>1, <1>2, <1>5 DEF WholeInv
<1> QED BY <1>3, <1>4, <1>6, <1>7, <1>8 DEF Inv

\* The reader thread takes an event in hand that is on nobody's way yet.
LEMMA TakeInHand ==
  ASSUME Inv, reader \in {"idle", "bestmove"}, reader' = "call", NEW e \in Events, event' = e,
         \A x : Pending(x) => ~Same(x, e),
         UNCHANGED <<sent, event_queue, to_replay>>
  PROVE  OnceInv' /\ \A x : Pending(x)' <=> Pending(x) \/ x = e
<1>1. \A x : Pending(x)' <=> Pending(x) \/ x = e
  BY DEF Pending
<1>2. /\ \A x : Contains(sent, x) => Pending(x)
      /\ \A x : Contains(event_queue, x) => Pending(x)
      /\ \A x : Contains(to_replay, x) => Pending(x)
  BY DEF Pending
<1>3. Fresh(sent, e) /\ Fresh(event_queue, e) /\ Fresh(to_replay, e)
  BY <1>2 DEF Fresh
<1>4. OnceInv'
  BY <1>3 DEF Inv, OnceInv
<1> QED BY <1>1, <1>4

\* An info line: recorded, and in hand if somebody listens.
LEMMA OnInfoKeeps ==
  ASSUME Inv, OnInfo
  PROVE  Inv'
<1> DEFINE k == infos + 1
<1>1. TypeOK /\ SessionInv /\ HistoryInv /\ OnceInv /\ WholeInv
  BY DEF Inv
<1>2. /\ engine = "searching" /\ reader = "idle" /\ infos' = k
      /\ info_history' = Append(info_history, Info(k))
      /\ UNCHANGED <<request, engine, terminal, subscribed, last_complete, to_replay, event_queue,
                     sse_terminal, stream, sent, losses, deleting>>
      /\ IF subscribed THEN reader' = "call" /\ event' = Info(k) ELSE reader' = reader /\ event' = event
  BY DEF OnInfo, thread, sse, client
<1>3. infos \in Nat /\ k \in 1..MaxInfos /\ k \in 0..MaxInfos /\ k \notin 1..infos /\ k \in 1..k
      /\ 1..infos \subseteq 1..k /\ 1..k = (1..infos) \cup {k}
  BY <1>1, AnalysisAssumption DEF TypeOK, OnInfo
<1>4. Info(k) \in Infos /\ Info(k) \in Events
  BY <1>3, EventFacts
<1>5. TypeOK'
  <2>1. info_history' \in Seq(Infos)
    BY <1>1, <1>2, <1>4, InAppend DEF TypeOK
  <2> QED BY <1>1, <1>2, <1>3, <1>4, <2>1 DEF TypeOK
<1>6. Len(info_history') = infos' /\ \A n \in 1..infos' : info_history'[n] = Info(n)
  <2>1. info_history \in Seq(Infos) /\ Len(info_history) = infos /\ \A n \in 1..infos : info_history[n] = Info(n)
    BY <1>1 DEF TypeOK, HistoryInv
  <2>2. Len(info_history') = k /\ info_history'[k] = Info(k) /\ \A n \in 1..infos : info_history'[n] = info_history[n]
    <3> DEFINE e == Info(k)
    <3>1. e \in Infos /\ info_history' = Append(info_history, e)
      BY <1>2, <1>4
    <3>2. Len(info_history') = k /\ info_history'[k] = e /\ \A n \in 1..infos : info_history'[n] = info_history[n]
      <4> HIDE DEF e
      <4> QED BY <3>1, <2>1, AppendProperties
    <3> QED BY <3>2
  <2> HIDE DEF k
  <2> QED BY <1>2, <1>3, <2>1, <2>2
<1> HIDE DEF k
<1>7. \A n \in Nat : ~(Pending(Info(n)) /\ n = k)
  BY <1>1, <1>3 DEF HistoryInv
<1>8. ~Pending(Info(k)) /\ k \in Nat
  BY <1>3, <1>7
<1>9. CASE subscribed
  <2>1. reader' = "call" /\ event' = Info(k)
    BY <1>2, <1>9
  <2>2. \A x : Pending(x) => ~Same(x, Info(k))
    BY <1>8, EventFacts
  <2>3. OnceInv' /\ \A x : Pending(x)' <=> Pending(x) \/ x = Info(k)
    BY <1>2, <1>4, <2>1, <2>2, TakeInHand
  <2>4. SessionInv'
    BY <1>1, <1>2, <1>4, <1>9, <2>1 DEF SessionInv
  <2>5. HistoryInv'
    <3>1. \A n \in Nat : Pending(Info(n))' => n \in 1..k
      BY <1>1, <1>3, <2>3, EventFacts DEF HistoryInv
    <3>2. \A o \in Outcomes : Pending(o)' => Pending(o)
      BY <2>3, EventFacts
    <3> QED BY <1>1, <1>2, <1>6, <2>1, <3>1, <3>2 DEF HistoryInv
  <2>6. WholeInv'
    <3>1. losses = 0 => \A n \in 1..k : Pending(Info(n))'
      BY <1>1, <1>3, <1>9, <2>3 DEF WholeInv
    <3> QED BY <1>1, <1>2, <2>1, <3>1 DEF WholeInv
  <2> QED BY <1>5, <2>3, <2>4, <2>5, <2>6 DEF Inv
<1>10. CASE ~subscribed
  <2>1. reader' = reader /\ event' = event
    BY <1>2, <1>10
  <2>2. \A x : Pending(x)' <=> Pending(x)
    BY <1>2, <2>1 DEF Pending
  <2>3. SessionInv'
    BY <1>1, <1>2, <2>1 DEF SessionInv
  <2>4. HistoryInv'
    <3>1. \A n \in Nat : Pending(Info(n))' => n \in 1..k
      BY <1>1, <1>3, <2>2 DEF HistoryInv
    <3> QED BY <1>1, <1>2, <1>6, <2>1, <2>2, <3>1 DEF HistoryInv
  <2>5. OnceInv'
    BY <1>1, <1>2, <2>1 DEF OnceInv
  <2>6. WholeInv'
    BY <1>1, <1>2, <1>10, <2>1 DEF WholeInv
  <2> QED BY <1>5, <2>3, <2>4, <2>5, <2>6 DEF Inv
<1> QED BY <1>9, <1>10

\* The answer is recorded, and in hand if somebody listens.
LEMMA RecordCompleteKeeps ==
  ASSUME Inv, RecordComplete
  PROVE  Inv'
<1>1. TypeOK /\ SessionInv /\ HistoryInv /\ OnceInv /\ WholeInv
  BY DEF Inv
<1>2. /\ reader = "bestmove" /\ last_complete' /\ engine = "answered" /\ engine' = engine
      /\ UNCHANGED <<request, engine, infos, terminal, subscribed, info_history, to_replay, event_queue,
                     sse_terminal, stream, sent, losses, deleting>>
      /\ IF subscribed THEN reader' = "call" /\ event' = Complete ELSE reader' = "idle" /\ event' = event
  BY <1>1 DEF RecordComplete, sse, client, SessionInv
<1>3. TypeOK'
  BY <1>1, <1>2, EventFacts DEF TypeOK, RecordComplete
<1>4. \A o \in Outcomes : ~Pending(o)
  BY <1>1, <1>2 DEF HistoryInv
<1>5. SessionInv'
  BY <1>1, <1>2, EventFacts DEF SessionInv
<1>6. CASE subscribed
  <2>1. reader' = "call" /\ event' = Complete /\ Complete \in Events /\ Complete \in Outcomes
    BY <1>2, <1>6, EventFacts
  <2>2. \A x : Pending(x) => ~Same(x, Complete)
    BY <1>4, <2>1, EventFacts
  <2>3. OnceInv' /\ \A x : Pending(x)' <=> Pending(x) \/ x = Complete
    BY <1>2, <2>1, <2>2, TakeInHand
  <2>4. HistoryInv'
    <3>1. \A n \in Nat : Pending(Info(n))' => Pending(Info(n))
      BY <2>1, <2>3, EventFacts
    <3> QED BY <1>1, <1>2, <2>1, <3>1 DEF HistoryInv
  <2>5. WholeInv'
    BY <1>1, <1>2, <2>1, <2>3 DEF WholeInv
  <2> QED BY <1>3, <1>5, <2>3, <2>4, <2>5 DEF Inv
<1>7. CASE ~subscribed
  <2>1. reader' = "idle"
    BY <1>2, <1>7
  <2>2. \A x : Pending(x)' <=> Pending(x)
    BY <1>2, <2>1 DEF Pending
  <2>3. HistoryInv'
    BY <1>1, <1>2, <2>1, <2>2 DEF HistoryInv
  <2>4. OnceInv'
    BY <1>1, <1>2, <2>1 DEF OnceInv
  <2>5. WholeInv'
    BY <1>1, <1>2, <1>7, <2>1 DEF WholeInv
  <2> QED BY <1>3, <1>5, <2>3, <2>4, <2>5 DEF Inv
<1> QED BY <1>6, <1>7

\* The engine dies: an outcome only if there was none and nobody stopped it.
LEMMA OnErrorKeeps ==
  ASSUME Inv, OnError
  PROVE  Inv'
<1>1. TypeOK /\ SessionInv /\ HistoryInv /\ OnceInv /\ WholeInv
  BY DEF Inv
<1>2. /\ engine \in {"searching", "answered"} /\ reader = "idle" /\ engine' = "dead" /\ terminal'
      /\ UNCHANGED <<request, infos, subscribed, info_history, last_complete, to_replay, event_queue,
                     sse_terminal, stream, sent, losses, deleting>>
      /\ IF subscribed /\ ~terminal THEN reader' = "call" /\ event' = Failure
                                    ELSE reader' = reader /\ event' = event
  BY DEF OnError, thread, sse, client
<1>3. TypeOK'
  BY <1>1, <1>2, EventFacts DEF TypeOK, OnError
<1>4. CASE subscribed /\ ~terminal
  <2>1. reader' = "call" /\ event' = Failure /\ Failure \in Events /\ Failure \in Outcomes /\ engine = "searching"
    BY <1>1, <1>2, <1>4, EventFacts DEF SessionInv
  <2>2. \A o \in Outcomes : ~Pending(o)
    BY <1>1, <2>1 DEF HistoryInv
  <2>3. \A x : Pending(x) => ~Same(x, Failure)
    BY <2>1, <2>2, EventFacts
  <2>4. OnceInv' /\ \A x : Pending(x)' <=> Pending(x) \/ x = Failure
    BY <1>2, <2>1, <2>3, TakeInHand
  <2>5. SessionInv'
    BY <1>1, <1>2, <1>4, <2>1 DEF SessionInv
  <2>6. HistoryInv'
    <3>1. \A n \in Nat : Pending(Info(n))' => Pending(Info(n))
      BY <2>1, <2>4, EventFacts
    <3> QED BY <1>1, <1>2, <2>1, <3>1 DEF HistoryInv
  <2>7. WholeInv'
    BY <1>1, <1>2, <2>1, <2>4 DEF WholeInv
  <2> QED BY <1>3, <2>4, <2>5, <2>6, <2>7 DEF Inv
<1>5. CASE ~(subscribed /\ ~terminal)
  <2>1. reader' = reader /\ event' = event
    BY <1>2, <1>5
  <2>2. \A x : Pending(x)' <=> Pending(x)
    BY <1>2, <2>1 DEF Pending
  <2>3. SessionInv'
    BY <1>1, <1>2, <2>1 DEF SessionInv
  <2>4. HistoryInv'
    BY <1>1, <1>2, <2>1, <2>2 DEF HistoryInv
  <2>5. OnceInv'
    BY <1>1, <1>2, <2>1 DEF OnceInv
  <2>6. WholeInv'
    BY <1>1, <1>2, <2>1, <2>2 DEF WholeInv
  <2> QED BY <1>3, <2>3, <2>4, <2>5, <2>6 DEF Inv
<1> QED BY <1>4, <1>5

\* The callback queues what the reader thread has in hand.
LEMMA PushKeeps ==
  ASSUME Inv, Push
  PROVE  Inv'
<1>1. TypeOK /\ SessionInv /\ HistoryInv /\ OnceInv /\ WholeInv
  BY DEF Inv
<1>2. /\ reader = "call" /\ event_queue' = Append(event_queue, event)
      /\ reader' = IF event \in Outcomes THEN "mark" ELSE "idle"
      /\ UNCHANGED <<request, engine, event, infos, terminal, subscribed, info_history, last_complete,
                     to_replay, sse_terminal, stream, sent, losses, deleting>>
  BY DEF Push, session, client
<1>3. reader' \in {"mark", "idle"} /\ (reader' = "mark" <=> event \in Outcomes)
  BY <1>2
<1>4. subscribed /\ event \in Events
  BY <1>1, <1>2 DEF SessionInv
<1>5. event_queue \in Seq(Events) /\ NoRepeat(event_queue) /\ Fresh(event_queue, event)
  BY <1>1, <1>2 DEF TypeOK, OnceInv
<1>6. /\ event_queue' \in Seq(Events) /\ NoRepeat(event_queue')
      /\ \A x : Contains(event_queue', x) <=> Contains(event_queue, x) \/ x = event
  BY <1>2, <1>4, <1>5, InAppend
<1>7. \A x : Pending(x)' <=> Pending(x)
  BY <1>2, <1>3, <1>6 DEF Pending
<1>8. Pending(event)
  BY <1>2 DEF Pending
<1>9. TypeOK'
  BY <1>1, <1>2, <1>3, <1>6 DEF TypeOK
<1>10. SessionInv'
  BY <1>1, <1>2, <1>3, <1>4 DEF SessionInv
<1>11. HistoryInv'
  BY <1>1, <1>2, <1>3, <1>7 DEF HistoryInv
<1>12. OnceInv'
  <2>1. Apart(sent, event_queue')
    BY <1>1, <1>2, <1>6 DEF OnceInv, Apart, Fresh
  <2>2. Apart(event_queue', to_replay)
    BY <1>1, <1>2, <1>6, EventFacts DEF OnceInv, Apart, Fresh
  <2> QED BY <1>1, <1>2, <1>3, <1>6, <2>1, <2>2 DEF OnceInv
<1>13. WholeInv'
  <2>1. event \in Outcomes => engine \in {"answered", "dead"}
    BY <1>1, <1>8 DEF HistoryInv
  <2>2. request # "replayed" /\ ~Contains(to_replay, Complete) /\ ~sse_terminal
    BY <1>1, <1>2 DEF WholeInv
  <2>3. stream \notin {"done", "cut"}
    BY <1>1, <2>2 DEF WholeInv
  <2>4. subscribed /\ losses = 0 => \A n \in 1..infos : Pending(Info(n))'
    BY <1>1, <1>7 DEF WholeInv
  <2> QED BY <1>2, <1>3, <1>6, <2>1, <2>2, <2>3, <2>4 DEF WholeInv
<1> QED BY <1>9, <1>10, <1>11, <1>12, <1>13 DEF Inv

\* The stream is marked behind the outcome.
LEMMA MarkTerminalKeeps ==
  ASSUME Inv, MarkTerminal
  PROVE  Inv'
<1>1. TypeOK /\ SessionInv /\ HistoryInv /\ OnceInv /\ WholeInv
  BY DEF Inv
<1>2. /\ reader = "mark" /\ sse_terminal' /\ reader' = "idle"
      /\ UNCHANGED <<request, engine, event, infos, terminal, subscribed, info_history, last_complete,
                     to_replay, event_queue, stream, sent, losses, deleting>>
  BY DEF MarkTerminal, session, client
<1>3. TypeOK'
  <2>1. sse_terminal' \in BOOLEAN
    BY DEF MarkTerminal
  <2> QED BY <1>1, <1>2, <2>1 DEF TypeOK
<1>4. \A x : Pending(x)' <=> Pending(x)
  BY <1>2 DEF Pending
<1>5. SessionInv'
  BY <1>1, <1>2 DEF SessionInv
<1>6. HistoryInv'
  BY <1>1, <1>2, <1>4 DEF HistoryInv
<1>7. OnceInv'
  BY <1>1, <1>2 DEF OnceInv
<1>8. WholeInv'
  BY <1>1, <1>2, <1>4 DEF WholeInv
<1> QED BY <1>3, <1>5, <1>6, <1>7, <1>8 DEF Inv

\* subscribe() copies the past: exactly the info lines so far and, if it has come,
\* the answer.
LEMMA SubscribeKeeps ==
  ASSUME Inv, Subscribe
  PROVE  Inv'
<1>1. TypeOK /\ SessionInv /\ HistoryInv /\ OnceInv /\ WholeInv
  BY DEF Inv
<1> DEFINE last == IF last_complete THEN <<Complete>> ELSE <<>>
<1>2. /\ request = "subscribe" /\ subscribed' /\ request' = "replay"
      /\ to_replay' = info_history \o last
      /\ UNCHANGED <<engine, reader, event, infos, terminal, info_history, last_complete, event_queue,
                     sse_terminal, stream, sent, losses, deleting>>
  BY DEF Subscribe, thread, sse, client
<1>3. /\ ~subscribed /\ sent = <<>> /\ event_queue = <<>> /\ to_replay = <<>>
      /\ reader \notin {"call", "mark"} /\ ~sse_terminal
  BY <1>1, <1>2 DEF SessionInv
<1>4. /\ info_history \in Seq(Events) /\ NoRepeat(info_history)
      /\ \A x : Contains(info_history, x) => \E n \in 1..infos : x = Info(n)
      /\ \A n \in 1..infos : Contains(info_history, Info(n))
  <2>1. info_history \in Seq(Infos) /\ Len(info_history) = infos /\ \A n \in 1..infos : info_history[n] = Info(n)
    BY <1>1 DEF TypeOK, HistoryInv
  <2>2. info_history \in Seq(Events)
    <3>1. Seq(Infos) \subseteq Seq(Events)
      BY EventFacts
    <3> QED BY <2>1, <3>1
  <2>3. NoRepeat(info_history)
    BY <2>1, EventFacts DEF NoRepeat
  <2> QED BY <2>1, <2>2, <2>3 DEF Contains
<1>5. /\ last \in Seq(Events) /\ NoRepeat(last)
      /\ \A x : Contains(last, x) <=> last_complete /\ x = Complete
  <2>1. Complete \in Events
    BY EventFacts
  <2>2. CASE last_complete
    <3>1. <<Complete>> \in Seq(Events) /\ Len(<<Complete>>) = 1 /\ <<Complete>>[1] = Complete
      BY <2>1
    <3>2. \A x : Contains(<<Complete>>, x) <=> x = Complete
      BY <3>1 DEF Contains
    <3>3. NoRepeat(<<Complete>>)
      BY <3>1 DEF NoRepeat
    <3> QED BY <2>2, <3>1, <3>2, <3>3
  <2>3. CASE ~last_complete
    BY <2>3, InEmpty
  <2> QED BY <2>2, <2>3
<1> HIDE DEF last
<1>6. Apart(info_history, last)
  BY <1>4, <1>5, EventFacts DEF Apart
<1>7. /\ to_replay' \in Seq(Events) /\ NoRepeat(to_replay')
      /\ \A x : Contains(to_replay', x) <=> Contains(info_history, x) \/ (last_complete /\ x = Complete)
  BY <1>2, <1>4, <1>5, <1>6, InConcat
<1>8. \A x : Pending(x)' <=> Contains(to_replay', x)
  BY <1>2, <1>3, InEmpty DEF Pending
<1>9. TypeOK'
  <2>1. subscribed' \in BOOLEAN
    BY DEF Subscribe
  <2> QED BY <1>1, <1>2, <1>7, <2>1 DEF TypeOK
<1>10. SessionInv'
  BY <1>1, <1>2 DEF SessionInv
<1>11. last_complete => engine \in {"answered", "dead"} /\ reader = "idle"
  BY <1>1, <1>3 DEF SessionInv, TypeOK
<1>12. HistoryInv'
  <2>1. \A n \in Nat : Pending(Info(n))' => n \in 1..infos
    BY <1>4, <1>7, <1>8, EventFacts
  <2>2. \A o \in Outcomes : Pending(o)' => last_complete
    BY <1>4, <1>7, <1>8, EventFacts
  <2> QED BY <1>1, <1>2, <1>11, <2>1, <2>2 DEF HistoryInv
<1>13. OnceInv'
  BY <1>2, <1>3, <1>7, InEmpty DEF OnceInv, Apart
<1>14. WholeInv'
  <2>1. \A n \in 1..infos : Pending(Info(n))'
    BY <1>4, <1>7, <1>8
  <2>2. Contains(to_replay', Complete) => last_complete
    BY <1>4, <1>7, EventFacts
  <2>3. stream = "none"
    BY <1>1, <1>2 DEF SessionInv
  <2> QED BY <1>2, <1>3, <1>11, <2>1, <2>2, <2>3 DEF WholeInv
<1> QED BY <1>9, <1>10, <1>12, <1>13, <1>14 DEF Inv

\* One event is replayed: it goes behind those the reader thread has delivered.
LEMMA ReplayKeeps ==
  ASSUME Inv, Replay
  PROVE  Inv'
<1>1. TypeOK /\ SessionInv /\ HistoryInv /\ OnceInv /\ WholeInv
  BY DEF Inv
<1> DEFINE e == Head(to_replay)
<1>2. /\ request = "replay" /\ to_replay # <<>> /\ event_queue' = Append(event_queue, e)
      /\ to_replay' = Tail(to_replay)
      /\ request' = IF e = Complete THEN "replayed" ELSE "replay"
      /\ UNCHANGED <<engine, reader, event, infos, terminal, subscribed, info_history, last_complete,
                     sse_terminal, stream, sent, losses, deleting>>
  BY DEF Replay, thread, session, client
<1>3. /\ e \in Events /\ to_replay' \in Seq(Events)
      /\ \A x : Contains(to_replay, x) <=> x = e \/ Contains(to_replay', x)
      /\ NoRepeat(to_replay') /\ Fresh(to_replay', e)
  BY <1>1, <1>2, InTail DEF TypeOK, OnceInv
<1> HIDE DEF e
<1>4. event_queue \in Seq(Events) /\ NoRepeat(event_queue) /\ Fresh(event_queue, e) /\ Contains(to_replay, e)
  BY <1>1, <1>3 DEF TypeOK, OnceInv, Fresh, Apart
<1>5. /\ event_queue' \in Seq(Events) /\ NoRepeat(event_queue')
      /\ \A x : Contains(event_queue', x) <=> Contains(event_queue, x) \/ x = e
  BY <1>2, <1>3, <1>4, InAppend
<1>6. \A x : Pending(x)' <=> Pending(x)
  BY <1>2, <1>3, <1>5 DEF Pending
<1>7. request' \in {"replay", "replayed"} /\ (request' = "replayed" <=> e = Complete)
  BY <1>2
<1>8. TypeOK'
  BY <1>1, <1>2, <1>3, <1>5, <1>7 DEF TypeOK
<1>9. SessionInv'
  BY <1>1, <1>2, <1>7 DEF SessionInv
<1>10. HistoryInv'
  BY <1>1, <1>2, <1>6 DEF HistoryInv
<1>11. OnceInv'
  <2>1. Apart(sent, event_queue') /\ Apart(sent, to_replay')
    BY <1>1, <1>3, <1>4, <1>5 DEF OnceInv, Apart
  <2>2. Apart(event_queue', to_replay')
    BY <1>1, <1>3, <1>5, EventFacts DEF OnceInv, Apart, Fresh
  <2>3. reader = "call" => Fresh(event_queue', event) /\ Fresh(to_replay', event)
    BY <1>1, <1>3, <1>4, <1>5 DEF OnceInv, Fresh
  <2> QED BY <1>1, <1>2, <1>3, <1>5, <2>1, <2>2, <2>3 DEF OnceInv
<1>12. WholeInv'
  <2>1. stream = "none"
    BY <1>1, <1>2 DEF SessionInv
  <2>2. request' = "replayed" \/ Contains(to_replay', Complete) => Contains(to_replay, Complete)
    BY <1>3, <1>4, <1>7
  <2>3. request' = "replayed" => Contains(event_queue', Complete)
    BY <1>5, <1>7
  <2>4. \A x : Contains(event_queue, x) => Contains(event_queue', x)
    BY <1>5
  <2>5. subscribed /\ losses = 0 => \A n \in 1..infos : Pending(Info(n))'
    BY <1>1, <1>6 DEF WholeInv
  <2> QED BY <1>1, <1>2, <2>1, <2>2, <2>3, <2>4, <2>5 DEF WholeInv
<1> QED BY <1>8, <1>9, <1>10, <1>11, <1>12 DEF Inv

\* A replayed answer marks the stream behind itself.
LEMMA ReplayTerminalKeeps ==
  ASSUME Inv, ReplayTerminal
  PROVE  Inv'
<1>1. TypeOK /\ SessionInv /\ HistoryInv /\ OnceInv /\ WholeInv
  BY DEF Inv
<1>2. /\ request = "replayed" /\ sse_terminal' /\ request' = "replay"
      /\ UNCHANGED <<engine, reader, event, infos, terminal, subscribed, info_history, last_complete,
                     to_replay, event_queue, stream, sent, losses, deleting>>
  BY DEF ReplayTerminal, thread, session, client
<1>3. TypeOK'
  <2>1. sse_terminal' \in BOOLEAN
    BY DEF ReplayTerminal
  <2> QED BY <1>1, <1>2, <2>1 DEF TypeOK
<1>4. \A x : Pending(x)' <=> Pending(x)
  BY <1>2 DEF Pending
<1>5. Contains(event_queue, Complete) /\ reader = "idle" /\ engine \in {"answered", "dead"} /\ Complete \in Outcomes
  BY <1>1, <1>2, EventFacts DEF WholeInv
<1>6. SessionInv'
  <2>1. subscribed
    BY <1>1, <1>5, InEmpty DEF SessionInv
  <2> QED BY <1>1, <1>2, <2>1 DEF SessionInv
<1>7. HistoryInv'
  BY <1>1, <1>2, <1>4 DEF HistoryInv
<1>8. OnceInv'
  BY <1>1, <1>2 DEF OnceInv
<1>9. WholeInv'
  <2>1. stream = "none"
    BY <1>1, <1>2 DEF SessionInv
  <2> QED BY <1>1, <1>2, <1>4, <1>5, <2>1 DEF WholeInv
<1> QED BY <1>3, <1>6, <1>7, <1>8, <1>9 DEF Inv

\* The provider writes what is queued, or loses it with the connection.
LEMMA ProvideKeeps ==
  ASSUME Inv, Provide
  PROVE  Inv'
<1>1. TypeOK /\ SessionInv /\ HistoryInv /\ OnceInv /\ WholeInv
  BY DEF Inv
<1>2. /\ stream = "open" /\ event_queue' = <<>>
      /\ UNCHANGED <<request, engine, reader, event, infos, terminal, subscribed, info_history,
                     last_complete, to_replay, sse_terminal, deleting>>
  BY DEF Provide, thread, session
<1>3. request = "accepted" /\ to_replay = <<>> /\ subscribed
  <2>1. request = "accepted" /\ to_replay = <<>>
    BY <1>1, <1>2 DEF SessionInv
  <2>2. subscribed
    BY <1>1, <1>2, <2>1, InEmpty DEF SessionInv, Provide
  <2> QED BY <2>1, <2>2
<1>4. /\ <<>> \in Seq(Events) /\ NoRepeat(<<>>) /\ \A x : ~Contains(event_queue', x) /\ ~Contains(to_replay, x)
  BY <1>2, <1>3, InEmpty
<1>5. CASE /\ sent' = sent \o event_queue /\ losses' = losses
           /\ stream' \in {"open", "done", "cut"} /\ (stream' # "open" => sse_terminal)
  <2>1. /\ sent' \in Seq(Events) /\ NoRepeat(sent')
        /\ \A x : Contains(sent', x) <=> Contains(sent, x) \/ Contains(event_queue, x)
    BY <1>1, <1>5, InConcat DEF TypeOK, OnceInv
  <2>2. \A x : Pending(x)' <=> Pending(x)
    BY <1>2, <1>4, <2>1 DEF Pending
  <2>3. TypeOK'
    BY <1>1, <1>2, <1>4, <1>5, <2>1 DEF TypeOK
  <2>4. SessionInv'
    BY <1>1, <1>2, <1>3 DEF SessionInv
  <2>5. HistoryInv'
    BY <1>1, <1>2, <2>2 DEF HistoryInv
  <2>6. OnceInv'
    <3>1. Apart(sent', event_queue') /\ Apart(sent', to_replay) /\ Apart(event_queue', to_replay)
      BY <1>4 DEF Apart
    <3>2. reader = "call" => Fresh(sent', event) /\ Fresh(event_queue', event)
      BY <1>1, <1>4, <2>1 DEF OnceInv, Fresh
    <3> QED BY <1>1, <1>2, <1>4, <2>1, <3>1, <3>2 DEF OnceInv
  <2>7. WholeInv'
    <3>1. losses = 0 => \A n \in 1..infos : Pending(Info(n))'
      BY <1>1, <1>3, <2>2 DEF WholeInv
    <3> QED BY <1>1, <1>2, <1>3, <1>5, <2>1, <3>1 DEF WholeInv
  <2> QED BY <2>3, <2>4, <2>5, <2>6, <2>7 DEF Inv
<1>6. CASE sent' = sent /\ losses < MaxLosses /\ losses' = losses + 1 /\ stream' = "lost"
  <2>1. losses' # 0 /\ losses' \in 0..MaxLosses
    BY <1>1, <1>6, AnalysisAssumption DEF TypeOK
  <2>2. \A x : Pending(x)' => Pending(x)
    BY <1>2, <1>4, <1>6 DEF Pending
  <2>3. TypeOK'
    BY <1>1, <1>2, <1>4, <1>6, <2>1 DEF TypeOK
  <2>4. SessionInv'
    BY <1>1, <1>2, <1>3 DEF SessionInv
  <2>5. HistoryInv'
    BY <1>1, <1>2, <2>2 DEF HistoryInv
  <2>6. OnceInv'
    <3>1. Apart(sent, event_queue') /\ Apart(event_queue', to_replay) /\ Fresh(event_queue', event)
      BY <1>4 DEF Apart, Fresh
    <3> QED BY <1>1, <1>2, <1>4, <1>6, <3>1 DEF OnceInv
  <2>7. WholeInv'
    BY <1>1, <1>2, <1>3, <1>6, <2>1 DEF WholeInv
  <2> QED BY <2>3, <2>4, <2>5, <2>6, <2>7 DEF Inv
<1> QED BY <1>5, <1>6 DEF Provide

\* Every step keeps the invariant.
LEMMA NextInv == Inv /\ [Next]_vars => Inv'
<1> SUFFICES ASSUME Inv, [Next]_vars PROVE Inv'
  OBVIOUS
<1>1. CASE UNCHANGED vars
  <2>1. UNCHANGED <<request, engine, reader, event, infos, terminal, subscribed, info_history,
                    last_complete, to_replay, event_queue, sse_terminal, stream, sent, losses, deleting>>
    BY <1>1 DEF vars, thread, session, sse, client
  <2>2. \A x : Pending(x)' <=> Pending(x)
    BY <2>1 DEF Pending
  <2>3. TypeOK' /\ SessionInv'
    BY <2>1 DEF Inv, TypeOK, SessionInv
  <2>4. HistoryInv' /\ OnceInv' /\ WholeInv'
    BY <2>1, <2>2 DEF Inv, HistoryInv, OnceInv, WholeInv
  <2> QED BY <2>3, <2>4 DEF Inv
<1>2. CASE Handler
  BY <1>2, StartAnalysisKeeps, SubscribeKeeps, ReplayKeeps, ReplayTerminalKeeps, AcceptKeeps DEF Handler
<1>3. CASE Reader
  BY <1>3, RecordCompleteKeeps, PushKeeps, MarkTerminalKeeps DEF Reader
<1>4. CASE OnInfo \/ OnBestmove \/ OnError
  BY <1>4, OnInfoKeeps, OnBestmoveKeeps, OnErrorKeeps
<1>5. CASE Connect \/ Provide \/ Stop \/ MarkStopped
  BY <1>5, ConnectKeeps, ProvideKeeps, StopKeeps, MarkStoppedKeeps
<1> QED BY <1>1, <1>2, <1>3, <1>4, <1>5 DEF Next

-----------------------------------------------------------------------------
(* The theorems. *)

\* The inductive invariant holds in every state: where each event is between the
\* engine's thread and the client, and that it is in one place only.
THEOREM InvAlways == Spec => []Inv
<1>1. Inv /\ [Next]_vars => Inv'
  BY NextInv
<1> QED BY InitInv, <1>1, PTL DEF Spec

\* No event comes twice and no second outcome, for any number of info lines and of
\* lost connections: what subscribe() copies and what the reader thread delivers
\* never overlap.
THEOREM EventsComeOnce == Spec => []AtMostOnce
<1>1. Inv => AtMostOnce
  <2> SUFFICES ASSUME Inv PROVE NoRepeat(sent \o event_queue)
    BY DEF AtMostOnce
  <2>1. /\ sent \in Seq(Events) /\ event_queue \in Seq(Events)
        /\ NoRepeat(sent) /\ NoRepeat(event_queue) /\ Apart(sent, event_queue)
    BY DEF Inv, TypeOK, OnceInv
  <2> QED BY <2>1, InConcat
<1> QED BY <1>1, InvAlways, PTL

\* A stream that the server ends on a connection never lost has carried every info
\* line and an outcome.
THEOREM EndedStreamWhole == Spec => []EndedStreamIsWhole
<1>1. Inv => EndedStreamIsWhole
  <2> SUFFICES ASSUME Inv, stream \in {"done", "cut"}, losses = 0
               PROVE  /\ \A n \in 1..infos : Contains(sent, Info(n))
                      /\ \E o \in Outcomes : Contains(sent, o)
    BY DEF EndedStreamIsWhole
  <2>1. TypeOK /\ SessionInv /\ HistoryInv /\ WholeInv
    BY DEF Inv
  <2>2. sse_terminal /\ event_queue = <<>> /\ to_replay = <<>> /\ reader = "idle"
    BY <2>1 DEF WholeInv, SessionInv
  <2>3. subscribed
    BY <2>1, <2>2 DEF SessionInv
  <2>4. \A x : Pending(x) <=> Contains(sent, x)
    BY <2>2, InEmpty DEF Pending
  <2>5. \A n \in 1..infos : Pending(Info(n))
    BY <2>1, <2>3 DEF WholeInv
  <2>6. \E o \in Outcomes : Contains(sent, o) \/ Contains(event_queue, o)
    BY <2>1, <2>2 DEF WholeInv
  <2> QED BY <2>2, <2>4, <2>5, <2>6, InEmpty
<1> QED BY <1>1, InvAlways, PTL
=============================================================================
