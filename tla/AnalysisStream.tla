--------------------------- MODULE AnalysisStream ---------------------------
(***************************************************************************)
(* One engine analysis, from POST /api/engine/analyses to the end of its   *)
(* event stream.                                                           *)
(*                                                                         *)
(* Four threads take part: the request handler (starts the engine, then    *)
(* subscribes and replays what it missed), ucilib's reader thread (calls   *)
(* on_info, on_bestmove and on_error), the content provider of the event   *)
(* stream, and the handler of DELETE.  The session's callback_mutex and    *)
(* the stream's queue_mutex make single sections atomic; callbacks run     *)
(* outside both.  An action is one such section.                           *)
(*                                                                         *)
(* An event is its kind and, for an info event, its number.                *)
(***************************************************************************)
EXTENDS Integers, Sequences, SequencesExt

CONSTANTS
  MaxInfos,     \* bound: info lines of the engine
  MaxLosses     \* bound: connections lost

ASSUME AnalysisAssumption == MaxInfos \in Nat /\ MaxLosses \in Nat

VARIABLES
  request,        \* how far POST has got
  engine,         \* the engine process
  reader,         \* what ucilib's reader thread is doing
  event,          \* the event it has in hand
  infos,          \* info lines so far
  \* session
  terminal, subscribed, info_history, last_complete,
  \* subscribe(): what it has copied and not yet replayed
  to_replay,
  \* analysis_sse_session
  event_queue, sse_terminal,
  stream,         \* the client's connection: "none", "open", "lost", "done", "cut"
  sent,           \* what has been written to it
  losses,
  deleting        \* DELETE is between engine.stop() and terminal.store()

session == <<terminal, subscribed, info_history, last_complete>>
thread  == <<reader, event>>
sse     == <<event_queue, sse_terminal>>
client  == <<stream, sent, losses>>
vars    == <<request, engine, thread, infos, session, to_replay, sse, client, deleting>>

Info(n)  == [kind |-> "info", no |-> n]
Complete == [kind |-> "complete", no |-> 0]
Failure  == [kind |-> "error", no |-> 0]
NoEvent  == [kind |-> "none", no |-> 0]
Outcomes == {Complete, Failure}

Init ==
  /\ request = "start" /\ engine = "off" /\ reader = "idle" /\ event = NoEvent /\ infos = 0
  /\ terminal = FALSE /\ subscribed = FALSE /\ info_history = <<>> /\ last_complete = FALSE
  /\ to_replay = <<>> /\ event_queue = <<>> /\ sse_terminal = FALSE
  /\ stream = "none" /\ sent = <<>> /\ losses = 0 /\ deleting = FALSE

-----------------------------------------------------------------------------
(* POST /api/engine/analyses. *)

\* start_analysis(): the engine is launched and configured, the callbacks are
\* registered and the session is entered, and go() starts the search; any of it
\* may fail, and then no session is left.
StartAnalysis ==
  /\ request = "start"
  /\ \/ request' = "subscribe" /\ engine' = "searching"
     \/ request' = "refused" /\ UNCHANGED engine
  /\ UNCHANGED <<thread, infos, session, to_replay, sse, client, deleting>>

\* Seeded fault of Subscribe: only the info events are copied.
SubscribeWithoutOutcome ==
  /\ request = "subscribe"
  /\ subscribed' = TRUE
  /\ to_replay' = info_history
  /\ request' = "replay"
  /\ UNCHANGED <<engine, thread, infos, terminal, info_history, last_complete, sse, client, deleting>>

\* subscribe(): the callbacks are installed and the past is copied in one section ...
Subscribe ==
  /\ request = "subscribe"
  /\ subscribed' = TRUE
  /\ to_replay' = info_history \o IF last_complete THEN <<Complete>> ELSE <<>>
  /\ request' = "replay"
  /\ UNCHANGED <<engine, thread, infos, terminal, info_history, last_complete, sse, client, deleting>>

\* ... and replayed afterwards, event by event, while the reader thread may deliver
\* new ones.
Replay ==
  /\ request = "replay" /\ to_replay # <<>>
  /\ event_queue' = Append(event_queue, Head(to_replay))
  /\ to_replay' = Tail(to_replay)
  /\ request' = IF Head(to_replay) = Complete THEN "replayed" ELSE "replay"
  /\ UNCHANGED <<engine, thread, infos, session, sse_terminal, client, deleting>>

\* The on_complete callback marks the stream after it has queued the event.
ReplayTerminal ==
  /\ request = "replayed"
  /\ sse_terminal' = TRUE /\ request' = "replay"
  /\ UNCHANGED <<engine, thread, infos, session, to_replay, event_queue, client, deleting>>

\* The analysis is entered in analyses and its id returned.
Accept ==
  /\ request = "replay" /\ to_replay = <<>>
  /\ request' = "accepted"
  /\ UNCHANGED <<engine, thread, infos, session, to_replay, sse, client, deleting>>

-----------------------------------------------------------------------------
(* ucilib's reader thread. *)

\* on_info: recorded, and the callback looked up, in one section.
OnInfo ==
  /\ engine = "searching" /\ reader = "idle" /\ infos < MaxInfos
  /\ infos' = infos + 1
  /\ info_history' = Append(info_history, Info(infos'))
  /\ IF subscribed THEN reader' = "call" /\ event' = Info(infos') ELSE UNCHANGED thread
  /\ UNCHANGED <<request, engine, terminal, subscribed, last_complete, to_replay, sse, client, deleting>>

\* on_bestmove: the session is terminal before the event is recorded.
OnBestmove ==
  /\ engine = "searching" /\ reader = "idle"
  /\ engine' = "answered" /\ terminal' = TRUE /\ reader' = "bestmove"
  /\ UNCHANGED <<request, event, infos, subscribed, info_history, last_complete, to_replay, sse,
                 client, deleting>>

RecordComplete ==
  /\ reader = "bestmove"
  /\ last_complete' = TRUE
  /\ IF subscribed THEN reader' = "call" /\ event' = Complete
                   ELSE reader' = "idle" /\ UNCHANGED event
  /\ UNCHANGED <<request, engine, infos, terminal, subscribed, info_history, to_replay, sse, client,
                 deleting>>

\* Seeded fault of OnError: it does not look whether the analysis has ended.
OnErrorAlways ==
  /\ engine \in {"searching", "answered"} /\ reader = "idle"
  /\ engine' = "dead" /\ terminal' = TRUE
  /\ IF subscribed THEN reader' = "call" /\ event' = Failure ELSE UNCHANGED thread
  /\ UNCHANGED <<request, infos, subscribed, info_history, last_complete, to_replay, sse, client, deleting>>

\* on_error, when the engine's process has died: nothing is recorded, and nobody is
\* called once the session is terminal.
OnError ==
  /\ engine \in {"searching", "answered"} /\ reader = "idle"
  /\ engine' = "dead" /\ terminal' = TRUE
  /\ IF subscribed /\ ~terminal THEN reader' = "call" /\ event' = Failure ELSE UNCHANGED thread
  /\ UNCHANGED <<request, infos, subscribed, info_history, last_complete, to_replay, sse, client, deleting>>

\* Seeded fault of Push: the stream is marked before the last event is queued.
PushMarking ==
  /\ reader \in {"call", "mark"}
  /\ IF event \in Outcomes /\ reader = "call"
     THEN sse_terminal' = TRUE /\ reader' = "mark" /\ UNCHANGED event_queue
     ELSE event_queue' = Append(event_queue, event) /\ reader' = "idle" /\ UNCHANGED sse_terminal
  /\ UNCHANGED <<request, engine, event, infos, session, to_replay, client, deleting>>

\* The callbacks of POST: push_event(), then, for an outcome, the terminal mark.
Push ==
  /\ reader = "call"
  /\ event_queue' = Append(event_queue, event)
  /\ reader' = IF event \in Outcomes THEN "mark" ELSE "idle"
  /\ UNCHANGED <<request, engine, event, infos, session, to_replay, sse_terminal, client, deleting>>

MarkTerminal ==
  /\ reader = "mark"
  /\ sse_terminal' = TRUE /\ reader' = "idle"
  /\ UNCHANGED <<request, engine, event, infos, session, to_replay, event_queue, client, deleting>>

-----------------------------------------------------------------------------
(* GET .../stream and DELETE. *)

Connect ==
  /\ request = "accepted" /\ stream \in {"none", "lost"}
  /\ stream' = "open"
  /\ UNCHANGED <<request, engine, thread, infos, session, to_replay, sse, sent, losses, deleting>>

\* The content provider takes all that is queued and reads the mark in one section,
\* writes, and ends the stream if it was marked: with sink.done() if there was
\* nothing left to write, else by returning false, which drops the connection.
\* A failed write loses the events.
Provide ==
  /\ stream = "open" /\ (event_queue # <<>> \/ sse_terminal)
  /\ event_queue' = <<>>
  /\ \/ /\ sent' = sent \o event_queue
        /\ stream' = CASE ~sse_terminal         -> "open"
                       [] event_queue = <<>>    -> "done"
                       [] OTHER                 -> "cut"
        /\ UNCHANGED losses
     \/ /\ event_queue # <<>> /\ losses < MaxLosses
        /\ stream' = "lost" /\ losses' = losses + 1 /\ UNCHANGED sent
  /\ UNCHANGED <<request, engine, thread, infos, session, to_replay, sse_terminal, deleting>>

\* stop_analysis(): refused once terminal; engine.stop() may fail.
Stop ==
  /\ request = "accepted" /\ ~terminal /\ ~deleting
  /\ deleting' = TRUE
  /\ UNCHANGED <<request, engine, thread, infos, session, to_replay, sse, client>>

MarkStopped ==
  /\ deleting
  /\ terminal' = TRUE /\ deleting' = FALSE
  /\ UNCHANGED <<request, engine, thread, infos, subscribed, info_history, last_complete, to_replay,
                 sse, client>>

-----------------------------------------------------------------------------
Handler == StartAnalysis \/ Subscribe \/ Replay \/ ReplayTerminal \/ Accept

Reader == RecordComplete \/ Push \/ MarkTerminal

Next ==
  \/ Handler \/ OnInfo \/ OnBestmove \/ OnError \/ Reader
  \/ Connect \/ Provide \/ Stop \/ MarkStopped

Spec == Init /\ [][Next]_vars

\* Threads run.  A search has a depth or a time limit, so it ends (in an answer or
\* in the engine's death) when nobody stops it.
FairSpec ==
  /\ Spec
  /\ WF_vars(Handler) /\ WF_vars(Reader) /\ WF_vars(OnBestmove)
  /\ WF_vars(Provide) /\ WF_vars(MarkStopped)

-----------------------------------------------------------------------------
(* Properties. *)

Infos  == {Info(n) : n \in 1..MaxInfos}
Events == Infos \cup Outcomes

\* Every event queued or sent is one the engine's thread handed over, and every
\* flag of the session and the stream has its type.
TypeOK ==
  /\ request \in {"start", "subscribe", "replay", "replayed", "accepted", "refused"}
  /\ engine \in {"off", "searching", "answered", "dead"}
  /\ reader \in {"idle", "bestmove", "call", "mark"} /\ event \in Events \cup {NoEvent}
  /\ infos \in 0..MaxInfos
  /\ terminal \in BOOLEAN /\ subscribed \in BOOLEAN /\ last_complete \in BOOLEAN
  /\ info_history \in Seq(Infos) /\ to_replay \in Seq(Events)
  /\ event_queue \in Seq(Events) /\ sent \in Seq(Events) /\ sse_terminal \in BOOLEAN
  /\ stream \in {"none", "open", "lost", "done", "cut"} /\ losses \in 0..MaxLosses
  /\ deleting \in BOOLEAN

\* Two events of which a stream may carry only one.
Same(x, y) == x = y \/ {x, y} \subseteq Outcomes

NoRepeat(s) == \A i, j \in 1..Len(s) : Same(s[i], s[j]) => i = j

\* Of complete and error events together there is at most one, and no info event
\* comes twice: what subscribe() replays and what the reader thread delivers live
\* never overlap, and an engine that dies after its answer is no error.
AtMostOnce == NoRepeat(sent \o event_queue)

\* A stream the server ends on a connection that was never lost has carried
\* every info event and an outcome: none is dropped between the engine's
\* start and the subscription, between replay and live delivery, or between
\* the queue and the terminal mark.
EndedStreamIsWhole ==
  stream \in {"done", "cut"} /\ losses = 0 =>
    /\ \A n \in 1..infos : Contains(sent, Info(n))
    /\ \E o \in Outcomes : Contains(sent, o)

\* An analysis the engine has answered ends the stream of whoever listens, also
\* when the answer came before the subscription, after a stop, or while the
\* connection was lost.
AnswerEndsStream == (last_complete /\ stream = "open") ~> (stream # "open")

\* What openapi.yaml says of the stream: info events always precede the terminal
\* event, and none is emitted after it.
TerminalEventIsLast ==
  \A i \in 1..Len(sent) : sent[i] \in Outcomes => i = Len(sent)

\* What openapi.yaml says of the stream: zero or more info events are followed by
\* exactly one terminal event.
EveryStreamEnds == (stream = "open") ~> (stream # "open")
=============================================================================
