---------------------------- MODULE WebStreaming ----------------------------
(***************************************************************************)
(* The streaming handlers of the web layer (src/web.rs): the tuner stream  *)
(* handlers (channel, channel service, service, program), the timeshift    *)
(* stream handlers (recorder, record), and the shared streaming() and      *)
(* do_streaming() steps with the filter pipeline's two spawned tasks.      *)
(*                                                                         *)
(* A handler is an async future: it queries the EPG or the timeshift       *)
(* manager, calls StartStreaming, creates the stop trigger, builds the     *)
(* filter list, optionally starts the airtime tracker, spawns the filter   *)
(* pipeline and then waits, under a time limit, for the first chunk.       *)
(* Every `?` is an exit that drops what the handler owns; dropping a stop  *)
(* trigger fires a stop message.  The future may also be dropped at an     *)
(* await in CancelAt.  The tuner manager and the timeshift recorder are    *)
(* abstracted to the subscription they hold for the request.               *)
(***************************************************************************)
EXTENDS Naturals, FiniteSets

CONSTANTS
    Requests,   \* HTTP requests, one handler future each
    CancelAt    \* awaits at which the handler future may be dropped

TunerKinds == {"channel", "channel_service", "service", "program"}
TimeshiftKinds == {"timeshift", "timeshift_record"}
Kinds == TunerKinds \cup TimeshiftKinds

Triggers == {"stream", "tracker"}
Awaits == {"query", "start", "track", "peek"}
PCs == {"query", "start", "build", "track", "stream", "peek", "body", "done"}

ASSUME CancelAt \subseteq Awaits

VARIABLES
    kind,      \* which handler serves the request
    pc,        \* where the handler future is
    start,     \* the StartStreaming call: none, sent, ok or err
    session,   \* the subscription held for the request: none, active, stopped
    triggers,  \* stop triggers the handler (or its terminator) owns
    fired,     \* stop messages fired, per trigger
    stopMsgs,  \* fired stop messages not yet handled
    tracker,   \* the airtime tracker: none, active, stopped
    filtered,  \* the built filter list is not empty
    pipeline,  \* the filter command pipeline: none, spawned, dropped
    pipe,      \* the task piping the stream into the pipeline: none, running, ended
    buffer,    \* the task moving pipeline output into the channel: none, running, ended
    src,       \* the subscription's stream: pending, data (a chunk came) or eof
    chan       \* the buffer channel read by do_streaming: pending, data or eof

vars == <<kind, pc, start, session, triggers, fired, stopMsgs, tracker,
          filtered, pipeline, pipe, buffer, src, chan>>

\* What do_streaming peeks: the stream itself, or the buffer channel.
PeekView(r) == IF filtered[r] THEN chan[r] ELSE src[r]

\* The receiver of the buffer channel is alive while the handler or the
\* response body owns it.
ReceiverOpen(r) == pc[r] \in {"peek", "body"}

-----------------------------------------------------------------------------
(* Drop: every trigger owned fires its stop message.                      *)

\* A timeshift reply that has arrived but is not yet taken at the await
\* holds the stream's stop trigger, and is dropped with the future.
DropTriggers(r) ==
    LET inReply == IF pc[r] = "start" /\ start[r] = "ok" /\ kind[r] \in TimeshiftKinds
                     THEN {"stream"} ELSE {}
        owned == triggers[r] \cup inReply
    IN /\ fired' = [fired EXCEPT ![r] =
                      [t \in Triggers |-> IF t \in owned
                                            THEN fired[r][t] + 1 ELSE fired[r][t]]]
       /\ stopMsgs' = stopMsgs \cup {<<r, t>> : t \in owned}
       /\ triggers' = [triggers EXCEPT ![r] = {}]

\* The handler returns (an error through `?`, or Ok after the body ends)
\* or its future is dropped: what it owns is dropped.
Exit(r) ==
    /\ pc' = [pc EXCEPT ![r] = "done"]
    /\ DropTriggers(r)

-----------------------------------------------------------------------------
(* The handlers                                                            *)

\* The EPG or timeshift manager queries before StartStreaming; any of them
\* may fail (ChannelNotFound, ServiceNotFound, ProgramNotFound, ClockNotSynced,
\* RecordNotFound), otherwise StartStreaming is sent.
EpgQuery(r) ==
    /\ pc[r] = "query"
    /\ \/ /\ pc' = [pc EXCEPT ![r] = "done"]
          /\ UNCHANGED start
       \/ /\ pc' = [pc EXCEPT ![r] = "start"]
          /\ start' = [start EXCEPT ![r] = "sent"]
    /\ UNCHANGED <<kind, session, triggers, fired, stopMsgs, tracker, filtered,
                   pipeline, pipe, buffer, src, chan>>

QueryChannel(r) == kind[r] = "channel" /\ EpgQuery(r)
QueryChannelService(r) == kind[r] = "channel_service" /\ EpgQuery(r)
QueryService(r) == kind[r] = "service" /\ EpgQuery(r)
QueryProgram(r) == kind[r] = "program" /\ EpgQuery(r)
QueryTimeshiftRecorder(r) == kind[r] = "timeshift" /\ EpgQuery(r)
QueryTimeshiftRecord(r) == kind[r] = "timeshift_record" /\ EpgQuery(r)

\* A mutant: the tuner stream gets no TunerStreamStopTrigger on the reply,
\* so nothing stops the subscription when a later step fails.
ReceiveStartNoTrigger(r) ==
    /\ pc[r] = "start"
    /\ start[r] \in {"ok", "err"}
    /\ IF start[r] = "err"
         THEN pc' = [pc EXCEPT ![r] = "done"]
         ELSE pc' = [pc EXCEPT ![r] = "build"]
    /\ triggers' = IF start[r] = "ok" /\ kind[r] \in TimeshiftKinds
                     THEN [triggers EXCEPT ![r] = {"stream"}] ELSE triggers
    /\ UNCHANGED <<kind, start, session, fired, stopMsgs, tracker, filtered,
                   pipeline, pipe, buffer, src, chan>>

\* The reply of StartStreaming (or StartTimeshift*Streaming) arrives: an
\* error is returned; a tuner stream gets its TunerStreamStopTrigger at once,
\* a timeshift stream comes with its stop trigger.
ReceiveStart(r) ==
    /\ pc[r] = "start"
    /\ start[r] \in {"ok", "err"}
    /\ IF start[r] = "err"
         THEN /\ pc' = [pc EXCEPT ![r] = "done"]
              /\ UNCHANGED triggers
         ELSE /\ pc' = [pc EXCEPT ![r] = "build"]
              /\ triggers' = [triggers EXCEPT ![r] = {"stream"}]
    /\ UNCHANGED <<kind, start, session, fired, stopMsgs, tracker, filtered,
                   pipeline, pipe, buffer, src, chan>>

\* The same steps in the other handlers, each a copy of its own: the
\* channel handler, do_get_service_stream (channel service and service
\* streams, which add the service filter), and the two timeshift handlers,
\* whose reply carries the stop trigger and which add no decode filter.
ReceiveChannelStart(r) == kind[r] = "channel" /\ ReceiveStart(r)
ReceiveServiceStart(r) == kind[r] \in {"channel_service", "service"} /\ ReceiveStart(r)
ReceiveProgramStart(r) == kind[r] = "program" /\ ReceiveStart(r)
ReceiveTimeshiftStart(r) == kind[r] = "timeshift" /\ ReceiveStart(r)
ReceiveTimeshiftRecordStart(r) == kind[r] = "timeshift_record" /\ ReceiveStart(r)

\* The template data and FilterPipelineBuilder: a rendering error is
\* returned (InvalidFilter); otherwise the filter list may or may not be
\* empty.  The program handler starts the airtime tracker next.
BuildFilters(r) ==
    /\ pc[r] = "build"
    /\ \/ /\ Exit(r)
          /\ UNCHANGED filtered
       \/ /\ \E f \in BOOLEAN : filtered' = [filtered EXCEPT ![r] = f]
          /\ pc' = [pc EXCEPT ![r] = IF kind[r] = "program" THEN "track" ELSE "stream"]
          /\ UNCHANGED <<triggers, fired, stopMsgs>>
    /\ UNCHANGED <<kind, start, session, tracker, pipeline, pipe, buffer, src, chan>>

BuildChannelFilters(r) == kind[r] = "channel" /\ BuildFilters(r)
BuildServiceFilters(r) == kind[r] \in {"channel_service", "service"} /\ BuildFilters(r)
BuildProgramFilters(r) == kind[r] = "program" /\ BuildFilters(r)
BuildTimeshiftFilters(r) == kind[r] = "timeshift" /\ BuildFilters(r)
BuildTimeshiftRecordFilters(r) == kind[r] = "timeshift_record" /\ BuildFilters(r)

\* airtime_tracker::track_airtime: fails, or starts the tracker and returns
\* its stop trigger, kept with the stream's in stop_triggers.
TrackAirtime(r) ==
    /\ pc[r] = "track"
    /\ \/ /\ Exit(r)
          /\ UNCHANGED tracker
       \/ /\ tracker' = [tracker EXCEPT ![r] = "active"]
          /\ triggers' = [triggers EXCEPT ![r] = @ \cup {"tracker"}]
          /\ pc' = [pc EXCEPT ![r] = "stream"]
          /\ UNCHANGED <<fired, stopMsgs>>
    /\ UNCHANGED <<kind, start, session, filtered, pipeline, pipe, buffer, src, chan>>

\* streaming(): without filters the stream goes to do_streaming; with
\* filters, spawn_pipeline or take_endpoints may fail (the pipeline spawned
\* is then dropped), else the pipe task and the buffer task are spawned.
Streaming(r) ==
    /\ pc[r] = "stream"
    /\ IF ~filtered[r]
         THEN /\ pc' = [pc EXCEPT ![r] = "peek"]
              /\ UNCHANGED <<triggers, fired, stopMsgs, pipeline, pipe, buffer>>
         ELSE \/ /\ Exit(r)
                 /\ UNCHANGED <<pipeline, pipe, buffer>>
              \/ /\ Exit(r)
                 /\ pipeline' = [pipeline EXCEPT ![r] = "dropped"]
                 /\ UNCHANGED <<pipe, buffer>>
              \/ /\ pipeline' = [pipeline EXCEPT ![r] = "spawned"]
                 /\ pipe' = [pipe EXCEPT ![r] = "running"]
                 /\ buffer' = [buffer EXCEPT ![r] = "running"]
                 /\ pc' = [pc EXCEPT ![r] = "peek"]
                 /\ UNCHANGED <<triggers, fired, stopMsgs>>
    /\ UNCHANGED <<kind, start, session, tracker, filtered, src, chan>>

-----------------------------------------------------------------------------
(* The tasks spawned by streaming()                                        *)

\* The pipe task: stream.pipe(input) ends when the stream ends, or when a
\* chunk can no longer be written because the pipeline has been dropped.
PipeTaskEnds(r) ==
    /\ pipe[r] = "running"
    /\ \/ src[r] = "eof"
       \/ src[r] = "data" /\ pipeline[r] = "dropped"
    /\ pipe' = [pipe EXCEPT ![r] = "ended"]
    /\ UNCHANGED <<kind, pc, start, session, triggers, fired, stopMsgs, tracker,
                   filtered, pipeline, buffer, src, chan>>

\* The buffer task receives a filtered chunk and sends it into the channel;
\* the send fails once the receiver has been dropped, and the task breaks
\* out of its loop and drops the pipeline.
BufferForward(r) ==
    /\ buffer[r] = "running"
    /\ pipe[r] = "running"
    /\ src[r] = "data"
    /\ IF ReceiverOpen(r)
         THEN /\ chan' = [chan EXCEPT ![r] = IF @ = "pending" THEN "data" ELSE @]
              /\ UNCHANGED <<buffer, pipeline>>
         ELSE /\ buffer' = [buffer EXCEPT ![r] = "ended"]
              /\ pipeline' = [pipeline EXCEPT ![r] = "dropped"]
              /\ UNCHANGED chan
    /\ UNCHANGED <<kind, pc, start, session, triggers, fired, stopMsgs, tracker,
                   filtered, pipe, src>>

\* The pipeline's output ends (its input was closed) or fails: the task
\* leaves its loop, drops the sender (closing the channel) and the pipeline.
BufferEnds(r) ==
    /\ buffer[r] = "running"
    /\ pipe[r] = "ended"
    /\ buffer' = [buffer EXCEPT ![r] = "ended"]
    /\ pipeline' = [pipeline EXCEPT ![r] = "dropped"]
    /\ chan' = [chan EXCEPT ![r] = IF @ = "pending" THEN "eof" ELSE @]
    /\ UNCHANGED <<kind, pc, start, session, triggers, fired, stopMsgs, tracker,
                   filtered, pipe, src>>

-----------------------------------------------------------------------------
(* do_streaming(): the first chunk under the time limit                   *)

\* peek() yields a chunk: the response headers are sent and the body
\* (the terminator with the stop triggers) is handed to actix.
PeekData(r) ==
    /\ pc[r] = "peek"
    /\ PeekView(r) = "data"
    /\ pc' = [pc EXCEPT ![r] = "body"]
    /\ UNCHANGED <<kind, start, session, triggers, fired, stopMsgs, tracker,
                   filtered, pipeline, pipe, buffer, src, chan>>

\* peek() yields None: Err(ProgramNotFound), the terminator is dropped.
PeekEnd(r) ==
    /\ pc[r] = "peek"
    /\ PeekView(r) = "eof"
    /\ Exit(r)
    /\ UNCHANGED <<kind, start, session, tracker, filtered, pipeline, pipe,
                   buffer, src, chan>>

\* The time limit passes first; tokio's timeout polls the inner future
\* before its timer, so it fires only while nothing has come.
PeekTimeout(r) ==
    /\ pc[r] = "peek"
    /\ PeekView(r) = "pending"
    /\ Exit(r)
    /\ UNCHANGED <<kind, start, session, tracker, filtered, pipeline, pipe,
                   buffer, src, chan>>

-----------------------------------------------------------------------------
(* Environment: the client, actix, the stream's producer, the managers    *)

\* The client disconnects, or the body stream ends: actix drops the body.
BodyDropped(r) ==
    /\ pc[r] = "body"
    /\ Exit(r)
    /\ UNCHANGED <<kind, start, session, tracker, filtered, pipeline, pipe,
                   buffer, src, chan>>

\* The handler future is dropped at an await.
Cancel(r) ==
    /\ pc[r] \in CancelAt
    /\ Exit(r)
    /\ UNCHANGED <<kind, start, session, tracker, filtered, pipeline, pipe,
                   buffer, src, chan>>

\* The broadcaster (or the record reader) delivers a chunk, or ends.
SourceChunk(r) ==
    /\ session[r] = "active"
    /\ src[r] = "pending"
    /\ src' = [src EXCEPT ![r] = "data"]
    /\ UNCHANGED <<kind, pc, start, session, triggers, fired, stopMsgs, tracker,
                   filtered, pipeline, pipe, buffer, chan>>

SourceEnds(r) ==
    /\ session[r] = "active"
    /\ src[r] # "eof"
    /\ src' = [src EXCEPT ![r] = "eof"]
    /\ UNCHANGED <<kind, pc, start, session, triggers, fired, stopMsgs, tracker,
                   filtered, pipeline, pipe, buffer, chan>>

\* The tuner manager handles StartStreaming: an error (TunerUnavailable,
\* a failed activation or Subscribe) or a subscription.  When the handler
\* has been dropped the reply, a bare stream, is dropped with it and nothing
\* stops the subscription.
TunerManagerStart(r) ==
    /\ kind[r] \in TunerKinds
    /\ start[r] = "sent"
    /\ \/ /\ start' = [start EXCEPT ![r] = "err"]
          /\ UNCHANGED session
       \/ /\ start' = [start EXCEPT ![r] = "ok"]
          /\ session' = [session EXCEPT ![r] = "active"]
    /\ UNCHANGED <<kind, pc, triggers, fired, stopMsgs, tracker, filtered,
                   pipeline, pipe, buffer, src, chan>>

\* The timeshift manager's proxy handler looks the recorder up by name
\* (RecordNotFound when there is none) and forwards the start message to
\* it, which fails when the recorder has gone.  The reply carries the
\* stream with its stop trigger; a reply dropped with the handler drops the
\* trigger, which fires.
TimeshiftManagerStart(r) ==
    /\ kind[r] \in TimeshiftKinds
    /\ start[r] = "sent"
    /\ \/ /\ start' = [start EXCEPT ![r] = "err"]
          /\ UNCHANGED <<session, fired, stopMsgs>>
       \/ /\ start' = [start EXCEPT ![r] = "ok"]
          /\ session' = [session EXCEPT ![r] = "active"]
          /\ IF pc[r] = "done"
               THEN /\ fired' = [fired EXCEPT ![r]["stream"] = @ + 1]
                    /\ stopMsgs' = stopMsgs \cup {<<r, "stream">>}
               ELSE UNCHANGED <<fired, stopMsgs>>
    /\ UNCHANGED <<kind, pc, triggers, tracker, filtered, pipeline, pipe,
                   buffer, src, chan>>

ManagerStart(r) == TunerManagerStart(r) \/ TimeshiftManagerStart(r)

\* A mutant: the stop removes the subscriber but its stream is not closed.
HandleStopKeepStream(m) ==
    /\ m \in stopMsgs
    /\ stopMsgs' = stopMsgs \ {m}
    /\ IF m[2] = "stream"
         THEN /\ session' = [session EXCEPT ![m[1]] = "stopped"]
              /\ UNCHANGED <<tracker, src>>
         ELSE /\ tracker' = [tracker EXCEPT ![m[1]] = "stopped"]
              /\ UNCHANGED <<session, src>>
    /\ UNCHANGED <<kind, pc, start, triggers, fired, filtered, pipeline, pipe,
                   buffer, chan>>

\* StopStreaming at the tuner manager removes the subscriber, whose stream
\* then ends; the tracker's stop message stops the airtime tracker.
HandleStop(m) ==
    /\ m \in stopMsgs
    /\ stopMsgs' = stopMsgs \ {m}
    /\ IF m[2] = "stream"
         THEN /\ session' = [session EXCEPT ![m[1]] = "stopped"]
              /\ src' = [src EXCEPT ![m[1]] = "eof"]
              /\ UNCHANGED tracker
         ELSE /\ tracker' = [tracker EXCEPT ![m[1]] = "stopped"]
              /\ UNCHANGED <<session, src>>
    /\ UNCHANGED <<kind, pc, start, triggers, fired, filtered, pipeline, pipe,
                   buffer, chan>>

-----------------------------------------------------------------------------

Init ==
    /\ kind \in [Requests -> Kinds]
    /\ pc = [r \in Requests |-> "query"]
    /\ start = [r \in Requests |-> "none"]
    /\ session = [r \in Requests |-> "none"]
    /\ triggers = [r \in Requests |-> {}]
    /\ fired = [r \in Requests |-> [t \in Triggers |-> 0]]
    /\ stopMsgs = {}
    /\ tracker = [r \in Requests |-> "none"]
    /\ filtered = [r \in Requests |-> FALSE]
    /\ pipeline = [r \in Requests |-> "none"]
    /\ pipe = [r \in Requests |-> "none"]
    /\ buffer = [r \in Requests |-> "none"]
    /\ src = [r \in Requests |-> "pending"]
    /\ chan = [r \in Requests |-> "pending"]

Handler(r) ==
    \/ QueryChannel(r) \/ QueryChannelService(r) \/ QueryService(r)
    \/ QueryProgram(r) \/ QueryTimeshiftRecorder(r) \/ QueryTimeshiftRecord(r)
    \/ ReceiveChannelStart(r) \/ ReceiveServiceStart(r) \/ ReceiveProgramStart(r)
    \/ ReceiveTimeshiftStart(r) \/ ReceiveTimeshiftRecordStart(r)
    \/ BuildChannelFilters(r) \/ BuildServiceFilters(r) \/ BuildProgramFilters(r)
    \/ BuildTimeshiftFilters(r) \/ BuildTimeshiftRecordFilters(r)
    \/ TrackAirtime(r) \/ Streaming(r)
    \/ PeekData(r) \/ PeekEnd(r) \/ PeekTimeout(r)

Tasks(r) == PipeTaskEnds(r) \/ BufferForward(r) \/ BufferEnds(r)

Environment(r) ==
    \/ BodyDropped(r) \/ Cancel(r) \/ SourceChunk(r) \/ SourceEnds(r)
    \/ ManagerStart(r)

Next ==
    \/ \E r \in Requests : Handler(r) \/ Tasks(r) \/ Environment(r)
    \/ \E m \in stopMsgs : HandleStop(m)

\* The runtime polls every ready task and the actors drain their mailboxes:
\* the spawned tasks, the manager's handling of StartStreaming and of stop
\* messages are weakly fair.  The client, the stream's producer and the
\* handler's own progress through its awaits are not assumed.
Fairness ==
    /\ \A r \in Requests : WF_vars(PipeTaskEnds(r)) /\ WF_vars(BufferEnds(r))
                           /\ WF_vars(ManagerStart(r))
    /\ \A r \in Requests, t \in Triggers : WF_vars(HandleStop(<<r, t>>))

Spec == Init /\ [][Next]_vars /\ Fairness

-----------------------------------------------------------------------------
(* Properties                                                              *)

TypeOK ==
    /\ kind \in [Requests -> Kinds]
    /\ pc \in [Requests -> PCs]
    /\ start \in [Requests -> {"none", "sent", "ok", "err"}]
    /\ session \in [Requests -> {"none", "active", "stopped"}]
    /\ triggers \in [Requests -> SUBSET Triggers]
    /\ fired \in [Requests -> [Triggers -> Nat]]
    /\ stopMsgs \subseteq Requests \X Triggers
    /\ tracker \in [Requests -> {"none", "active", "stopped"}]
    /\ filtered \in [Requests -> BOOLEAN]
    /\ pipeline \in [Requests -> {"none", "spawned", "dropped"}]
    /\ pipe \in [Requests -> {"none", "running", "ended"}]
    /\ buffer \in [Requests -> {"none", "running", "ended"}]
    /\ src \in [Requests -> {"pending", "data", "eof"}]
    /\ chan \in [Requests -> {"pending", "data", "eof"}]

\* Section 8 (Stream Terminator): once a handler has finished, by an error
\* at any `?`, a timeout, a dropped body or a dropped future, each
\* subscription and airtime tracker started for it has had exactly one stop
\* message fired, and no trigger fires twice.
StopFiredExactlyOnce ==
    \A r \in Requests :
        /\ \A t \in Triggers : fired[r][t] <= 1
        /\ pc[r] = "done" /\ session[r] # "none" => fired[r]["stream"] = 1
        /\ pc[r] = "done" /\ tracker[r] # "none" => fired[r]["tracker"] = 1

\* Section 5 (Cancellation): after a handler has finished, its tuner
\* subscription and airtime tracker are eventually stopped and its filter
\* pipeline is eventually dropped (the stop closes the stream, the pipe
\* task closes the pipeline's input, the buffer task sees its output end).
EverythingReleased ==
    \A r \in Requests :
        pc[r] = "done" ~> /\ session[r] # "active"
                          /\ tracker[r] # "active"
                          /\ pipeline[r] # "spawned"

=============================================================================
