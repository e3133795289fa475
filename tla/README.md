# TLA+ models of mirakc

This directory holds TLA+ specifications of the concurrent core of mirakc,
the TLC configurations that check them, and `PROJECT.json`. `PROJECT.json`
records which module definition translates which source lines ("map"), the
runs, the mutants that show each checked property can fail, the findings and
the hazards of the code.

## The system

mirakc shares a fixed pool of tuner devices among many HTTP consumers and
keeps per-service timeshift recordings. Every component is an actor (actlet):
it owns its state and handles one message of its mailbox at a time. Calls are
request/reply messages. Emits and fires are one-way.

| Part | Source | Interacts with |
|---|---|---|
| TunerManager and Tuner (C3, C4) | `mirakc-core/src/tuner.rs` | web handlers, airtime trackers and recorders call `StartStreaming`; `TunerStreamStopTrigger` fires `StopStreaming` |
| Broadcaster (C2) | not under src/ | each tuner session owns one; `Subscribe` fails once it has ended |
| Command pipeline (C1) | not under src/ | spawned per session; spawning may fail |
| TimeshiftManager (C6) | `mirakc-core/src/timeshift/manager.rs` | owns the recorders, receives their `TimeshiftEvent`s, forwards them to registered emitters, health-checks recorders every minute |
| TimeshiftRecorder (C5) | not under src/ (spec section 4.5) | emits Started, RecordStarted, RecordEnded, Stopped to the manager |
| ScriptRunner | `mirakc-core/src/script_runner.rs` | runs hook scripts for EPG and recording events under a semaphore |
| Web handlers, StreamTerminator (C8) | `src/web.rs` | call StartStreaming, hold the stop trigger while streaming |
| Filter pipeline builder (C7) | not under src/ | the stream handlers build their filter list with it; a rendering error is `InvalidFilter` |
| Access control, FilterSetting, escape, error_response | `src/web.rs` | pure address, string and status functions |

### Inventory of state and operations

* **TunerManager.** The state is:
  * a tuner array, each tuner `Inactive` or `Active(TunerSession)`;
  * a session holds an id `(tuner_index, session_number)`, a channel, a subscriber map `serial -> TunerUser` and `next_serial_number`;
  * a process-wide atomic session counter.

  The operations are:
  * `StartStreaming`, which runs `activate_tuner` (rules: Tracker, dedicated, reuse, activate, grab, unavailable) and then the broadcaster's `Subscribe`;
  * `StopStreaming`, which checks the session id, removes the serial and deactivates the tuner at zero users;
  * `QueryTuners`, which is read-only and builds the `MirakurunTuner` view of each tuner.
* **TimeshiftManager.** The state is an ordered map of recorder holders (address, cached `started`, cached `current_record_id`) and an emitter registry. The operations are:
  * `RegisterEmitter`, which spawns a replay task and registers the emitter;
  * `UnregisterEmitter`;
  * `HealthCheck`, which respawns a recorder that has gone and resets its cache;
  * `ServicesUpdated`, which is forwarded to the recorders;
  * `TimeshiftEvent`, which updates the cache and emits to every emitter;
  * the query proxies, which forward a call to a recorder and change nothing.
* **ScriptRunner.** The state is a semaphore sized by `ScriptRunner::new`. Each of four handlers spawns a task that acquires a permit and runs a script.
* **Web streaming handlers.** Each handler is an async future with awaits on the EPG, the tuner or timeshift manager, the airtime tracker and the first chunk. Every `?` drops the stop triggers created so far, and dropping a trigger fires a stop message. With filters, `streaming()` spawns a pipe task and a buffer task around the filter pipeline.
* **Pure helpers of web.rs.** These are the access-control decision, `escape()` and `error_response`'s status mapping.

The hard behaviours are:
* **Fire-and-forget stop messages.** They are delivered after the tuner may have been reactivated.
* **Partial failures in StartStreaming.**
  * Pipeline spawn failure.
  * Subscribe failure after the user was recorded.
  * Deactivate-then-activate in a grab.
* **The replay task racing the manager's live events.**
* **A respawn racing the events of the recorder that died.**
* **Blocking emits.**
* **Semaphore exhaustion.**

`PROJECT.json` lists each hazard at the line where it arises.

## Modules

### `TunerManager.tla` (C3, C4 and the consumer side of C8)

* **State.**
  * `session[t]` is `NoSession` (`TunerActivity::Inactive`) or a record. The record holds the session number, channel, subscriber map, next serial and whether its broadcaster has ended.
  * `counter` is the session COUNTER.
  * `stopMsgs` is the set of `StopStreaming` messages fired and not yet handled. It is a set, so they are handled in any order.
  * `cstate`, `creq` and `csub` describe each consumer: idle, waiting for the reply, replied, or streaming; its request; and its subscription id.
* **Actions.**
  * `HandleStartStreaming(c)` is the whole handler. It is a disjunction of one action per admission rule (`StartTracker`, `StartDedicated`, `StartReuse`, `StartActivate`, `StartGrab`, `StartUnavailable`).
    * Each rule's guard is the code's search order.
    * "First tuner found" is `Min` over tuner indexes.
    * `FilterCommandsFail` is a tuner filter that fails to render, before any tuner is touched. `TunerActivate` is `Tuner::activate` on the tuner's activity as it is at that point (Inactive after the grab's `deactivate()`): `make_command` may fail, leaving the activity as it was and taking no session number. Otherwise activation takes a session number, and spawning the pipeline may fail.
    * `ActivityActivate` and `ActivitySubscribe` are `TunerActivity::activate` and `TunerActivity::subscribe`, with their `panic!` arms (activating an Active activity, subscribing to an Inactive one) as the `Panic` step, after which the actor handles nothing more.
    * `SubscribeBroadcaster` records the user and deactivates the tuner if the broadcaster has ended.
  * `HandleStopStreaming(id)` is the handler with `TunerManager::stop_streaming` (`ManagerStopStreaming`), `Tuner::stop_streaming` and `TunerSession::stop_streaming`.
  * `DeactivateTuner` and `TakeSessionNumber` are `deactivate_tuner` and `TunerSessionId::new`.
  * `BroadcasterEnds(t)` abstracts the broadcaster seeing end of stream.
  * The consumer actions are:
    * `RequestChannel`, the web handlers and the on-air tracker;
    * `RequestTracker`, the airtime tracker of `get_program_stream`;
    * `ReceiveReply`, which creates the stop trigger;
    * `StreamDropped`, where the trigger fires.
* **Properties.**
  * `TypeOK`.
  * `SubscriptionsTracked`: a consumer holding a subscription stays a subscriber of its session for as long as that session lives. No stop message of another consumer removes it, in particular a late one for an earlier session whose serials restarted at 1.
  * `NoOrphanSubscriber`: every subscriber of a live session belongs to a consumer holding its id, or has a stop message in flight.
  * `NoLeakedSession`: once every consumer is idle and every stop message is handled, all tuners are inactive.
  * `PreemptionRespectsPriority` (action property): a step that tears down a session's users did so for a request of higher priority, or for the grab priority.
  * `DedicatedIsolation`: a dedicated tuner is used only by its owner or by trackers of its streams.
  * `AdmissionMatchesChannel`: section 8 of the specification, checked only in the violation runs.
  * `NoIdleTunerInUse`: the `QueryTuners` view (`QueryTuners`, `MirakurunTuner`, `TunerUsers`) never shows a tuner in use with no users. A session whose last user has left, or whose Subscribe failed, must be deactivated in the same handler.
  * `NoActivityPanic`: the manager never reaches a `panic!` arm of `TunerActivity`. The mutant `StartGrabNoDeactivate` drops the grab's `tuner.deactivate()`.
  * `ImplementsTunerPool`: the manager implements `TunerPool` (below) under the refinement mapping `PoolTuned`, `PoolUsers`, `PoolEnded`.

### `TunerPool.tla` (what the tuner manager promises)

An abstract specification with no admission order, session numbers or consumers. A tuner is off, or tuned to one channel for a set of users, each held under an opaque handle with a priority.
* `Tune`: an idle tuner is tuned for its first user.
* `Join`: a user joins a tuned tuner whose upstream has not ended.
* `Preempt`: a request of the grab priority, or of a priority above every user's, takes the tuner from them all. The tuner is retuned for it, or left off when tuning fails.
* `Leave`: a user leaves. The tuner is switched off with its last user.
* `End` and `Abort`: the upstream ends; a tuner whose upstream has ended may be dropped with all its users (a failed Subscribe).

`MCTunerManager.tla` instantiates it as `Pool` with the mapping defined at the end of `TunerManager.tla`:
* an active tuner is tuned to its session's channel;
* its users are the session's subscribers, each under its `TunerSubscriptionId`;
* its upstream has ended when the session's broadcaster has.

A stale `StopStreaming` and a reply to a consumer are stuttering steps of the pool. The property is checked in the contention run. The mixed run's state space is too large for it within the time limit.

`MCTunerManager.tla` gives tuners, channels and bounds.
* **Bounds.**
  * `MaxSessions` = 3 activations.
  * `MaxSerial` = 3 serials per session.
  * `MaxInFlight` = 2 unhandled stop messages.

  They are a state constraint rather than guards, so a capped state is not reported as a deadlock.
* **Scenarios.**
  * `MCContention.cfg`: one GR tuner and two web clients with priorities {0,1}, plus the grab priority. This covers reuse, grab, unavailable, stale stops and broadcaster end. Three activations on one tuner are enough for a stop message of session 0 to arrive after sessions 1 and 2 were activated. Two channels are enough for a grab to change channel.
  * `MCMixed.cfg`: a BS tuner, a shared GR tuner and a GR tuner dedicated to `onair`, with a web client, `onair` and an airtime tracker. The bounds here (`WithinMixBounds`) are:
    * two activations;
    * two subscribers per session, so that a tracker can join a web client's session;
    * one stop message in flight.

    These keep the run under two minutes.
  * `MCAdmission.cfg`: the same tuners and clients, with the default bounds, for the admission violation.

### `TimeshiftManager.tla` (C6, with C5 as its environment)

* **State.**
  * `holder` is the RecorderHolder cache.
  * `mbox` is the manager's mailbox, in arrival order.
  * `recorder` is each recorder actor: alive, started, current record, next id. Record ids persist across respawns, as the sidecar does.
  * `service` is the last service availability forwarded.
  * `estate` is each emitter's registration state.
  * `snap` and `sent` are the replay computed at registration and the replay task's progress.
  * `live` and `seen` are what the manager itself emitted to an emitter, and what was sent into the emitter's channel, in order.
  * `queued` is the number of events in an emitter's channel not yet received. The channel holds `ChanCap` events.
  * `outbox` is the event the TimeshiftEvent handler still has to send to each emitter. The handler ends, and the manager takes its next message (`Idle`), only when every send has completed.
* **Actions.**
  * One per handler: `HandleRegisterEmitter`, `HandleUnregisterEmitter`, `HandleHealthCheck`, `HandleServicesUpdated`, `HandleTimeshiftEvent`.
  * `LiveEmit(e)`, one send of `event_emitters.emit(msg).await`. It waits while the channel is full. A send to a dropped receiver fails at once (`Send`).
  * `ReplayTaskStep`, one iteration of the spawned replay task, with the same blocking send.
  * `Consume(e)`, spec-modelled: a registered observer receives the next event. An observer waiting for the reply of RegisterEmitter receives nothing, but its receiver already exists (`ReceiverAlive`), so sends to it wait for room rather than fail. `EmitterUnregister` drops the receiver with its queued events.
  * `HealthCheckTick`, the cron task. Its call waits for the reply, so at most one HealthCheck is queued. The task loops for as long as the manager answers, so the step is weakly fair.
  * The environment, spec-modelled: `EpgServicesUpdated`, and the recorder's `RecorderStart`, `RecorderProgramChange` and `RecorderStop`. `RecorderStop` covers service loss, and tuner loss, after which the actor is gone.
* **Properties.**
  * `TypeOK`.
  * `CacheConsistentWhenQuiet`: with the mailbox drained, the cache equals each recorder's state.
  * `ReplayConsistentWithLive`: the replay followed by the live events is well ordered.
  * `EmitterEventsWellOrdered`: what the emitter actually receives is well ordered.
  * `RegistrationCompletes` (liveness): an observer that called RegisterEmitter gets its reply. This is the deadlock of issue #705. The mutant `HandleRegisterEmitterInline` emits the replay from the handler, as the code did before the replay task. With a channel of one event and a replay of two, that registration never completes.
  * `EmitsComplete` (liveness): every send of the TimeshiftEvent handler completes, so the manager takes its next message. The mutant `LiveEmitBlocking` waits for room in the channel of an observer that has unregistered.
  * `RecorderRespawned` (liveness): a recorder lost with its tuner runs again after a later health check. The mutant `HandleHealthCheckNoStore` resets the cache but keeps the dead address.
  * `NoEventLost`: an observer that stays registered has been sent every replayed event and every live event the handler has finished sending. The mutant `LiveEmitLossy` drops the event when the channel is full, as a `try_send` would.

  "Well ordered" is section 5's order of record events, with increasing ids. It is computed by folding `Step` over the events of each recorder.

`MCTimeshiftManager.tla`: one recorder and one emitter, an emitter channel of one event (`ChanCap` = 1), at most 4 queued messages and 5 received events. Record ids go up to 3 in the violation runs and up to 2 in `MCTimeshift.cfg`. That is enough for a full start, program change, stop and respawn cycle with a registration in flight. A channel of one event is smaller than a replay of Started and RecordStarted, the case of issue #705.

### `ScriptRunner.tla`

* **State.**
  * `registered` is the emitters `started()` has registered, in order.
  * `inbox` is the actor's mailbox.
  * `tasks` are the spawned tasks: kind, id, state (spawned, waiting, running, writing or done), and the input lines still to write.
  * `waiters` is the semaphore's FIFO queue. tokio's semaphore is fair.
  * `permits` is the number of free permits.
* **Actions.**
  * `RegisterEmitter` is one of the four calls of `started()`, in `RegistrationOrder`. No handler runs before all four have returned.
  * `HandleEvent(kind)` is one handler: `has_*_script`, then `create_*_task`, then `spawn_task`. Four named handlers instantiate it.
  * `Acquire(i)` is `semaphore.acquire().await`.
  * `SpawnScript(i)`, `WriteLine(i)` and `WaitScript(i)` are the steps of a `run_*_script` function: `spawn_command`, one `write_line` per input line (two for a failed recording), then `child.wait()`. Each `?` may fail.
  * `Finish(i)` is the end of the script's future, by any of those errors or with the exit status. The outcome is only logged. The permit goes to the first waiter, or back to the pool.
  * `EmitEvent` is the EPG and the recording manager, spec-modelled. An emitter delivers only to registered actors.
* **Properties.**
  * `RunningWithinConcurrency`: no more scripts run at once than `Permits(Concurrency)`; a script runs, holding its permit, from the acquire through spawn, stdin writing and wait (task states running and writing).
  * `EveryScriptRuns` (liveness): every spawned script eventually finishes. It is checked with concurrency `Number(0)`.
  * `ImplementsHookScripts`: the runner implements `HookScripts` (below) under the mapping `HookJobs`.

### `HookScripts.tla` (what the script runner promises)

An abstract specification: a job is queued per event with a configured script (`Submit`), starts while fewer than `Limit` run (`Start`), and ends (`End`), possibly handing its slot to a queued job in the same step. No order is promised. `Fairness` is strong for `Start`: a queued job that is repeatedly able to start eventually does, which is what the fair semaphore gives. `HookJobs`, at the end of `ScriptRunner.tla`, maps each task to a job: spawned and waiting tasks are queued (`JobState`), running and writing tasks are running, and finished ones are done. `MCScriptRunner.tla` instantiates it as `Scripts` with `Limit` the clamped permit count; the mutant `AcquireDropped` (a permit acquire that forgets to take it) breaks the refinement.

`MCScriptRunner.tla`: one program id, at most 4 events queued or spawned, `NumCpus` = 2, and the three recording scripts configured. The EPG script is not configured, so both branches of a handler are taken. `MCScripts.cfg` uses concurrency `Number(0)`. That is the boundary the clamp in `ScriptRunner::new` exists for. With it, the permit bound is mutual exclusion.

### `WebStreaming.tla` (C8 and the streaming handlers)

* **State.** Each request has:
  * its handler kind (six kinds);
  * `pc`, the handler's position;
  * `start`, the StartStreaming call;
  * `session`, the subscription the manager holds for it;
  * `triggers` owned and `fired` counts;
  * `tracker`, the airtime tracker;
  * `pipeline`, `pipe` and `buffer`, the filter pipeline and its two tasks;
  * `src` and `chan`, what the stream and the buffer channel have yielded.

  `stopMsgs` holds the fired stop messages.
* **Actions.**
  * One query action per handler (`QueryChannel` … `QueryTimeshiftRecord`).
  * `ReceiveStart`, which creates the `TunerStreamStopTrigger`. A timeshift reply brings its own trigger.
  * `BuildFilters` and `TrackAirtime`.
  * Each handler has its own copy of the reply and filter-building code. `ReceiveChannelStart` … `ReceiveTimeshiftRecordStart` and `BuildChannelFilters` … `BuildTimeshiftRecordFilters` restrict the two steps to each handler's kind. The channel-service and service handlers share `do_get_service_stream`.
  * `Streaming`, with the `spawn_pipeline` and `take_endpoints` failures.
  * The tasks `PipeTaskEnds`, `BufferForward` and `BufferEnds`.
  * `PeekData`, `PeekEnd` and `PeekTimeout`, the three outcomes of the timed peek.
  * `Exit(r)`, every return: it drops the triggers (`DropTriggers`), including a timeshift reply's trigger when the future is dropped with that reply received but not yet taken.
  * The managers: `TunerManagerStart`, `TimeshiftManagerStart` (the proxy handler) and `HandleStop`.
  * The environment: `BodyDropped`, `Cancel` (the future dropped at an await in `CancelAt`), `SourceChunk` and `SourceEnds`.
* **Properties.**
  * `StopFiredExactlyOnce`: section 8's Stream Terminator rule, on every exit path.
  * `EverythingReleased` (liveness): after a handler has finished, its subscription, tracker and filter pipeline are eventually released.

`MCWebStreaming.tla`: one request of any of the six kinds. Requests interact only through the tuner manager, which `TunerManager.tla` models. `MCStreaming.cfg` drops the future at the query, tracker and peek awaits. `MCStreamingCancel.cfg` also drops it at the StartStreaming await. Deadlock checking is off: a finished request is a final state.

### `WebHelpers.tla`

Pure operators, checked against reference definitions over bounded inputs. The state is one input chosen by `Init`.
* `AccessAllowed` (`AccessControlMiddleware::call`, `is_private_ip_addr`) is checked against `SpecAllowed`, section 6. The addresses are IPv4 and IPv4-mapped or IPv4-compatible IPv6 addresses with first octets {0,8,10,126,127,169,172,192} and second octets at each range boundary, plus `::1`, `::` and a global IPv6 address.
* `Escape` (the loop of `Escape::fmt`) is checked against `EscapeRef`, a per-character map. Every string of up to 4 characters over a letter and `<`, `&`, `"` is checked.
* `ErrorStatus` (`error_response`) is checked against `SpecStatus`, section 6, over the section 7 error kinds a handler can return.

## Runs

| run | expect | shows |
|---|---|---|
| contention | pass | sessions, subscribers and consumers stay consistent under reuse, grab, stale stops and broadcaster end; preemption only by higher priority; QueryTuners never shows an idle tuner in use; no panic in `TunerActivity`; the manager implements `TunerPool` |
| mixed | pass | dedicated tuners are isolated; trackers keep subscription bookkeeping consistent; no leaked session; QueryTuners never shows an idle tuner in use; no panic in `TunerActivity` |
| admission | violation | StartStreaming can return a session on another channel (dedicated rule; the tracker rule has the same gap) |
| timeshift | pass | the holder cache matches the recorders whenever the mailbox is drained; with emitter channels of one event, every RegisterEmitter call gets its reply, every send completes, a registered observer loses no event, and a lost recorder is respawned |
| timeshift_replay | violation | a late emitter can get RecordEnded before the replayed RecordStarted |
| timeshift_respawn | violation | a registration between a respawn and the dead recorder's last events gets an empty replay, then RecordEnded and Stopped |
| scripts | pass | with concurrency 0, scripts run one at a time and every spawned script still runs (the permit count is clamped to 1); the runner implements `HookScripts` |
| streaming | pass | every exit path of the six streaming handlers fires each stop trigger exactly once; subscription, tracker and filter pipeline are eventually released |
| streaming_cancel | violation | a tuner stream handler dropped while awaiting StartStreaming's reply leaks its subscription |
| escape | pass | `escape()` equals the reference escaping |
| access | violation | `::1` is denied, although section 6 allows the IPv6 loopback |
| status | violation | `TunerUnavailable` is answered with 404, where section 6 gives 500 |

Every property of a passing run has a mutant in `PROJECT.json`. The mutant is a plausible bug in the mapped definition, and TLC finds the property violated under that run's configuration.

## Fairness

* **TunerManager.** The TunerManager actor handles every message in its mailbox, so `StartStreaming` of a waiting consumer and a queued `StopStreaming` are weakly fair. Consumers are not fair: a client may never return.
* **TimeshiftManager.** The manager drains its mailbox, completes a send when the channel has room, and the spawned replay task runs to completion, so `HandleMessage`, `LiveEmit` and `ReplayTaskStep` are weakly fair. The cron task of `started()` sleeps until the next minute's 50th second and calls HealthCheck for as long as the manager is there, so `HealthCheckTick` is weakly fair. A registered observer keeps reading its channel (`Consume` is weakly fair). The observers are not under src/. The assumption is that an observer keeps receiving once it has its reply, which is the situation issue #705 describes. Recorders, the EPG, and registration and unregistration are environment and not fair.
* **ScriptRunner.** The EPG and the recording manager answer `RegisterEmitter`, the actor drains its mailbox, and the runtime polls every ready task: `RegisterEmitter`, `Handle` and `TaskStep` are weakly fair. A hook script is assumed to terminate.
* **WebStreaming.** The runtime polls the spawned pipe and buffer tasks, and the managers handle their mailboxes: `PipeTaskEnds`, `BufferEnds`, `ManagerStart` and `HandleStop` are weakly fair. A filter process is assumed to exit once its input is closed. The client and the stream's producer are not fair, and neither is the handler's own progress through its awaits.

The liveness properties are `EveryScriptRuns`, `EverythingReleased`, `RegistrationCompletes`, `EmitsComplete` and `RecorderRespawned`, and the temporal part of `ImplementsHookScripts`. `TunerPool` has no fairness, so `ImplementsTunerPool` is a safety refinement only.

## Findings

1. **Admission can return a session on another channel.** Rules 1 and 2 of `activate_tuner` (`tuner.rs:138`, `tuner.rs:150`) subscribe to the tuner's current session without comparing its channel. The specification's admission rule says the session's channel equals the request's. In the run's trace a dedicated user's session is on ch0 with its StopStreaming still in flight; the user asks for ch1 and is given the ch0 session.
2. **The replay can arrive after live events.** The RegisterEmitter replay is sent by a spawned task (`manager.rs:152`). A live event handled next can reach the new emitter before the replay.
3. **A respawn can leave a late emitter with events it cannot place.** HealthCheck's reset (`manager.rs:281`) can run while the dead recorder's last events are still queued. An emitter registered in between receives RecordEnded and Stopped with no matching replay.
4. **A handler dropped during StartStreaming leaks its subscription.** The tuner stream handlers create `TunerStreamStopTrigger` only after the reply (`web.rs:298`). If the future is dropped after the manager subscribed it, nothing ever sends StopStreaming, and the tuner stays active. Timeshift replies carry their trigger, which fires when the future is dropped with the reply unread; `DropTriggers` fires it, and the run's violations are tuner streams only.
5. **`::1` is denied.** `is_private_ipv6_addr` (`web.rs:1130`) uses `Ipv6Addr::to_ipv4`, which turns `::1` into 0.0.0.1. Section 6 allows the IPv6 loopback. IPv4-compatible private addresses such as `::10.0.0.1` are allowed, although section 6 does not list them.
6. **TunerUnavailable is answered with 404** (`web.rs:124`). Section 6 gives 404 to the not-found kinds and 500 to other errors.

## Not modelled, and the plan

* **The manager's own mailbox bound.** The recorders emit into it and HealthCheck calls each recorder (`manager.rs:268`). A recorder blocked on a full manager mailbox while the manager waits for its HealthCheck reply is listed as a hazard without a property.
* **FilterSetting parsing and the priority header** (`web.rs:965-1031`). These are serde and header parsing. Only the resulting priority enters `TunerManager` (`UserOf`).
* **The timeshift query handlers** (`QueryTimeshiftRecorders` and the proxies, `manager.rs:178-241`, and the web handlers that call them, `web.rs:448-496`). They forward one call to a recorder and change no state, but a failed call to a gone recorder fails the whole listing. A web client issuing them, added to `TimeshiftManager.tla`, multiplied the timeshift run's states about six times (3.2 million) and its liveness check took 12 minutes, past the time limit; every run slot is in use, so they are left out and the hazard is listed without a property.
* **Read-only handlers.** QueryTuners is modelled as an operator over the state. The timeshift query proxies, the EPG queries, and the IPTV playlist and EPG. They change no state.
* **A failed registration in ScriptRunner's `started()`.** It panics the actor. The model assumes the EPG and recording manager answer.
* **Left out by choice:**
  * the broadcaster's chunk fan-out;
  * the command pipeline's processes;
  * the ring file and its readers;
  * template rendering;
  * the Mirakurun model conversions.

  These are I/O or formatting and are outside TLC's reach. Counter wrap-around at 2^32 (`tuner.rs:34`, `tuner.rs:607`) is also left out: reaching it takes 2^32 activations or subscriptions, far beyond any bound TLC explores, and modelling the counter modulo a small width would report wrap collisions the real width makes practically unreachable.
* **Script order** (`script_runner.rs:146`). The model lets tasks acquire in any order the runtime could poll them; `HookScripts` promises no order, so no property states one.
