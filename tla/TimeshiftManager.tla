-------------------------- MODULE TimeshiftManager --------------------------
(***************************************************************************)
(* The timeshift manager actor (mirakc-core/src/timeshift/manager.rs) and  *)
(* the recorders it owns.                                                  *)
(*                                                                         *)
(* The manager handles one message of its mailbox at a time.  Recorders    *)
(* emit TimeshiftEvent messages into that mailbox; the manager caches the  *)
(* started flag and the current record id of each recorder in a            *)
(* RecorderHolder and forwards each event to every registered emitter.     *)
(* A new emitter is sent a replay of the cached state by a task spawned in *)
(* the RegisterEmitter handler, which runs concurrently with the manager.  *)
(* A health check respawns a recorder that has gone and resets its cache.  *)
(*                                                                         *)
(* The recorder actor (timeshift/recorder.rs) is not part of the source    *)
(* tree; its state machine is taken from section 4.5 of the specification. *)
(***************************************************************************)
EXTENDS Integers, Sequences, SequencesExt, FiniteSets

CONSTANTS
    RecorderOrder,  \* the recorder names in configuration order (IndexMap)
    Emitters,       \* observers that register with the manager
    MaxRecordId,    \* the largest record id a recorder assigns
    ChanCap,        \* capacity of an emitter's channel
    None            \* Option::None

Recorders == ToSet(RecorderOrder)

ASSUME /\ IsInjective(RecorderOrder)
       /\ MaxRecordId \in Nat \ {0}
       /\ ChanCap \in Nat \ {0}
       /\ None \notin Nat

VARIABLES
    recorder,   \* recorder actor: alive, started, current record, next id
    service,    \* last service availability forwarded to each recorder
    holder,     \* RecorderHolder cache: started, current_record_id
    mbox,       \* the manager's mailbox, in arrival order
    estate,     \* lifecycle of each emitter's registration
    snap,       \* the replay sequence computed at registration
    sent,       \* how many replay events the replay task has emitted
    live,       \* events the manager itself emitted to the emitter
    seen,       \* what was sent into the emitter's channel, in order
    queued,     \* events in the emitter's channel not yet received
    outbox      \* the event the TimeshiftEvent handler has still to emit
                \* to each emitter, or None

vars == <<recorder, service, holder, mbox, estate, snap, sent, live, seen,
          queued, outbox>>

EventTypes == {"Started", "Stopped", "RecordStarted", "RecordEnded"}
RecordIds == 1..MaxRecordId
Event(type, r, id) == [type |-> type, rec |-> r, id |-> id]
Events == [type : EventTypes, rec : Recorders, id : RecordIds \cup {None}]

-----------------------------------------------------------------------------
(* The manager                                                             *)

\* RecorderHolder::new
NewHolder == [started |-> FALSE, current |-> None]

\* A mutant: the Stopped arm leaves the started flag in place.
UpdateHolderKeepStarted(h, ev) ==
    CASE ev.type = "Started"       -> [h EXCEPT !.started = TRUE]
      [] ev.type = "Stopped"       -> h
      [] ev.type = "RecordStarted" -> [h EXCEPT !.current = ev.id]
      [] ev.type = "RecordEnded"   -> [h EXCEPT !.current = None]

\* The match on the event in the TimeshiftEvent handler.
UpdateHolder(h, ev) ==
    CASE ev.type = "Started"       -> [h EXCEPT !.started = TRUE]
      [] ev.type = "Stopped"       -> [h EXCEPT !.started = FALSE]
      [] ev.type = "RecordStarted" -> [h EXCEPT !.current = ev.id]
      [] ev.type = "RecordEnded"   -> [h EXCEPT !.current = None]

\* Emitters in the EmitterRegistry.
Registered == {e \in Emitters : estate[e] \in {"registered", "unregistering"}}

\* The replay of one recorder's cached state: Started, then RecordStarted.
ReplayOf(r) ==
    (IF holder[r].started THEN <<Event("Started", r, None)>> ELSE <<>>)
    \o (IF holder[r].current # None
          THEN <<Event("RecordStarted", r, holder[r].current)>> ELSE <<>>)

\* recorder_states collected in IndexMap order, as the replay task sends it.
Snapshot == FlattenSeq([i \in 1..Len(RecorderOrder) |-> ReplayOf(RecorderOrder[i])])

\* The manager has emitted the current event to every emitter and takes
\* its next message.
Idle == \A e \in Emitters : outbox[e] = None

\* The emitter's receiver is alive: its owner created the channel before
\* calling RegisterEmitter and drops it when it unregisters.
ReceiverAlive(e) == estate[e] \in {"registering", "registered"}

\* emitter.emit(msg).await: wait for room in a live receiver's channel and
\* send; a send to a dropped receiver fails at once and is ignored.
Send(e, ev) ==
    IF ReceiverAlive(e)
      THEN /\ queued[e] < ChanCap
           /\ seen' = [seen EXCEPT ![e] = Append(@, ev)]
           /\ queued' = [queued EXCEPT ![e] = @ + 1]
      ELSE UNCHANGED <<seen, queued>>

\* A mutant: the replay is emitted by the handler itself, before the
\* reply, as it was before the replay task was introduced.
HandleRegisterEmitterInline ==
    /\ mbox # <<>>
    /\ Head(mbox).kind = "register"
    /\ LET e == Head(mbox).emitter IN
         /\ queued[e] + Len(Snapshot) <= ChanCap
         /\ seen' = [seen EXCEPT ![e] = @ \o Snapshot]
         /\ queued' = [queued EXCEPT ![e] = @ + Len(Snapshot)]
         /\ snap' = [snap EXCEPT ![e] = Snapshot]
         /\ sent' = [sent EXCEPT ![e] = Len(Snapshot)]
         /\ estate' = [estate EXCEPT ![e] = "registered"]
    /\ mbox' = Tail(mbox)
    /\ UNCHANGED <<recorder, service, holder, live, outbox>>

\* Handler<RegisterEmitter>: spawn the replay task, then register.
HandleRegisterEmitter ==
    /\ mbox # <<>>
    /\ Head(mbox).kind = "register"
    /\ LET e == Head(mbox).emitter IN
         /\ snap' = [snap EXCEPT ![e] = Snapshot]
         /\ sent' = [sent EXCEPT ![e] = 0]
         /\ estate' = [estate EXCEPT ![e] = "registered"]
    /\ mbox' = Tail(mbox)
    /\ UNCHANGED <<recorder, service, holder, live, seen, queued, outbox>>

\* Handler<UnregisterEmitter>.
HandleUnregisterEmitter ==
    /\ mbox # <<>>
    /\ Head(mbox).kind = "unregister"
    /\ estate' = [estate EXCEPT ![Head(mbox).emitter] = "gone"]
    /\ mbox' = Tail(mbox)
    /\ UNCHANGED <<recorder, service, holder, snap, sent, live, seen, queued, outbox>>

\* A mutant: the respawned recorder's address is not stored in the holder,
\* which keeps the address of the actor that has gone.
HandleHealthCheckNoStore ==
    /\ mbox # <<>>
    /\ Head(mbox).kind = "health"
    /\ LET gone == {r \in Recorders : ~recorder[r].alive} IN
         holder' = [r \in Recorders |-> IF r \in gone THEN NewHolder ELSE holder[r]]
    /\ mbox' = Tail(mbox)
    /\ UNCHANGED <<recorder, service, estate, snap, sent, live, seen, queued, outbox>>

\* Handler<HealthCheck>: a recorder whose address is gone is respawned and
\* its cached state reset.  The new recorder keeps the persisted record ids.
HandleHealthCheck ==
    /\ mbox # <<>>
    /\ Head(mbox).kind = "health"
    /\ LET gone == {r \in Recorders : ~recorder[r].alive} IN
         /\ recorder' = [r \in Recorders |->
                           IF r \in gone
                             THEN [recorder[r] EXCEPT !.alive = TRUE,
                                     !.started = FALSE, !.current = None]
                             ELSE recorder[r]]
         /\ holder' = [r \in Recorders |->
                         IF r \in gone THEN NewHolder ELSE holder[r]]
    /\ mbox' = Tail(mbox)
    /\ UNCHANGED <<service, estate, snap, sent, live, seen, queued, outbox>>

\* Handler<epg::ServicesUpdated>: forward each recorder its service.  An
\* emit to a recorder that has gone is lost.
HandleServicesUpdated ==
    /\ mbox # <<>>
    /\ Head(mbox).kind = "services"
    /\ service' = [r \in Recorders |->
                     IF recorder[r].alive THEN Head(mbox).avail[r]
                                          ELSE service[r]]
    /\ mbox' = Tail(mbox)
    /\ UNCHANGED <<recorder, holder, estate, snap, sent, live, seen, queued, outbox>>

\* Handler<TimeshiftEvent>: update the cache, then emit to every emitter of
\* the registry; the handler ends when the last send has completed.
HandleTimeshiftEvent ==
    /\ mbox # <<>>
    /\ Head(mbox).kind = "event"
    /\ LET ev == Head(mbox).event IN
         /\ holder' = [holder EXCEPT ![ev.rec] = UpdateHolder(@, ev)]
         /\ live' = [e \in Emitters |->
                       IF e \in Registered THEN Append(live[e], ev) ELSE live[e]]
         /\ outbox' = [e \in Emitters |-> IF e \in Registered THEN ev ELSE None]
    /\ mbox' = Tail(mbox)
    /\ UNCHANGED <<recorder, service, estate, snap, sent, seen, queued>>

\* A mutant: the send waits for room even when the receiver has been
\* dropped.
LiveEmitBlocking(e) ==
    /\ outbox[e] # None
    /\ queued[e] < ChanCap
    /\ seen' = [seen EXCEPT ![e] = Append(@, outbox[e])]
    /\ queued' = [queued EXCEPT ![e] = @ + 1]
    /\ outbox' = [outbox EXCEPT ![e] = None]
    /\ UNCHANGED <<recorder, service, holder, mbox, estate, snap, sent, live>>

\* A mutant: a send that finds the channel full drops the event, as a
\* try_send would.
LiveEmitLossy(e) ==
    /\ outbox[e] # None
    /\ IF ReceiverAlive(e) /\ queued[e] < ChanCap
         THEN /\ seen' = [seen EXCEPT ![e] = Append(@, outbox[e])]
              /\ queued' = [queued EXCEPT ![e] = @ + 1]
         ELSE UNCHANGED <<seen, queued>>
    /\ outbox' = [outbox EXCEPT ![e] = None]
    /\ UNCHANGED <<recorder, service, holder, mbox, estate, snap, sent, live>>

\* One send of event_emitters.emit(msg).await, blocked while the
\* emitter's channel is full.
LiveEmit(e) ==
    /\ outbox[e] # None
    /\ Send(e, outbox[e])
    /\ outbox' = [outbox EXCEPT ![e] = None]
    /\ UNCHANGED <<recorder, service, holder, mbox, estate, snap, sent, live>>

\* A mutant: the loop tests that there are states, not how many were sent.
ReplayTaskStepUnbounded(e) ==
    /\ estate[e] # "idle"
    /\ snap[e] # <<>>
    /\ Send(e, snap[e][1 + (sent[e] % Len(snap[e]))])
    /\ sent' = [sent EXCEPT ![e] = @ + 1]
    /\ UNCHANGED <<recorder, service, holder, mbox, estate, snap, live, outbox>>

\* One iteration of the replay task spawned by the RegisterEmitter handler.
ReplayTaskStep(e) ==
    /\ estate[e] # "idle"
    /\ sent[e] < Len(snap[e])
    /\ Send(e, snap[e][sent[e] + 1])
    /\ sent' = [sent EXCEPT ![e] = @ + 1]
    /\ UNCHANGED <<recorder, service, holder, mbox, estate, snap, live, outbox>>

\* The health check task calls HealthCheck at 50s every minute and waits
\* for the reply, so at most one HealthCheck is in the mailbox.
HealthCheckTick ==
    /\ \A i \in 1..Len(mbox) : mbox[i].kind # "health"
    /\ mbox' = Append(mbox, [kind |-> "health"])
    /\ UNCHANGED <<recorder, service, holder, estate, snap, sent, live, seen,
                   queued, outbox>>

-----------------------------------------------------------------------------
(* Environment: the EPG, the recorders (section 4.5) and the emitters.     *)

\* The EPG emits ServicesUpdated with the availability of every service.
EpgServicesUpdated ==
    \E avail \in [Recorders -> BOOLEAN] :
        /\ mbox' = Append(mbox, [kind |-> "services", avail |-> avail])
        /\ UNCHANGED <<recorder, service, holder, estate, snap, sent, live, seen,
                       queued, outbox>>

Emit(evs) == mbox' = mbox \o [i \in 1..Len(evs) |-> [kind |-> "event", event |-> evs[i]]]

\* Starting --first chunk--> Started: emit Started and RecordStarted.
RecorderStart(r) ==
    /\ recorder[r].alive /\ ~recorder[r].started /\ service[r]
    /\ recorder[r].next <= MaxRecordId
    /\ LET id == recorder[r].next IN
         /\ recorder' = [recorder EXCEPT ![r] = [@ EXCEPT !.started = TRUE,
                                                   !.current = id, !.next = id + 1]]
         /\ Emit(<<Event("Started", r, None), Event("RecordStarted", r, id)>>)
    /\ UNCHANGED <<service, holder, estate, snap, sent, live, seen, queued, outbox>>

\* A program change closes the current record and opens the next one.
RecorderProgramChange(r) ==
    /\ recorder[r].alive /\ recorder[r].started
    /\ recorder[r].next <= MaxRecordId
    /\ LET id == recorder[r].next IN
         /\ recorder' = [recorder EXCEPT ![r] = [@ EXCEPT !.current = id,
                                                   !.next = id + 1]]
         /\ Emit(<<Event("RecordEnded", r, recorder[r].current),
                   Event("RecordStarted", r, id)>>)
    /\ UNCHANGED <<service, holder, estate, snap, sent, live, seen, queued, outbox>>

\* Started --service unavailable or tuner loss--> Stopping --> Stopped:
\* emit RecordEnded and Stopped.  After a tuner loss the actor is gone.
RecorderStop(r) ==
    /\ recorder[r].alive /\ recorder[r].started
    /\ \E lost \in BOOLEAN :
         /\ lost \/ ~service[r]
         /\ recorder' = [recorder EXCEPT ![r] = [@ EXCEPT !.started = FALSE,
                                                   !.current = None, !.alive = ~lost]]
    /\ Emit(<<Event("RecordEnded", r, recorder[r].current), Event("Stopped", r, None)>>)
    /\ UNCHANGED <<service, holder, estate, snap, sent, live, seen, queued, outbox>>

\* An observer calls RegisterEmitter, and later sends UnregisterEmitter.
EmitterRegister(e) ==
    /\ estate[e] = "idle"
    /\ estate' = [estate EXCEPT ![e] = "registering"]
    /\ mbox' = Append(mbox, [kind |-> "register", emitter |-> e])
    /\ UNCHANGED <<recorder, service, holder, snap, sent, live, seen, queued, outbox>>

\* The observer drops its receiver with what is still in the channel.
EmitterUnregister(e) ==
    /\ estate[e] = "registered"
    /\ estate' = [estate EXCEPT ![e] = "unregistering"]
    /\ queued' = [queued EXCEPT ![e] = 0]
    /\ mbox' = Append(mbox, [kind |-> "unregister", emitter |-> e])
    /\ UNCHANGED <<recorder, service, holder, snap, sent, live, seen, outbox>>

\* A registered observer receives the next event of its channel.  While it
\* waits for the reply of RegisterEmitter it receives nothing.
Consume(e) ==
    /\ estate[e] = "registered"
    /\ queued[e] > 0
    /\ queued' = [queued EXCEPT ![e] = @ - 1]
    /\ UNCHANGED <<recorder, service, holder, mbox, estate, snap, sent, live, seen,
                   outbox>>

-----------------------------------------------------------------------------

\* TimeshiftManager::started: one recorder per configured name, all stopped.
Init ==
    /\ recorder = [r \in Recorders |->
                     [alive |-> TRUE, started |-> FALSE, current |-> None, next |-> 1]]
    /\ service = [r \in Recorders |-> FALSE]
    /\ holder = [r \in Recorders |-> NewHolder]
    /\ mbox = <<>>
    /\ estate = [e \in Emitters |-> "idle"]
    /\ snap = [e \in Emitters |-> <<>>]
    /\ sent = [e \in Emitters |-> 0]
    /\ live = [e \in Emitters |-> <<>>]
    /\ seen = [e \in Emitters |-> <<>>]
    /\ queued = [e \in Emitters |-> 0]
    /\ outbox = [e \in Emitters |-> None]

\* The manager takes a message when its previous handler has returned.
HandleMessage ==
    /\ Idle
    /\ \/ HandleRegisterEmitter
       \/ HandleUnregisterEmitter
       \/ HandleHealthCheck
       \/ HandleServicesUpdated
       \/ HandleTimeshiftEvent

Next ==
    \/ HandleMessage
    \/ \E e \in Emitters : ReplayTaskStep(e) \/ LiveEmit(e) \/ Consume(e)
    \/ HealthCheckTick
    \/ EpgServicesUpdated
    \/ \E r \in Recorders :
         RecorderStart(r) \/ RecorderProgramChange(r) \/ RecorderStop(r)
    \/ \E e \in Emitters : EmitterRegister(e) \/ EmitterUnregister(e)

\* The manager drains its mailbox, its pending emits and the replay tasks
\* run as long as they can, and a registered observer keeps receiving.
\* The cron task of started() calls HealthCheck every minute for as long
\* as the manager is there.
Fairness ==
    /\ WF_vars(HandleMessage)
    /\ WF_vars(HealthCheckTick)
    /\ \A e \in Emitters : WF_vars(ReplayTaskStep(e))
    /\ \A e \in Emitters : WF_vars(LiveEmit(e))
    /\ \A e \in Emitters : WF_vars(Consume(e))

Spec == Init /\ [][Next]_vars /\ Fairness

-----------------------------------------------------------------------------
(* Properties                                                              *)

TypeOK ==
    /\ recorder \in [Recorders -> [alive : BOOLEAN, started : BOOLEAN,
                                   current : RecordIds \cup {None},
                                   next : 1..MaxRecordId + 1]]
    /\ service \in [Recorders -> BOOLEAN]
    /\ holder \in [Recorders -> [started : BOOLEAN, current : RecordIds \cup {None}]]
    /\ estate \in [Emitters -> {"idle", "registering", "registered",
                                "unregistering", "gone"}]
    /\ \A e \in Emitters : sent[e] \in 0..Len(snap[e])
    /\ queued \in [Emitters -> 0..ChanCap]
    /\ outbox \in [Emitters -> Events \cup {None}]
    /\ \A e \in Emitters : \A i \in 1..Len(seen[e]) : seen[e][i] \in Events

\* The order section 5 of the specification promises for the events of one
\* recorder: Started < RecordStarted < (RecordEnded, RecordStarted)* <
\* RecordEnded < Stopped, record ids increasing.  Step folds one event
\* into [ok, started, open record, last id].
Step(st, ev) ==
    [ok      |-> st.ok /\ CASE ev.type = "Started"       -> ~st.started
                            [] ev.type = "RecordStarted" -> st.started /\ st.open = None
                                                            /\ ev.id > st.last
                            [] ev.type = "RecordEnded"   -> st.open = ev.id
                            [] ev.type = "Stopped"       -> st.started /\ st.open = None,
     started |-> CASE ev.type = "Started" -> TRUE
                   [] ev.type = "Stopped" -> FALSE
                   [] OTHER               -> st.started,
     open    |-> CASE ev.type = "RecordStarted" -> ev.id
                   [] ev.type = "RecordEnded"   -> None
                   [] OTHER                     -> st.open,
     last    |-> IF ev.type = "RecordStarted" THEN ev.id ELSE st.last]

WellOrdered(s) ==
    \A r \in Recorders :
        FoldLeft(Step, [ok |-> TRUE, started |-> FALSE, open |-> None, last |-> 0],
                 SelectSeq(s, LAMBDA ev : ev.rec = r)).ok

\* When the manager has drained its mailbox, the RecorderHolder cache of
\* every recorder agrees with the recorder itself: the TimeshiftEvent arms
\* and the HealthCheck reset keep the cache that replays are made from
\* current.
CacheConsistentWhenQuiet ==
    mbox = <<>> =>
        \A r \in Recorders :
            /\ holder[r].started = recorder[r].started
            /\ holder[r].current = recorder[r].current

\* The replay computed from the cache at registration, followed by the
\* events the manager emitted afterwards, is a well-ordered event sequence
\* (the purpose the RecorderHolder comment gives the cache).
ReplayConsistentWithLive ==
    \A e \in Emitters : WellOrdered(snap[e] \o live[e])

\* What an emitter actually receives is well ordered: the replay task's
\* events and the manager's own events reach the emitter in an order that
\* keeps section 5's ordering.
EmitterEventsWellOrdered ==
    \A e \in Emitters : WellOrdered(seen[e])


\* An observer that called RegisterEmitter gets its reply: the handler
\* never waits on the channel it hands the replay to.  Emitting the replay
\* from the handler itself dead-locked once the replay outgrew the emitter's
\* channel, since the observer reads its channel only after the reply
\* (issue #705, the comment in Handler<RegisterEmitter>).
RegistrationCompletes ==
    \A e \in Emitters : estate[e] = "registering" ~> estate[e] = "registered"


\* Every send the TimeshiftEvent handler starts completes, so the manager
\* always gets back to its mailbox: an observer that has unregistered, and
\* reads no more, stays in the registry until UnregisterEmitter is handled,
\* and a send to its dropped receiver must fail rather than wait for room.
EmitsComplete ==
    \A e \in Emitters : outbox[e] # None ~> outbox[e] = None


\* The emit of the TimeshiftEvent handler still to complete for e.
PendingEmits(e) == IF outbox[e] # None THEN 1 ELSE 0

\* An observer that stays registered loses no event: its channel has been
\* sent every event of the replay task so far and every live event the
\* manager has completed sending, although the channel holds one event and
\* the manager and the replay task both write into it.
NoEventLost ==
    \A e \in Emitters :
        estate[e] = "registered" =>
            Len(seen[e]) = sent[e] + Len(live[e]) - PendingEmits(e)


\* A recorder whose actor has gone (tuner loss) is eventually running
\* again: the cron task keeps queueing HealthCheck, the handler finds the
\* call to the dead actor failing, respawns the recorder and stores the
\* new address, however many events of the dead recorder are handled
\* before it.
RecorderRespawned ==
    \A r \in Recorders : ~recorder[r].alive ~> recorder[r].alive

=============================================================================
