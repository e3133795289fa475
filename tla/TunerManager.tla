---------------------------- MODULE TunerManager ----------------------------
(***************************************************************************)
(* The TunerManager actor of mirakc-core/src/tuner.rs together with the   *)
(* web handlers that call it (src/src/web.rs).                             *)
(*                                                                         *)
(* The actor handles one message at a time, so each handler is one atomic *)
(* step here: StartStreaming (activate_tuner, admission rules 1..5, then   *)
(* the Subscribe call to the session's broadcaster) and StopStreaming.     *)
(* A web handler sends StartStreaming, receives the reply, creates a      *)
(* TunerStreamStopTrigger and streams; dropping the stream drops the       *)
(* trigger, which fires StopStreaming.  Fired messages are modelled as a   *)
(* set in flight that the manager takes in any order, since a fired        *)
(* message is not ordered with the later calls of the same consumer.       *)
(*                                                                         *)
(* Data are abstracted: a channel is a model value with a channel type,   *)
(* a user's info is its client (or the tracked stream id for a Tracker),   *)
(* command strings, filters and pids are left out.                          *)
(***************************************************************************)
EXTENDS Integers, FiniteSets, FiniteSetsExt, Functions, TLC

CONSTANTS
  Tuners,          \* tuner indexes 0..N-1 (load_tuners enumerates them)
  TunerTypes,      \* [Tuners -> SUBSET ChannelTypes]: Tuner.channel_types
  DedicatedFor,    \* [Tuners -> Clients \cup {NoOne}]: Tuner.dedicated_for
  ChannelTypes,
  Channels,        \* EpgChannel, identified by (channel_type, channel)
  ChannelType,     \* [Channels -> ChannelTypes]
  Clients,         \* request slots of web handlers and other consumers
  TrackerClients,  \* clients that send Tracker{stream_id} requests
  Priorities,      \* non-negative TunerUserPriority values
  Grab,            \* TunerUserPriority::GRAB
  NoOne, NoSession, NoSub

ASSUME /\ Tuners \subseteq Nat /\ Tuners # {}
       /\ TunerTypes \in [Tuners -> SUBSET ChannelTypes]
       /\ DedicatedFor \in [Tuners -> Clients \cup {NoOne}]
       /\ ChannelType \in [Channels -> ChannelTypes]
       /\ TrackerClients \subseteq Clients
       /\ Priorities \subseteq Nat /\ Grab \in Nat
       /\ \A p \in Priorities : p < Grab

VARIABLES
  session,   \* tuner -> NoSession (TunerActivity::Inactive) or its TunerSession
  counter,   \* the static COUNTER of TunerSessionId::new
  cstate,    \* client -> "idle" | "waiting" | "replied" | "streaming"
  creq,      \* client -> its StartStreaming request
  csub,      \* client -> TunerSubscriptionId replied, or NoSub
  stopMsgs,  \* StopStreaming messages fired and not yet handled
  panicked   \* the actor has hit a panic! arm of TunerActivity

vars == <<session, counter, cstate, creq, csub, stopMsgs, panicked>>

AllPriorities == Priorities \cup {Grab}

(* TunerSubscriptionId: <<tuner_index, session_number, serial_number>>. *)
SubId(t, n, k) == <<t, n, k>>

(* Mutant: serial numbers start at 0. *)
NewSessionZero(n, ch) ==
  [id |-> n, channel |-> ch, subscribers |-> <<>>, next |-> 0, ended |-> FALSE]

(* A session: its TunerSessionId number, channel, subscribers (serial ->  *)
(* TunerUser), next_serial_number, and whether its broadcaster has seen *)
(* the end of its upstream.                                              *)
NewSession(n, ch) ==
  [id |-> n, channel |-> ch, subscribers |-> <<>>, next |-> 1, ended |-> FALSE]

-----------------------------------------------------------------------------
(* Tuner and TunerActivity predicates. *)

IsActive(t) == session[t] # NoSession

IsSupportedType(t, ch) == ChannelType[ch] \in TunerTypes[t]

IsAvailableFor(t, ch) == ~IsActive(t) /\ IsSupportedType(t, ch)

IsReuseable(t, ch) == IsActive(t) /\ session[t].channel = ch

IsDedicatedFor(t, u) == DedicatedFor[t] # NoOne /\ DedicatedFor[t] = u.info

(* Mutant: an equal-priority user may grab the tuner. *)
SessionCanGrabGe(s, p) ==
  \A k \in DOMAIN s.subscribers : p >= s.subscribers[k].priority

(* TunerSession::can_grab: every subscriber has a lower priority. *)
SessionCanGrab(s, p) ==
  \A k \in DOMAIN s.subscribers : p > s.subscribers[k].priority

(* TunerActivity::can_grab: an inactive tuner can always be grabbed. *)
ActivityCanGrab(t, p) == ~IsActive(t) \/ SessionCanGrab(session[t], p)

(* Tuner::can_grab: the grab priority grabs any tuner. *)
CanGrab(t, p) == p = Grab \/ ActivityCanGrab(t, p)

(* Mutant: next_serial_number is not advanced. *)
TunerSubscribeNoIncrement(s, u) ==
  [s EXCEPT !.subscribers = (s.next :> u) @@ @]

(* TunerSession::subscribe: insert the user at the next serial number. *)
TunerSubscribe(s, u) ==
  [s EXCEPT !.subscribers = (s.next :> u) @@ @, !.next = @ + 1]

-----------------------------------------------------------------------------
(* StartStreaming. *)

UserOf(c) ==
  [info |-> IF c \in TrackerClients THEN [stream |-> creq[c].stream] ELSE c,
   priority |-> creq[c].priority]

Reply(c, sid) ==
  /\ cstate' = [cstate EXCEPT ![c] = "replied"]
  /\ csub' = [csub EXCEPT ![c] = sid]
  /\ UNCHANGED panicked

(* A panic! in the handler: the actor stops and its caller gets no reply. *)
Panic ==
  /\ panicked' = TRUE
  /\ UNCHANGED <<session, counter, cstate, csub>>

(* TunerManager::deactivate_tuner: the tuner's activity becomes Inactive, *)
(* dropping its session.                                                 *)
DeactivateTuner(t) == [session EXCEPT ![t] = NoSession]

(* TunerSessionId::new: COUNTER.fetch_add(1) numbers the new session.    *)
TakeSessionNumber == counter' = counter + 1

(* Mutant: a failed Subscribe call leaves the tuner active. *)
SubscribeBroadcasterKeep(c, t, s) ==
  /\ session' = [session EXCEPT ![t] = TunerSubscribe(s, UserOf(c))]
  /\ IF s.ended
     THEN Reply(c, NoSub)
     ELSE Reply(c, SubId(t, s.id, s.next))

(* The tail of the StartStreaming handler: tuner.subscribe(user), then    *)
(* broadcaster.call(Subscribe).  The call fails once the broadcaster has  *)
(* ended (its upstream finished); the handler then logs the error        *)
(* and deactivate_tuner drops the whole session.                         *)
SubscribeBroadcaster(c, t, s) ==
  IF s.ended
  THEN /\ session' = DeactivateTuner(t)
       /\ Reply(c, NoSub)
  ELSE /\ session' = [session EXCEPT ![t] = TunerSubscribe(s, UserOf(c))]
       /\ Reply(c, SubId(t, s.id, s.next))

(* Mutant: a failed pipeline spawn leaves the new session in place. *)
ActivateAndSubscribeKeep(c, t, ch) ==
  /\ TakeSessionNumber
  /\ \/ SubscribeBroadcaster(c, t, NewSession(counter, ch))
     \/ /\ session' = [session EXCEPT ![t] = NewSession(counter, ch)]
        /\ Reply(c, NoSub)

(* Tuner::activate on an inactive tuner, then subscribe.  A session       *)
(* number is taken before the pipeline is spawned; a spawn failure       *)
(* (CommandFailed) leaves the tuner inactive.                            *)
ActivateAndSubscribe(c, t, ch) ==
  /\ TakeSessionNumber
  /\ \/ SubscribeBroadcaster(c, t, NewSession(counter, ch))
     \/ /\ session' = [session EXCEPT ![t] = NoSession]
        /\ Reply(c, NoSub)

(* make_filter_commands fails to render the tuner filter (InvalidFilter) *)
(* before the tuner is touched.                                          *)
FilterCommandsFail(c) ==
  /\ Reply(c, NoSub)
  /\ UNCHANGED <<session, counter>>

(* TunerActivity::activate on the activity act: an Active one panics.   *)
ActivityActivate(c, t, ch, act) ==
  IF act # NoSession
  THEN Panic
  ELSE ActivateAndSubscribe(c, t, ch)

(* Tuner::activate on the tuner whose activity is act: make_command      *)
(* renders the tuner command and may fail, leaving the activity as it   *)
(* is and taking no session number; otherwise TunerActivity::activate.   *)
TunerActivate(c, t, ch, act) ==
  \/ /\ session' = [session EXCEPT ![t] = act]
     /\ Reply(c, NoSub)
     /\ UNCHANGED counter
  \/ ActivityActivate(c, t, ch, act)

(* TunerActivity::subscribe: subscribing to an Inactive activity panics. *)
ActivitySubscribe(c, t) ==
  IF session[t] = NoSession
  THEN Panic
  ELSE SubscribeBroadcaster(c, t, session[t])

(* Rule 1: Tracker{stream_id} targets the tuner of the tracked stream. *)
StartTracker(c) ==
  LET t == creq[c].stream[1] IN
  /\ c \in TrackerClients
  /\ IF IsActive(t)
     THEN ActivitySubscribe(c, t)
     ELSE Reply(c, NoSub) /\ UNCHANGED session
  /\ UNCHANGED counter

DedicatedTuners(c) == {t \in Tuners : IsDedicatedFor(t, UserOf(c))}

(* Rule 2: the first tuner dedicated to the user, activated if inactive. *)
StartDedicated(c) ==
  LET t == Min(DedicatedTuners(c)) IN
  /\ c \notin TrackerClients
  /\ DedicatedTuners(c) # {}
  /\ IF IsActive(t)
     THEN ActivitySubscribe(c, t) /\ UNCHANGED counter
     ELSE FilterCommandsFail(c) \/ TunerActivate(c, t, creq[c].channel, session[t])

(* Mutant: dedicated tuners are not excluded. *)
SharedAll == Tuners

Shared == {t \in Tuners : DedicatedFor[t] = NoOne}

ReuseTuners(c) == {t \in Shared : IsReuseable(t, creq[c].channel)}

AvailableTuners(c) == {t \in Shared : IsAvailableFor(t, creq[c].channel)}

GrabTuners(c) ==
  {t \in Shared : IsSupportedType(t, creq[c].channel)
                  /\ CanGrab(t, creq[c].priority)}

NotSpecial(c) == c \notin TrackerClients /\ DedicatedTuners(c) = {}

(* Rule 3: reuse a shared tuner already tuned to the channel. *)
StartReuse(c) ==
  /\ NotSpecial(c)
  /\ ReuseTuners(c) # {}
  /\ ActivitySubscribe(c, Min(ReuseTuners(c)))
  /\ UNCHANGED counter

(* Rule 4: activate a free shared tuner supporting the channel type. *)
StartActivate(c) ==
  /\ NotSpecial(c)
  /\ ReuseTuners(c) = {}
  /\ AvailableTuners(c) # {}
  /\ \/ FilterCommandsFail(c)
     \/ TunerActivate(c, Min(AvailableTuners(c)), creq[c].channel,
                      session[Min(AvailableTuners(c))])

(* Mutant: the grab activates the tuner without deactivating it. *)
StartGrabNoDeactivate(c) ==
  /\ NotSpecial(c)
  /\ ReuseTuners(c) = {}
  /\ AvailableTuners(c) = {}
  /\ GrabTuners(c) # {}
  /\ \/ FilterCommandsFail(c)
     \/ TunerActivate(c, Min(GrabTuners(c)), creq[c].channel,
                      session[Min(GrabTuners(c))])

(* Rule 5: grab a tuner whose users all have a lower priority: render  *)
(* the filters, deactivate it (its activity becomes Inactive), then    *)
(* activate it for the new channel.                                     *)
StartGrab(c) ==
  /\ NotSpecial(c)
  /\ ReuseTuners(c) = {}
  /\ AvailableTuners(c) = {}
  /\ GrabTuners(c) # {}
  /\ \/ FilterCommandsFail(c)
     \/ TunerActivate(c, Min(GrabTuners(c)), creq[c].channel, NoSession)

(* Rule 6: TunerUnavailable. *)
StartUnavailable(c) ==
  /\ NotSpecial(c)
  /\ ReuseTuners(c) = {} /\ AvailableTuners(c) = {} /\ GrabTuners(c) = {}
  /\ Reply(c, NoSub)
  /\ UNCHANGED <<session, counter>>

HandleStartStreaming(c) ==
  /\ ~panicked
  /\ cstate[c] = "waiting"
  /\ \/ StartTracker(c)
     \/ StartDedicated(c)
     \/ StartReuse(c)
     \/ StartActivate(c)
     \/ StartGrab(c)
     \/ StartUnavailable(c)
  /\ UNCHANGED <<creq, stopMsgs>>

-----------------------------------------------------------------------------
(* StopStreaming. *)

(* TunerSession::stop_streaming when the session id matches: remove the *)
(* serial (a missing one is only logged) and unsubscribe.               *)
SessionStopStreaming(t, id) ==
  [session[t] EXCEPT !.subscribers =
     Restrict(@, DOMAIN @ \ {id[3]})]

(* Mutant: the session id of the message is not compared. *)
StopMatchesAnyId(t, id) == IsActive(t)

(* Whether the message reaches a session: TunerActivity::stop_streaming  *)
(* fails with SessionNotFound when inactive or the session id differs.  *)
StopMatches(t, id) == IsActive(t) /\ session[t].id = id[2]

(* Mutant: the tuner is kept active after its last user leaves. *)
TunerStopStreamingKeep(t, id) ==
  [session EXCEPT ![t] = SessionStopStreaming(t, id)]

(* Tuner::stop_streaming: deactivate when no user remains. *)
TunerStopStreaming(t, id) ==
  LET s == SessionStopStreaming(t, id) IN
  [session EXCEPT ![t] = IF DOMAIN s.subscribers = {} THEN NoSession ELSE s]

(* TunerManager::stop_streaming: the tuner of the id's session index;  *)
(* an error (SessionNotFound) is only logged by the handler.            *)
ManagerStopStreaming(id) ==
  IF StopMatches(id[1], id) THEN TunerStopStreaming(id[1], id) ELSE session

HandleStopStreaming(id) ==
  /\ ~panicked
  /\ id \in stopMsgs
  /\ stopMsgs' = stopMsgs \ {id}
  /\ session' = ManagerStopStreaming(id)
  /\ UNCHANGED <<counter, cstate, creq, csub, panicked>>

-----------------------------------------------------------------------------
(* QueryTuners, a read-only handler: what the Mirakurun API reports. *)

(* TunerActivity::get_mirakurun_models: the users of the active session. *)
TunerUsers(t) == IF IsActive(t) THEN session[t].subscribers ELSE <<>>

(* Tuner::get_mirakurun_model, without the configured and fixed fields. *)
MirakurunTuner(t) ==
  [is_free |-> ~IsActive(t), is_using |-> IsActive(t), users |-> TunerUsers(t)]

QueryTuners == [t \in Tuners |-> MirakurunTuner(t)]

-----------------------------------------------------------------------------
(* The broadcaster of an active session sees the end of its upstream (the *)
(* tuner command exits).  The session stays active until its users stop.  *)
BroadcasterEnds(t) ==
  /\ IsActive(t)
  /\ ~session[t].ended
  /\ session' = [session EXCEPT ![t].ended = TRUE]
  /\ UNCHANGED <<counter, cstate, creq, csub, stopMsgs, panicked>>

-----------------------------------------------------------------------------
(* Consumers. *)

(* A web handler (or the on-air tracker) calls StartStreaming. *)
RequestChannel(c, ch, p) ==
  /\ c \notin TrackerClients
  /\ cstate[c] = "idle"
  /\ cstate' = [cstate EXCEPT ![c] = "waiting"]
  /\ creq' = [creq EXCEPT ![c] = [channel |-> ch, priority |-> p, stream |-> NoSub]]
  /\ UNCHANGED <<session, counter, csub, stopMsgs, panicked>>

(* get_program_stream starts an airtime tracker for the stream it got;    *)
(* the tracker calls StartStreaming as Tracker{stream_id} on its channel.  *)
RequestTracker(c, d, p) ==
  /\ c \in TrackerClients /\ d \notin TrackerClients
  /\ cstate[c] = "idle"
  /\ cstate[d] = "streaming"
  /\ cstate' = [cstate EXCEPT ![c] = "waiting"]
  /\ creq' = [creq EXCEPT ![c] = [channel |-> creq[d].channel, priority |-> p,
                                   stream |-> csub[d]]]
  /\ UNCHANGED <<session, counter, csub, stopMsgs, panicked>>

(* The handler gets the reply: on success it creates the stop trigger    *)
(* at once and streams; an error ends the request.                       *)
ReceiveReply(c) ==
  /\ cstate[c] = "replied"
  /\ IF csub[c] = NoSub
     THEN /\ cstate' = [cstate EXCEPT ![c] = "idle"]
          /\ creq' = [creq EXCEPT ![c] = NoSub]
     ELSE /\ cstate' = [cstate EXCEPT ![c] = "streaming"]
          /\ UNCHANGED creq
  /\ UNCHANGED <<session, counter, csub, stopMsgs, panicked>>

(* The stream is dropped (client gone, filter error, first-chunk timeout, *)
(* end of stream): the TunerStreamStopTrigger fires StopStreaming.         *)
StreamDropped(c) ==
  /\ cstate[c] = "streaming"
  /\ cstate' = [cstate EXCEPT ![c] = "idle"]
  /\ stopMsgs' = stopMsgs \cup {csub[c]}
  /\ csub' = [csub EXCEPT ![c] = NoSub]
  /\ creq' = [creq EXCEPT ![c] = NoSub]
  /\ UNCHANGED <<session, counter, panicked>>

-----------------------------------------------------------------------------
Init ==
  /\ session = [t \in Tuners |-> NoSession]
  /\ counter = 0
  /\ cstate = [c \in Clients |-> "idle"]
  /\ creq = [c \in Clients |-> NoSub]
  /\ csub = [c \in Clients |-> NoSub]
  /\ stopMsgs = {}
  /\ panicked = FALSE

Next ==
  \/ \E c \in Clients : HandleStartStreaming(c)
  \/ \E id \in stopMsgs : HandleStopStreaming(id)
  \/ \E t \in Tuners : BroadcasterEnds(t)
  \/ \E c \in Clients, ch \in Channels, p \in AllPriorities : RequestChannel(c, ch, p)
  \/ \E c, d \in Clients, p \in AllPriorities : RequestTracker(c, d, p)
  \/ \E c \in Clients : ReceiveReply(c)
  \/ \E c \in Clients : StreamDropped(c)

(* The manager handles every message it is sent; consumers need not act. *)
Fairness ==
  /\ \A c \in Clients : WF_vars(HandleStartStreaming(c))
  /\ WF_vars(\E id \in stopMsgs : HandleStopStreaming(id))

Spec == Init /\ [][Next]_vars /\ Fairness

-----------------------------------------------------------------------------
(* Properties. *)

Subscribed(c) == cstate[c] \in {"replied", "streaming"} /\ csub[c] # NoSub

(* Type invariant; serial numbers of a session start at 1. *)
TypeOK ==
  /\ \A t \in Tuners :
       session[t] = NoSession
       \/ /\ session[t].id \in 0..(counter - 1)
          /\ session[t].channel \in Channels
          /\ session[t].next \in Nat \ {0}
          /\ session[t].ended \in BOOLEAN
          /\ DOMAIN session[t].subscribers \subseteq 1..(session[t].next - 1)
          /\ \A k \in DOMAIN session[t].subscribers :
               session[t].subscribers[k].priority \in AllPriorities
  /\ counter \in Nat
  /\ cstate \in [Clients -> {"idle", "waiting", "replied", "streaming"}]
  /\ \A c \in Clients : Subscribed(c) => csub[c][1] \in Tuners
  /\ \A id \in stopMsgs : id[1] \in Tuners
  /\ panicked \in BOOLEAN

(* A consumer holding a subscription stays a subscriber of its session   *)
(* for as long as that session lives: no StopStreaming of another        *)
(* consumer, in particular a late one for an earlier session of the same *)
(* tuner whose serial numbers restarted at 1, removes it.                 *)
SubscriptionsTracked ==
  \A c \in Clients :
    Subscribed(c) /\ StopMatches(csub[c][1], csub[c])
      => csub[c][3] \in DOMAIN session[csub[c][1]].subscribers

(* Every subscriber recorded in a live session belongs to a consumer that *)
(* holds its subscription id, or has a StopStreaming in flight for it: no *)
(* failed StartStreaming leaves a user behind that nobody will remove.    *)
NoOrphanSubscriber ==
  \A t \in Tuners : IsActive(t) =>
    \A k \in DOMAIN session[t].subscribers :
      LET id == SubId(t, session[t].id, k) IN
      id \in stopMsgs \/ \E c \in Clients : Subscribed(c) /\ csub[c] = id

(* Once every consumer is idle and every StopStreaming has been handled,  *)
(* all tuners are inactive: the last StopStreaming of a session           *)
(* deactivates the tuner and releases its pipeline.                       *)
NoLeakedSession ==
  (\A c \in Clients : cstate[c] = "idle") /\ stopMsgs = {}
    => \A t \in Tuners : ~IsActive(t)

(* A session that still has users not stopping in this step is torn      *)
(* down only by a request whose priority is GRAB or above all of theirs,  *)
(* or after its broadcaster has ended (spec: equal priority cannot evict). *)
TornDown(t) ==
  IsActive(t) /\ (session'[t] = NoSession \/ session'[t].id # session[t].id)

Remaining(t) ==
  {k \in DOMAIN session[t].subscribers :
     SubId(t, session[t].id, k) \notin stopMsgs \ stopMsgs'}

PreemptionRespectsPriority ==
  [][\A t \in Tuners :
       TornDown(t) /\ Remaining(t) # {} /\ ~session[t].ended
         => \E c \in Clients :
              /\ cstate[c] = "waiting" /\ cstate'[c] = "replied"
              /\ \/ creq[c].priority = Grab
                 \/ \A k \in Remaining(t) :
                      creq[c].priority > session[t].subscribers[k].priority
    ]_vars

(* A tuner dedicated to a user only ever serves that user and the         *)
(* trackers of its streams.                                               *)
DedicatedIsolation ==
  \A t \in Tuners : DedicatedFor[t] # NoOne /\ IsActive(t) =>
    \A k \in DOMAIN session[t].subscribers :
      session[t].subscribers[k].info \in {DedicatedFor[t]} \cup [stream : Tuners \X Nat \X Nat]

(* Spec section 8: after a successful StartStreaming, the returned        *)
(* session's channel equals the requested channel.                        *)
AdmissionMatchesChannel ==
  \A c \in Clients :
    cstate[c] = "replied" /\ csub[c] # NoSub /\ StopMatches(csub[c][1], csub[c])
      => session[csub[c][1]].channel = creq[c].channel

(* Whenever QueryTuners is answered, a tuner it reports in use has users: *)
(* every StartStreaming path that leaves a tuner active has recorded its  *)
(* user (failed activations and failed Subscribe calls deactivate), and   *)
(* the StopStreaming that removes the last user deactivates the tuner.    *)
NoIdleTunerInUse ==
  \A t \in Tuners : QueryTuners[t].is_using => QueryTuners[t].users # <<>>

(* The manager never reaches a panic! arm of TunerActivity: whatever the   *)
(* interleaving of requests, stops and broadcaster ends, activate_tuner    *)
(* activates only an Inactive tuner (the grab deactivates it first) and   *)
(* subscribes only to an Active one (the tracker rule checks is_active,   *)
(* a failed activation returns before subscribe).                         *)
NoActivityPanic == ~panicked

(* The refinement mapping onto TunerPool: an active tuner is tuned to its *)
(* session's channel for the session's subscribers, each held under its   *)
(* TunerSubscriptionId with its priority; the upstream has ended when the *)
(* session's broadcaster has.                                             *)
PoolTuned == [t \in Tuners |-> IF IsActive(t) THEN session[t].channel ELSE NoSession]

PoolUsers ==
  [t \in Tuners |->
     IF IsActive(t)
     THEN [h \in {SubId(t, session[t].id, k) : k \in DOMAIN session[t].subscribers}
             |-> session[t].subscribers[h[3]].priority]
     ELSE [h \in {} |-> Grab]]

PoolEnded == [t \in Tuners |-> IsActive(t) /\ session[t].ended]
=============================================================================
