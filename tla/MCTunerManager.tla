--------------------------- MODULE MCTunerManager ---------------------------
(* Instances of TunerManager for TLC.  Channels are all GR, the type the  *)
(* contended tuners of test_start_streaming in tuner.rs share.            *)
EXTENDS TunerManager

CONSTANT onair   \* the on-air program tracker client, a member of Clients

MCChannelTypes == {"BS", "GR"}
MCChannels == {"ch0", "ch1"}
MCChannelType == [ch \in MCChannels |-> "GR"]

(* Contention: one shared GR tuner and two web clients. *)
OneTuner == {0}
OneTunerTypes == 0 :> {"GR"}
OneDedicatedFor == 0 :> NoOne

(* Dedicated and tracker together: a BS tuner, a shared GR tuner and a   *)
(* GR tuner dedicated to the on-air tracker.                              *)
MixTuners == 0..2
MixTunerTypes == (0 :> {"BS"}) @@ (1 :> {"GR"}) @@ (2 :> {"GR"})
MixDedicatedFor == (0 :> NoOne) @@ (1 :> NoOne) @@ (2 :> onair)

(* Bounds: session numbers handed out, serial numbers per session, and    *)
(* StopStreaming messages in flight at once.                               *)
MaxSessions == 3
MaxSerial == 3
MaxInFlight == 2

WithinBounds ==
  /\ counter <= MaxSessions
  /\ Cardinality(stopMsgs) <= MaxInFlight
  /\ \A t \in Tuners : session[t] # NoSession => session[t].next <= MaxSerial
(* Smaller bounds for the three-client scenario: two activations, two   *)
(* subscribers per session, one StopStreaming in flight.                  *)
WithinMixBounds ==
  /\ counter <= 2
  /\ Cardinality(stopMsgs) <= 1
  /\ \A t \in Tuners : session[t] # NoSession => session[t].next <= 3
Pool == INSTANCE TunerPool
          WITH tuned <- PoolTuned, users <- PoolUsers, ended <- PoolEnded,
               Off <- NoSession

(* The manager implements the tuner pool: every StartStreaming, stop,     *)
(* failed activation and broadcaster end is a step of TunerPool, so users *)
(* are only taken off a tuner all at once by a request that outranks them *)
(* all or after its upstream ended, join only a live tuner under a fresh  *)
(* handle, and a tuner is switched off exactly when its last user leaves. *)
ImplementsTunerPool == Pool!Spec
=============================================================================
