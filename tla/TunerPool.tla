------------------------------ MODULE TunerPool ------------------------------
(***************************************************************************)
(* What the tuner manager promises its users (sections 4.3 and 4.4 of the *)
(* specification), without admission order, session numbers or consumers. *)
(*                                                                         *)
(* A tuner is off, or tuned to one channel for a set of users, each held   *)
(* under an opaque handle with its priority.  A user joins a tuned tuner   *)
(* whose upstream has not ended, or tunes an idle one.  Users are taken    *)
(* off a tuner all at once only by a request of the grab priority or of a  *)
(* priority above all of theirs, or after the tuner's upstream has ended.  *)
(* A tuner whose last user leaves is switched off.                          *)
(***************************************************************************)
EXTENDS Naturals, Functions, TLC

CONSTANTS
  Tuners, Channels, Priorities, Grab,
  Off          \* the tuner is not tuned

VARIABLES
  tuned,       \* tuner -> channel, or Off
  users,       \* tuner -> [handle -> priority]
  ended        \* tuner -> its upstream has ended

vars == <<tuned, users, ended>>

AnyPriority == Priorities \cup {Grab}

NoUsers == [h \in {} |-> Grab]

\* p is the grab priority or above the priority of every user of t.
Outranks(p, t) == p = Grab \/ \A h \in DOMAIN users[t] : p > users[t][h]

Init ==
  /\ tuned = [t \in Tuners |-> Off]
  /\ users = [t \in Tuners |-> NoUsers]
  /\ ended = [t \in Tuners |-> FALSE]

\* An idle tuner is tuned to a channel for its first user.
Tune(t, ch, h, p) ==
  /\ tuned[t] = Off
  /\ tuned' = [tuned EXCEPT ![t] = ch]
  /\ users' = [users EXCEPT ![t] = h :> p]
  /\ UNCHANGED ended

\* A user joins a tuned tuner whose upstream is alive, under a fresh handle.
Join(t, h, p) ==
  /\ tuned[t] # Off /\ ~ended[t]
  /\ h \notin DOMAIN users[t]
  /\ users' = [users EXCEPT ![t] = (h :> p) @@ @]
  /\ UNCHANGED <<tuned, ended>>

\* A request that outranks every user takes the tuner from them all: the
\* tuner is retuned for it, or left off when tuning fails.
Preempt(t, p) ==
  /\ tuned[t] # Off
  /\ Outranks(p, t)
  /\ \/ /\ tuned' = [tuned EXCEPT ![t] = Off]
        /\ users' = [users EXCEPT ![t] = NoUsers]
     \/ \E ch \in Channels, h \in DOMAIN users'[t] :
          /\ tuned' = [tuned EXCEPT ![t] = ch]
          /\ users' = [users EXCEPT ![t] = h :> p]
  /\ ended' = [ended EXCEPT ![t] = FALSE]

\* A user leaves; the tuner is switched off with its last user.
Leave(t, h) ==
  /\ h \in DOMAIN users[t]
  /\ LET rest == Restrict(users[t], DOMAIN users[t] \ {h}) IN
       /\ users' = [users EXCEPT ![t] = rest]
       /\ tuned' = [tuned EXCEPT ![t] = IF rest = NoUsers THEN Off ELSE @]
       /\ ended' = [ended EXCEPT ![t] = IF rest = NoUsers THEN FALSE ELSE @]

\* The tuner's upstream ends; its users stay until they leave.
End(t) ==
  /\ tuned[t] # Off /\ ~ended[t]
  /\ ended' = [ended EXCEPT ![t] = TRUE]
  /\ UNCHANGED <<tuned, users>>

\* A tuner whose upstream has ended is dropped with all its users.
Abort(t) ==
  /\ ended[t]
  /\ tuned' = [tuned EXCEPT ![t] = Off]
  /\ users' = [users EXCEPT ![t] = NoUsers]
  /\ ended' = [ended EXCEPT ![t] = FALSE]

\* The handle a step gives a user is taken from the state it leads to: the
\* pool promises nothing about handles but that a joining one is fresh.
Next ==
  \E t \in Tuners :
    \/ \E ch \in Channels, p \in AnyPriority, h \in DOMAIN users'[t] : Tune(t, ch, h, p)
    \/ \E p \in AnyPriority, h \in DOMAIN users'[t] : Join(t, h, p)
    \/ \E p \in AnyPriority : Preempt(t, p)
    \/ \E h \in DOMAIN users[t] : Leave(t, h)
    \/ End(t)
    \/ Abort(t)

Spec == Init /\ [][Next]_vars

=============================================================================
