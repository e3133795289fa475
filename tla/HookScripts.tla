----------------------------- MODULE HookScripts -----------------------------
(***************************************************************************)
(* What the script runner promises (the Script Runner part of section 4): *)
(* a hook script is queued for every event whose script is configured,   *)
(* at most Limit scripts run at once, and every queued script eventually  *)
(* runs and ends.  No order between scripts is promised.                  *)
(***************************************************************************)
EXTENDS Naturals, Sequences, FiniteSets

CONSTANTS
  Kinds,       \* the events that have a hook script
  Ids,         \* what an event carries: a service or program id
  Limit,       \* how many scripts may run at once
  Slots        \* the positions of jobs the liveness condition ranges over

VARIABLE jobs  \* the scripts queued so far, in order: kind, id and state

vars == <<jobs>>

Running == {i \in DOMAIN jobs : jobs[i].st = "running"}

Init == jobs = <<>>

\* An event of a kind with a script queues the script.
Submit(k, p) == jobs' = Append(jobs, [kind |-> k, id |-> p, st |-> "queued"])

\* A queued script starts while fewer than Limit run.
Start(i) ==
  /\ jobs[i].st = "queued"
  /\ Cardinality(Running) < Limit
  /\ jobs' = [jobs EXCEPT ![i].st = "running"]

\* A running script ends; the slot it frees may go to a queued script in
\* the same step.
End(i) ==
  /\ jobs[i].st = "running"
  /\ \/ jobs' = [jobs EXCEPT ![i].st = "done"]
     \/ \E j \in DOMAIN jobs :
          /\ jobs[j].st = "queued"
          /\ jobs' = [jobs EXCEPT ![i].st = "done", ![j].st = "running"]

Next ==
  \/ \E k \in Kinds, p \in Ids : Submit(k, p)
  \/ \E i \in DOMAIN jobs : Start(i) \/ End(i)

\* A queued script that can start again and again does start: a free slot
\* is not kept from it forever.  A running script ends.
Fairness ==
  \A i \in Slots :
    /\ SF_vars(i \in DOMAIN jobs /\ Start(i))
    /\ WF_vars(i \in DOMAIN jobs /\ End(i))

Spec == Init /\ [][Next]_vars /\ Fairness

=============================================================================
