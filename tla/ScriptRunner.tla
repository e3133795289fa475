---------------------------- MODULE ScriptRunner ----------------------------
(***************************************************************************)
(* The hook-script runner actor (mirakc-core/src/script_runner.rs).        *)
(*                                                                         *)
(* The actor handles one event of its mailbox at a time.  For an event     *)
(* whose script is configured it spawns a task; the task acquires a permit *)
(* of a semaphore sized from the concurrency setting (tokio's semaphore is *)
(* fair: waiters get permits in FIFO order), runs the script and drops the *)
(* permit when the script has exited or failed to start.  The script's     *)
(* outcome is only logged, so a run is one step whatever it returns.       *)
(***************************************************************************)
EXTENDS Integers, Sequences, SequencesExt, FiniteSets

CONSTANTS
    Configured,   \* the event kinds whose script is a non-empty command
    Programs,     \* service and program ids carried by the events
    Concurrency,  \* config.scripts.concurrency
    NumCpus,      \* num_cpus::get()
    MaxPermits    \* Semaphore::MAX_PERMITS

Kinds == {"epg.programs-updated", "recording.started",
          "recording.stopped", "recording.failed"}

\* Concurrency::Unlimited, Number(n), or NumCpus(r) with r = num / den.
ConcurrencySettings ==
    [kind : {"Unlimited"}] \cup [kind : {"Number"}, n : Nat]
    \cup [kind : {"NumCpus"}, num : Nat, den : Nat \ {0}]

ASSUME /\ Configured \subseteq Kinds
       /\ Concurrency \in ConcurrencySettings
       /\ NumCpus \in Nat \ {0}
       /\ MaxPermits \in Nat \ {0}

VARIABLES
    registered, \* the emitters started() has registered, in order
    inbox,    \* the actor's mailbox of events
    tasks,    \* spawned tasks in spawn order: kind, id, state
    waiters,  \* the semaphore's FIFO queue of waiting tasks
    permits   \* the semaphore's available permits

vars == <<registered, inbox, tasks, waiters, permits>>

TaskStates == {"spawned", "waiting", "running", "writing", "done"}

\* Tasks holding a permit: the script runs from the acquired permit until
\* it has been waited for (spawn, stdin writing and wait).
Running == {i \in DOMAIN tasks : tasks[i].st \in {"running", "writing"}}

\* A mutant: Number(0) is not clamped to one permit.
PermitsNoClamp(c) ==
    CASE c.kind = "Unlimited" -> MaxPermits
      [] c.kind = "Number"    -> c.n
      [] c.kind = "NumCpus"   -> IF (NumCpus * c.num) \div c.den >= 1
                                   THEN (NumCpus * c.num) \div c.den ELSE 1

\* ScriptRunner::new: the size of the semaphore.  (x as f32).max(1.0) as
\* usize truncates, which equals the larger of the truncation and one.
Permits(c) ==
    CASE c.kind = "Unlimited" -> MaxPermits
      [] c.kind = "Number"    -> IF c.n >= 1 THEN c.n ELSE 1
      [] c.kind = "NumCpus"   -> IF (NumCpus * c.num) \div c.den >= 1
                                   THEN (NumCpus * c.num) \div c.den ELSE 1

\* ScriptRunner::started registers the actor as an emitter of the four
\* events, one call after the other.
RegistrationOrder == <<"epg.programs-updated", "recording.started",
                       "recording.stopped", "recording.failed">>

\* The lines a script reads on its stdin: the program id, and the reason
\* for a failed recording.
InputLines(kind) == IF kind = "recording.failed" THEN 2 ELSE 1

-----------------------------------------------------------------------------
(* The actor's handlers                                                    *)

\* One RegisterEmitter call of started(); the actor handles no message
\* before started() has returned.
RegisterEmitter ==
    /\ Len(registered) < Len(RegistrationOrder)
    /\ registered' = Append(registered, RegistrationOrder[Len(registered) + 1])
    /\ UNCHANGED <<inbox, tasks, waiters, permits>>

\* A handler: take the event; spawn the task when a script is configured
\* (has_*_script, create_*_task, ctx.spawn_task).
HandleEvent(kind) ==
    /\ Len(registered) = Len(RegistrationOrder)
    /\ inbox # <<>>
    /\ Head(inbox).kind = kind
    /\ inbox' = Tail(inbox)
    /\ tasks' = IF kind \in Configured
                  THEN Append(tasks, [kind |-> kind, id |-> Head(inbox).id,
                                      st |-> "spawned", lines |-> InputLines(kind)])
                  ELSE tasks
    /\ UNCHANGED <<registered, waiters, permits>>

HandleProgramsUpdated == HandleEvent("epg.programs-updated")
HandleRecordingStarted == HandleEvent("recording.started")
HandleRecordingStopped == HandleEvent("recording.stopped")
HandleRecordingFailed == HandleEvent("recording.failed")

-----------------------------------------------------------------------------
(* The spawned task: wrap()                                                *)

\* A mutant: the permit is bound to `_` and dropped at once.
AcquireDropped(i) ==
    /\ tasks[i].st = "spawned"
    /\ IF permits > 0 /\ waiters = <<>>
         THEN /\ tasks' = [tasks EXCEPT ![i].st = "running"]
              /\ UNCHANGED <<waiters, permits>>
         ELSE /\ tasks' = [tasks EXCEPT ![i].st = "waiting"]
              /\ waiters' = Append(waiters, i)
              /\ UNCHANGED permits
    /\ UNCHANGED <<registered, inbox>>

\* semaphore.acquire().await: take a permit if one is free and nobody is
\* queued before this task, otherwise queue up.
Acquire(i) ==
    /\ tasks[i].st = "spawned"
    /\ IF permits > 0 /\ waiters = <<>>
         THEN /\ tasks' = [tasks EXCEPT ![i].st = "running"]
              /\ permits' = permits - 1
              /\ UNCHANGED waiters
         ELSE /\ tasks' = [tasks EXCEPT ![i].st = "waiting"]
              /\ waiters' = Append(waiters, i)
              /\ UNCHANGED permits
    /\ UNCHANGED <<registered, inbox>>

\* The script's future returns, by an error at a `?` or with the exit
\* status: wrap() logs the result and drops the permit, which goes to the
\* first waiter, if any.
Finish(i) ==
    /\ IF waiters # <<>>
         THEN /\ tasks' = [tasks EXCEPT ![i].st = "done",
                                        ![Head(waiters)].st = "running"]
              /\ waiters' = Tail(waiters)
              /\ UNCHANGED permits
         ELSE /\ tasks' = [tasks EXCEPT ![i].st = "done"]
              /\ permits' = permits + 1
              /\ UNCHANGED waiters
    /\ UNCHANGED <<registered, inbox>>

\* spawn_command: the command is parsed and spawned, or fails (an empty
\* or unparsable command, a missing program).
SpawnScript(i) ==
    /\ tasks[i].st = "running"
    /\ \/ Finish(i)
       \/ /\ tasks' = [tasks EXCEPT ![i].st = "writing"]
          /\ UNCHANGED <<registered, inbox, waiters, permits>>

\* write_line: one JSON line to the script's stdin, which fails when the
\* script has closed it.
WriteLine(i) ==
    /\ tasks[i].st = "writing"
    /\ tasks[i].lines > 0
    /\ \/ Finish(i)
       \/ /\ tasks' = [tasks EXCEPT ![i].lines = @ - 1]
          /\ UNCHANGED <<registered, inbox, waiters, permits>>

\* drop(input) closes the script's stdin; child.wait() returns its exit
\* status or an error.
WaitScript(i) ==
    /\ tasks[i].st = "writing"
    /\ tasks[i].lines = 0
    /\ Finish(i)

-----------------------------------------------------------------------------
(* Environment: the EPG and the recording manager emit events.             *)

\* An emitter delivers only to the actors registered with it.
EmitEvent(kind, id) ==
    /\ kind \in Range(registered)
    /\ inbox' = Append(inbox, [kind |-> kind, id |-> id])
    /\ UNCHANGED <<registered, tasks, waiters, permits>>

Init ==
    /\ registered = <<>>
    /\ inbox = <<>>
    /\ tasks = <<>>
    /\ waiters = <<>>
    /\ permits = Permits(Concurrency)

Handle ==
    \/ HandleProgramsUpdated
    \/ HandleRecordingStarted
    \/ HandleRecordingStopped
    \/ HandleRecordingFailed

TaskStep ==
    \E i \in DOMAIN tasks : Acquire(i) \/ SpawnScript(i) \/ WriteLine(i) \/ WaitScript(i)

Next ==
    \/ RegisterEmitter
    \/ Handle
    \/ TaskStep
    \/ \E k \in Kinds, p \in Programs : EmitEvent(k, p)

\* started() gets the reply of each RegisterEmitter call, the actor drains
\* its mailbox, the runtime polls every ready task, and a
\* hook script terminates.  Every task step moves a task forward, so weak
\* fairness of any task step lets every task reach its end.
Fairness ==
    /\ WF_vars(RegisterEmitter)
    /\ WF_vars(Handle)
    /\ WF_vars(TaskStep)

Spec == Init /\ [][Next]_vars /\ Fairness

-----------------------------------------------------------------------------
(* Properties                                                              *)

\* No more scripts run at once than the configured concurrency allows: each
\* running task holds its permit until its script has finished.
RunningWithinConcurrency ==
    Cardinality(Running) <= Permits(Concurrency)

Pending(k, p) ==
    \E i \in DOMAIN tasks : tasks[i].kind = k /\ tasks[i].id = p
                            /\ tasks[i].st # "done"

\* Every script a handler spawned eventually runs to its end, whatever the
\* concurrency setting (zero included): no task waits for a permit forever.
EveryScriptRuns ==
    \A k \in Kinds, p \in Programs : Pending(k, p) ~> ~Pending(k, p)


\* The refinement mapping onto HookScripts: a task that has not got its
\* permit is queued, one that holds it runs, and a finished one is done.
JobState(st) ==
    CASE st \in {"spawned", "waiting"} -> "queued"
      [] st \in {"running", "writing"} -> "running"
      [] st = "done"                   -> "done"

HookJobs ==
    [i \in DOMAIN tasks |->
       [kind |-> tasks[i].kind, id |-> tasks[i].id, st |-> JobState(tasks[i].st)]]

=============================================================================
