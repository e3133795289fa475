--------------------------- MODULE MCScriptRunner ---------------------------
(* Bounds and constants for checking ScriptRunner with TLC.               *)
EXTENDS ScriptRunner

\* Every script but the EPG one is configured, so both branches of the
\* handlers are taken.
MCConfigured == {"recording.started", "recording.stopped", "recording.failed"}

\* concurrency: 0 in the configuration, which ScriptRunner::new clamps to
\* one permit.
MCZero == [kind |-> "Number", n |-> 0]

\* At most MaxEvents events are emitted and spawned in total: up to four
\* tasks contend for the permit.
MaxEvents == 4

WithinBounds == Len(inbox) + Len(tasks) <= MaxEvents

Scripts == INSTANCE HookScripts
             WITH jobs <- HookJobs, Kinds <- Configured, Ids <- Programs,
                  Limit <- Permits(Concurrency), Slots <- 1..MaxEvents

\* The runner implements the hook-script contract: a script is queued for
\* each event whose script is configured, no more than the semaphore's
\* permits run at once, and every queued script runs and ends.
ImplementsHookScripts == Scripts!Spec

=============================================================================
