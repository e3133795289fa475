------------------------- MODULE MCTimeshiftManager -------------------------
(* Bounds and constants for checking TimeshiftManager with TLC.           *)
EXTENDS TimeshiftManager

\* One configured recorder; the events of different recorders are
\* independent in every handler except the replay snapshot.
MCRecorderOrder == <<"r1">>
MCRecorderOrder2 == <<"r1", "r2">>

\* The mailbox holds at most MaxMailbox messages and every emitter receives
\* at most MaxReceived events: enough for a registration, a health check
\* and a full Started..Stopped cycle to be in flight together.
MaxMailbox == 4
MaxReceived == 5

WithinBounds ==
    /\ Len(mbox) <= MaxMailbox
    /\ \A e \in Emitters : Len(seen[e]) <= MaxReceived
=============================================================================
