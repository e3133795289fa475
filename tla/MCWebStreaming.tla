--------------------------- MODULE MCWebStreaming ---------------------------
EXTENDS WebStreaming

\* The awaits at which the future is dropped in the passing runs: before
\* StartStreaming is sent, while the tracker starts and while waiting for
\* the first chunk.
MCCancelAfterTrigger == {"query", "track", "peek"}

\* The await on StartStreaming's reply as well.
MCCancelAnywhere == {"query", "start", "track", "peek"}
=============================================================================
