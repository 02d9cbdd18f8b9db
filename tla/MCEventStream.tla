---------------------------- MODULE MCEventStream ----------------------------
(* A browser that follows one workflow, streaming or polling, for TLC.     *)
EXTENDS EventPolling
=============================================================================
