-------------------------- MODULE MCGroqTransport --------------------------
(* Instances of GroqTransport for TLC.                                     *)
EXTENDS GroqTransport

\* Two callers wait for the one slot and sleep between their attempts; share
\* one credential; or fail over from one credential to another.
MCSetups == {[count |-> 1, inFlight |-> 1, retries |-> 1, threshold |-> 2, rounds |-> 2],
             [count |-> 1, inFlight |-> 2, retries |-> 0, threshold |-> 2, rounds |-> 1],
             [count |-> 2, inFlight |-> 1, retries |-> 0, threshold |-> 1, rounds |-> 1]}

=============================================================================
