--------------------------- MODULE MCWorkflowGate ---------------------------
(* WorkflowGate for TLC: the configuration gives threads, locks and        *)
(* identifiers model values.                                               *)
EXTENDS WorkflowGate

FirstDrawn == CHOOSE w \in Workflows : TRUE

\* The bound of the run: a client acts before the POST is answered on any design
\* but the first, which is then what takes the permit or the slot of the others.
HasteBound ==
    users'[FirstDrawn] > users[FirstDrawn] => answered[FirstDrawn] # "none"
=============================================================================
