---------------------------- MODULE DesignRegister ----------------------------
(***************************************************************************)
(* What the product promises of one workflow's active design.              *)
(*                                                                         *)
(* Versions become certified and stay so.  One operation at a time may     *)
(* name one version and make it active, in a single step, if it is         *)
(* certified.  A positive answer means the named version is the active     *)
(* one; a rejection means the operation changed nothing; a process death   *)
(* ends the operation without an answer and takes nothing back.            *)
(***************************************************************************)
CONSTANTS Versions, NoVersion

VARIABLES certified, active, busy, target, answer

vars == <<certified, active, busy, target, answer>>

Nothing == [kind |-> "none", version |-> NoVersion]

Init ==
    /\ certified = {}
    /\ active = NoVersion
    /\ busy = FALSE
    /\ target = NoVersion
    /\ answer = Nothing

\* An edit names its version later, a rollback at once.
Start(v) ==
    /\ ~busy
    /\ busy' = TRUE
    /\ target' = v
    /\ answer' = Nothing
    /\ UNCHANGED <<certified, active>>

Name(v) ==
    /\ busy
    /\ target = NoVersion
    /\ v \notin certified
    /\ target' = v
    /\ UNCHANGED <<certified, active, busy, answer>>

Certify ==
    /\ busy
    /\ target \in Versions \ certified
    /\ certified' = certified \cup {target}
    /\ UNCHANGED <<active, busy, target, answer>>

Activate ==
    /\ busy
    /\ target \in certified
    /\ active' = target
    /\ UNCHANGED <<certified, busy, target, answer>>

Truthful(reply) ==
    \/ reply.kind \in {"applied", "rolled_back"} /\ reply.version = target /\ active = target
    \/ reply.kind = "rejected" /\ reply.version = active /\ target \notin {active} \ {NoVersion}
    \/ reply.kind \in {"raised", "finished"}

Answer ==
    /\ busy
    /\ busy' = FALSE
    /\ target' = NoVersion
    /\ Truthful(answer')
    /\ UNCHANGED <<certified, active>>

\* The operation is refused before it did anything, or the process dies.
GiveUp ==
    /\ busy
    /\ busy' = FALSE
    /\ target' = NoVersion
    /\ UNCHANGED <<certified, active, answer>>

Next ==
    \/ \E v \in certified \cup {NoVersion} : Start(v)
    \/ \E v \in Versions : Name(v)
    \/ Certify
    \/ Activate
    \/ Answer
    \/ GiveUp

Spec == Init /\ [][Next]_vars
=============================================================================
