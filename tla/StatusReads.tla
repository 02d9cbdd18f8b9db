----------------------------- MODULE StatusReads -----------------------------
(***************************************************************************)
(* A client's get_status against the writers of DesignPublication.  The    *)
(* request takes no lock: it reads the root status, then the manifest,     *)
(* then whether the workflow is active, and resolves the verified version  *)
(* in further reads, while operations rewrite the files in between.        *)
(***************************************************************************)
EXTENDS DesignPublication

VARIABLES
    rpc,       \* the step the request is at
    rroot,     \* root_status
    rversion,  \* the version the manifest named when it was last read
    rdigest,   \* the digest it named
    ranswer,   \* the status returned
    seen       \* history: the versions served since the request began

reader    == <<rpc, rroot, rversion, rdigest, ranswer, seen>>
readsVars == <<vars, reader>>

Answered(doc) == /\ ranswer' = doc
                 /\ rpc' = "done"

ReadsTypeOK ==
    /\ TypeOK
    /\ rpc \in {"none", "manifest", "decide", "resolve", "verify", "load", "done"}
    /\ rroot \in StatusDoc
    /\ rversion \in OptVersion
    /\ rdigest \in StatusDoc
    /\ ranswer.status \in {"absent", "pending", "running", "completed", "failed", "quarantined"}
    /\ seen \subseteq OptVersion

ReadsInit ==
    /\ Init
    /\ rpc = "none"
    /\ rroot = Absent
    /\ rversion = NoVersion
    /\ rdigest = Absent
    /\ ranswer = Absent
    /\ seen = {}

-----------------------------------------------------------------------------
Serving == pc \notin {"down", "recover"}

ReadRoot ==
    /\ rpc = "none"
    /\ Serving
    /\ root # Absent
    /\ rroot' = root
    /\ rpc' = "manifest"
    /\ seen' = {manifest.version}
    /\ UNCHANGED <<vars, rversion, rdigest, ranswer>>

ReadManifest ==
    /\ rpc = "manifest"
    /\ rversion' = manifest.version
    /\ rpc' = "decide"
    /\ UNCHANGED <<vars, rroot, rdigest, ranswer, seen>>

ShowsOperation ==
    /\ Unsettled(rroot)
    /\ rroot.op
    /\ \/ WorkflowActive
       \/ rversion = NoVersion
       \/ rroot.active = rversion

Quarantine(doc) == [doc EXCEPT !.status = "quarantined"]

\* Mutant: a completed root status is believed without a manifest.
TrustedRoot == rroot

\* Without a manifest the root status answers, unless it claims completion.
RootAnswer == IF rroot.status = "completed" THEN Quarantine(rroot) ELSE rroot

Decide ==
    /\ rpc = "decide"
    /\ \/ ShowsOperation /\ Answered(rroot)
       \/ /\ ~ShowsOperation
          /\ rversion = NoVersion
          /\ Answered(RootAnswer)
       \/ /\ ~ShowsOperation
          /\ rversion # NoVersion
          /\ rpc' = "resolve"
          /\ UNCHANGED ranswer
    /\ UNCHANGED <<vars, rroot, rversion, rdigest, seen>>

\* verified_active_version reads the manifest again.
Resolve ==
    /\ rpc = "resolve"
    /\ rversion' = manifest.version
    /\ rdigest' = manifest.digest
    /\ rpc' = "verify"
    /\ UNCHANGED <<vars, rroot, ranswer, seen>>

Verify ==
    /\ rpc = "verify"
    /\ IF Certifiable(rversion) /\ vstatus[rversion] = rdigest
       THEN rpc' = "load" /\ UNCHANGED ranswer
       ELSE Answered(Quarantine(rroot))
    /\ UNCHANGED <<vars, rroot, rversion, rdigest, seen>>

\* get_status opens the verified status file once more.
Load ==
    /\ rpc = "load"
    /\ Answered(vstatus[rversion])
    /\ UNCHANGED <<vars, rroot, rversion, rdigest, seen>>

Return ==
    /\ rpc = "done"
    /\ rpc' = "none"
    /\ rroot' = Absent
    /\ rversion' = NoVersion
    /\ rdigest' = Absent
    /\ ranswer' = Absent
    /\ seen' = {}
    /\ UNCHANGED vars

\* The writers move on; a death of the process ends the request with it.
WriterStep ==
    /\ Next
    /\ IF pc' = "down"
       THEN /\ rpc' = "none"
            /\ rroot' = Absent
            /\ rversion' = NoVersion
            /\ rdigest' = Absent
            /\ ranswer' = Absent
            /\ seen' = {}
       ELSE /\ seen' = IF rpc \in {"none", "done"} THEN seen ELSE seen \cup {manifest'.version}
            /\ UNCHANGED <<rpc, rroot, rversion, rdigest, ranswer>>

ReadStep == ReadRoot \/ ReadManifest \/ Decide \/ Resolve \/ Verify \/ Load \/ Return

ReadsNext == WriterStep \/ ReadStep

ReadsSpec == ReadsInit /\ [][ReadsNext]_readsVars

-----------------------------------------------------------------------------
\* A status answered as completed is that of a version that was the active
\* design at some moment of the request.
CompletedWasServed ==
    rpc = "done" /\ ranswer.status = "completed" =>
        ranswer.version \in seen \ {NoVersion}

\* A request that began after a commit is never answered with a failure or a
\* quarantine, whatever edit, rollback or failing projection runs meanwhile.
CommittedNeverAnsweredFailed ==
    rpc = "done" /\ ranswer.status \in {"failed", "quarantined"} => NoVersion \in seen

\* A status read without a lock in the middle of an edit, a rollback or a recovery is that
\* of a design that was served meanwhile, and names a failure only of one that never
\* was committed (get_status).
StatusesTrue ==
    ReadsTypeOK /\ CompletedWasServed /\ CommittedNeverAnsweredFailed
=============================================================================
