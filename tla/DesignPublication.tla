-------------------------- MODULE DesignPublication --------------------------
(***************************************************************************)
(* How one workflow's design becomes durable and public.                   *)
(*                                                                         *)
(* The module follows the files WorkflowService and SceneVersioningService *)
(* keep for a workflow, one write at a time: status.json at its root, one  *)
(* versions/<id>.json per scene version with the status.json of its        *)
(* artifact directory, the compatibility pointer active_version.json and   *)
(* the commit marker active_design.json.  An initial generation, an edit   *)
(* or a rollback writes them in program order; the process may die between *)
(* two writes, a write may raise before or after it took effect, and       *)
(* start-up reconciles what an interrupted process left behind.            *)
(*                                                                         *)
(* Operations on a workflow are serialized (the per-workflow lock and the  *)
(* active count are the subject of WorkflowGate), so one job is enough.    *)
(***************************************************************************)
EXTENDS Naturals

CONSTANTS
    Versions,     \* identifiers save_version can draw
    NoVersion,    \* None, where the code holds no version identifier
    MaxCrashes,   \* bound on process deaths in a behaviour
    MaxFaults,    \* bound on writes that raise in a behaviour
    LateFaults    \* may a write raise after it took effect (directory fsync)?

ASSUME VersionsAssumption == NoVersion \notin Versions
ASSUME BoundsAssumption   == /\ MaxCrashes \in Nat
                             /\ MaxFaults \in Nat
                             /\ LateFaults \in BOOLEAN

VARIABLES
    root,         \* status.json of the workflow directory
    versions,     \* versions/<id>.json: status, and whether artifact_dir is set
    vstatus,      \* status.json of each version's artifact directory
    pointer,      \* active_version.json
    manifest,     \* active_design.json: version and digest of its status
    kind,         \* the operation in progress
    pc,           \* the step it is at; "idle" and "down" when there is none
    cand,         \* the version it creates or restores
    base,         \* the version served when it began
    prev,         \* previous_status, as _begin_active_operation read it
    result,       \* OrchestratorResult.status
    reply,        \* what the caller was last told, and of which version
    interrupted,  \* history: the candidate whose revision a death interrupted
    crashes,
    faults

files == <<root, versions, vstatus, pointer, manifest>>
job   == <<kind, cand, base, prev, result>>
vars  == <<files, job, pc, reply, interrupted, crashes, faults>>

-----------------------------------------------------------------------------
(* Documents.                                                              *)

OptVersion == Versions \cup {NoVersion}

StatusDoc == [status  : {"absent", "pending", "running", "completed", "failed"},
              version : OptVersion,
              active  : OptVersion,
              op      : BOOLEAN]       \* active_operation is an object

VersionDoc == [status : {"absent", "generating", "completed", "failed"},
               dir    : BOOLEAN]

Doc(status, version, active) ==
    [status |-> status, version |-> version, active |-> active, op |-> FALSE]

Absent        == Doc("absent", NoVersion, NoVersion)
AbsentVersion == [status |-> "absent", dir |-> FALSE]
NoManifest    == [version |-> NoVersion, digest |-> Absent]
NoReply       == [kind |-> "none", version |-> NoVersion]

Kinds == {"none", "create", "edit", "rollback"}

Endings == {"finished", "applied", "rejected", "raised", "rolled_back"}

Pcs == {"idle", "down", "recover",
        "queued", "generate", "save", "issue", "fail_status",
        "begin", "plan", "revise", "restore", "abort", "final_status",
        "status", "update", "commit_pointer", "commit_manifest",
        "project", "announce"} \cup Endings

TypeOK ==
    /\ root \in StatusDoc
    /\ versions \in [Versions -> VersionDoc]
    /\ vstatus \in [Versions -> StatusDoc]
    /\ pointer \in OptVersion
    /\ manifest \in [version : OptVersion, digest : StatusDoc]
    /\ kind \in Kinds
    /\ pc \in Pcs
    /\ cand \in OptVersion
    /\ base \in OptVersion
    /\ prev \in StatusDoc
    /\ result \in {"none", "completed", "failed"}
    /\ reply \in [kind : {"none"} \cup Endings, version : OptVersion]
    /\ interrupted \in OptVersion
    /\ crashes \in 0..MaxCrashes
    /\ faults \in 0..MaxFaults

-----------------------------------------------------------------------------
(* What a reader derives from the files.                                   *)

ActiveVersionId ==
    IF manifest.version # NoVersion THEN manifest.version ELSE pointer

\* A version commit_active_version accepts.  The evidence that
\* verify_persisted_version_detailed goes through is abstracted to the completed
\* status: a completed result carries its certificate, or the run raised.
Certifiable(v) ==
    /\ versions[v].status = "completed"
    /\ versions[v].dir
    /\ vstatus[v].status = "completed"

Verified ==
    /\ manifest.version # NoVersion
    /\ Certifiable(manifest.version)
    /\ manifest.digest = vstatus[manifest.version]

\* _is_workflow_active: a rollback holds the lock but is not counted.
WorkflowActive == kind = "create" \/ (kind = "edit" /\ pc # "begin")

Unsettled(doc) == doc.status \in {"pending", "running"}

OperationShown ==
    /\ Unsettled(root)
    /\ root.op
    /\ \/ WorkflowActive
       \/ manifest.version = NoVersion
       \/ root.active = manifest.version

Quarantined == [root EXCEPT !.status = "quarantined"]

PublicStatus ==
    IF OperationShown THEN root
    ELSE IF Verified THEN vstatus[manifest.version]
    ELSE IF manifest.version # NoVersion \/ root.status = "completed" THEN Quarantined
    ELSE root

-----------------------------------------------------------------------------
(* Writes that raise.                                                      *)

\* _run_after_canonical_commit swallows what these steps raise.
BestEffort ==
    \/ pc = "announce" /\ kind # "rollback"
    \/ pc = "project" /\ (kind = "edit" \/ (kind = "create" /\ result = "completed"))

Ending ==
    CASE kind = "edit"     -> "applied"
      [] kind = "rollback" -> "rolled_back"
      [] OTHER             -> "finished"

Handler ==
    CASE BestEffort /\ pc = "project"                            -> "announce"
      [] BestEffort /\ pc = "announce"                           -> Ending
      [] kind = "create" /\ pc \notin {"issue", "fail_status"}   -> "issue"
      [] kind = "edit" /\ pc \notin {"begin", "abort"}           -> "abort"
      [] OTHER                                                   -> "raised"

Fault == /\ faults < MaxFaults
         /\ faults' = faults + 1

\* The step's write is made; the next statement runs, or the write itself
\* raised once the new document was in place.
Wrote(next) ==
    \/ /\ pc' = next
       /\ faults' = faults
    \/ /\ LateFaults
       /\ Fault
       /\ pc' = Handler

WriteSteps == {"queued", "save", "issue", "fail_status", "begin", "plan",
               "restore", "abort", "final_status", "status", "update",
               "commit_pointer", "commit_manifest", "project", "announce"}

\* The step's write raised and left the old document.
WriteFails ==
    /\ pc \in WriteSteps
    /\ Fault
    /\ pc' = Handler
    /\ UNCHANGED <<files, job, reply, interrupted, crashes>>

Idle(next) ==
    /\ pc' = next
    /\ kind' = "none"
    /\ cand' = NoVersion
    /\ base' = NoVersion
    /\ prev' = Absent
    /\ result' = "none"

Finish ==
    /\ pc \in Endings
    /\ Idle("idle")
    /\ reply' = [kind    |-> IF kind = "create" THEN "finished" ELSE pc,
                 version |-> IF pc \in {"applied", "rolled_back"} THEN cand ELSE base]
    /\ UNCHANGED <<files, interrupted, crashes, faults>>

-----------------------------------------------------------------------------
(* create_design and its worker.                                           *)

CreateDesign ==
    /\ pc = "idle"
    /\ root = Absent
    /\ root' = Doc("pending", NoVersion, NoVersion)
    /\ kind' = "create"
    /\ pc' = "queued"
    /\ reply' = NoReply
    /\ UNCHANGED <<versions, vstatus, pointer, manifest,
                   cand, base, prev, result, interrupted, crashes, faults>>

\* _submit_background raised: the directory is removed again.
CreateRefused ==
    /\ pc = "queued"
    /\ root' = Absent
    /\ Idle("idle")
    /\ UNCHANGED <<versions, vstatus, pointer, manifest, reply, interrupted, crashes, faults>>

StartGeneration ==
    /\ pc = "queued"
    /\ root' = [root EXCEPT !.status = "running"]
    /\ Wrote("generate")
    /\ UNCHANGED <<versions, vstatus, pointer, manifest, job, reply, interrupted, crashes>>

\* A result without a scene is a failed one and creates no version.
GenerationReturns(status, scene) ==
    /\ pc = "generate"
    /\ status = "completed" => scene
    /\ result' = status
    /\ pc' = IF scene THEN "save" ELSE "project"
    /\ UNCHANGED <<files, kind, cand, base, prev, reply, interrupted, crashes, faults>>

\* The orchestrator, or the completion proof demanded of its result, raised.
RunRaises ==
    /\ pc \in {"generate", "plan", "revise"}
    /\ pc' = Handler
    /\ UNCHANGED <<files, job, reply, interrupted, crashes, faults>>

ReportIssue ==
    /\ pc = "issue"
    /\ Wrote("fail_status")
    /\ UNCHANGED <<files, job, reply, interrupted, crashes>>

FailedStatus == Doc("failed", NoVersion, NoVersion)

WriteFailedStatus ==
    /\ pc = "fail_status"
    /\ root' = FailedStatus
    /\ Wrote("finished")
    /\ UNCHANGED <<versions, vstatus, pointer, manifest, job, reply, interrupted, crashes>>

-----------------------------------------------------------------------------
(* Versions, written alike by an initial generation and by an edit.        *)

\* Mutant: an identifier already in use is drawn again.
ReusedId(v) == TRUE

\* A fresh identifier.  save_version draws 32 random bits and does not look.
Fresh(v) == versions[v].status = "absent"

SaveVersion(v) ==
    /\ \/ pc = "save"
       \/ pc = "plan" /\ Verified
    /\ Fresh(v)
    /\ versions' = [versions EXCEPT ![v].status =
                        IF kind = "edit" THEN "generating" ELSE result]
    /\ cand' = v
    /\ Wrote(IF kind = "edit" THEN "revise" ELSE "status")
    /\ UNCHANGED <<root, vstatus, pointer, manifest,
                   kind, base, prev, result, reply, interrupted, crashes>>

\* An edit's status names the version still served until the final rewrite.
WriteVersionStatus ==
    /\ pc = "status"
    /\ vstatus' = [vstatus EXCEPT ![cand] =
                       Doc(result, cand,
                           IF kind = "create" /\ result = "completed"
                           THEN cand ELSE ActiveVersionId)]
    /\ Wrote("update")
    /\ UNCHANGED <<root, versions, pointer, manifest, job, reply, interrupted, crashes>>

UpdateVersion ==
    /\ pc = "update"
    /\ versions' = [versions EXCEPT ![cand] = [status |-> result, dir |-> TRUE]]
    /\ Wrote(CASE kind = "edit" /\ result = "completed" -> "final_status"
               [] kind = "edit"                         -> "restore"
               [] result = "completed"                  -> "commit_pointer"
               [] OTHER                                 -> "project")
    /\ UNCHANGED <<root, vstatus, pointer, manifest, job, reply, interrupted, crashes>>

-----------------------------------------------------------------------------
(* commit_active_version and the projections after it.                     *)

CommitPointer ==
    /\ pc = "commit_pointer"
    /\ Certifiable(cand)
    /\ pointer' = cand
    /\ Wrote("commit_manifest")
    /\ UNCHANGED <<root, versions, vstatus, manifest, job, reply, interrupted, crashes>>

\* Mutant: only the compatibility pointer moves.
StaleManifest == manifest

PublishedManifest == [version |-> cand, digest |-> vstatus[cand]]

CommitManifest ==
    /\ pc = "commit_manifest"
    /\ manifest' = PublishedManifest
    /\ Wrote("project")
    /\ UNCHANGED <<root, versions, vstatus, pointer, job, reply, interrupted, crashes>>

ProjectRoot ==
    /\ pc = "project"
    /\ root' = IF cand # NoVersion THEN vstatus[cand]
               ELSE Doc("failed", NoVersion, ActiveVersionId)
    /\ Wrote("announce")
    /\ UNCHANGED <<versions, vstatus, pointer, manifest, job, reply, interrupted, crashes>>

Announce ==
    /\ pc = "announce"
    /\ Wrote(Ending)
    /\ UNCHANGED <<files, job, reply, interrupted, crashes>>

-----------------------------------------------------------------------------
(* edit_design.                                                            *)

BeginEdit ==
    /\ pc = "idle"
    /\ root # Absent
    /\ kind' = "edit"
    /\ pc' = "begin"
    /\ prev' = root
    /\ base' = manifest.version
    /\ reply' = NoReply
    /\ UNCHANGED <<files, cand, result, interrupted, crashes, faults>>

BeginActiveOperation ==
    /\ pc = "begin"
    /\ root' = [root EXCEPT !.status = "running", !.op = TRUE]
    /\ Wrote("plan")
    /\ UNCHANGED <<versions, vstatus, pointer, manifest, job, reply, interrupted, crashes>>

\* No active version, a refused target, an invalid patch, a missing plan.
PlanRejected ==
    /\ pc = "plan"
    /\ pc' = "restore"
    /\ UNCHANGED <<files, job, reply, interrupted, crashes, faults>>

RevisionReturns(status) ==
    /\ pc = "revise"
    /\ result' = status
    /\ pc' = "status"
    /\ UNCHANGED <<files, kind, cand, base, prev, reply, interrupted, crashes, faults>>

WriteFinalStatus ==
    /\ pc = "final_status"
    /\ vstatus' = [vstatus EXCEPT ![cand].active = cand]
    /\ Wrote("commit_pointer")
    /\ UNCHANGED <<root, versions, pointer, manifest, job, reply, interrupted, crashes>>

\* The previous status, unless the operation's own was already replaced.
RestoredRoot == IF root.op THEN prev ELSE root

\* The normal end of an edit that is not applied, and its exception handler.
RestoreStatus ==
    /\ pc \in {"restore", "abort"}
    /\ root' = RestoredRoot
    /\ Wrote(IF pc = "restore" THEN "rejected" ELSE "raised")
    /\ UNCHANGED <<versions, vstatus, pointer, manifest, job, reply, interrupted, crashes>>

-----------------------------------------------------------------------------
(* rollback_version.                                                       *)

BeginRollback(v) ==
    /\ pc = "idle"
    /\ versions[v].status = "completed"
    /\ versions[v].dir
    /\ kind' = "rollback"
    /\ pc' = "commit_pointer"
    /\ cand' = v
    /\ base' = manifest.version
    /\ reply' = NoReply
    /\ UNCHANGED <<files, prev, result, interrupted, crashes, faults>>

-----------------------------------------------------------------------------
(* Process death and start-up reconciliation.                              *)

Crash ==
    /\ pc # "down"
    /\ crashes < MaxCrashes
    /\ crashes' = crashes + 1
    /\ interrupted' = IF kind = "edit" /\ pc \in {"revise", "status", "update"}
                      THEN cand ELSE interrupted
    /\ Idle("down")
    /\ UNCHANGED <<files, reply, faults>>

Restart ==
    /\ pc = "down"
    /\ pc' = "recover"
    /\ UNCHANGED <<files, job, reply, interrupted, crashes, faults>>

RestoreTarget ==
    IF root.active # NoVersion THEN root.active ELSE ActiveVersionId

EditRestorable ==
    /\ root.op
    /\ RestoreTarget # NoVersion
    /\ manifest.version # NoVersion => Verified /\ manifest.version = RestoreTarget
    /\ versions[RestoreTarget].status = "completed"
    /\ versions[RestoreTarget].dir
    /\ vstatus[RestoreTarget] # Absent

\* Mutant: the candidates are not looked for.
NoCandidates == {}

\* Mutant: the served version and settled candidates are not spared.
AllVersions == {v \in Versions : versions[v].status # "absent"}

StaleCandidates ==
    {v \in Versions \ {RestoreTarget, ActiveVersionId} :
        versions[v].status = "generating"}

FailStaleCandidate(v) ==
    /\ pc = "recover"
    /\ Unsettled(root)
    /\ EditRestorable
    /\ v \in StaleCandidates
    /\ versions' = [versions EXCEPT ![v].status = "failed"]
    /\ UNCHANGED <<root, vstatus, pointer, manifest, job, pc, reply, interrupted, crashes, faults>>

RestoreInterruptedEdit ==
    /\ pc = "recover"
    /\ Unsettled(root)
    /\ EditRestorable
    /\ StaleCandidates = {}
    /\ root' = Doc("completed", RestoreTarget, RestoreTarget)
    /\ pc' = "idle"
    /\ interrupted' = NoVersion
    /\ UNCHANGED <<versions, vstatus, pointer, manifest, job, reply, crashes, faults>>

RestoreCommittedActiveDesign ==
    /\ pc = "recover"
    /\ Unsettled(root)
    /\ ~EditRestorable
    /\ Verified
    /\ root' = vstatus[manifest.version]
    /\ pc' = "idle"
    /\ interrupted' = NoVersion
    /\ UNCHANGED <<versions, vstatus, pointer, manifest, job, reply, crashes, faults>>

\* The document is failed in place: an interrupted active_operation stays in it.
FailInterruptedWorkflow ==
    /\ pc = "recover"
    /\ Unsettled(root)
    /\ ~EditRestorable
    /\ ~Verified
    /\ root' = [root EXCEPT !.status = "failed"]
    /\ pc' = "idle"
    /\ interrupted' = NoVersion
    /\ UNCHANGED <<versions, vstatus, pointer, manifest, job, reply, crashes, faults>>

SkipSettledWorkflow ==
    /\ pc = "recover"
    /\ ~Unsettled(root)
    /\ pc' = "idle"
    /\ interrupted' = NoVersion
    /\ UNCHANGED <<files, job, reply, crashes, faults>>

-----------------------------------------------------------------------------
Init ==
    /\ root = Absent
    /\ versions = [v \in Versions |-> AbsentVersion]
    /\ vstatus = [v \in Versions |-> Absent]
    /\ pointer = NoVersion
    /\ manifest = NoManifest
    /\ kind = "none"
    /\ pc = "idle"
    /\ cand = NoVersion
    /\ base = NoVersion
    /\ prev = Absent
    /\ result = "none"
    /\ reply = NoReply
    /\ interrupted = NoVersion
    /\ crashes = 0
    /\ faults = 0

CreateStep ==
    \/ StartGeneration
    \/ \E status \in {"completed", "failed"}, scene \in BOOLEAN :
           GenerationReturns(status, scene)
    \/ ReportIssue
    \/ WriteFailedStatus

EditStep ==
    \/ BeginActiveOperation
    \/ PlanRejected
    \/ \E status \in {"completed", "failed"} : RevisionReturns(status)
    \/ WriteFinalStatus
    \/ RestoreStatus

CommitStep == CommitPointer \/ CommitManifest \/ ProjectRoot \/ Announce

VersionStep ==
    \/ \E v \in Versions : SaveVersion(v)
    \/ WriteVersionStatus
    \/ UpdateVersion

RecoveryStep ==
    \/ Restart
    \/ \E v \in Versions : FailStaleCandidate(v)
    \/ RestoreInterruptedEdit
    \/ RestoreCommittedActiveDesign
    \/ FailInterruptedWorkflow
    \/ SkipSettledWorkflow

\* Steps the process takes by itself once an operation is under way.
JobStep == CreateStep \/ EditStep \/ CommitStep \/ VersionStep \/ RunRaises \/ Finish

Request ==
    \/ CreateDesign
    \/ BeginEdit
    \/ \E v \in Versions : BeginRollback(v)

Next == Request \/ CreateRefused \/ JobStep \/ WriteFails \/ Crash \/ RecoveryStep

Spec == Init /\ [][Next]_vars
-----------------------------------------------------------------------------
(* Properties.                                                             *)

\* The commit marker always names a completed version whose artifact status is
\* the very document that was hashed: verified_active_version never fails on
\* what the service itself wrote, whatever write raised or death intervened.
ManifestCertified == manifest.version # NoVersion => Verified

\* What is served is frozen: while a version is the active design, no step of
\* an edit, a rollback or a reconciliation rewrites its record or its status.
ServedVersionFrozen ==
    [][manifest.version # NoVersion =>
          /\ versions'[manifest.version] = versions[manifest.version]
          /\ vstatus'[manifest.version] = vstatus[manifest.version]]_vars

\* The active design only moves by the commit of the edit or rollback that is
\* under way: reconciliation and exception handlers neither change nor lose it.
OnlyCommitsMoveTheDesign ==
    [][manifest' # manifest =>
          /\ kind # "none"
          /\ manifest'.version = cand
          /\ Certifiable(cand)
          /\ kind # "rollback" => result = "completed"]_vars

\* An answer outlives the process: after "applied" or "rolled back" the version
\* named is served, after "rejected" the one served before, until the next
\* operation starts, even across deaths, restarts and failed projections.
ReplyTellsServed ==
    reply.kind \in {"applied", "rejected", "rolled_back"} =>
        manifest.version = reply.version

\* Storage permitting, the status shown while nothing runs is a settled one,
\* deaths in the middle of any write included.
SettledWhenIdle ==
    pc = "idle" /\ faults = 0 => ~Unsettled(PublicStatus)

\* An edit interrupted while its root status named the served version loses its
\* candidate and gives the root status back to the served version.
InterruptedEditSettled ==
    [][/\ pc = "recover" /\ pc' = "idle"
       /\ interrupted # NoVersion
       /\ root.active = manifest.version
       => /\ versions'[interrupted].status = "failed"
          /\ root'.status = "completed"
          /\ root'.version = manifest.version]_vars

\* The files and steps above implement the register of DesignRegister: a design
\* becomes active in one step, at most once per operation, and answers are true.
Register == INSTANCE DesignRegister WITH
    certified <- {v \in Versions : versions[v].status = "completed" /\ versions[v].dir},
    active    <- manifest.version,
    busy      <- kind # "none",
    target    <- cand,
    answer    <- reply

ImplementsRegister == Register!Spec

\* After whatever failed or was interrupted, the root status ends where the commit marker
\* is, and a candidate of an interrupted edit is given up (_restore_interrupted_edit,
\* _restore_committed_active_design).
RecoverySettles == []SettledWhenIdle /\ InterruptedEditSettled
=============================================================================
