----------------------- MODULE DesignPublicationProofs -----------------------
(***************************************************************************)
(* Theorems of DesignPublication, of StatusReads and of BuildEvidence, for *)
(* every set of versions, every number of deaths and of failed writes, for *)
(* every scene and every alteration of the library and of the files.       *)
(*                                                                         *)
(* The inductive invariant adds to the types and to ManifestCertified what *)
(* the program order guarantees at each step: which operation runs there,  *)
(* that the version it rewrites is not the one served, and that the one it *)
(* is about to publish still passes the check made before the first write  *)
(* of the commit.  What each further theorem needs besides stands before   *)
(* it: the refinement of DesignRegister, the recovery after a death, and a *)
(* status read without a lock in the middle of an operation.  The last     *)
(* part is about what publication believes: the worker that draws a scene, *)
(* the files it leaves, and the lock, the certificate and the reads that   *)
(* vouch for them.                                                         *)
(***************************************************************************)
EXTENDS StatusReads, BuildEvidence, TLAPS

CreatePcs == {"queued", "generate", "save", "issue", "fail_status"}
EditPcs   == {"begin", "plan", "revise", "restore", "abort", "final_status"}
IdlePcs   == {"idle", "down", "recover"}

\* Which operation each step belongs to.
StepOwner ==
    /\ pc \in CreatePcs => kind = "create"
    /\ pc \in EditPcs => kind = "edit"
    /\ pc \in {"status", "update"} => kind \in {"create", "edit"}
    /\ pc \notin IdlePcs => kind # "none"

\* The result is known wherever it is written.
ResultKnown == pc \in {"save", "status", "update"} => result # "none"

\* The version an operation writes is its own and not the one served.
CandidatePrivate ==
    pc \in {"revise", "status", "update", "final_status"} =>
        cand \in Versions /\ cand # manifest.version

\* The version about to be published passed the certification check.
CommitChecked ==
    /\ pc \in {"commit_pointer", "commit_manifest"} =>
           cand \in Versions /\ (kind # "rollback" => result = "completed")
    /\ pc = "final_status" => result = "completed"
    /\ pc = "commit_manifest" => Certifiable(cand)

IInv == /\ TypeOK
        /\ StepOwner
        /\ ResultKnown
        /\ CandidatePrivate
        /\ CommitChecked
        /\ ManifestCertified

\* While an operation runs nothing was answered yet; an edit that has not
\* reached its commit finds the design it started from, and past the commit
\* the operation's own version is the one served.
AnswerInv ==
    /\ pc \notin IdlePcs => reply.kind = "none"
    /\ kind = "edit" /\ pc \in {"begin", "plan", "revise", "status", "update", "restore"} =>
           base = manifest.version
    /\ pc = "rejected" => base = manifest.version
    /\ pc \in {"project", "announce"} /\ kind \in {"edit", "rollback"} =>
           cand = manifest.version
    /\ pc \in {"applied", "rolled_back"} => cand = manifest.version
    /\ ReplyTellsServed

-----------------------------------------------------------------------------
(* Types.                                                                  *)

\* Documents built by Doc are status documents.
LEMMA DocType ==
    ASSUME NEW status \in {"absent", "pending", "running", "completed", "failed"},
           NEW version \in OptVersion, NEW active \in OptVersion
    PROVE  Doc(status, version, active) \in StatusDoc
  BY DEF Doc, StatusDoc

LEMMA AbsentType == Absent \in StatusDoc
  BY DocType DEF Absent, OptVersion

\* An exception or a success leads to a step of the program.
LEMMA HandlerType ==
    /\ Handler \in Pcs
    /\ Ending \in Pcs
  BY DEF Handler, Ending, Pcs, Endings

LEMMA WroteType ==
    ASSUME TypeOK, NEW next \in Pcs, Wrote(next)
    PROVE  pc' \in Pcs /\ faults' \in 0..MaxFaults
  BY HandlerType, BoundsAssumption DEF TypeOK, Wrote, Fault

LEMMA ActiveVersionType == TypeOK => ActiveVersionId \in OptVersion
  BY DEF TypeOK, ActiveVersionId

LEMMA TypeInit == Init => TypeOK
  BY AbsentType, BoundsAssumption
  DEF Init, TypeOK, AbsentVersion, VersionDoc, NoManifest, NoReply, OptVersion,
      Kinds, Pcs, Endings

LEMMA TypeNext == IInv /\ [Next]_vars => TypeOK'
  <1> SUFFICES ASSUME IInv, [Next]_vars PROVE TypeOK'
    OBVIOUS
  <1> USE AbsentType, DocType, WroteType, ActiveVersionType, HandlerType, BoundsAssumption
      DEF IInv, TypeOK, StepOwner, ResultKnown, CandidatePrivate, CommitChecked,
          files, job, OptVersion, Kinds
  <1>1. CASE CreateDesign
    BY <1>1 DEF CreateDesign, NoReply, Pcs
  <1>2. CASE BeginEdit
    BY <1>2 DEF BeginEdit, NoReply, Pcs
  <1>3. ASSUME NEW v \in Versions, BeginRollback(v) PROVE TypeOK'
    BY <1>3 DEF BeginRollback, NoReply, Pcs
  <1>4. CASE CreateRefused
    BY <1>4 DEF CreateRefused, Idle, Pcs
  <1>5. CASE StartGeneration
    <2>1. root' \in StatusDoc
      BY <1>5 DEF StartGeneration, StatusDoc
    <2> QED
      BY <1>5, <2>1 DEF StartGeneration, Pcs
  <1>6. ASSUME NEW status \in {"completed", "failed"}, NEW scene \in BOOLEAN,
               GenerationReturns(status, scene)
        PROVE  TypeOK'
    BY <1>6 DEF GenerationReturns, Pcs
  <1>7. CASE ReportIssue
    BY <1>7 DEF ReportIssue, Pcs
  <1>8. CASE WriteFailedStatus
    <2>1. root' \in StatusDoc
      BY <1>8, DocType DEF WriteFailedStatus, FailedStatus
    <2> QED
      BY <1>8, <2>1 DEF WriteFailedStatus, FailedStatus, Pcs, Endings
  <1>9. CASE BeginActiveOperation
    <2>1. root' \in StatusDoc
      BY <1>9 DEF BeginActiveOperation, StatusDoc
    <2> QED
      BY <1>9, <2>1 DEF BeginActiveOperation, Pcs
  <1>10. CASE PlanRejected
    BY <1>10 DEF PlanRejected, Pcs
  <1>11. ASSUME NEW status \in {"completed", "failed"}, RevisionReturns(status)
         PROVE  TypeOK'
    BY <1>11 DEF RevisionReturns, Pcs
  <1>12. CASE WriteFinalStatus
    <2>1. vstatus' \in [Versions -> StatusDoc]
      BY <1>12 DEF WriteFinalStatus, StatusDoc
    <2> QED
      BY <1>12, <2>1 DEF WriteFinalStatus, Pcs
  <1>13. CASE RestoreStatus
    BY <1>13 DEF RestoreStatus, RestoredRoot, Pcs, Endings
  <1>14. CASE CommitPointer
    BY <1>14 DEF CommitPointer, Pcs
  <1>15. CASE CommitManifest
    BY <1>15 DEF CommitManifest, PublishedManifest, Pcs
  <1>16. CASE ProjectRoot
    <2>1. Doc("failed", NoVersion, ActiveVersionId) \in StatusDoc
      BY DocType, ActiveVersionType
    <2>2. root' \in StatusDoc
      BY <1>16, <2>1 DEF ProjectRoot
    <2> QED
      BY <1>16, <2>2 DEF ProjectRoot, Pcs
  <1>17. CASE Announce
    BY <1>17 DEF Announce
  <1>18. ASSUME NEW v \in Versions, SaveVersion(v) PROVE TypeOK'
    <2>1. versions' \in [Versions -> VersionDoc]
      BY <1>18 DEF SaveVersion, Fresh, VersionDoc, EditPcs
    <2> QED
      BY <1>18, <2>1 DEF SaveVersion, Fresh, Pcs
  <1>19. CASE WriteVersionStatus
    BY <1>19 DEF WriteVersionStatus, Pcs
  <1>20. CASE UpdateVersion
    <2>1. versions' \in [Versions -> VersionDoc]
      BY <1>20 DEF UpdateVersion, VersionDoc
    <2> QED
      BY <1>20, <2>1 DEF UpdateVersion, Pcs
  <1>21. CASE RunRaises
    BY <1>21 DEF RunRaises
  <1>22. CASE Finish
    BY <1>22 DEF Finish, Idle, Pcs, Endings
  <1>23. CASE WriteFails
    BY <1>23 DEF WriteFails, Fault
  <1>24. CASE Crash
    BY <1>24 DEF Crash, Idle, Pcs
  <1>25. CASE Restart
    BY <1>25 DEF Restart, Pcs
  <1>26. ASSUME NEW v \in Versions, FailStaleCandidate(v) PROVE TypeOK'
    <2>1. versions' \in [Versions -> VersionDoc]
      BY <1>26 DEF FailStaleCandidate, VersionDoc
    <2> QED
      BY <1>26, <2>1 DEF FailStaleCandidate
  <1>27. CASE RestoreInterruptedEdit
    BY <1>27 DEF RestoreInterruptedEdit, RestoreTarget, StatusDoc, Pcs
  <1>28. CASE RestoreCommittedActiveDesign
    BY <1>28 DEF RestoreCommittedActiveDesign, Verified, Pcs
  <1>29. CASE FailInterruptedWorkflow
    <2>1. root' \in StatusDoc
      BY <1>29 DEF FailInterruptedWorkflow, StatusDoc
    <2> QED
      BY <1>29, <2>1 DEF FailInterruptedWorkflow, Pcs
  <1>30. CASE SkipSettledWorkflow
    BY <1>30 DEF SkipSettledWorkflow, Pcs
  <1>31. CASE UNCHANGED vars
    BY <1>31 DEF vars
  <1> QED
    BY <1>1, <1>2, <1>3, <1>4, <1>5, <1>6, <1>7, <1>8, <1>9, <1>10, <1>11, <1>12,
       <1>13, <1>14, <1>15, <1>16, <1>17, <1>18, <1>19, <1>20, <1>21, <1>22, <1>23,
       <1>24, <1>25, <1>26, <1>27, <1>28, <1>29, <1>30, <1>31
    DEF Next, Request, JobStep, CreateStep, EditStep, CommitStep, VersionStep, RecoveryStep

-----------------------------------------------------------------------------
(* The program order.                                                      *)

\* Where an exception leads, and for which operation.
LEMMA HandlerOwner ==
    /\ Handler \in {"announce", "issue", "abort", "raised"} \cup {Ending}
    /\ Ending \in {"applied", "rolled_back", "finished"}
    /\ Handler = "issue" => kind = "create"
    /\ Handler = "abort" => kind = "edit"
  BY DEF Handler, Ending

\* A step that writes continues with its next statement or with a handler.
LEMMA WroteOwner ==
    ASSUME NEW next, Wrote(next)
    PROVE  \/ pc' = next
           \/ /\ pc' \in {"announce", "issue", "abort", "raised",
                          "applied", "rolled_back", "finished"}
              /\ pc' = "issue" => kind = "create"
              /\ pc' = "abort" => kind = "edit"
  BY HandlerOwner DEF Wrote

LEMMA OrderNext ==
    IInv /\ [Next]_vars => (StepOwner /\ ResultKnown)'
  <1> SUFFICES ASSUME IInv, [Next]_vars PROVE (StepOwner /\ ResultKnown)'
    OBVIOUS
  <1> USE WroteOwner, HandlerOwner
      DEF IInv, TypeOK, StepOwner, ResultKnown, CreatePcs, EditPcs, IdlePcs,
          Endings, Kinds, files, job
  <1>1. CASE CreateDesign
    BY <1>1 DEF CreateDesign
  <1>2. CASE BeginEdit
    BY <1>2 DEF BeginEdit
  <1>3. ASSUME NEW v \in Versions, BeginRollback(v) PROVE (StepOwner /\ ResultKnown)'
    BY <1>3 DEF BeginRollback
  <1>4. CASE CreateRefused
    BY <1>4 DEF CreateRefused, Idle
  <1>5. CASE StartGeneration
    BY <1>5 DEF StartGeneration
  <1>6. ASSUME NEW status \in {"completed", "failed"}, NEW scene \in BOOLEAN,
               GenerationReturns(status, scene)
        PROVE  (StepOwner /\ ResultKnown)'
    BY <1>6 DEF GenerationReturns
  <1>7. CASE ReportIssue
    BY <1>7 DEF ReportIssue
  <1>8. CASE WriteFailedStatus
    BY <1>8 DEF WriteFailedStatus, FailedStatus
  <1>9. CASE BeginActiveOperation
    BY <1>9 DEF BeginActiveOperation
  <1>10. CASE PlanRejected
    BY <1>10 DEF PlanRejected
  <1>11. ASSUME NEW status \in {"completed", "failed"}, RevisionReturns(status)
         PROVE  (StepOwner /\ ResultKnown)'
    BY <1>11 DEF RevisionReturns
  <1>12. CASE WriteFinalStatus
    BY <1>12 DEF WriteFinalStatus
  <1>13. CASE RestoreStatus
    BY <1>13 DEF RestoreStatus, RestoredRoot
  <1>14. CASE CommitPointer
    BY <1>14 DEF CommitPointer
  <1>15. CASE CommitManifest
    BY <1>15 DEF CommitManifest, PublishedManifest
  <1>16. CASE ProjectRoot
    BY <1>16 DEF ProjectRoot
  <1>17. CASE Announce
    BY <1>17 DEF Announce
  <1>18. ASSUME NEW v \in Versions, SaveVersion(v) PROVE (StepOwner /\ ResultKnown)'
    BY <1>18 DEF SaveVersion, Fresh
  <1>19. CASE WriteVersionStatus
    BY <1>19 DEF WriteVersionStatus
  <1>20. CASE UpdateVersion
    BY <1>20 DEF UpdateVersion
  <1>21. CASE RunRaises
    BY <1>21 DEF RunRaises
  <1>22. CASE Finish
    BY <1>22 DEF Finish, Idle
  <1>23. CASE WriteFails
    BY <1>23 DEF WriteFails, WriteSteps
  <1>24. CASE Crash
    BY <1>24 DEF Crash, Idle
  <1>25. CASE Restart
    BY <1>25 DEF Restart
  <1>26. ASSUME NEW v \in Versions, FailStaleCandidate(v) PROVE (StepOwner /\ ResultKnown)'
    BY <1>26 DEF FailStaleCandidate
  <1>27. CASE RestoreInterruptedEdit
    BY <1>27 DEF RestoreInterruptedEdit
  <1>28. CASE RestoreCommittedActiveDesign
    BY <1>28 DEF RestoreCommittedActiveDesign
  <1>29. CASE FailInterruptedWorkflow
    BY <1>29 DEF FailInterruptedWorkflow
  <1>30. CASE SkipSettledWorkflow
    BY <1>30 DEF SkipSettledWorkflow
  <1>31. CASE UNCHANGED vars
    BY <1>31 DEF vars
  <1> QED
    BY <1>1, <1>2, <1>3, <1>4, <1>5, <1>6, <1>7, <1>8, <1>9, <1>10, <1>11, <1>12, <1>13,
       <1>14, <1>15, <1>16, <1>17, <1>18, <1>19, <1>20, <1>21, <1>22, <1>23, <1>24, <1>25,
       <1>26, <1>27, <1>28, <1>29, <1>30, <1>31
    DEF Next, Request, JobStep, CreateStep, EditStep, CommitStep, VersionStep, RecoveryStep

-----------------------------------------------------------------------------
(* The commit.                                                             *)

LEMMA CommitNext ==
    IInv /\ [Next]_vars => (CandidatePrivate /\ CommitChecked /\ ManifestCertified)'
  <1> SUFFICES ASSUME IInv, [Next]_vars
               PROVE  (CandidatePrivate /\ CommitChecked /\ ManifestCertified)'
    OBVIOUS
  <1> USE WroteOwner, HandlerOwner, VersionsAssumption
      DEF IInv, TypeOK, StepOwner, CandidatePrivate, CommitChecked, ManifestCertified,
          Verified, Certifiable, CreatePcs, EditPcs, IdlePcs, Endings, Kinds,
          OptVersion, files, job
  <1>1. CASE CreateDesign
    BY <1>1 DEF CreateDesign
  <1>2. CASE BeginEdit
    BY <1>2 DEF BeginEdit
  <1>3. ASSUME NEW v \in Versions, BeginRollback(v)
        PROVE  (CandidatePrivate /\ CommitChecked /\ ManifestCertified)'
    BY <1>3 DEF BeginRollback
  <1>4. CASE CreateRefused
    BY <1>4 DEF CreateRefused, Idle
  <1>5. CASE StartGeneration
    BY <1>5 DEF StartGeneration
  <1>6. ASSUME NEW status \in {"completed", "failed"}, NEW scene \in BOOLEAN,
               GenerationReturns(status, scene)
        PROVE  (CandidatePrivate /\ CommitChecked /\ ManifestCertified)'
    BY <1>6 DEF GenerationReturns
  <1>7. CASE ReportIssue
    BY <1>7 DEF ReportIssue
  <1>8. CASE WriteFailedStatus
    BY <1>8 DEF WriteFailedStatus, FailedStatus
  <1>9. CASE BeginActiveOperation
    BY <1>9 DEF BeginActiveOperation
  <1>10. CASE PlanRejected
    BY <1>10 DEF PlanRejected
  <1>11. ASSUME NEW status \in {"completed", "failed"}, RevisionReturns(status)
         PROVE  (CandidatePrivate /\ CommitChecked /\ ManifestCertified)'
    BY <1>11 DEF RevisionReturns
  <1>12. CASE WriteFinalStatus
    BY <1>12 DEF WriteFinalStatus, StatusDoc
  <1>13. CASE RestoreStatus
    BY <1>13 DEF RestoreStatus, RestoredRoot
  <1>14. CASE CommitPointer
    BY <1>14 DEF CommitPointer
  <1>15. CASE CommitManifest
    BY <1>15 DEF CommitManifest, PublishedManifest
  <1>16. CASE ProjectRoot
    BY <1>16 DEF ProjectRoot
  <1>17. CASE Announce
    BY <1>17 DEF Announce
  <1>18. ASSUME NEW v \in Versions, SaveVersion(v)
         PROVE  (CandidatePrivate /\ CommitChecked /\ ManifestCertified)'
    BY <1>18 DEF SaveVersion, Fresh, VersionDoc
  <1>19. CASE WriteVersionStatus
    BY <1>19 DEF WriteVersionStatus, Doc
  <1>20. CASE UpdateVersion
    BY <1>20 DEF UpdateVersion
  <1>21. CASE RunRaises
    BY <1>21 DEF RunRaises
  <1>22. CASE Finish
    BY <1>22 DEF Finish, Idle
  <1>23. CASE WriteFails
    BY <1>23 DEF WriteFails, WriteSteps
  <1>24. CASE Crash
    BY <1>24 DEF Crash, Idle
  <1>25. CASE Restart
    BY <1>25 DEF Restart
  <1>26. ASSUME NEW v \in Versions, FailStaleCandidate(v)
         PROVE  (CandidatePrivate /\ CommitChecked /\ ManifestCertified)'
    BY <1>26 DEF FailStaleCandidate, StaleCandidates
  <1>27. CASE RestoreInterruptedEdit
    BY <1>27 DEF RestoreInterruptedEdit
  <1>28. CASE RestoreCommittedActiveDesign
    BY <1>28 DEF RestoreCommittedActiveDesign
  <1>29. CASE FailInterruptedWorkflow
    BY <1>29 DEF FailInterruptedWorkflow
  <1>30. CASE SkipSettledWorkflow
    BY <1>30 DEF SkipSettledWorkflow
  <1>31. CASE UNCHANGED vars
    BY <1>31 DEF vars
  <1> QED
    BY <1>1, <1>2, <1>3, <1>4, <1>5, <1>6, <1>7, <1>8, <1>9, <1>10,
       <1>11, <1>12, <1>13, <1>14, <1>15, <1>16, <1>17, <1>18, <1>19, <1>20,
       <1>21, <1>22, <1>23, <1>24, <1>25, <1>26, <1>27, <1>28, <1>29, <1>30, <1>31
    DEF Next, Request, JobStep, CreateStep, EditStep, CommitStep, VersionStep, RecoveryStep

-----------------------------------------------------------------------------
(* The answers.                                                            *)

\* "announce" follows a projection, a positive ending follows an announcement.
LEMMA HandlerSource ==
    /\ Handler = "announce" => pc = "project"
    /\ Handler \in {"applied", "rolled_back"} => pc = "announce" /\ kind \in {"edit", "rollback"}
    /\ Ending \in {"applied", "rolled_back"} => kind \in {"edit", "rollback"}
    /\ Handler # "rejected" /\ Ending # "rejected"
  BY DEF Handler, Ending

LEMMA WroteSource ==
    ASSUME NEW next, Wrote(next)
    PROVE  pc' = next \/ pc' = Handler
  BY DEF Wrote

LEMMA AnswerNext == IInv /\ AnswerInv /\ [Next]_vars => AnswerInv'
  <1> SUFFICES ASSUME IInv, AnswerInv, [Next]_vars PROVE AnswerInv'
    OBVIOUS
  <1> USE WroteSource, HandlerOwner, HandlerSource
      DEF IInv, TypeOK, StepOwner, CommitChecked, AnswerInv, ReplyTellsServed, CreatePcs,
          EditPcs, IdlePcs, Endings, Kinds, NoReply, files, job
  <1>1. CASE CreateDesign
    BY <1>1 DEF CreateDesign
  <1>2. CASE BeginEdit
    BY <1>2 DEF BeginEdit
  <1>3. ASSUME NEW v \in Versions, BeginRollback(v) PROVE AnswerInv'
    BY <1>3 DEF BeginRollback
  <1>4. CASE CreateRefused
    BY <1>4 DEF CreateRefused, Idle
  <1>5. CASE StartGeneration
    BY <1>5 DEF StartGeneration
  <1>6. ASSUME NEW status \in {"completed", "failed"}, NEW scene \in BOOLEAN,
               GenerationReturns(status, scene)
        PROVE  AnswerInv'
    BY <1>6 DEF GenerationReturns
  <1>7. CASE ReportIssue
    BY <1>7 DEF ReportIssue
  <1>8. CASE WriteFailedStatus
    BY <1>8 DEF WriteFailedStatus, FailedStatus
  <1>9. CASE BeginActiveOperation
    BY <1>9 DEF BeginActiveOperation
  <1>10. CASE PlanRejected
    BY <1>10 DEF PlanRejected
  <1>11. ASSUME NEW status \in {"completed", "failed"}, RevisionReturns(status)
         PROVE  AnswerInv'
    BY <1>11 DEF RevisionReturns
  <1>12. CASE WriteFinalStatus
    BY <1>12 DEF WriteFinalStatus
  <1>13. CASE RestoreStatus
    BY <1>13 DEF RestoreStatus, RestoredRoot
  <1>14. CASE CommitPointer
    BY <1>14 DEF CommitPointer
  <1>15. CASE CommitManifest
    BY <1>15 DEF CommitManifest, PublishedManifest
  <1>16. CASE ProjectRoot
    BY <1>16 DEF ProjectRoot
  <1>17. CASE Announce
    BY <1>17 DEF Announce
  <1>18. ASSUME NEW v \in Versions, SaveVersion(v) PROVE AnswerInv'
    BY <1>18 DEF SaveVersion, Fresh
  <1>19. CASE WriteVersionStatus
    BY <1>19 DEF WriteVersionStatus
  <1>20. CASE UpdateVersion
    BY <1>20 DEF UpdateVersion
  <1>21. CASE RunRaises
    BY <1>21 DEF RunRaises
  <1>22. CASE Finish
    BY <1>22 DEF Finish, Idle
  <1>23. CASE WriteFails
    BY <1>23 DEF WriteFails, WriteSteps
  <1>24. CASE Crash
    BY <1>24 DEF Crash, Idle
  <1>25. CASE Restart
    BY <1>25 DEF Restart
  <1>26. ASSUME NEW v \in Versions, FailStaleCandidate(v) PROVE AnswerInv'
    BY <1>26 DEF FailStaleCandidate
  <1>27. CASE RestoreInterruptedEdit
    BY <1>27 DEF RestoreInterruptedEdit
  <1>28. CASE RestoreCommittedActiveDesign
    BY <1>28 DEF RestoreCommittedActiveDesign
  <1>29. CASE FailInterruptedWorkflow
    BY <1>29 DEF FailInterruptedWorkflow
  <1>30. CASE SkipSettledWorkflow
    BY <1>30 DEF SkipSettledWorkflow
  <1>31. CASE UNCHANGED vars
    BY <1>31 DEF vars
  <1> QED
    BY <1>1, <1>2, <1>3, <1>4, <1>5, <1>6, <1>7, <1>8, <1>9, <1>10,
       <1>11, <1>12, <1>13, <1>14, <1>15, <1>16, <1>17, <1>18, <1>19, <1>20,
       <1>21, <1>22, <1>23, <1>24, <1>25, <1>26, <1>27, <1>28, <1>29, <1>30, <1>31
    DEF Next, Request, JobStep, CreateStep, EditStep, CommitStep, VersionStep, RecoveryStep

-----------------------------------------------------------------------------
(* The theorems.                                                           *)

LEMMA InvInit == Init => IInv /\ AnswerInv
  <1> SUFFICES ASSUME Init PROVE IInv /\ AnswerInv
    OBVIOUS
  <1>1. TypeOK
    BY TypeInit
  <1> QED
    BY <1>1
    DEF Init, IInv, AnswerInv, StepOwner, ResultKnown, CandidatePrivate, CommitChecked,
        ManifestCertified, ReplyTellsServed, NoManifest, NoReply, CreatePcs, EditPcs, IdlePcs

LEMMA InvNext == IInv /\ [Next]_vars => IInv'
  BY TypeNext, OrderNext, CommitNext DEF IInv

\* The inductive invariant holds in every reachable state: whatever dies and
\* whatever write raises, the program order and the commit rule are kept.
THEOREM Invariance == Spec => []IInv
  BY InvInit, InvNext, PTL DEF Spec

\* Every variable keeps its type whatever dies and whatever write raises.
THEOREM TypeCorrect == Spec => []TypeOK
  <1>1. IInv => TypeOK
    BY DEF IInv
  <1> QED
    BY <1>1, Invariance, PTL

\* The commit marker always passes verified_active_version.
THEOREM ServedIsCertified == Spec => []ManifestCertified
  <1>1. IInv => ManifestCertified
    BY DEF IInv
  <1> QED
    BY <1>1, Invariance, PTL

\* An answer given stays true until the next operation begins.
THEOREM AnswersAreTrue == Spec => []ReplyTellsServed
  <1>1. AnswerInv => ReplyTellsServed
    BY DEF AnswerInv
  <1> QED
    BY <1>1, InvInit, AnswerNext, Invariance, PTL DEF Spec
\* What one step may do to the version served.
Frozen ==
    manifest.version # NoVersion =>
        /\ versions'[manifest.version] = versions[manifest.version]
        /\ vstatus'[manifest.version] = vstatus[manifest.version]

LEMMA FrozenNext == IInv /\ [Next]_vars => Frozen
  <1> SUFFICES ASSUME IInv, [Next]_vars PROVE Frozen
    OBVIOUS
  <1> USE VersionsAssumption
      DEF Frozen, IInv, TypeOK, CandidatePrivate, ManifestCertified, Verified, Certifiable,
          OptVersion, files, job
  <1>1. CASE CreateDesign
    BY <1>1 DEF CreateDesign
  <1>2. CASE BeginEdit
    BY <1>2 DEF BeginEdit
  <1>3. ASSUME NEW v \in Versions, BeginRollback(v) PROVE Frozen
    BY <1>3 DEF BeginRollback
  <1>4. CASE CreateRefused
    BY <1>4 DEF CreateRefused, Idle
  <1>5. CASE StartGeneration
    BY <1>5 DEF StartGeneration
  <1>6. ASSUME NEW status \in {"completed", "failed"}, NEW scene \in BOOLEAN,
               GenerationReturns(status, scene)
        PROVE  Frozen
    BY <1>6 DEF GenerationReturns
  <1>7. CASE ReportIssue
    BY <1>7 DEF ReportIssue
  <1>8. CASE WriteFailedStatus
    BY <1>8 DEF WriteFailedStatus, FailedStatus
  <1>9. CASE BeginActiveOperation
    BY <1>9 DEF BeginActiveOperation
  <1>10. CASE PlanRejected
    BY <1>10 DEF PlanRejected
  <1>11. ASSUME NEW status \in {"completed", "failed"}, RevisionReturns(status)
         PROVE  Frozen
    BY <1>11 DEF RevisionReturns
  <1>12. CASE WriteFinalStatus
    BY <1>12 DEF WriteFinalStatus
  <1>13. CASE RestoreStatus
    BY <1>13 DEF RestoreStatus, RestoredRoot
  <1>14. CASE CommitPointer
    BY <1>14 DEF CommitPointer
  <1>15. CASE CommitManifest
    BY <1>15 DEF CommitManifest, PublishedManifest
  <1>16. CASE ProjectRoot
    BY <1>16 DEF ProjectRoot
  <1>17. CASE Announce
    BY <1>17 DEF Announce
  <1>18. ASSUME NEW v \in Versions, SaveVersion(v) PROVE Frozen
    BY <1>18 DEF SaveVersion, Fresh
  <1>19. CASE WriteVersionStatus
    BY <1>19 DEF WriteVersionStatus
  <1>20. CASE UpdateVersion
    BY <1>20 DEF UpdateVersion
  <1>21. CASE RunRaises
    BY <1>21 DEF RunRaises
  <1>22. CASE Finish
    BY <1>22 DEF Finish, Idle
  <1>23. CASE WriteFails
    BY <1>23 DEF WriteFails, WriteSteps
  <1>24. CASE Crash
    BY <1>24 DEF Crash, Idle
  <1>25. CASE Restart
    BY <1>25 DEF Restart
  <1>26. ASSUME NEW v \in Versions, FailStaleCandidate(v) PROVE Frozen
    BY <1>26 DEF FailStaleCandidate, StaleCandidates
  <1>27. CASE RestoreInterruptedEdit
    BY <1>27 DEF RestoreInterruptedEdit
  <1>28. CASE RestoreCommittedActiveDesign
    BY <1>28 DEF RestoreCommittedActiveDesign
  <1>29. CASE FailInterruptedWorkflow
    BY <1>29 DEF FailInterruptedWorkflow
  <1>30. CASE SkipSettledWorkflow
    BY <1>30 DEF SkipSettledWorkflow
  <1>31. CASE UNCHANGED vars
    BY <1>31 DEF vars
  <1> QED
    BY <1>1, <1>2, <1>3, <1>4, <1>5, <1>6, <1>7, <1>8, <1>9, <1>10,
       <1>11, <1>12, <1>13, <1>14, <1>15, <1>16, <1>17, <1>18, <1>19, <1>20,
       <1>21, <1>22, <1>23, <1>24, <1>25, <1>26, <1>27, <1>28, <1>29, <1>30, <1>31
    DEF Next, Request, JobStep, CreateStep, EditStep, CommitStep, VersionStep, RecoveryStep

\* No step rewrites the record or the status of the version being served.
THEOREM ServedIsFrozen == Spec => ServedVersionFrozen
  <1>1. IInv /\ [Next]_vars => [Frozen]_vars
    BY FrozenNext
  <1>2. Spec => [][Frozen]_vars
    BY <1>1, Invariance, PTL DEF Spec
  <1>3. [][Frozen]_vars => ServedVersionFrozen
    BY PTL DEF Frozen, ServedVersionFrozen
  <1> QED
    BY <1>2, <1>3

\* What one step may do to the commit marker.
MovedByCommit ==
    manifest' # manifest =>
        /\ kind # "none"
        /\ manifest'.version = cand
        /\ Certifiable(cand)
        /\ kind # "rollback" => result = "completed"

LEMMA MovedNext == IInv /\ [Next]_vars => MovedByCommit
  <1> SUFFICES ASSUME IInv, [Next]_vars PROVE MovedByCommit
    OBVIOUS
  <1> USE DEF MovedByCommit, files
  <1>1. CASE CommitManifest
    BY <1>1 DEF CommitManifest, PublishedManifest, IInv, StepOwner, CommitChecked, IdlePcs
  <1>2. CASE ~CommitManifest
    <2>1. UNCHANGED manifest
      BY <1>2
      DEF vars, Next, Request, JobStep, CreateStep, EditStep, CommitStep, VersionStep,
          RecoveryStep, CreateDesign, BeginEdit, BeginRollback, CreateRefused,
          StartGeneration, GenerationReturns, ReportIssue, WriteFailedStatus,
          BeginActiveOperation, PlanRejected, RevisionReturns, WriteFinalStatus,
          RestoreStatus, CommitPointer, ProjectRoot, Announce, SaveVersion,
          WriteVersionStatus, UpdateVersion, RunRaises, Finish, WriteFails, Crash,
          Restart, FailStaleCandidate, RestoreInterruptedEdit,
          RestoreCommittedActiveDesign, FailInterruptedWorkflow, SkipSettledWorkflow
    <2> QED
      BY <2>1
  <1> QED
    BY <1>1, <1>2

\* Only the commit of the running operation moves the active design, and only
\* to a version that passes certification.
THEOREM DesignMovesByCommit == Spec => OnlyCommitsMoveTheDesign
  <1>1. IInv /\ [Next]_vars => [MovedByCommit]_vars
    BY MovedNext
  <1>2. Spec => [][MovedByCommit]_vars
    BY <1>1, Invariance, PTL DEF Spec
  <1>3. [][MovedByCommit]_vars => OnlyCommitsMoveTheDesign
    BY PTL DEF MovedByCommit, OnlyCommitsMoveTheDesign
  <1> QED
    BY <1>2, <1>3

-----------------------------------------------------------------------------
(***************************************************************************)
(* DesignPublication implements DesignRegister.  The step that makes a     *)
(* design active is the write of the commit marker; a version becomes      *)
(* certified when its record receives its artifact directory; all other    *)
(* writes are invisible.                                                   *)
(***************************************************************************)

\* What the mapping needs beyond IInv: no candidate before one is saved, no
\* artifact directory before the record is updated, and a rejected candidate
\* is not the version served.
RefInv ==
    /\ pc \in IdlePcs => kind = "none"
    /\ pc \in IdlePcs \cup {"queued", "generate", "save", "begin", "plan"} => cand = NoVersion
    /\ \A v \in Versions : versions[v].status \in {"absent", "generating"} => ~versions[v].dir
    /\ pc \in {"revise", "status", "update"} => ~versions[cand].dir
    /\ pc \in {"restore", "rejected"} => cand \notin {manifest.version} \ {NoVersion}

LEMMA RefInit == Init => RefInv
  BY DEF Init, RefInv, IdlePcs, AbsentVersion

LEMMA RefNext == IInv /\ RefInv /\ [Next]_vars => RefInv'
  <1> SUFFICES ASSUME IInv, RefInv, [Next]_vars PROVE RefInv'
    OBVIOUS
  <1> USE WroteSource, HandlerOwner, HandlerSource, VersionsAssumption
      DEF IInv, TypeOK, StepOwner, CandidatePrivate, RefInv, VersionDoc, CreatePcs,
          EditPcs, IdlePcs, Endings, Kinds, files, job
  <1>1. CASE CreateDesign
    BY <1>1 DEF CreateDesign
  <1>2. CASE BeginEdit
    BY <1>2 DEF BeginEdit
  <1>3. ASSUME NEW v \in Versions, BeginRollback(v) PROVE RefInv'
    BY <1>3 DEF BeginRollback
  <1>4. CASE CreateRefused
    BY <1>4 DEF CreateRefused, Idle
  <1>5. CASE StartGeneration
    BY <1>5 DEF StartGeneration
  <1>6. ASSUME NEW status \in {"completed", "failed"}, NEW scene \in BOOLEAN,
               GenerationReturns(status, scene)
        PROVE  RefInv'
    BY <1>6 DEF GenerationReturns
  <1>7. CASE ReportIssue
    BY <1>7 DEF ReportIssue
  <1>8. CASE WriteFailedStatus
    BY <1>8 DEF WriteFailedStatus, FailedStatus
  <1>9. CASE BeginActiveOperation
    BY <1>9 DEF BeginActiveOperation
  <1>10. CASE PlanRejected
    BY <1>10 DEF PlanRejected
  <1>11. ASSUME NEW status \in {"completed", "failed"}, RevisionReturns(status)
         PROVE  RefInv'
    BY <1>11 DEF RevisionReturns
  <1>12. CASE WriteFinalStatus
    BY <1>12 DEF WriteFinalStatus
  <1>13. CASE RestoreStatus
    BY <1>13 DEF RestoreStatus, RestoredRoot
  <1>14. CASE CommitPointer
    BY <1>14 DEF CommitPointer
  <1>15. CASE CommitManifest
    BY <1>15 DEF CommitManifest, PublishedManifest
  <1>16. CASE ProjectRoot
    BY <1>16 DEF ProjectRoot
  <1>17. CASE Announce
    BY <1>17 DEF Announce
  <1>18. ASSUME NEW v \in Versions, SaveVersion(v) PROVE RefInv'
    BY <1>18 DEF SaveVersion, Fresh
  <1>19. CASE WriteVersionStatus
    BY <1>19 DEF WriteVersionStatus
  <1>20. CASE UpdateVersion
    BY <1>20 DEF UpdateVersion
  <1>21. CASE RunRaises
    BY <1>21 DEF RunRaises
  <1>22. CASE Finish
    BY <1>22 DEF Finish, Idle
  <1>23. CASE WriteFails
    BY <1>23 DEF WriteFails, WriteSteps
  <1>24. CASE Crash
    BY <1>24 DEF Crash, Idle
  <1>25. CASE Restart
    BY <1>25 DEF Restart
  <1>26. ASSUME NEW v \in Versions, FailStaleCandidate(v) PROVE RefInv'
    BY <1>26 DEF FailStaleCandidate
  <1>27. CASE RestoreInterruptedEdit
    BY <1>27 DEF RestoreInterruptedEdit
  <1>28. CASE RestoreCommittedActiveDesign
    BY <1>28 DEF RestoreCommittedActiveDesign
  <1>29. CASE FailInterruptedWorkflow
    BY <1>29 DEF FailInterruptedWorkflow
  <1>30. CASE SkipSettledWorkflow
    BY <1>30 DEF SkipSettledWorkflow
  <1>31. CASE UNCHANGED vars
    BY <1>31 DEF vars
  <1> QED
    BY <1>1, <1>2, <1>3, <1>4, <1>5, <1>6, <1>7, <1>8, <1>9, <1>10,
       <1>11, <1>12, <1>13, <1>14, <1>15, <1>16, <1>17, <1>18, <1>19, <1>20,
       <1>21, <1>22, <1>23, <1>24, <1>25, <1>26, <1>27, <1>28, <1>29, <1>30, <1>31
    DEF Next, Request, JobStep, CreateStep, EditStep, CommitStep, VersionStep, RecoveryStep

-----------------------------------------------------------------------------
(* Steps.                                                                  *)

Certified == {v \in Versions : versions[v].status = "completed" /\ versions[v].dir}

\* The variables of the register, as the mapping defines them.
Mapped == <<Certified, manifest.version, kind # "none", cand, reply>>

LEMMA RegisterInit == Init => Register!Init
  BY DEF Init, Register!Init, Register!Nothing, NoManifest, NoReply, AbsentVersion

LEMMA RegisterNext ==
    IInv /\ AnswerInv /\ RefInv /\ [Next]_vars => [Register!Next]_Mapped
  <1> SUFFICES ASSUME IInv, AnswerInv, RefInv, [Next]_vars PROVE [Register!Next]_Mapped
    OBVIOUS
  <1> USE VersionsAssumption
      DEF IInv, TypeOK, StepOwner, RefInv, Mapped, Certified, CreatePcs, EditPcs, IdlePcs,
          Kinds, files, job
  <1>1. CASE CreateDesign
    <2>1. Register!Start(NoVersion)
      BY <1>1 DEF CreateDesign, Register!Start, Register!Nothing, NoReply
    <2> QED
      BY <2>1 DEF Register!Next
  <1>2. CASE BeginEdit
    <2>1. Register!Start(NoVersion)
      BY <1>2 DEF BeginEdit, Register!Start, Register!Nothing, NoReply
    <2> QED
      BY <2>1 DEF Register!Next
  <1>3. ASSUME NEW v \in Versions, BeginRollback(v) PROVE [Register!Next]_Mapped
    <2>1. v \in Certified /\ Register!Start(v)
      BY <1>3 DEF BeginRollback, Register!Start, Register!Nothing, NoReply
    <2> QED
      BY <2>1 DEF Register!Next
  <1>4. CASE CreateRefused
    <2>1. Register!GiveUp
      BY <1>4 DEF CreateRefused, Idle, Register!GiveUp
    <2> QED
      BY <2>1 DEF Register!Next
  <1>5. CASE StartGeneration
    BY <1>5 DEF StartGeneration
  <1>6. ASSUME NEW status \in {"completed", "failed"}, NEW scene \in BOOLEAN,
               GenerationReturns(status, scene)
        PROVE  [Register!Next]_Mapped
    BY <1>6 DEF GenerationReturns
  <1>7. CASE ReportIssue
    BY <1>7 DEF ReportIssue
  <1>8. CASE WriteFailedStatus
    BY <1>8 DEF WriteFailedStatus, FailedStatus
  <1>9. CASE BeginActiveOperation
    BY <1>9 DEF BeginActiveOperation
  <1>10. CASE PlanRejected
    BY <1>10 DEF PlanRejected
  <1>11. ASSUME NEW status \in {"completed", "failed"}, RevisionReturns(status)
         PROVE  [Register!Next]_Mapped
    BY <1>11 DEF RevisionReturns
  <1>12. CASE WriteFinalStatus
    BY <1>12 DEF WriteFinalStatus
  <1>13. CASE RestoreStatus
    BY <1>13 DEF RestoreStatus, RestoredRoot
  <1>14. CASE CommitPointer
    BY <1>14 DEF CommitPointer
  <1>15. CASE CommitManifest
    <2>1. Register!Activate
      BY <1>15 DEF CommitManifest, PublishedManifest, CommitChecked, Certifiable,
         Register!Activate
    <2> QED
      BY <2>1 DEF Register!Next
  <1>16. CASE ProjectRoot
    BY <1>16 DEF ProjectRoot
  <1>17. CASE Announce
    BY <1>17 DEF Announce
  <1>18. ASSUME NEW v \in Versions, SaveVersion(v) PROVE [Register!Next]_Mapped
    <2>1. Register!Name(v)
      <3>1. Certified' = Certified
        BY <1>18 DEF SaveVersion, Fresh, VersionDoc
      <3> QED
        BY <1>18, <3>1 DEF SaveVersion, Fresh, Register!Name
    <2> QED
      BY <2>1 DEF Register!Next
  <1>19. CASE WriteVersionStatus
    BY <1>19 DEF WriteVersionStatus
  <1>20. CASE UpdateVersion
    <2>1. cand \in Versions \ Certified
      BY <1>20 DEF UpdateVersion, CandidatePrivate
    <2>2. CASE result = "completed"
      <3>1. Certified' = Certified \cup {cand}
        BY <1>20, <2>1, <2>2 DEF UpdateVersion
      <3>2. Register!Certify
        BY <1>20, <2>1, <3>1 DEF UpdateVersion, Register!Certify
      <3> QED
        BY <3>2 DEF Register!Next
    <2>3. CASE result # "completed"
      <3>1. Certified' = Certified
        BY <1>20, <2>1, <2>3 DEF UpdateVersion
      <3> QED
        BY <1>20, <3>1 DEF UpdateVersion
    <2> QED
      BY <2>2, <2>3
  <1>21. CASE RunRaises
    BY <1>21 DEF RunRaises
  <1>22. CASE Finish
    <2>1. Register!Truthful(reply')
      BY <1>22 DEF Finish, Endings, AnswerInv, Register!Truthful
    <2>2. Register!Answer
      BY <1>22, <2>1 DEF Finish, Idle, Endings, Register!Answer
    <2> QED
      BY <2>2 DEF Register!Next
  <1>23. CASE WriteFails
    BY <1>23 DEF WriteFails, WriteSteps
  <1>24. CASE Crash
    <2>1. CASE kind = "none"
      BY <1>24, <2>1 DEF Crash, Idle
    <2>2. CASE kind # "none"
      <3>1. Register!GiveUp
        BY <1>24, <2>2 DEF Crash, Idle, Register!GiveUp
      <3> QED
        BY <3>1 DEF Register!Next
    <2> QED
      BY <2>1, <2>2
  <1>25. CASE Restart
    BY <1>25 DEF Restart
  <1>26. ASSUME NEW v \in Versions, FailStaleCandidate(v) PROVE [Register!Next]_Mapped
    <2>1. Certified' = Certified
      BY <1>26 DEF FailStaleCandidate, StaleCandidates
    <2> QED
      BY <1>26, <2>1 DEF FailStaleCandidate
  <1>27. CASE RestoreInterruptedEdit
    BY <1>27 DEF RestoreInterruptedEdit
  <1>28. CASE RestoreCommittedActiveDesign
    BY <1>28 DEF RestoreCommittedActiveDesign
  <1>29. CASE FailInterruptedWorkflow
    BY <1>29 DEF FailInterruptedWorkflow
  <1>30. CASE SkipSettledWorkflow
    BY <1>30 DEF SkipSettledWorkflow
  <1>31. CASE UNCHANGED vars
    BY <1>31 DEF vars
  <1> QED
    BY <1>1, <1>2, <1>3, <1>4, <1>5, <1>6, <1>7, <1>8, <1>9, <1>10,
       <1>11, <1>12, <1>13, <1>14, <1>15, <1>16, <1>17, <1>18, <1>19, <1>20,
       <1>21, <1>22, <1>23, <1>24, <1>25, <1>26, <1>27, <1>28, <1>29, <1>30, <1>31
    DEF Next, Request, JobStep, CreateStep, EditStep, CommitStep, VersionStep, RecoveryStep

\* The files, the program order and the recovery implement the register: one
\* activation per operation, true answers, nothing taken back by a death.
THEOREM PublicationImplementsRegister == Spec => ImplementsRegister
  <1>1. IInv /\ AnswerInv /\ RefInv /\ [Next]_vars => [Register!Next]_Register!vars
    BY RegisterNext DEF Register!vars, Mapped, Certified
  <1>2. Spec => [](IInv /\ AnswerInv /\ RefInv)
    BY Invariance, InvInit, AnswerNext, RefInit, RefNext, PTL DEF Spec
  <1>3. Spec => Register!Init /\ [][Register!Next]_Register!vars
    BY <1>1, <1>2, RegisterInit, PTL DEF Spec
  <1> QED
    BY <1>3 DEF ImplementsRegister, Register!Spec

-----------------------------------------------------------------------------
(* Recovery.                                                               *)

\* An edit whose candidate has no result yet.
Unfinished == kind = "edit" /\ pc \in {"revise", "status", "update"}

\* No file of a version says that something runs.
StatusesSettled == \A v \in Versions : ~Unsettled(vstatus[v])

\* As long as no write has failed: the root status says that something runs only
\* while it does, and an edit that is given up finds what to put back.
Unhurt ==
    faults = 0 =>
        /\ pc \in Endings \cup {"idle", "announce"} => ~Unsettled(root)
        /\ kind = "rollback" => ~Unsettled(root)
        /\ kind = "edit" => ~Unsettled(prev)
        /\ kind = "edit" /\ pc = "abort" => root.op
        /\ kind = "edit" /\ pc = "begin" => root = prev

\* An edit shows itself in the root status, failed writes or not, and its candidate
\* has no result; a death in between leaves both for the recovery to find.
EditShown ==
    /\ kind = "edit" /\ pc \in {"plan", "revise", "status", "update"}
          => root.op /\ Unsettled(root)
    /\ kind = "edit" /\ pc = "restore" /\ faults = 0 => root.op
    /\ Unfinished => /\ manifest.version # NoVersion
                     /\ versions[cand].status = "generating"
InterruptionKnown ==
    interrupted # NoVersion =>
        /\ pc \in {"down", "recover"} /\ kind = "none"
        /\ root.op /\ Unsettled(root)
        /\ manifest.version # NoVersion /\ interrupted # manifest.version
        /\ versions[interrupted].status \in {"generating", "failed"}

RecoverInv == IInv /\ StatusesSettled /\ Unhurt /\ EditShown /\ InterruptionKnown

\* Every status written for a version is that of a run that returned.
LEMMA StatusesSettledNext == IInv /\ StatusesSettled /\ [Next]_vars => StatusesSettled'
  <1> SUFFICES ASSUME IInv /\ StatusesSettled, [Next]_vars PROVE StatusesSettled'
    OBVIOUS
  <1> USE BoundsAssumption
      DEF IInv, TypeOK, StepOwner, ResultKnown, CreatePcs, EditPcs, IdlePcs, Endings, Kinds,
          OptVersion, files, job, StatusesSettled, Unsettled, StatusDoc
  <1>1. CASE CreateDesign
    BY <1>1 DEF CreateDesign, NoReply, Doc
  <1>2. CASE BeginEdit
    BY <1>2 DEF BeginEdit, NoReply
  <1>3. ASSUME NEW v \in Versions,
         BeginRollback(v)
        PROVE  StatusesSettled'
    BY <1>3 DEF BeginRollback
  <1>4. CASE CreateRefused
    BY <1>4 DEF CreateRefused, Idle, Absent, Doc
  <1>5. CASE StartGeneration
    BY <1>5 DEF StartGeneration
  <1>6. ASSUME NEW status \in {"completed", "failed"}, NEW scene \in BOOLEAN,
         GenerationReturns(status, scene)
        PROVE  StatusesSettled'
    BY <1>6 DEF GenerationReturns
  <1>7. CASE ReportIssue
    BY <1>7 DEF ReportIssue
  <1>8. CASE WriteFailedStatus
    BY <1>8 DEF WriteFailedStatus, FailedStatus, Doc
  <1>9. CASE BeginActiveOperation
    BY <1>9 DEF BeginActiveOperation
  <1>10. CASE PlanRejected
    BY <1>10 DEF PlanRejected
  <1>11. ASSUME NEW status \in {"completed", "failed"},
         RevisionReturns(status)
        PROVE  StatusesSettled'
    BY <1>11 DEF RevisionReturns
  <1>12. CASE WriteFinalStatus
    BY <1>12 DEF WriteFinalStatus
  <1>13. CASE RestoreStatus
    BY <1>13 DEF RestoreStatus, RestoredRoot
  <1>14. CASE CommitPointer
    BY <1>14 DEF CommitPointer
  <1>15. CASE CommitManifest
    BY <1>15 DEF CommitManifest, PublishedManifest
  <1>16. CASE ProjectRoot
    BY <1>16 DEF ProjectRoot, Doc, Ending
  <1>17. CASE Announce
    BY <1>17 DEF Announce, Ending
  <1>18. ASSUME NEW v \in Versions,
         SaveVersion(v)
        PROVE  StatusesSettled'
    BY <1>18 DEF SaveVersion, Fresh, Verified
  <1>19. CASE WriteVersionStatus
    BY <1>19 DEF WriteVersionStatus, Doc
  <1>20. CASE UpdateVersion
    BY <1>20 DEF UpdateVersion
  <1>21. CASE RunRaises
    BY <1>21 DEF RunRaises, Handler
  <1>22. CASE Finish
    BY <1>22 DEF Finish, Idle
  <1>23. CASE WriteFails
    BY <1>23 DEF WriteFails, WriteSteps, Fault
  <1>24. CASE Crash
    BY <1>24 DEF Crash, Idle
  <1>25. CASE Restart
    BY <1>25 DEF Restart
  <1>26. ASSUME NEW v \in Versions,
         FailStaleCandidate(v)
        PROVE  StatusesSettled'
    BY <1>26 DEF FailStaleCandidate
  <1>27. CASE RestoreInterruptedEdit
    BY <1>27 DEF RestoreInterruptedEdit, Doc
  <1>28. CASE RestoreCommittedActiveDesign
    BY <1>28 DEF RestoreCommittedActiveDesign, Verified, Certifiable
  <1>29. CASE FailInterruptedWorkflow
    BY <1>29 DEF FailInterruptedWorkflow
  <1>30. CASE SkipSettledWorkflow
    BY <1>30 DEF SkipSettledWorkflow
  <1>31. CASE UNCHANGED vars
    BY <1>31 DEF vars
  <1> QED
    BY <1>1, <1>2, <1>3, <1>4, <1>5, <1>6, <1>7, <1>8, <1>9, <1>10, <1>11, <1>12, <1>13,
       <1>14, <1>15, <1>16, <1>17, <1>18, <1>19, <1>20, <1>21, <1>22, <1>23, <1>24, <1>25,
       <1>26, <1>27, <1>28, <1>29, <1>30, <1>31
    DEF Next, Request, JobStep, CreateStep, EditStep, CommitStep, VersionStep, RecoveryStep

\* Where no write has failed a step that writes goes on.
LEMMA WroteUnhurt ==
    ASSUME TypeOK, NEW next, Wrote(next), faults' = 0
    PROVE  pc' = next /\ faults = 0
  BY BoundsAssumption DEF TypeOK, Wrote, Fault

\* The root status follows the operation as long as the writes do.
LEMMA UnhurtNext == IInv /\ StatusesSettled /\ Unhurt /\ EditShown /\ [Next]_vars => Unhurt'
  <1> SUFFICES ASSUME IInv /\ StatusesSettled /\ Unhurt /\ EditShown, [Next]_vars PROVE Unhurt'
    OBVIOUS
  <1> USE WroteUnhurt, BoundsAssumption
      DEF IInv, TypeOK, StepOwner, ResultKnown, CreatePcs, EditPcs, IdlePcs, Endings, Kinds,
          OptVersion, files, job, Unhurt, EditShown, StatusesSettled, Unsettled, StatusDoc
  <1>1. CASE CreateDesign
    BY <1>1 DEF CreateDesign, NoReply, Doc
  <1>2. CASE BeginEdit
    BY <1>2 DEF BeginEdit, NoReply
  <1>3. ASSUME NEW v \in Versions,
         BeginRollback(v)
        PROVE  Unhurt'
    BY <1>3 DEF BeginRollback
  <1>4. CASE CreateRefused
    BY <1>4 DEF CreateRefused, Idle, Absent, Doc
  <1>5. CASE StartGeneration
    BY <1>5 DEF StartGeneration
  <1>6. ASSUME NEW status \in {"completed", "failed"}, NEW scene \in BOOLEAN,
         GenerationReturns(status, scene)
        PROVE  Unhurt'
    BY <1>6 DEF GenerationReturns
  <1>7. CASE ReportIssue
    BY <1>7 DEF ReportIssue
  <1>8. CASE WriteFailedStatus
    BY <1>8 DEF WriteFailedStatus, FailedStatus, Doc
  <1>9. CASE BeginActiveOperation
    BY <1>9 DEF BeginActiveOperation
  <1>10. CASE PlanRejected
    BY <1>10 DEF PlanRejected
  <1>11. ASSUME NEW status \in {"completed", "failed"},
         RevisionReturns(status)
        PROVE  Unhurt'
    BY <1>11 DEF RevisionReturns
  <1>12. CASE WriteFinalStatus
    BY <1>12 DEF WriteFinalStatus
  <1>13. CASE RestoreStatus
    BY <1>13 DEF RestoreStatus, RestoredRoot
  <1>14. CASE CommitPointer
    BY <1>14 DEF CommitPointer
  <1>15. CASE CommitManifest
    BY <1>15 DEF CommitManifest, PublishedManifest
  <1>16. CASE ProjectRoot
    BY <1>16 DEF ProjectRoot, Doc, Ending
  <1>17. CASE Announce
    BY <1>17 DEF Announce, Ending
  <1>18. ASSUME NEW v \in Versions,
         SaveVersion(v)
        PROVE  Unhurt'
    BY <1>18 DEF SaveVersion, Fresh, Verified
  <1>19. CASE WriteVersionStatus
    BY <1>19 DEF WriteVersionStatus, Doc
  <1>20. CASE UpdateVersion
    BY <1>20 DEF UpdateVersion
  <1>21. CASE RunRaises
    BY <1>21 DEF RunRaises, Handler
  <1>22. CASE Finish
    BY <1>22 DEF Finish, Idle
  <1>23. CASE WriteFails
    BY <1>23 DEF WriteFails, WriteSteps, Fault
  <1>24. CASE Crash
    BY <1>24 DEF Crash, Idle
  <1>25. CASE Restart
    BY <1>25 DEF Restart
  <1>26. ASSUME NEW v \in Versions,
         FailStaleCandidate(v)
        PROVE  Unhurt'
    BY <1>26 DEF FailStaleCandidate
  <1>27. CASE RestoreInterruptedEdit
    BY <1>27 DEF RestoreInterruptedEdit, Doc
  <1>28. CASE RestoreCommittedActiveDesign
    BY <1>28 DEF RestoreCommittedActiveDesign, Verified, Certifiable
  <1>29. CASE FailInterruptedWorkflow
    BY <1>29 DEF FailInterruptedWorkflow
  <1>30. CASE SkipSettledWorkflow
    BY <1>30 DEF SkipSettledWorkflow
  <1>31. CASE UNCHANGED vars
    BY <1>31 DEF vars
  <1> QED
    BY <1>1, <1>2, <1>3, <1>4, <1>5, <1>6, <1>7, <1>8, <1>9, <1>10, <1>11, <1>12, <1>13,
       <1>14, <1>15, <1>16, <1>17, <1>18, <1>19, <1>20, <1>21, <1>22, <1>23, <1>24, <1>25,
       <1>26, <1>27, <1>28, <1>29, <1>30, <1>31
    DEF Next, Request, JobStep, CreateStep, EditStep, CommitStep, VersionStep, RecoveryStep

\* Nothing but the end of an edit and the recovery takes its mark away.
LEMMA EditShownNext == IInv /\ EditShown /\ [Next]_vars => EditShown'
  <1> SUFFICES ASSUME IInv /\ EditShown, [Next]_vars PROVE EditShown'
    OBVIOUS
  <1> USE WroteOwner, HandlerOwner, BoundsAssumption
      DEF IInv, TypeOK, StepOwner, ResultKnown, CreatePcs, EditPcs, IdlePcs, Endings, Kinds,
          OptVersion, files, job, EditShown, Unhurt, Unfinished, ManifestCertified,
          CandidatePrivate, CommitChecked, Unsettled, StatusDoc, Verified
  <1>1. CASE CreateDesign
    BY <1>1 DEF CreateDesign, NoReply, Doc
  <1>2. CASE BeginEdit
    BY <1>2 DEF BeginEdit, NoReply
  <1>3. ASSUME NEW v \in Versions,
         BeginRollback(v)
        PROVE  EditShown'
    BY <1>3 DEF BeginRollback
  <1>4. CASE CreateRefused
    BY <1>4 DEF CreateRefused, Idle, Absent, Doc
  <1>5. CASE StartGeneration
    BY <1>5 DEF StartGeneration
  <1>6. ASSUME NEW status \in {"completed", "failed"}, NEW scene \in BOOLEAN,
         GenerationReturns(status, scene)
        PROVE  EditShown'
    BY <1>6 DEF GenerationReturns
  <1>7. CASE ReportIssue
    BY <1>7 DEF ReportIssue
  <1>8. CASE WriteFailedStatus
    BY <1>8 DEF WriteFailedStatus, FailedStatus, Doc
  <1>9. CASE BeginActiveOperation
    BY <1>9 DEF BeginActiveOperation
  <1>10. CASE PlanRejected
    BY <1>10 DEF PlanRejected
  <1>11. ASSUME NEW status \in {"completed", "failed"},
         RevisionReturns(status)
        PROVE  EditShown'
    BY <1>11 DEF RevisionReturns
  <1>12. CASE WriteFinalStatus
    BY <1>12 DEF WriteFinalStatus
  <1>13. CASE RestoreStatus
    BY <1>13 DEF RestoreStatus, RestoredRoot
  <1>14. CASE CommitPointer
    BY <1>14 DEF CommitPointer
  <1>15. CASE CommitManifest
    BY <1>15 DEF CommitManifest, PublishedManifest
  <1>16. CASE ProjectRoot
    BY <1>16 DEF ProjectRoot, Doc, Ending
  <1>17. CASE Announce
    BY <1>17 DEF Announce, Ending
  <1>18. ASSUME NEW v \in Versions,
         SaveVersion(v)
        PROVE  EditShown'
    BY <1>18 DEF SaveVersion, Fresh, Verified
  <1>19. CASE WriteVersionStatus
    BY <1>19 DEF WriteVersionStatus, Doc
  <1>20. CASE UpdateVersion
    BY <1>20 DEF UpdateVersion
  <1>21. CASE RunRaises
    BY <1>21 DEF RunRaises, Handler
  <1>22. CASE Finish
    BY <1>22 DEF Finish, Idle
  <1>23. CASE WriteFails
    BY <1>23 DEF WriteFails, WriteSteps, Fault
  <1>24. CASE Crash
    BY <1>24 DEF Crash, Idle
  <1>25. CASE Restart
    BY <1>25 DEF Restart
  <1>26. ASSUME NEW v \in Versions,
         FailStaleCandidate(v)
        PROVE  EditShown'
    BY <1>26 DEF FailStaleCandidate
  <1>27. CASE RestoreInterruptedEdit
    BY <1>27 DEF RestoreInterruptedEdit, Doc
  <1>28. CASE RestoreCommittedActiveDesign
    BY <1>28 DEF RestoreCommittedActiveDesign, Verified, Certifiable
  <1>29. CASE FailInterruptedWorkflow
    BY <1>29 DEF FailInterruptedWorkflow
  <1>30. CASE SkipSettledWorkflow
    BY <1>30 DEF SkipSettledWorkflow
  <1>31. CASE UNCHANGED vars
    BY <1>31 DEF vars
  <1> QED
    BY <1>1, <1>2, <1>3, <1>4, <1>5, <1>6, <1>7, <1>8, <1>9, <1>10, <1>11, <1>12, <1>13,
       <1>14, <1>15, <1>16, <1>17, <1>18, <1>19, <1>20, <1>21, <1>22, <1>23, <1>24, <1>25,
       <1>26, <1>27, <1>28, <1>29, <1>30, <1>31
    DEF Next, Request, JobStep, CreateStep, EditStep, CommitStep, VersionStep, RecoveryStep

\* A death keeps it, a second one during the recovery too.
LEMMA InterruptionKnownNext ==
    IInv /\ EditShown /\ InterruptionKnown /\ [Next]_vars => InterruptionKnown'
  <1> SUFFICES ASSUME IInv /\ EditShown /\ InterruptionKnown,
  [Next]_vars PROVE InterruptionKnown'
    OBVIOUS
  <1> USE BoundsAssumption, VersionsAssumption
      DEF IInv, TypeOK, StepOwner, ResultKnown, CreatePcs, EditPcs, IdlePcs, Endings, Kinds,
          OptVersion, files, job, EditShown, InterruptionKnown, Unfinished,
          CandidatePrivate, Unsettled, StatusDoc, StaleCandidates
  <1>1. CASE CreateDesign
    BY <1>1 DEF CreateDesign, NoReply, Doc
  <1>2. CASE BeginEdit
    BY <1>2 DEF BeginEdit, NoReply
  <1>3. ASSUME NEW v \in Versions,
         BeginRollback(v)
        PROVE  InterruptionKnown'
    BY <1>3 DEF BeginRollback
  <1>4. CASE CreateRefused
    BY <1>4 DEF CreateRefused, Idle, Absent, Doc
  <1>5. CASE StartGeneration
    BY <1>5 DEF StartGeneration
  <1>6. ASSUME NEW status \in {"completed", "failed"}, NEW scene \in BOOLEAN,
         GenerationReturns(status, scene)
        PROVE  InterruptionKnown'
    BY <1>6 DEF GenerationReturns
  <1>7. CASE ReportIssue
    BY <1>7 DEF ReportIssue
  <1>8. CASE WriteFailedStatus
    BY <1>8 DEF WriteFailedStatus, FailedStatus, Doc
  <1>9. CASE BeginActiveOperation
    BY <1>9 DEF BeginActiveOperation
  <1>10. CASE PlanRejected
    BY <1>10 DEF PlanRejected
  <1>11. ASSUME NEW status \in {"completed", "failed"},
         RevisionReturns(status)
        PROVE  InterruptionKnown'
    BY <1>11 DEF RevisionReturns
  <1>12. CASE WriteFinalStatus
    BY <1>12 DEF WriteFinalStatus
  <1>13. CASE RestoreStatus
    BY <1>13 DEF RestoreStatus, RestoredRoot
  <1>14. CASE CommitPointer
    BY <1>14 DEF CommitPointer
  <1>15. CASE CommitManifest
    BY <1>15 DEF CommitManifest, PublishedManifest
  <1>16. CASE ProjectRoot
    BY <1>16 DEF ProjectRoot, Doc, Ending
  <1>17. CASE Announce
    BY <1>17 DEF Announce, Ending
  <1>18. ASSUME NEW v \in Versions,
         SaveVersion(v)
        PROVE  InterruptionKnown'
    BY <1>18 DEF SaveVersion, Fresh, Verified
  <1>19. CASE WriteVersionStatus
    BY <1>19 DEF WriteVersionStatus, Doc
  <1>20. CASE UpdateVersion
    BY <1>20 DEF UpdateVersion
  <1>21. CASE RunRaises
    BY <1>21 DEF RunRaises, Handler
  <1>22. CASE Finish
    BY <1>22 DEF Finish, Idle
  <1>23. CASE WriteFails
    BY <1>23 DEF WriteFails, WriteSteps, Fault
  <1>24. CASE Crash
    BY <1>24 DEF Crash, Idle
  <1>25. CASE Restart
    BY <1>25 DEF Restart
  <1>26. ASSUME NEW v \in Versions,
         FailStaleCandidate(v)
        PROVE  InterruptionKnown'
    BY <1>26 DEF FailStaleCandidate
  <1>27. CASE RestoreInterruptedEdit
    BY <1>27 DEF RestoreInterruptedEdit, Doc
  <1>28. CASE RestoreCommittedActiveDesign
    BY <1>28 DEF RestoreCommittedActiveDesign, Verified, Certifiable
  <1>29. CASE FailInterruptedWorkflow
    BY <1>29 DEF FailInterruptedWorkflow
  <1>30. CASE SkipSettledWorkflow
    BY <1>30 DEF SkipSettledWorkflow
  <1>31. CASE UNCHANGED vars
    BY <1>31 DEF vars
  <1> QED
    BY <1>1, <1>2, <1>3, <1>4, <1>5, <1>6, <1>7, <1>8, <1>9, <1>10, <1>11, <1>12, <1>13,
       <1>14, <1>15, <1>16, <1>17, <1>18, <1>19, <1>20, <1>21, <1>22, <1>23, <1>24, <1>25,
       <1>26, <1>27, <1>28, <1>29, <1>30, <1>31
    DEF Next, Request, JobStep, CreateStep, EditStep, CommitStep, VersionStep, RecoveryStep

LEMMA RecoverInit == Init => RecoverInv
  BY InvInit
  DEF Init, RecoverInv, StatusesSettled, Unhurt, EditShown, InterruptionKnown, Unfinished,
      Unsettled, Absent, Doc, Endings

LEMMA RecoverNext == RecoverInv /\ [Next]_vars => RecoverInv'
  BY InvNext, StatusesSettledNext, UnhurtNext, EditShownNext, InterruptionKnownNext
  DEF RecoverInv

\* What the status routes show of a service at rest is the root status, the status of the
\* served version or neither of the two.
LEMMA SettledAtRest == RecoverInv => SettledWhenIdle
  <1> SUFFICES ASSUME RecoverInv, pc = "idle", faults = 0, Unsettled(PublicStatus) PROVE FALSE
    BY DEF SettledWhenIdle
  <1>1. ~Unsettled(root)
    BY DEF RecoverInv, Unhurt
  <1>2. ~Unsettled(Quarantined)
    BY DEF RecoverInv, IInv, TypeOK, StatusDoc, Quarantined, Unsettled
  <1>3. ASSUME Verified PROVE ~Unsettled(vstatus[manifest.version])
    BY <1>3 DEF Verified, Certifiable, Unsettled
  <1> QED  BY <1>1, <1>2, <1>3 DEF PublicStatus, OperationShown

\* The recovery of an edit that was under way ends by putting the served version back,
\* after its candidate was failed.
GivenBack ==
    pc = "recover" /\ pc' = "idle" /\ interrupted # NoVersion /\ root.active = manifest.version
        => /\ versions'[interrupted].status = "failed"
           /\ root'.status = "completed"
           /\ root'.version = manifest.version

LEMMA RecoveryGivesBack == RecoverInv /\ [Next]_vars => GivenBack
  <1> SUFFICES ASSUME RecoverInv, [Next]_vars, pc = "recover", pc' = "idle",
                      interrupted # NoVersion, root.active = manifest.version
               PROVE  /\ versions'[interrupted].status = "failed"
                      /\ root'.status = "completed"
                      /\ root'.version = manifest.version
    BY DEF GivenBack
  <1>1. /\ root.op /\ Unsettled(root) /\ interrupted \in Versions
        /\ manifest.version # NoVersion /\ interrupted # manifest.version
        /\ versions[interrupted].status \in {"generating", "failed"}
    BY DEF RecoverInv, IInv, TypeOK, InterruptionKnown, OptVersion
  <1>2. RestoreTarget = manifest.version /\ ActiveVersionId = manifest.version
    BY <1>1 DEF RestoreTarget, ActiveVersionId
  <1>3. Verified
    BY <1>1 DEF RecoverInv, IInv, ManifestCertified
  <1>4. vstatus[manifest.version] # Absent
    BY <1>3 DEF Verified, Certifiable, Absent, Doc
  <1>5. EditRestorable
    BY <1>1, <1>2, <1>3, <1>4 DEF EditRestorable, Verified, Certifiable
  <1>6. RestoreInterruptedEdit
    BY <1>1, <1>5
    DEF Next, Request, CreateRefused, JobStep, CreateStep, EditStep, CommitStep, VersionStep,
        RecoveryStep, CreateDesign, BeginEdit, BeginRollback, StartGeneration,
        GenerationReturns, ReportIssue, WriteFailedStatus, BeginActiveOperation, PlanRejected,
        RevisionReturns, WriteFinalStatus, RestoreStatus, CommitPointer, CommitManifest,
        ProjectRoot, Announce, SaveVersion, WriteVersionStatus, UpdateVersion, RunRaises,
        Finish, WriteFails, WriteSteps, Endings, Crash, Idle, Restart, FailStaleCandidate,
        RestoreCommittedActiveDesign, FailInterruptedWorkflow, SkipSettledWorkflow, vars
  <1>7. versions[interrupted].status # "generating"
    BY <1>1, <1>2, <1>6 DEF RestoreInterruptedEdit, StaleCandidates
  <1> QED
    BY <1>1, <1>2, <1>6, <1>7 DEF RestoreInterruptedEdit, Doc

\* Storage permitting nothing is shown as running while nothing runs, wherever a death fell;
\* and an edit whose root status named the served version is given up by the recovery, its
\* candidate failed and the served version put back (reconcile_interrupted_workflows,
\* _restore_interrupted_edit).
THEOREM RecoveryLeavesNothingOpen == Spec => RecoverySettles
  <1>1. Spec => []RecoverInv
    BY RecoverInit, RecoverNext, PTL DEF Spec
  <1>2. Spec => []SettledWhenIdle
    BY <1>1, SettledAtRest, PTL
  <1>3. Spec => [][GivenBack]_vars
    BY <1>1, RecoveryGivesBack, PTL DEF Spec
  <1>4. [][GivenBack]_vars => InterruptedEditSettled
    BY PTL DEF InterruptedEditSettled, GivenBack
  <1> QED  BY <1>2, <1>3, <1>4, PTL DEF RecoverySettles

-----------------------------------------------------------------------------
(* Status reads.  What was served since the request began keeps its record *)
(* and its status (SeenServed): a writer only touches a version that is    *)
(* still its own, which was not served yet.  So the four reads of the      *)
(* request, spread over many writes, agree with one another (ReadsAgree).  *)

\* The steps at which an operation may still rewrite its candidate.
Private == {"revise", "status", "update", "final_status"}

\* A completed status is that of the version whose directory holds it.
StatusesNamed == \A v \in Versions : vstatus[v].status = "completed" => vstatus[v].version = v

\* What was served during the request is complete, and nobody rewrites it.
SeenServed ==
    \A v \in seen \ {NoVersion} : Certifiable(v) /\ (pc \in Private => cand # v)

\* The request has seen the design served now, and what it read in steps is
\* about one design it has seen.
ReadsAgree ==
    /\ rpc \notin {"none", "done"} => manifest.version \in seen
    /\ rpc = "decide" => rversion \in seen
    /\ rpc = "decide" /\ rversion # NoVersion => manifest.version # NoVersion
    /\ rpc = "resolve" => manifest.version # NoVersion
    /\ rpc \in {"verify", "load"} =>
          rversion \in seen \ {NoVersion} /\ rdigest = vstatus[rversion]

ReadsInv ==
    /\ IInv /\ ReadsTypeOK /\ StatusesNamed /\ SeenServed /\ ReadsAgree
    /\ CompletedWasServed /\ CommittedNeverAnsweredFailed

-----------------------------------------------------------------------------
(* What a writer may do to the records of the versions.                    *)

\* Six writes touch a record, an artifact status or the commit marker.
LEMMA Writers ==
    ASSUME [Next]_vars
    PROVE  \/ UNCHANGED <<versions, vstatus, manifest>>
           \/ (\E v \in Versions : SaveVersion(v) \/ FailStaleCandidate(v))
           \/ WriteVersionStatus \/ UpdateVersion \/ WriteFinalStatus \/ CommitManifest
  BY DEF vars, files, Next, Request, JobStep, CreateStep, EditStep, CommitStep, VersionStep,
      RecoveryStep, CreateDesign, BeginEdit, BeginRollback, CreateRefused,
      StartGeneration, GenerationReturns, ReportIssue, WriteFailedStatus,
      BeginActiveOperation, PlanRejected, RevisionReturns,
      RestoreStatus, CommitPointer, ProjectRoot, Announce,
      RunRaises, Finish, WriteFails, Crash,
      Restart, RestoreInterruptedEdit,
      RestoreCommittedActiveDesign, FailInterruptedWorkflow, SkipSettledWorkflow

\* A candidate is an operation's own since the step that drew it, and no longer
\* once the commit marker names it.
LEMMA PrivateStep ==
    ASSUME IInv, [Next]_vars, pc' \in Private
    PROVE  \/ pc \in Private /\ cand' = cand /\ manifest' = manifest
           \/ \E v \in Versions : SaveVersion(v) /\ cand' = v
  <1> USE WroteSource, HandlerOwner DEF Private, files, job
  <1>1. CASE CreateDesign \/ BeginEdit \/ CreateRefused \/ Finish \/ Crash
    BY <1>1 DEF CreateDesign, BeginEdit, CreateRefused, Finish, Crash, Idle
  <1>2. ASSUME NEW v \in Versions, BeginRollback(v) \/ FailStaleCandidate(v) PROVE FALSE
    BY <1>2 DEF BeginRollback, FailStaleCandidate
  <1>3. CASE StartGeneration \/ ReportIssue \/ WriteFailedStatus \/ BeginActiveOperation
    BY <1>3 DEF StartGeneration, ReportIssue, WriteFailedStatus, BeginActiveOperation
  <1>4. ASSUME NEW status \in {"completed", "failed"}, NEW scene \in BOOLEAN,
               GenerationReturns(status, scene)
        PROVE  FALSE
    BY <1>4 DEF GenerationReturns
  <1>5. CASE PlanRejected \/ RunRaises \/ WriteFails \/ RestoreStatus
    BY <1>5 DEF PlanRejected, RunRaises, WriteFails, RestoreStatus
  <1>6. ASSUME NEW status \in {"completed", "failed"}, RevisionReturns(status)
        PROVE  pc \in Private /\ cand' = cand /\ manifest' = manifest
    BY <1>6 DEF RevisionReturns
  <1>7. CASE WriteFinalStatus \/ WriteVersionStatus \/ UpdateVersion
    BY <1>7 DEF WriteFinalStatus, WriteVersionStatus, UpdateVersion
  <1>8. CASE CommitPointer \/ CommitManifest \/ ProjectRoot \/ Announce
    BY <1>8 DEF CommitPointer, CommitManifest, ProjectRoot, Announce
  <1>9. ASSUME NEW v \in Versions, SaveVersion(v) PROVE cand' = v
    BY <1>9 DEF SaveVersion
  <1>10. CASE Restart \/ RestoreInterruptedEdit \/ RestoreCommittedActiveDesign
              \/ FailInterruptedWorkflow \/ SkipSettledWorkflow
    BY <1>10 DEF Restart, RestoreInterruptedEdit, RestoreCommittedActiveDesign,
                 FailInterruptedWorkflow, SkipSettledWorkflow
  <1>11. CASE UNCHANGED vars
    BY <1>11 DEF vars
  <1> QED
    BY <1>1, <1>2, <1>3, <1>4, <1>5, <1>6, <1>7, <1>8, <1>9, <1>10, <1>11
    DEF Next, Request, JobStep, CreateStep, EditStep, CommitStep, VersionStep, RecoveryStep

\* A complete version that no operation has for its own keeps what it says.
LEMMA CompleteIsFrozen ==
    ASSUME IInv, [Next]_vars, NEW v \in Versions, Certifiable(v), pc \in Private => cand # v
    PROVE  /\ versions'[v] = versions[v] /\ vstatus'[v] = vstatus[v]
           /\ Certifiable(v)'
           /\ pc' \in Private => cand' # v
  <1> USE DEF IInv, TypeOK
  <1>1. versions'[v] = versions[v] /\ vstatus'[v] = vstatus[v]
    <2>1. ASSUME NEW u \in Versions, SaveVersion(u) \/ FailStaleCandidate(u)
          PROVE  versions'[v] = versions[v] /\ vstatus'[v] = vstatus[v]
      BY <2>1 DEF SaveVersion, Fresh, FailStaleCandidate, StaleCandidates, Certifiable, files
    <2>2. CASE WriteVersionStatus \/ UpdateVersion \/ WriteFinalStatus
      BY <2>2 DEF WriteVersionStatus, UpdateVersion, WriteFinalStatus, Private
    <2>3. CASE CommitManifest
      BY <2>3 DEF CommitManifest
    <2> QED  BY <2>1, <2>2, <2>3, Writers
  <1>2. Certifiable(v)'
    BY <1>1 DEF Certifiable
  <1>3. pc' \in Private => cand' # v
    BY PrivateStep DEF SaveVersion, Fresh, Certifiable
  <1> QED  BY <1>1, <1>2, <1>3

\* The commit marker keeps its version, or takes the version of the operation
\* under way, which is its own no longer.
LEMMA MarkerStep ==
    ASSUME IInv, [Next]_vars
    PROVE  \/ manifest' = manifest
           \/ manifest'.version \in Versions /\ pc' \notin Private
  <1>1. CASE CommitManifest
    <2>1. pc' \notin Private
      BY <1>1, WroteSource, HandlerOwner DEF CommitManifest, Private
    <2> QED  BY <1>1, <2>1 DEF CommitManifest, PublishedManifest, IInv, CommitChecked
  <1>2. CASE ~CommitManifest
    BY <1>2, Writers DEF SaveVersion, FailStaleCandidate, WriteVersionStatus, UpdateVersion,
       WriteFinalStatus, files
  <1> QED  BY <1>1, <1>2

LEMMA NamedStep ==
    ASSUME IInv, StatusesNamed, [Next]_vars
    PROVE  StatusesNamed'
  <1> USE DEF IInv, TypeOK, StatusesNamed
  <1>1. ASSUME NEW u \in Versions, SaveVersion(u) \/ FailStaleCandidate(u)
        PROVE  StatusesNamed'
    BY <1>1 DEF SaveVersion, FailStaleCandidate
  <1>2. CASE WriteVersionStatus
    BY <1>2 DEF WriteVersionStatus, Doc
  <1>3. CASE WriteFinalStatus
    BY <1>3 DEF WriteFinalStatus, StatusDoc
  <1>4. CASE UpdateVersion \/ CommitManifest
    BY <1>4 DEF UpdateVersion, CommitManifest
  <1> QED  BY <1>1, <1>2, <1>3, <1>4, Writers

-----------------------------------------------------------------------------
(* A step of a writer, seen from the request.                              *)

LEMMA WriterKeeps ==
    ASSUME ReadsInv, WriterStep, IInv'
    PROVE  ReadsTypeOK' /\ SeenServed' /\ ReadsAgree' /\ CompletedWasServed'
           /\ CommittedNeverAnsweredFailed'
  <1> USE VersionsAssumption DEF WriterStep, ReadsInv
  <1>0. [Next]_vars /\ TypeOK'  BY DEF IInv
  <1>1. CASE pc' = "down"
    <2>1. /\ rpc' = "none" /\ rroot' = Absent /\ rversion' = NoVersion
          /\ rdigest' = Absent /\ ranswer' = Absent /\ seen' = {}
      BY <1>1
    <2>2. ReadsTypeOK'
      BY <1>0, <2>1, AbsentType DEF ReadsTypeOK, OptVersion, Absent, Doc
    <2> QED
      BY <2>1, <2>2 DEF SeenServed, ReadsAgree, CompletedWasServed, CommittedNeverAnsweredFailed
  <1>2. CASE pc' # "down"
    <2>0. UNCHANGED <<rpc, rroot, rversion, rdigest, ranswer>>  BY <1>2
    <2>1. seen \subseteq seen' /\ seen' \subseteq seen \cup {manifest'.version}
      BY <1>2
    <2>2. manifest'.version \in OptVersion  BY <1>0 DEF TypeOK
    <2>3. ReadsTypeOK'  BY <1>0, <2>0, <2>1, <2>2 DEF ReadsTypeOK
    <2>4. ASSUME NEW v \in seen \ {NoVersion}
          PROVE  /\ v \in Versions /\ vstatus'[v] = vstatus[v]
                 /\ Certifiable(v)' /\ (pc' \in Private => cand' # v)
      BY <1>0, CompleteIsFrozen DEF SeenServed, ReadsTypeOK, OptVersion
    <2>5. SeenServed'
      <3> SUFFICES ASSUME NEW v \in seen' \ {NoVersion}
                   PROVE  Certifiable(v)' /\ (pc' \in Private => cand' # v)
        BY DEF SeenServed
      <3>1. CASE v \in seen  BY <2>4, <3>1
      <3>2. CASE v = manifest'.version
        BY <3>2 DEF IInv, ManifestCertified, Verified, CandidatePrivate, Private
      <3> QED  BY <2>1, <3>1, <3>2
    <2>6. manifest.version # NoVersion => manifest'.version # NoVersion
      BY <1>0, MarkerStep
    <2>7. rpc \notin {"none", "done"} => manifest'.version \in seen'
      BY <1>2
    <2>8. ReadsAgree'
      BY <2>0, <2>1, <2>4, <2>6, <2>7 DEF ReadsAgree
    <2>9. CompletedWasServed' /\ CommittedNeverAnsweredFailed'
      BY <2>0, <2>1 DEF CompletedWasServed, CommittedNeverAnsweredFailed
    <2> QED  BY <2>3, <2>5, <2>8, <2>9
  <1> QED  BY <1>1, <1>2

-----------------------------------------------------------------------------
(* A step of the request.                                                  *)

LEMMA ReaderKeeps ==
    ASSUME ReadsInv, ReadStep
    PROVE  ReadsTypeOK' /\ SeenServed' /\ ReadsAgree' /\ CompletedWasServed'
           /\ CommittedNeverAnsweredFailed'
  <1> USE VersionsAssumption DEF ReadsInv
  <1>0. /\ UNCHANGED vars /\ TypeOK /\ TypeOK' /\ manifest.version \in OptVersion
        /\ rroot.status \in {"absent", "pending", "running", "completed", "failed"}
        /\ rdigest.status \in {"absent", "pending", "running", "completed", "failed"}
    BY DEF ReadStep, ReadRoot, ReadManifest, Decide, Resolve, Verify, Load, Return,
       IInv, TypeOK, ReadsTypeOK, StatusDoc, vars, files, job
  <1> USE <1>0 DEF vars, files, job, Certifiable
  <1>1. CASE ReadRoot
    BY <1>1 DEF ReadRoot, ReadsTypeOK, SeenServed, ReadsAgree, CompletedWasServed,
       CommittedNeverAnsweredFailed, TypeOK, IInv, ManifestCertified, Verified,
       CandidatePrivate,
       Private
  <1>2. CASE ReadManifest
    BY <1>2 DEF ReadManifest, ReadsTypeOK, SeenServed, ReadsAgree, CompletedWasServed,
       CommittedNeverAnsweredFailed
  <1>3. CASE Decide
    <2>1. rpc = "decide"  BY <1>3 DEF Decide
    <2>2. ASSUME Answered(rroot), Unsettled(rroot)
          PROVE  ranswer' = rroot /\ rpc' = "done" /\ rroot.status \in {"pending", "running"}
      BY <2>2 DEF Answered, Unsettled
    <2>3. ASSUME Answered(RootAnswer), rversion = NoVersion
          PROVE  rpc' = "done" /\ NoVersion \in seen
                 /\ ranswer'.status \in {"absent", "pending", "running", "failed",
                                       "quarantined"}
      BY <2>1, <2>3 DEF Answered, RootAnswer, Quarantine, ReadsAgree, ReadsTypeOK, StatusDoc
    <2>4. UNCHANGED <<rroot, rversion, rdigest, seen>>  BY <1>3 DEF Decide
    <2>5. CASE Answered(rroot) /\ Unsettled(rroot)
      BY <2>2, <2>4, <2>5 DEF ReadsTypeOK, SeenServed, ReadsAgree, CompletedWasServed,
         CommittedNeverAnsweredFailed
    <2>6. CASE Answered(RootAnswer) /\ rversion = NoVersion
      BY <2>3, <2>4, <2>6 DEF ReadsTypeOK, SeenServed, ReadsAgree, CompletedWasServed,
         CommittedNeverAnsweredFailed
    <2>7. CASE rversion # NoVersion /\ rpc' = "resolve" /\ UNCHANGED ranswer
      BY <2>1, <2>4, <2>7 DEF ReadsTypeOK, SeenServed, ReadsAgree, CompletedWasServed,
         CommittedNeverAnsweredFailed
    <2> QED  BY <1>3, <2>5, <2>6, <2>7 DEF Decide, ShowsOperation
  <1>4. CASE Resolve
    <2>1. manifest.digest = vstatus[manifest.version] /\ manifest.digest \in StatusDoc
      BY <1>4 DEF Resolve, ReadsAgree, IInv, ManifestCertified, Verified, TypeOK
    <2> QED
      BY <1>4, <2>1 DEF Resolve, ReadsTypeOK, SeenServed, ReadsAgree, CompletedWasServed,
         CommittedNeverAnsweredFailed
  <1>5. CASE Verify
    <2>1. rpc' = "load" /\ UNCHANGED ranswer
      BY <1>5 DEF Verify, ReadsAgree, SeenServed
    <2> QED
      BY <1>5, <2>1 DEF Verify, ReadsTypeOK, SeenServed, ReadsAgree, CompletedWasServed,
         CommittedNeverAnsweredFailed
  <1>6. CASE Load
    <2>1. rversion \in seen \ {NoVersion} /\ rversion \in Versions
      BY <1>6 DEF Load, ReadsAgree, ReadsTypeOK, OptVersion
    <2>2. vstatus[rversion].status = "completed" /\ vstatus[rversion].version = rversion
      BY <2>1 DEF SeenServed, StatusesNamed
    <2> QED
      BY <1>6, <2>1, <2>2 DEF Load, Answered, ReadsTypeOK, SeenServed, ReadsAgree,
         CompletedWasServed, CommittedNeverAnsweredFailed
  <1>7. CASE Return
    BY <1>7, AbsentType DEF Return, ReadsTypeOK, SeenServed, ReadsAgree, CompletedWasServed,
       CommittedNeverAnsweredFailed, OptVersion, Absent, Doc
  <1> QED  BY <1>1, <1>2, <1>3, <1>4, <1>5, <1>6, <1>7 DEF ReadStep

-----------------------------------------------------------------------------
(* The theorems.                                                           *)

LEMMA ReadsInvInit == ReadsInit => ReadsInv
  <1> SUFFICES ASSUME ReadsInit PROVE ReadsInv  OBVIOUS
  <1>1. IInv /\ TypeOK  BY InvInit DEF ReadsInit, IInv
  <1>2. StatusesNamed  BY DEF ReadsInit, Init, StatusesNamed, Absent, Doc
  <1> QED
    BY <1>1, <1>2, AbsentType
    DEF ReadsInit, ReadsInv, ReadsTypeOK, SeenServed, ReadsAgree, CompletedWasServed,
        CommittedNeverAnsweredFailed, OptVersion, Absent, Doc

LEMMA ReadsInvNext == ReadsInv /\ [ReadsNext]_readsVars => ReadsInv'
  <1> SUFFICES ASSUME ReadsInv, [ReadsNext]_readsVars PROVE ReadsInv'  OBVIOUS
  <1>1. [Next]_vars
    BY DEF ReadsNext, WriterStep, ReadStep, ReadRoot, ReadManifest, Decide, Resolve, Verify,
       Load, Return, readsVars
  <1>2. IInv' /\ StatusesNamed'
    BY <1>1, InvNext, NamedStep DEF ReadsInv
  <1>3. CASE WriterStep  BY <1>2, <1>3, WriterKeeps DEF ReadsInv
  <1>4. CASE ReadStep  BY <1>2, <1>4, ReaderKeeps DEF ReadsInv
  <1>5. CASE UNCHANGED readsVars
    BY <1>2, <1>5
    DEF ReadsInv, ReadsTypeOK, SeenServed, ReadsAgree, CompletedWasServed,
        CommittedNeverAnsweredFailed, Certifiable, TypeOK, readsVars, vars, files, job, reader
  <1> QED  BY <1>3, <1>4, <1>5 DEF ReadsNext

\* A status request changes nothing: with any number of them the service keeps
\* the behaviours of its writers, and every theorem of DesignPublication.
THEOREM ReadsChangeNothing == ReadsSpec => Spec
  <1>1. ReadsInit => Init  BY DEF ReadsInit
  <1>2. [ReadsNext]_readsVars => [Next]_vars
    BY DEF ReadsNext, WriterStep, ReadStep, ReadRoot, ReadManifest, Decide, Resolve, Verify,
       Load, Return, readsVars
  <1> QED  BY <1>1, <1>2, PTL DEF ReadsSpec, Spec

\* get_status, which takes no lock, answers completed only with a version that
\* was the active design at some moment of the request, and never answers a
\* failure or a quarantine once a design was committed, whatever edits,
\* rollbacks, deaths and failed writes fall between its reads.
THEOREM ReadsAreTrue == ReadsSpec => []StatusesTrue
  <1>1. ReadsInv => StatusesTrue
    BY DEF ReadsInv, StatusesTrue
  <1> QED
    BY <1>1, ReadsInvInit, ReadsInvNext, PTL DEF ReadsSpec

-----------------------------------------------------------------------------
(* A version and its evidence: what BuildEvidence promises.                *)

Drawing == {"check", "draw", "prove", "export"}
Rendered == {"measure", "lock", "compare", "certify", "check_certificate", "publish"}

\* What the worker does and how far it is; the library it reads.
WorkerTypes ==
    /\ design \in Scene
    /\ disk \in [Sources(design) -> {"pinned", "neighbour", "other", "absent"}]
    /\ edits \in 0..MaxEdits /\ restored \subseteq DOMAIN disk
    /\ phase \in Drawing \cup {"inspect"} \cup Rendered \cup Ended
    /\ importing \in {"no", "pinned", "hashed"}
    /\ todo \subseteq Pieces(design)
    /\ \A x \in drawn \cup records : x.piece \in Pieces(design)

\* Which mode the metadata tell, at each phase.
ModeKnown ==
    /\ phase \in Drawing => mode = "none"
    /\ phase \in Rendered \cup {"published", "refused"} => mode = "real_blender"
    /\ phase = "inspect" => mode \in {"real_blender", "fallback_no_blender"}

\* The piece under import has a source; only the timing antenna does not bound it.
ImportKnown ==
    importing # "no" => \A p \in Upcoming : Source(p) \in DOMAIN disk

\* Each piece is drawn once, and what was drawn is no longer left to draw.
DrawnOnce ==
    /\ \A o \in drawn : o.piece \notin todo
    /\ \A o, p \in drawn : o.piece = p.piece => o = p

\* What is neither left nor drawn is on record as missing.
DrawnOrMissing ==
    \A p \in Pieces(design) \ todo :
        \/ \E o \in drawn : o.piece = p
        \/ phase = "published" /\ drawn = {}
        \/ design.domain = "telecom" /\ \E r \in records : r.mode = "missing_file"
Explained(r) ==
    \/ r.mode = "missing_file" /\ design.domain = "telecom"
    \/ \E o \in drawn : o.piece = r.piece
                        /\ (o.of = "fallback" <=> r.mode = "procedural_fallback")
RecordsExplained == mode # "fallback_no_blender" => \A r \in records : Explained(r)
DrawingEnds ==
    phase \in {"prove", "export"} \/ (phase = "inspect" /\ mode = "real_blender")
    \/ phase \in Rendered => todo = {}

\* Until the lock is written, a source that was not as planned when it was read
\* is still not, or was put back.
Suspect(s, content) == content = "pinned" \/ s \in restored \/ disk[s] # "pinned"
SourcesWatched ==
    \A o \in drawn :
        /\ o.piece.role \in Exact(design) => Suspect(o.piece.role, o.of)
        /\ o.piece = Piece("program", "exact") => Suspect("exact", o.of)

\* A program that is no longer left was compiled or imported, never replaced:
\* the records of all programs are written with the last one.
ProgramsDrawn ==
    phase \in {"check", "draw"} =>
        \A p \in Pieces(design) \ todo :
            p.role = "program" => \E o \in drawn : o.piece = p /\ o.of # "fallback"

WorkerInv == /\ WorkerTypes /\ ModeKnown /\ ImportKnown /\ DrawnOnce /\ DrawnOrMissing
             /\ ProgramsDrawn
             /\ RecordsExplained /\ DrawingEnds /\ SourcesWatched /\ AuthenticSources

\* The files a build nobody touches has, at each phase.
Model == {"glb", "preview", "metadata"}
Present(ph) ==
    CASE ph \in Drawing -> {"scene_spec"}
      [] ph = "inspect" ->
            {"scene_spec"} \cup Model
            \cup (Needed(design) \cap {"component_proofs", "sector_previews"})
      [] ph = "measure" ->
            {"scene_spec"} \cup Model \cup (Needed(design) \ {"tower_access_evidence"})
      [] ph = "lock" -> {"scene_spec"} \cup Model \cup Needed(design)
      [] ph \in {"compare", "certify"} ->
            {"scene_spec", "build_lock"} \cup Model \cup Needed(design)
      [] OTHER -> {"scene_spec", "build_lock", "certificate", "reports", "status"}
                  \cup Model \cup Needed(design)
Untouched(ph) == damages = 0 /\ mode # "fallback_no_blender" /\ phase = ph
FilesKnown ==
    \A ph \in Drawing \cup {"inspect"} \cup Rendered :
        Untouched(ph) => written = OldHashes(Present(ph))
MeasuresKnown ==
    /\ Untouched("measure") =>
          measured["constraint_evidence"] = IF design.plan THEN 1 ELSE 0
    /\ \A ph \in Rendered \ {"measure"} : Untouched(ph) =>
          \A f \in Measurements \cap Needed(design) : measured[f] = 1
LockKnown ==
    \A ph \in Rendered \ {"measure", "lock"} : Untouched(ph) =>
        /\ lock.schema = "1.3.0" /\ lock.declares = Profiles /\ lock.inputs = TrustedInputs
        /\ lock.files = OldHashes(Model \cup Needed(design))
CertificateKnown ==
    \A ph \in {"check_certificate", "publish"} : Untouched(ph) =>
        /\ certificate.schema = CertificateSchema(design)
        /\ certificate.checks = IssuedChecks(design)
        /\ certificate.files = OldHashes(Artifacts(design))

\* What publication and a later read ask of a version: the same.
Sound == /\ \A f \in Files : written[f] \in {0, 1}
         /\ PersistedVersion(TRUE) /\ ReportsVerified
         /\ written["status"] = publication.status
         /\ written["certificate"] = publication.certificate
         /\ certificate.files = publication.files
PublishedSound == phase = "published" /\ damages = 0 => Sound

EvidenceTypes ==
    /\ written \in HashSet /\ lock.files \in HashSet /\ damages \in 0..MaxDamages
    /\ measured \in [Measurements -> 0..2]
    /\ {f \in Files : lock.files[f] # 0} \subseteq Model \cup Families
    /\ certificate.files \in HashSet
    /\ Issued => \A f \in Base : certificate.files[f] # 0
    /\ Issued => phase \in {"check_certificate", "publish"} \cup Ended
    /\ answer.asked \/ answer.verified => phase = "published"

EvidenceInv == /\ EvidenceTypes /\ FilesKnown /\ MeasuresKnown /\ LockKnown
               /\ CertificateKnown /\ PublishedSound /\ SoundBuildsArePublished
               /\ CertifiedIsDrawn /\ CertifiedWasMeasured
               /\ IntactIsServed /\ VerifiedMeansWhole

VersionInv == WorkerInv /\ EvidenceInv

(* What the roles and the marks are.                                       *)
LEMMA RolesAre ==
    /\ Range(First) = {"support_structure", "foundation", "tower_access", "height_marker"}
    /\ Range(PerSector) = {"antenna_mount", "sector_antenna", "remote_radio",
                           "sector_cable_route", "sector_beam", "azimuth_arrow"}
    /\ Range(Last) = {"ground_equipment", "timing_antenna", "label"}
    /\ Range(Programs) = {"typed", "exact"}
    /\ Roles = {"antenna_mount", "sector_antenna", "remote_radio", "sector_cable_route",
                "support_structure", "ground_equipment", "timing_antenna"}
<1>1. Range(First) = {"support_structure", "foundation", "tower_access", "height_marker"}
  BY DEF Range, First
<1>2. Range(PerSector) = {"antenna_mount", "sector_antenna", "remote_radio",
                          "sector_cable_route", "sector_beam", "azimuth_arrow"}
  BY DEF Range, PerSector
<1>3. Range(Last) = {"ground_equipment", "timing_antenna", "label"}
  BY DEF Range, Last
<1>4. Range(Programs) = {"typed", "exact"}
  BY DEF Range, Programs
<1> QED BY <1>1, <1>2, <1>3, <1>4 DEF Roles, Marks

(* A place in an order is a place of that thing.                           *)
LEMMA IndexIs ==
    ASSUME NEW S, NEW order \in Seq(S), NEW x \in Range(order)
    PROVE  Index(order, x) \in 1..Len(order) /\ order[Index(order, x)] = x
<1>1. \E i \in DOMAIN order : order[i] = x
  BY DEF Range
<1>2. Index(order, x) \in DOMAIN order /\ order[Index(order, x)] = x
  BY <1>1 DEF Index
<1> QED BY <1>2

(* Where each kind of piece comes in the worker's sequence.                *)
LEMMA RankOf ==
    ASSUME NEW d \in Scene, NEW p \in Pieces(d)
    PROVE  /\ p = Piece(p.role, p.at)
           /\ Rank(p) \in Nat
           /\ LET after == 6 * (Len(Sectors) + 1)
              IN  \/ p.role = "support_structure" /\ p.at = "global" /\ Rank(p) = 1
                  \/ p.role = "foundation" /\ p.at = "global" /\ Rank(p) = 2
                  \/ p.role = "tower_access" /\ p.at = "global" /\ Rank(p) = 3
                  \/ p.role = "height_marker" /\ p.at = "global" /\ Rank(p) = 4
                  \/ /\ p.role \in Range(PerSector) /\ p.at \in Range(Sectors)
                     /\ Rank(p) = 6 * Index(Sectors, p.at) + Index(PerSector, p.role)
                     /\ Rank(p) > 6 /\ Rank(p) <= after
                  \/ p.role = "ground_equipment" /\ p.at = "global" /\ Rank(p) = after + 1
                  \/ p.role = "timing_antenna" /\ p.at = "global" /\ Rank(p) = after + 2
                  \/ p.role = "label" /\ p.at = "global" /\ Rank(p) = after + 3
                  \/ p.role = "program" /\ p.at = "typed" /\ Rank(p) = after + 4
                  \/ p.role = "program" /\ p.at = "exact" /\ Rank(p) = after + 5
                  \/ /\ p.role = "route" /\ p.at \in Range(Sectors)
                     /\ Rank(p) = after + 5 + Index(Sectors, p.at)
                     /\ Rank(p) > after + 5
<1> DEFINE after == 6 * (Len(Sectors) + 1)
<1>1. /\ Len(Sectors) \in Nat /\ Len(PerSector) = 6 /\ Len(Last) = 3 /\ Len(Programs) = 2
  BY SceneAssumption DEF PerSector, Last, Programs
<1>2. CASE p \in {Piece(role, "global") :
                    role \in {g \in Range(First) \cup Range(Last) : Has(d, g)}}
  <2>1. p = Piece(p.role, p.at) /\ p.at = "global" /\ p.role \in Range(First) \cup Range(Last)
    BY <1>2 DEF Piece
  <2>2. CASE p.role \in Range(First)
    <3>1. Rank(p) = Index(First, p.role)
      BY <2>2, RolesAre DEF Rank
    <3>2. First \in Seq(Range(First)) /\ Len(First) = 4
      BY RolesAre DEF First
    <3>3. Index(First, p.role) \in 1..4 /\ First[Index(First, p.role)] = p.role
      BY <2>2, <3>2, IndexIs
    <3>4. /\ First[1] = "support_structure" /\ First[2] = "foundation"
          /\ First[3] = "tower_access" /\ First[4] = "height_marker"
      BY DEF First
    <3> QED BY <2>1, <2>2, <3>1, <3>3, <3>4, RolesAre
  <2>3. CASE p.role \in Range(Last)
    <3>1. Rank(p) = after + Index(Last, p.role)
      BY <1>1, <2>3, RolesAre DEF Rank
    <3>2. /\ Index(Last, "ground_equipment") = 1 /\ Index(Last, "timing_antenna") = 2
          /\ Index(Last, "label") = 3
      BY DEF Index, Last
    <3> QED BY <1>1, <2>1, <2>3, <3>1, <3>2, RolesAre
  <2> QED BY <2>1, <2>2, <2>3
<1>3. CASE p \in {Piece(role, s) : role \in {g \in Range(PerSector) : Has(d, g)},
                                   s \in Range(Sectors)}
  <2>1. p = Piece(p.role, p.at) /\ p.role \in Range(PerSector) /\ p.at \in Range(Sectors)
    BY <1>3 DEF Piece
  <2>2. Index(Sectors, p.at) \in 1..Len(Sectors)
    BY <2>1, IndexIs, SceneAssumption
  <2>3. Index(PerSector, p.role) \in 1..6
    <3>1. PerSector \in Seq(Range(PerSector))
      BY RolesAre DEF PerSector
    <3> QED BY <2>1, <3>1, <1>1, IndexIs
  <2>4. Rank(p) = 6 * Index(Sectors, p.at) + Index(PerSector, p.role)
    BY <2>1, <1>1, RolesAre DEF Rank
  <2> QED BY <1>1, <2>1, <2>2, <2>3, <2>4
<1>4. CASE p \in {Piece("program", q) : q \in d.programs}
  <2>1. p = Piece(p.role, p.at) /\ p.role = "program" /\ p.at \in {"typed", "exact"}
    BY <1>4, RolesAre DEF Piece, Scene
  <2>2. Rank(p) = after + 3 + Index(Programs, p.at)
    BY <2>1, <1>1, RolesAre DEF Rank
  <2>3. Index(Programs, "typed") = 1 /\ Index(Programs, "exact") = 2
    BY DEF Index, Programs
  <2> QED BY <1>1, <2>1, <2>2, <2>3
<1>5. CASE Routed(d) /\ p \in {Piece("route", s) : s \in Range(Sectors)}
  <2>1. p = Piece(p.role, p.at) /\ p.role = "route" /\ p.at \in Range(Sectors)
    BY <1>5 DEF Piece
  <2>2. Rank(p) = after + 5 + Index(Sectors, p.at)
    BY <2>1, <1>1, RolesAre DEF Rank
  <2>3. Index(Sectors, p.at) \in 1..Len(Sectors)
    BY <2>1, IndexIs, SceneAssumption
  <2> QED BY <1>1, <2>1, <2>2, <2>3
<1> QED BY <1>2, <1>3, <1>4, <1>5 DEF Pieces

(* The rank of a piece of a sector tells its sector and its role.          *)
LEMMA Digits ==
    ASSUME NEW a \in Nat, NEW b \in Nat, NEW i \in 1..6, NEW j \in 1..6, 6 * a + i = 6 * b + j
    PROVE  a = b /\ i = j
<1>1. a < b + 1 /\ b < a + 1
  OBVIOUS
<1> QED BY <1>1

(* One piece comes next.                                                   *)
LEMMA UpcomingAlone ==
    ASSUME WorkerTypes, NEW p \in Upcoming, NEW q \in Upcoming
    PROVE  p = q
<1>1. p \in Pieces(design) /\ q \in Pieces(design) /\ design \in Scene
  BY DEF WorkerTypes, Upcoming
<1>2. Rank(p) = Rank(q)
  <2>1. Rank(p) \in Nat /\ Rank(q) \in Nat
    BY <1>1, RankOf
  <2> QED BY <2>1 DEF Upcoming
<1>3. p = Piece(p.role, p.at) /\ q = Piece(q.role, q.at)
  BY <1>1, RankOf
<1>4. Len(Sectors) \in Nat
  BY SceneAssumption
<1>5. p.role = q.role /\ p.at = q.at
  <2> DEFINE after == 6 * (Len(Sectors) + 1)
             Sectored(x) == /\ x.role \in Range(PerSector) /\ x.at \in Range(Sectors)
                            /\ Rank(x) = 6 * Index(Sectors, x.at) + Index(PerSector, x.role)
             OnRoute(x) == /\ x.role = "route" /\ x.at \in Range(Sectors)
                           /\ Rank(x) = after + 5 + Index(Sectors, x.at)
  <2>1. CASE Sectored(p) /\ Sectored(q)
    <3>1. /\ Index(Sectors, p.at) \in 1..Len(Sectors) /\ Sectors[Index(Sectors, p.at)] = p.at
          /\ Index(Sectors, q.at) \in 1..Len(Sectors) /\ Sectors[Index(Sectors, q.at)] = q.at
      BY <2>1, IndexIs, SceneAssumption
    <3>2. PerSector \in Seq(Range(PerSector)) /\ Len(PerSector) = 6
      BY RolesAre DEF PerSector
    <3>3. /\ Index(PerSector, p.role) \in 1..6 /\ PerSector[Index(PerSector, p.role)] = p.role
          /\ Index(PerSector, q.role) \in 1..6 /\ PerSector[Index(PerSector, q.role)] = q.role
      BY <2>1, <3>2, IndexIs
    <3>4. /\ Index(Sectors, p.at) = Index(Sectors, q.at)
          /\ Index(PerSector, p.role) = Index(PerSector, q.role)
      <4>1. /\ Index(Sectors, p.at) \in Nat /\ Index(Sectors, q.at) \in Nat
            /\ 6 * Index(Sectors, p.at) + Index(PerSector, p.role)
                  = 6 * Index(Sectors, q.at) + Index(PerSector, q.role)
        BY <2>1, <1>2, <1>4, <3>1
      <4> QED BY <4>1, <3>3, Digits
    <3> QED BY <3>1, <3>3, <3>4
  <2>2. CASE OnRoute(p) /\ OnRoute(q)
    <3>1. /\ Index(Sectors, p.at) \in 1..Len(Sectors) /\ Sectors[Index(Sectors, p.at)] = p.at
          /\ Index(Sectors, q.at) \in 1..Len(Sectors) /\ Sectors[Index(Sectors, q.at)] = q.at
      BY <2>2, IndexIs, SceneAssumption
    <3> QED BY <2>2, <1>2, <1>4, <3>1
  <2>3. CASE ~(Sectored(p) /\ Sectored(q)) /\ ~(OnRoute(p) /\ OnRoute(q))
    BY <2>3, <1>1, <1>2, <1>4, RankOf
  <2> QED BY <2>1, <2>2, <2>3
<1> QED BY <1>3, <1>5

(* What a scene's roles say about its pieces and its files.                *)
LEMMA PieceFacts ==
    ASSUME NEW d \in Scene, NEW p \in Pieces(d)
    PROVE  /\ p = Piece(p.role, p.at)
           /\ p.role \in Roles \cup Marks => Has(d, p.role)
           /\ p.role \in Roles \cup Marks \cup {"program", "route"}
           /\ p.role = "program" => p.at \in d.programs /\ p.at \in {"typed", "exact"}
           /\ p.role = "route" => Routed(d)
           /\ "program" \notin Roles \cup Marks /\ "route" \notin Roles \cup Marks
           /\ Roles \cap Marks = {}
           /\ "sector_cable_route" \notin Exact(d)
<1>1. "program" \notin Roles \cup Marks /\ "route" \notin Roles \cup Marks
      /\ Roles \cap Marks = {}
  BY RolesAre DEF Marks
<1>2. "sector_cable_route" \notin Exact(d)
  BY DEF Exact, Scene, Strategies
<1>3. CASE p \in {Piece(role, "global") :
                    role \in {g \in Range(First) \cup Range(Last) : Has(d, g)}}
  <2>1. /\ p.role \in Range(First) \cup Range(Last) /\ Has(d, p.role)
        /\ p = Piece(p.role, p.at)
    BY <1>3 DEF Piece
  <2> QED BY <2>1, <1>1, <1>2 DEF Roles
<1>4. CASE p \in {Piece(role, s) : role \in {g \in Range(PerSector) : Has(d, g)},
                                   s \in Range(Sectors)}
  <2>1. p.role \in Range(PerSector) /\ Has(d, p.role) /\ p = Piece(p.role, p.at)
    BY <1>4 DEF Piece
  <2> QED BY <2>1, <1>1, <1>2 DEF Roles
<1>5. CASE p \in {Piece("program", q) : q \in d.programs}
  <2>1. p.role = "program" /\ p.at \in d.programs /\ p = Piece(p.role, p.at)
    BY <1>5 DEF Piece
  <2>2. p.at \in {"typed", "exact"}
    BY <2>1, RolesAre DEF Scene
  <2> QED BY <2>1, <2>2, <1>1, <1>2
<1>6. CASE Routed(d) /\ p \in {Piece("route", s) : s \in Range(Sectors)}
  <2>1. p.role = "route" /\ p = Piece(p.role, p.at)
    BY <1>6 DEF Piece
  <2> QED BY <2>1, <1>6, <1>1, <1>2
<1> QED BY <1>3, <1>4, <1>5, <1>6 DEF Pieces

\* One step of the drawing: an import goes on, the worker gives up, a piece is
\* placed, or a piece is recorded as missing.  With the last program the records
\* of all programs are written.
Watched(p, of) ==
    /\ p.role \in Exact(design) => of = "pinned" \/ disk[p.role] # "pinned"
    /\ p = Piece("program", "exact") => of = "pinned" \/ disk["exact"] # "pinned"
Imports(p) == /\ importing' \in {"pinned", "hashed"} /\ Source(p) \in DOMAIN disk
              /\ UNCHANGED <<phase, todo, drawn, records>>
Past(p) == todo' = todo \ {p} /\ importing' = "no" /\ UNCHANGED phase
Tells(p, of, r) ==
    /\ r.mode # "missing_file"
    /\ \/ r.piece = p /\ (of = "fallback" <=> r.mode = "procedural_fallback")
       \/ /\ r.piece \in Pieces(design) \ (todo \ {p}) /\ r.piece.role = "program"
          /\ of # "fallback" /\ r.mode # "procedural_fallback"
Placed(p, of, entries) ==
    /\ Past(p) /\ Watched(p, of) /\ (p.role = "program" => of # "fallback")
    /\ drawn' = drawn \cup {Object(p, of)} /\ records' = records \cup entries
    /\ \A r \in entries : Tells(p, of, r)
Missed(p) ==
    /\ Past(p) /\ design.domain = "telecom" /\ p.role # "program"
    /\ drawn' = drawn /\ records' = records \cup {Record(p, "missing_file", FALSE)}
Drew(p) == \/ Imports(p) \/ Abort \/ Missed(p)
           \/ \E of \in {"built", "fallback", "pinned", "neighbour", "other", "absent"} :
                 \E entries : Placed(p, of, entries)

(* A piece drawn by the worker's own code is none that a file stands for.  *)
LEMMA BuiltIsWatched ==
    ASSUME NEW p, NEW entries, Build(p, "built", entries),
           \A r \in entries : Tells(p, "built", r),
           p.role \notin Exact(design), p # Piece("program", "exact")
    PROVE  Drew(p)
<1>1. CASE Abort
  BY <1>1 DEF Drew
<1>2. CASE Place(p, "built", entries)
  <2>1. Placed(p, "built", entries)
    BY <1>2 DEF Placed, Past, Watched, Place, Continue
  <2> QED BY <2>1 DEF Drew
<1> QED BY <1>1, <1>2 DEF Build

(* So is a piece drawn where no file can stand for it.                     *)
LEMMA ProceduralIsTold ==
    ASSUME NEW p, Procedural(p), p.role \notin Exact(design), p.role # "program",
           p # Piece("program", "exact")
    PROVE  Drew(p)
<1>1. CASE Abort
  BY <1>1 DEF Drew
<1>2. CASE Place(p, "fallback", {Record(p, "procedural_fallback", TRUE)})
  <2>1. Placed(p, "fallback", {Record(p, "procedural_fallback", TRUE)})
    BY <1>2 DEF Placed, Tells, Past, Watched, Place, Continue, Record
  <2> QED BY <2>1 DEF Drew
<1> QED BY <1>1, <1>2 DEF Procedural, Build

(* What a generated piece is recorded as.                                  *)
LEMMA GeneratedTells ==
    ASSUME NEW p, NEW entries, entries = {} \/ entries = {Generated(p)}
    PROVE  \A r \in entries : Tells(p, "built", r)
BY DEF Tells, Generated, Record

(* The records of the programs name programs that are drawn by then.       *)
LEMMA ProgramRecordsTell ==
    ASSUME WorkerTypes, NEW p, p.role = "program", NEW of, of # "fallback"
    PROVE  \A r \in ProgramRecords(p) : Tells(p, of, r)
<1>1. CASE \E q \in todo : q.role = "program" /\ q # p
  BY <1>1 DEF ProgramRecords
<1>2. CASE ~\E q \in todo : q.role = "program" /\ q # p
  <2>1. ASSUME NEW r \in ProgramRecords(p)
        PROVE  Tells(p, of, r)
    <3>1. PICK x \in design.programs :
            r = Record(Piece("program", x),
                       IF x = "exact" THEN "imported_glb_exact" ELSE "generated", TRUE)
      BY <1>2, <2>1 DEF ProgramRecords
    <3>2. /\ r.piece = Piece("program", x) /\ r.piece.role = "program"
          /\ r.mode \in {"imported_glb_exact", "generated"}
      BY <3>1 DEF Record, Piece
    <3>3. r.piece \in Pieces(design)
      BY <3>2 DEF Pieces
    <3>4. r.piece \notin todo \ {p}
      BY <1>2, <3>2
    <3> QED BY <3>2, <3>3, <3>4 DEF Tells
  <2> QED BY <2>1
<1> QED BY <1>1, <1>2

(* A checked boundary goes on to the import of the file it pinned.         *)
LEMMA BoundaryImports ==
    ASSUME NEW p, Boundary(p.role), p.role \in Exact(design), p.role \in Roles, WorkerTypes
    PROVE  Drew(p)
<1>1. p.role # "program"
  BY RolesAre
<1>2. Source(p) \in DOMAIN disk
  BY <1>1 DEF Source, Exact, Sources, WorkerTypes
<1> QED BY <1>2 DEF Boundary, Enter, Drew, Imports

(* Whatever the worker draws next, it is one of these.                     *)
LEMMA DrawIsOne ==
    ASSUME WorkerTypes, ImportKnown, NEW p \in Upcoming, DrawPiece(p)
    PROVE  phase = "draw" /\ Library /\ p \in todo /\ p \in Pieces(design) /\ Drew(p)
<1>1. p \in todo /\ p \in Pieces(design) /\ design \in Scene
  BY DEF WorkerTypes, Upcoming
<1>2. /\ p = Piece(p.role, p.at)
      /\ p.role \in Roles \cup Marks => Has(design, p.role)
      /\ p.role \in Roles \cup Marks \cup {"program", "route"}
      /\ p.role = "program" => p.at \in design.programs /\ p.at \in {"typed", "exact"}
      /\ p.role = "route" => Routed(design)
      /\ "program" \notin Roles \cup Marks /\ "route" \notin Roles \cup Marks
      /\ Roles \cap Marks = {}
      /\ "sector_cable_route" \notin Exact(design)
  BY <1>1, PieceFacts
<1>3. phase = "draw" /\ Library
  <2>1. ASSUME NEW role, Mark(p, role)
        PROVE  phase = "draw" /\ Library
    BY <2>1 DEF Mark, At
  <2> QED
    BY <2>1
       DEF DrawPiece, DrawTower, DrawMark, DrawFoundation, DrawTowerAccess, DrawHeightMarker,
           DrawBeam, DrawAzimuthArrow, DrawLabels, DrawBracket, DrawAntenna, DrawRadio, DrawCable,
           DrawCabinet, DrawTimingAntenna, DrawProgram, DrawRoute, HashFile, ReadFile, At
<1>4. p # Piece("program", "exact") \/ p.role = "program"
  BY DEF Piece
<1>5. CASE DrawTower(p) \/ DrawAntenna(p) \/ DrawRadio(p) \/ DrawBracket(p)
  <2>1. p.role \in Roles /\ p.role # "program" /\ p # Piece("program", "exact")
    BY <1>5, RolesAre, <1>4 DEF DrawTower, DrawAntenna, DrawRadio, DrawBracket, At
  <2>2. \/ p.role \in Exact(design) /\ Boundary(p.role)
        \/ Abort
        \/ /\ p.role \notin Exact(design)
           /\ Build(p, "built", {Generated(p)}) \/ Build(p, "built", {})
    <3>1. CASE DrawBracket(p)
      <4>1. ASSUME NEW entries \in Entries(p)
            PROVE  entries = {} \/ entries = {Generated(p)}
        BY DEF Entries
      <4> QED BY <3>1, <4>1 DEF DrawBracket, At, IsExact
    <3>2. CASE DrawTower(p)
      BY <3>2 DEF DrawTower, At, IsExact
    <3>3. CASE DrawAntenna(p)
      BY <3>3 DEF DrawAntenna, At, IsExact
    <3>4. CASE DrawRadio(p)
      BY <3>4 DEF DrawRadio, At, IsExact
    <3> QED BY <1>5, <3>1, <3>2, <3>3, <3>4
  <2>3. CASE p.role \in Exact(design) /\ Boundary(p.role)
    BY <1>1, <1>3, <2>1, <2>3, BoundaryImports
  <2>4. CASE Abort
    BY <1>1, <1>3, <2>4 DEF Drew
  <2>5. CASE p.role \notin Exact(design) /\ Build(p, "built", {Generated(p)})
    BY <1>1, <1>3, <2>1, <2>5, BuiltIsWatched, GeneratedTells
  <2>6. CASE p.role \notin Exact(design) /\ Build(p, "built", {})
    BY <1>1, <1>3, <2>1, <2>6, BuiltIsWatched
  <2> QED BY <1>1, <1>3, <2>2, <2>3, <2>4, <2>5, <2>6
<1>6. CASE DrawCable(p) \/ DrawRoute(p) \/ DrawMark(p)
  <2>0. DrawMark(p) => p.role \in Marks /\ Mark(p, p.role)
    BY DEF DrawMark, DrawFoundation, DrawTowerAccess, DrawHeightMarker, DrawBeam,
           DrawAzimuthArrow, DrawLabels, Mark, At, Marks
  <2>1. p.role \notin Exact(design) /\ p # Piece("program", "exact")
    BY <1>6, <1>2, <1>4, <2>0 DEF DrawCable, DrawRoute, At, Exact
  <2>2. Build(p, "built", {Generated(p)}) \/ Build(p, "built", {})
    <3>1. ASSUME NEW entries \in Entries(p)
          PROVE  entries = {} \/ entries = {Generated(p)}
      BY DEF Entries
    <3> QED BY <1>6, <2>0, <3>1 DEF DrawCable, DrawRoute, Mark
  <2>3. CASE Build(p, "built", {Generated(p)})
    BY <1>1, <1>3, <2>1, <2>3, BuiltIsWatched, GeneratedTells
  <2>4. CASE Build(p, "built", {})
    BY <1>1, <1>3, <2>1, <2>4, BuiltIsWatched
  <2> QED BY <2>2, <2>3, <2>4
<1>7. CASE DrawTimingAntenna(p) \/ DrawCabinet(p)
  <2>1. /\ p.role \in {"timing_antenna", "ground_equipment"} /\ p.role \in Roles
        /\ p # Piece("program", "exact") /\ p.role # "program" /\ Has(design, p.role)
    BY <1>7, <1>2, <1>4, RolesAre DEF DrawTimingAntenna, DrawCabinet, At
  <2>2. \/ design.strategy[p.role] = "exact" /\ Boundary(p.role)
        \/ design.strategy[p.role] = "stored" /\ Enter("pinned")
        \/ design.strategy[p.role] # "exact" /\ Procedural(p)
        \/ design.strategy[p.role] # "exact" /\ Build(p, "built", {Generated(p)})
    <3>1. CASE DrawTimingAntenna(p)
      BY <3>1 DEF DrawTimingAntenna, At
    <3>2. CASE DrawCabinet(p)
      BY <3>2 DEF DrawCabinet, At
    <3> QED BY <1>7, <3>1, <3>2
  <2>3. CASE design.strategy[p.role] = "exact" /\ Boundary(p.role)
    BY <1>1, <1>3, <2>1, <2>3, BoundaryImports DEF Exact
  <2>4. CASE design.strategy[p.role] = "stored" /\ Enter("pinned")
    <3>1. Source(p) \in DOMAIN disk
      BY <2>1, <2>4 DEF Source, Sources, WorkerTypes
    <3> QED BY <1>1, <1>3, <2>4, <3>1 DEF Enter, Drew, Imports
  <2>5. CASE design.strategy[p.role] # "exact" /\ Procedural(p)
    BY <1>1, <1>3, <2>1, <2>5, ProceduralIsTold DEF Exact
  <2>6. CASE design.strategy[p.role] # "exact" /\ Build(p, "built", {Generated(p)})
    BY <1>1, <1>3, <2>1, <2>6, BuiltIsWatched, GeneratedTells DEF Exact
  <2> QED BY <2>2, <2>3, <2>4, <2>5, <2>6
<1>8. CASE DrawProgram(p)
  <2>1. p.role = "program" /\ p.role \notin Exact(design)
    BY <1>8, <1>2 DEF DrawProgram, At, Exact
  <2>2. CASE p.at = "typed"
    <3>1. Build(p, "built", ProgramRecords(p)) /\ p # Piece("program", "exact")
      BY <1>8, <2>2 DEF DrawProgram, Piece
    <3> QED BY <1>1, <1>3, <2>1, <3>1, BuiltIsWatched, ProgramRecordsTell
  <2>3. CASE p.at # "typed"
    <3>1. Enter("hashed") \/ Abort
      BY <1>8, <2>3 DEF DrawProgram
    <3>2. Source(p) \in DOMAIN disk
      BY <1>2, <2>1, <2>3 DEF Source, Sources, WorkerTypes
    <3> QED BY <1>1, <1>3, <3>1, <3>2 DEF Enter, Drew, Imports
  <2> QED BY <2>2, <2>3
<1>9. ASSUME HashFile(p) \/ ReadFile(p)
      PROVE  /\ Source(p) \in DOMAIN disk
             /\ disk[Source(p)] \in {"pinned", "neighbour", "other", "absent"}
             /\ p.role \in Exact(design) => Source(p) = p.role
             /\ p = Piece("program", "exact") => Source(p) = "exact"
             /\ ~Bounded(p) => p.role \notin Exact(design) /\ p # Piece("program", "exact")
                               /\ p.role # "program" /\ design.domain = "telecom"
  <2>1. Source(p) \in DOMAIN disk
    BY <1>9 DEF ImportKnown, HashFile, ReadFile
  <2>2. disk[Source(p)] \in {"pinned", "neighbour", "other", "absent"}
    BY <2>1 DEF WorkerTypes
  <2>3. /\ p.role \in Exact(design) => Source(p) = p.role
        /\ p = Piece("program", "exact") => Source(p) = "exact"
    BY <1>2 DEF Source, Exact, Piece
  <2>4. ~Bounded(p) => p.role \notin Exact(design) /\ p # Piece("program", "exact")
                       /\ p.role # "program" /\ design.domain = "telecom"
    BY <1>2, <1>4 DEF Bounded, IsExact, Has, Routed
  <2> QED BY <2>1, <2>2, <2>3, <2>4
<1>10. ASSUME ~Bounded(p), UseFallback(p), HashFile(p) \/ ReadFile(p)
       PROVE  Drew(p)
  <2>1. CASE design.fallback
    BY <1>9, <1>10, <2>1, ProceduralIsTold DEF UseFallback
  <2>2. CASE ~design.fallback
    BY <1>9, <1>10, <2>2 DEF UseFallback, Continue, Missed, Past, Drew
  <2> QED BY <2>1, <2>2
<1>11. CASE HashFile(p)
  <2>1. \/ Enter("hashed")
        \/ Abort
        \/ ~Bounded(p) /\ UseFallback(p)
    BY <1>11 DEF HashFile
  <2>2. CASE Enter("hashed")
    BY <1>1, <1>3, <1>9, <1>11, <2>2 DEF Enter, Drew, Imports
  <2>3. CASE Abort
    BY <1>1, <1>3, <2>3 DEF Drew
  <2>4. CASE ~Bounded(p) /\ UseFallback(p)
    BY <1>1, <1>3, <1>10, <1>11, <2>4
  <2> QED BY <2>1, <2>2, <2>3, <2>4
<1>12. CASE ReadFile(p)
  <2>1. \/ p.role = "program" /\ Place(p, disk[Source(p)], ProgramRecords(p))
        \/ p.role # "program" /\ Place(p, disk[Source(p)], {Record(p, "imported_glb", TRUE)})
        \/ p.role # "program"
              /\ Place(p, disk[Source(p)], {Record(p, "stretched_imported_glb", TRUE)})
        \/ Abort
        \/ /\ ~Bounded(p) /\ Past(p)
           /\ drawn' = drawn \cup (IF design.fallback THEN {Object(p, "fallback")} ELSE {})
           /\ records' = records \cup {IF design.fallback
                                       THEN Record(p, "procedural_fallback", TRUE)
                                       ELSE Record(p, "missing_file", FALSE)}
    BY <1>9, <1>12 DEF ReadFile, AfterFailedImport, Past
  <2>2. ASSUME NEW how \in {"imported_glb", "stretched_imported_glb"},
               p.role # "program", Place(p, disk[Source(p)], {Record(p, how, TRUE)})
        PROVE  Drew(p)
    <3>1. Placed(p, disk[Source(p)], {Record(p, how, TRUE)})
      BY <1>9, <1>12, <2>2 DEF Place, Continue, Placed, Tells, Past, Watched, Record
    <3> QED BY <1>9, <1>12, <3>1 DEF Drew
  <2>5. ASSUME p.role = "program", Place(p, disk[Source(p)], ProgramRecords(p))
        PROVE  Drew(p)
    <3>1. disk[Source(p)] # "fallback"
      BY <1>9, <1>12
    <3>2. \A r \in ProgramRecords(p) : Tells(p, disk[Source(p)], r)
      BY <2>5, <3>1, ProgramRecordsTell
    <3>3. Watched(p, disk[Source(p)])
      BY <1>9, <1>12 DEF Watched
    <3>4. Placed(p, disk[Source(p)], ProgramRecords(p))
      BY <2>5, <3>1, <3>2, <3>3 DEF Place, Continue, Placed, Past
    <3> QED BY <1>9, <1>12, <3>4 DEF Drew
  <2>3. CASE Abort
    BY <1>1, <1>3, <2>3 DEF Drew
  <2>4. ASSUME ~Bounded(p), Past(p),
               drawn' = drawn \cup (IF design.fallback THEN {Object(p, "fallback")} ELSE {}),
               records' = records \cup {IF design.fallback
                                        THEN Record(p, "procedural_fallback", TRUE)
                                        ELSE Record(p, "missing_file", FALSE)}
        PROVE  Drew(p)
    <3>1. UseFallback(p)
      BY <2>4 DEF UseFallback, Procedural, Build, Place, Continue, Past
    <3> QED BY <2>4, <3>1, <1>10, <1>12
  <2> QED BY <1>1, <1>3, <2>1, <2>2, <2>3, <2>4, <2>5
<1> QED BY <1>5, <1>6, <1>7, <1>8, <1>11, <1>12, <1>1, <1>3 DEF DrawPiece

(* Drawing one piece keeps what is known of the pieces.                    *)
LEMMA DrawKeeps ==
    ASSUME WorkerInv, Draw
    PROVE  WorkerInv'
<1> PICK p \in Upcoming : DrawPiece(p)
  BY DEF Draw
<1>1. phase = "draw" /\ Library /\ p \in todo /\ p \in Pieces(design) /\ Drew(p)
  BY DrawIsOne DEF WorkerInv
<1>2. UNCHANGED <<design, disk, edits, restored, mode>>
  BY <1>1 DEF Library
<1>3. mode = "none"
  BY <1>1 DEF WorkerInv, ModeKnown, Drawing
<1>4. CASE Imports(p)
  <2>1. UNCHANGED <<phase, todo, drawn, records>> /\ importing' \in {"pinned", "hashed"}
    BY <1>4 DEF Imports
  <2>2. ImportKnown'
    <3>1. \A q \in Upcoming : q = p
      BY UpcomingAlone DEF WorkerInv
    <3>2. Upcoming' = Upcoming
      BY <2>1 DEF Upcoming, Rank
    <3>3. \A q \in Upcoming' : Source(q)' \in DOMAIN disk'
      BY <1>2, <1>4, <3>1, <3>2 DEF Imports, Source
    <3> QED BY <3>3 DEF ImportKnown
  <2>3. /\ WorkerTypes' /\ ModeKnown' /\ DrawnOnce' /\ DrawnOrMissing' /\ DrawingEnds'
        /\ ProgramsDrawn'
    BY <1>2, <2>1 DEF WorkerInv, WorkerTypes, ModeKnown, DrawnOnce, DrawnOrMissing, DrawingEnds,
                      ProgramsDrawn
  <2>4. RecordsExplained' /\ SourcesWatched' /\ AuthenticSources'
    BY <1>2, <2>1 DEF WorkerInv, RecordsExplained, Explained, SourcesWatched, Suspect,
                      AuthenticSources
  <2> QED BY <2>2, <2>3, <2>4 DEF WorkerInv
<1>5. CASE Abort
  <2>1. phase' = "failed" /\ UNCHANGED <<todo, importing, drawn, records>>
    BY <1>5 DEF Abort
  <2>2. WorkerTypes' /\ DrawnOnce'
    BY <1>2, <2>1 DEF WorkerInv, WorkerTypes, DrawnOnce, Ended
  <2>3. ModeKnown' /\ DrawingEnds' /\ AuthenticSources' /\ ProgramsDrawn'
    BY <2>1 DEF ModeKnown, DrawingEnds, AuthenticSources, ProgramsDrawn, Drawing, Rendered
  <2>6. ImportKnown'
    <3>1. Upcoming' = Upcoming
      BY <2>1 DEF Upcoming, Rank
    <3> QED BY <1>2, <2>1, <3>1 DEF WorkerInv, ImportKnown, Source
  <2>4. DrawnOrMissing'
    BY <1>1, <1>2, <2>1 DEF WorkerInv, DrawnOrMissing
  <2>5. RecordsExplained' /\ SourcesWatched'
    BY <1>2, <2>1 DEF WorkerInv, RecordsExplained, Explained, SourcesWatched, Suspect
  <2> QED BY <2>2, <2>3, <2>4, <2>5, <2>6 DEF WorkerInv
<1>6. ASSUME Past(p), drawn \subseteq drawn', records \subseteq records',
             \A o \in drawn' \ drawn : o.piece = p /\ Watched(p, o.of),
             \A o, q \in drawn' \ drawn : o = q,
             p.role = "program" => \E o \in drawn' : o.piece = p /\ o.of # "fallback",
             \A r \in records' \ records : r.piece \in Pieces(design) /\ Explained(r)',
             \/ \E o \in drawn' : o.piece = p
             \/ design.domain = "telecom" /\ \E r \in records' : r.mode = "missing_file"
      PROVE  WorkerInv'
  <2>1. phase' = "draw" /\ todo' = todo \ {p} /\ importing' = "no"
    BY <1>1, <1>6 DEF Past
  <2>2. WorkerTypes'
    <3>1. \A x \in drawn' \cup records' : x.piece \in Pieces(design)
      BY <1>1, <1>6 DEF WorkerInv, WorkerTypes
    <3> QED BY <1>2, <2>1, <3>1 DEF WorkerInv, WorkerTypes, Drawing
  <2>3. ModeKnown' /\ ImportKnown' /\ DrawingEnds' /\ AuthenticSources'
    BY <1>2, <1>3, <2>1 DEF ModeKnown, ImportKnown, DrawingEnds, AuthenticSources, Drawing,
                            Rendered
  <2>4. DrawnOnce'
    <3>1. \A o \in drawn : o.piece # p
      BY <1>1 DEF WorkerInv, DrawnOnce
    <3>2. \A o \in drawn' : o.piece \notin todo'
      BY <1>6, <2>1 DEF WorkerInv, DrawnOnce
    <3>3. \A o, q \in drawn' : o.piece = q.piece => o = q
      BY <1>6, <3>1 DEF WorkerInv, DrawnOnce
    <3> QED BY <3>2, <3>3 DEF DrawnOnce
  <2>5. DrawnOrMissing'
    <3>1. ASSUME NEW q \in Pieces(design) \ todo'
          PROVE  \/ \E o \in drawn' : o.piece = q
                 \/ design.domain = "telecom" /\ \E r \in records' : r.mode = "missing_file"
      <4>1. CASE q = p
        BY <1>6, <4>1
      <4>2. CASE q # p
        <5>1. q \in Pieces(design) \ todo
          BY <2>1, <4>2
        <5> QED BY <1>1, <1>6, <5>1 DEF WorkerInv, DrawnOrMissing
      <4> QED BY <4>1, <4>2
    <3> QED BY <1>2, <3>1 DEF DrawnOrMissing
  <2>6. RecordsExplained'
    <3>1. \A r \in records : Explained(r)
      BY <1>3 DEF WorkerInv, RecordsExplained
    <3>2. \A r \in records : Explained(r)'
      BY <1>2, <1>6, <3>1 DEF Explained
    <3> QED BY <1>6, <3>2 DEF RecordsExplained
  <2>7. SourcesWatched'
    <3>1. ASSUME NEW o \in drawn'
          PROVE  /\ o.piece.role \in Exact(design) => Suspect(o.piece.role, o.of)
                 /\ o.piece = Piece("program", "exact") => Suspect("exact", o.of)
      <4>1. CASE o \in drawn
        BY <4>1 DEF WorkerInv, SourcesWatched
      <4>2. CASE o \notin drawn
        <5>1. o.piece = p /\ Watched(p, o.of)
          BY <1>6, <4>2
        <5> QED BY <5>1 DEF Watched, Suspect
      <4> QED BY <4>1, <4>2
    <3> QED BY <1>2, <3>1 DEF SourcesWatched, Suspect
  <2>8. ProgramsDrawn'
    <3>1. ASSUME NEW q \in Pieces(design) \ todo', q.role = "program"
          PROVE  \E o \in drawn' : o.piece = q /\ o.of # "fallback"
      <4>1. CASE q = p
        BY <1>6, <3>1, <4>1
      <4>2. CASE q # p
        <5>1. \E o \in drawn : o.piece = q /\ o.of # "fallback"
          BY <1>1, <2>1, <3>1, <4>2 DEF WorkerInv, ProgramsDrawn
        <5> QED BY <1>6, <5>1
      <4> QED BY <4>1, <4>2
    <3> QED BY <1>2, <3>1 DEF ProgramsDrawn
  <2> QED BY <2>2, <2>3, <2>4, <2>5, <2>6, <2>7, <2>8 DEF WorkerInv
<1>7. CASE Missed(p)
  <2> DEFINE r0 == Record(p, "missing_file", FALSE)
  <2>1. /\ Past(p) /\ design.domain = "telecom" /\ p.role # "program"
        /\ drawn' = drawn /\ records' = records \cup {r0}
    BY <1>7 DEF Missed
  <2>2. r0.piece = p /\ r0.mode = "missing_file" /\ Explained(r0)'
    BY <1>2, <2>1 DEF Record, Explained
  <2> HIDE DEF r0
  <2>3. \A r \in records' \ records : r.piece \in Pieces(design) /\ Explained(r)'
    BY <1>1, <2>1, <2>2
  <2> QED BY <1>6, <2>1, <2>2, <2>3
<1>8. ASSUME NEW of, NEW entries, Placed(p, of, entries)
      PROVE  WorkerInv'
  <2> DEFINE o0 == Object(p, of)
  <2>1. Past(p) /\ Watched(p, of) /\ drawn' = drawn \cup {o0} /\ records' = records \cup entries
    BY <1>8 DEF Placed
  <2>2. o0.piece = p /\ o0.of = of
    BY DEF Object
  <2> HIDE DEF o0
  <2>3. \A r \in records' \ records : r.piece \in Pieces(design) /\ Explained(r)'
    <3>1. ASSUME NEW r \in entries
          PROVE  r.piece \in Pieces(design) /\ Explained(r)'
      <4>1. Tells(p, of, r)
        BY <1>8 DEF Placed
      <4>2. CASE r.piece = p /\ (of = "fallback" <=> r.mode = "procedural_fallback")
        BY <1>1, <2>1, <2>2, <4>2 DEF Explained
      <4>3. CASE /\ r.piece \in Pieces(design) \ (todo \ {p}) /\ r.piece.role = "program"
                 /\ of # "fallback" /\ r.mode # "procedural_fallback"
        <5>1. \E o \in drawn' : o.piece = r.piece /\ o.of # "fallback"
          BY <1>1, <2>1, <2>2, <4>3 DEF WorkerInv, ProgramsDrawn
        <5> QED BY <4>3, <5>1 DEF Explained
      <4> QED BY <4>1, <4>2, <4>3 DEF Tells
    <3> QED BY <2>1, <3>1
  <2>4. \A o \in drawn' \ drawn : o.piece = p /\ Watched(p, o.of)
    BY <2>1, <2>2
  <2>5. \A o, q \in drawn' \ drawn : o = q
    BY <2>1
  <2>6. /\ \E o \in drawn' : o.piece = p
        /\ p.role = "program" => \E o \in drawn' : o.piece = p /\ o.of # "fallback"
    BY <1>8, <2>1, <2>2 DEF Placed
  <2>7. drawn \subseteq drawn' /\ records \subseteq records'
    BY <2>1
  <2> QED BY <1>6, <2>1, <2>3, <2>4, <2>5, <2>6, <2>7
<1> QED BY <1>1, <1>4, <1>5, <1>7, <1>8 DEF Drew

(* The library may change at any time: what was read of it stays suspect,  *)
(* and what was put back stays on record.                                  *)
LEMMA EditsKeep ==
    ASSUME WorkerInv, EditLibrary
    PROVE  WorkerInv'
<1> PICK s \in DOMAIN disk : \E content \in ContentsOf(s) \ {disk[s]} :
          /\ disk' = [disk EXCEPT ![s] = content]
          /\ restored' = IF content = "pinned" THEN restored \cup {s} ELSE restored
  BY DEF EditLibrary
<1>1. PICK content \in ContentsOf(s) \ {disk[s]} :
          /\ disk' = [disk EXCEPT ![s] = content]
          /\ restored' = IF content = "pinned" THEN restored \cup {s} ELSE restored
  OBVIOUS
<1>2. UNCHANGED <<design, phase, todo, importing, drawn, records, mode>> /\ edits' = edits + 1
      /\ edits < MaxEdits
  BY DEF EditLibrary
<1>3. content \in {"pinned", "neighbour", "other", "absent"}
  BY <1>1 DEF ContentsOf
<1>4. WorkerTypes' /\ DOMAIN disk' = DOMAIN disk
  <2>1. disk' \in [Sources(design) -> {"pinned", "neighbour", "other", "absent"}]
    BY <1>1, <1>3 DEF WorkerInv, WorkerTypes
  <2>2. edits' \in 0..MaxEdits
    BY <1>2, SceneAssumption DEF WorkerInv, WorkerTypes
  <2>3. restored' \subseteq DOMAIN disk' /\ DOMAIN disk' = DOMAIN disk
    BY <1>1, <2>1 DEF WorkerInv, WorkerTypes
  <2> QED BY <1>2, <2>1, <2>2, <2>3 DEF WorkerInv, WorkerTypes
<1>5. \A x, c : Suspect(x, c) => Suspect(x, c)'
  <2> TAKE x, c
  <2> HAVE Suspect(x, c)
  <2>1. CASE c = "pinned" \/ x \in restored
    BY <1>1, <2>1 DEF Suspect
  <2>2. CASE disk[x] # "pinned" /\ x # s
    BY <1>1, <2>2 DEF Suspect
  <2>3. CASE x = s
    BY <1>1, <1>4, <2>3 DEF Suspect
  <2> QED BY <2>1, <2>2, <2>3 DEF Suspect
<1>6. SourcesWatched'
  BY <1>2, <1>5 DEF WorkerInv, SourcesWatched
<1>7. AuthenticSources'
  BY <1>1, <1>2 DEF WorkerInv, AuthenticSources
<1>8. /\ ModeKnown' /\ DrawnOnce' /\ DrawnOrMissing' /\ RecordsExplained' /\ DrawingEnds'
      /\ ProgramsDrawn'
  BY <1>2 DEF WorkerInv, ModeKnown, DrawnOnce, DrawnOrMissing, RecordsExplained, Explained,
              DrawingEnds, ProgramsDrawn
<1>9. ImportKnown'
  <2>1. Upcoming' = Upcoming
    BY <1>2 DEF Upcoming, Rank
  <2> QED BY <1>2, <1>4, <2>1 DEF WorkerInv, ImportKnown, Source
<1> QED BY <1>4, <1>6, <1>7, <1>8, <1>9 DEF WorkerInv

\* A step that only moves the build on to its next phase.
Onward == UNCHANGED <<design, disk, edits, restored, todo, importing, drawn, records>>
Phases == Drawing \cup {"inspect"} \cup Rendered \cup Ended

(* Such a step keeps what the invariant says of the worker.                *)
LEMMA PhaseKeeps ==
    ASSUME WorkerInv, Onward, phase' \in Phases, phase # "published",
           mode' = mode \/ mode # "fallback_no_blender",
           phase \in {"check", "draw"} \/ phase' \notin {"check", "draw"},
           ModeKnown', DrawingEnds', AuthenticSources'
    PROVE  WorkerInv'
<1>1. WorkerTypes' /\ DrawnOnce' /\ SourcesWatched'
  BY DEF WorkerInv, Onward, Phases, WorkerTypes, DrawnOnce, SourcesWatched, Suspect
<1>2. ImportKnown'
  <2>1. Upcoming' = Upcoming
    BY DEF Onward, Upcoming, Rank
  <2> QED BY <2>1 DEF WorkerInv, Onward, ImportKnown, Source
<1>3. DrawnOrMissing'
  BY DEF WorkerInv, Onward, DrawnOrMissing
<1>4. RecordsExplained'
  BY DEF WorkerInv, Onward, RecordsExplained, Explained
<1>5. ProgramsDrawn'
  BY DEF WorkerInv, Onward, ProgramsDrawn
<1> QED BY <1>1, <1>2, <1>3, <1>4, <1>5 DEF WorkerInv

(* Every step keeps what the invariant says of the worker.                 *)
LEMMA WorkerKeeps ==
    ASSUME WorkerInv, [VersionNext]_versionVars
    PROVE  WorkerInv'
<1>1. CASE Work
  <2>1. CASE Draw
    BY <2>1, DrawKeeps
  <2>2. CASE ValidateAssembly
    <3>1. Onward /\ mode' = mode /\ phase = "check" /\ phase' \in {"draw", "failed"}
      BY <2>2 DEF ValidateAssembly, Library, Onward
    <3>2. ModeKnown' /\ DrawingEnds' /\ AuthenticSources'
      BY <3>1 DEF WorkerInv, ModeKnown, DrawingEnds, AuthenticSources, Drawing, Rendered
    <3> QED BY <3>1, <3>2, PhaseKeeps DEF Phases, Drawing, Ended
  <2>3. CASE CheckSegments
    <3>1. Onward /\ mode' = mode /\ phase = "draw" /\ phase' \in {"prove", "failed"} /\ todo = {}
      BY <2>3 DEF CheckSegments, Library, Onward
    <3>2. ModeKnown' /\ DrawingEnds' /\ AuthenticSources'
      BY <3>1 DEF WorkerInv, ModeKnown, DrawingEnds, AuthenticSources, Drawing, Rendered, Onward
    <3> QED BY <3>1, <3>2, PhaseKeeps DEF Phases, Drawing, Ended
  <2>4. CASE ProveComponents
    <3>1. Onward /\ mode' = mode /\ phase = "prove" /\ phase' \in {"export", "failed"}
      BY <2>4 DEF ProveComponents, Library, Onward
    <3>2. ModeKnown' /\ DrawingEnds' /\ AuthenticSources'
      BY <3>1 DEF WorkerInv, ModeKnown, DrawingEnds, AuthenticSources, Drawing, Rendered, Onward
    <3> QED BY <3>1, <3>2, PhaseKeeps DEF Phases, Drawing, Ended
  <2> QED BY <1>1, <2>1, <2>2, <2>3, <2>4 DEF Work
<1>2. CASE RunWithoutBlender
  <2>1. /\ phase = "draw" /\ phase' = "inspect" /\ mode' = "fallback_no_blender"
        /\ UNCHANGED <<design, disk, edits, restored, todo, importing, drawn>>
        /\ todo = Pieces(design)
        /\ records' = {Record(p, "not_generated", FALSE) : p \in {q \in todo : Listed(q)}}
    BY <1>2 DEF RunWithoutBlender, WithoutBlender
  <2>2. \A r \in records' : r.piece \in Pieces(design)
    BY <2>1 DEF Record
  <2>3. WorkerTypes'
    BY <2>1, <2>2 DEF WorkerInv, WorkerTypes
  <2>4. /\ ModeKnown' /\ DrawingEnds' /\ AuthenticSources' /\ RecordsExplained'
        /\ DrawnOrMissing' /\ ProgramsDrawn'
    BY <2>1 DEF ModeKnown, DrawingEnds, AuthenticSources, RecordsExplained, DrawnOrMissing,
                ProgramsDrawn, Drawing, Rendered
  <2>5. DrawnOnce' /\ SourcesWatched'
    BY <2>1 DEF WorkerInv, DrawnOnce, SourcesWatched, Suspect
  <2>6. ImportKnown'
    <3>1. Upcoming' = Upcoming
      BY <2>1 DEF Upcoming, Rank
    <3> QED BY <2>1, <3>1 DEF WorkerInv, ImportKnown, Source
  <2> QED BY <2>3, <2>4, <2>5, <2>6 DEF WorkerInv
<1>3. CASE Export
  <2>1. Onward /\ phase = "export" /\ phase' = "inspect" /\ mode' = "real_blender"
    BY <1>3 DEF Export, Library0, Onward
  <2>2. mode = "none"
    BY <2>1 DEF WorkerInv, ModeKnown, Drawing
  <2>3. ModeKnown' /\ DrawingEnds' /\ AuthenticSources'
    BY <2>1 DEF WorkerInv, ModeKnown, DrawingEnds, AuthenticSources, Drawing, Rendered, Onward
  <2> QED BY <2>1, <2>2, <2>3, PhaseKeeps DEF Phases
<1>4. CASE InspectModel
  <2>1. Onward /\ mode' = mode /\ phase = "inspect" /\ phase' \in {"measure", "failed"}
        /\ (phase' = "measure" => mode = "real_blender")
    BY <1>4 DEF InspectModel, Library0, Onward
  <2>2. ModeKnown' /\ DrawingEnds' /\ AuthenticSources'
    BY <2>1 DEF WorkerInv, ModeKnown, DrawingEnds, AuthenticSources, Drawing, Rendered, Onward
  <2> QED BY <2>1, <2>2, PhaseKeeps DEF Phases, Ended, Rendered
<1>5. CASE MeasureViews \/ InspectionFails
  <2>1. /\ Onward /\ mode' = mode /\ phase \in {"export", "inspect", "measure", "certify"}
        /\ phase' = "failed" \/ (phase = "measure" /\ phase' = "lock")
    BY <1>5 DEF MeasureViews, InspectionFails, RenderingFails, MeasurementFails, MeshFails, Fails,
               Library0, Onward
  <2>2. ModeKnown' /\ DrawingEnds' /\ AuthenticSources'
    BY <2>1 DEF WorkerInv, ModeKnown, DrawingEnds, AuthenticSources, Drawing, Rendered, Onward
  <2> QED BY <2>1, <2>2, PhaseKeeps DEF Phases, Ended, Rendered
<1>6. CASE WriteLock
  <2>1. /\ Onward /\ mode' = mode /\ phase = "lock" /\ phase' \in {"compare", "failed"}
        /\ phase' = "compare" => InputsUnchanged
    BY <1>6 DEF WriteLock, Library0, Onward
  <2>2. ModeKnown' /\ DrawingEnds'
    BY <2>1 DEF WorkerInv, ModeKnown, DrawingEnds, Drawing, Rendered, Onward
  <2>3. AuthenticSources'
    <3>1. CASE phase' = "failed"
      BY <3>1 DEF AuthenticSources
    <3>2. CASE phase' = "compare"
      <4>1. ASSUME NEW o \in drawn
            PROVE  /\ o.piece.role \in Exact(design)
                        => o.of = "pinned" \/ o.piece.role \in restored
                   /\ o.piece = Piece("program", "exact")
                        => o.of = "pinned" \/ "exact" \in restored
        <5>1. o.piece \in Pieces(design) /\ design \in Scene
          BY DEF WorkerInv, WorkerTypes
        <5>2. o.piece = Piece("program", "exact") => "exact" \in design.programs
          BY <5>1, PieceFacts DEF Piece
        <5> QED BY <2>1, <3>2, <5>2 DEF WorkerInv, SourcesWatched, Suspect, InputsUnchanged
      <4> QED BY <2>1, <4>1 DEF AuthenticSources, Onward
    <3> QED BY <2>1, <3>1, <3>2
  <2> QED BY <2>1, <2>2, <2>3, PhaseKeeps DEF Phases, Ended, Rendered
<1>7. CASE CompareLock \/ Certify \/ CheckCertificate \/ Publish
  <2>1. /\ Onward /\ mode' = mode
        /\ phase \in {"compare", "certify", "check_certificate", "publish"}
        /\ phase' \in {"certify", "check_certificate", "publish", "published", "refused", "failed"}
    BY <1>7 DEF CompareLock, Certify, CheckCertificate, Publish, Library0, Onward
  <2>2. ModeKnown' /\ DrawingEnds'
    BY <2>1 DEF WorkerInv, ModeKnown, DrawingEnds, Drawing, Rendered, Onward
  <2>3. AuthenticSources'
    BY <2>1 DEF WorkerInv, AuthenticSources, Onward
  <2> QED BY <2>1, <2>2, <2>3, PhaseKeeps DEF Phases, Ended, Rendered
<1>8. CASE EditWhileBuilding
  BY <1>8, EditsKeep DEF EditWhileBuilding
<1>9. CASE Damage \/ ReadPublished \/ UNCHANGED versionVars
  <2>1. UNCHANGED buildVars
    BY <1>9 DEF Damage, ReadPublished, versionVars
  <2>2. WorkerTypes' /\ ModeKnown' /\ DrawnOnce' /\ DrawnOrMissing' /\ DrawingEnds'
    BY <2>1 DEF buildVars, WorkerInv, WorkerTypes, ModeKnown, DrawnOnce, DrawnOrMissing,
                DrawingEnds
  <2>3. RecordsExplained' /\ SourcesWatched' /\ AuthenticSources' /\ ProgramsDrawn'
    BY <2>1 DEF buildVars, WorkerInv, RecordsExplained, Explained, SourcesWatched, Suspect,
                AuthenticSources, ProgramsDrawn
  <2>4. ImportKnown'
    <3>1. Upcoming' = Upcoming
      BY <2>1 DEF buildVars, Upcoming, Rank
    <3> QED BY <2>1, <3>1 DEF buildVars, WorkerInv, ImportKnown, Source
  <2> QED BY <2>2, <2>3, <2>4 DEF WorkerInv
<1> QED BY <1>1, <1>2, <1>3, <1>4, <1>5, <1>6, <1>7, <1>8, <1>9 DEF VersionNext, Runner

-----------------------------------------------------------------------------
(* The evidence: which files a scene needs, and what a certificate lists.  *)

(* The evidence a scene needs, family by family.                           *)
LEMMA NeededIs ==
    ASSUME NEW d \in Scene
    PROVE  /\ Needed(d) \subseteq Families
           /\ "component_proofs" \in Needed(d) <=> d.plan \/ d.programs # {}
           /\ "constraint_evidence" \in Needed(d) <=> d.plan
           /\ "sector_previews" \in Needed(d) <=> d.plan
           /\ "tower_access_evidence" \in Needed(d) <=> d.access
BY DEF Needed, ProofRequired, SectorPreviewRequired, Families, Measurements, Scene

(* The evidence a certificate of each schema covers.                       *)
LEMMA CoversIs ==
    ASSUME NEW schema
    PROVE  /\ Covers(schema) \subseteq Families \ {"sector_previews"}
           /\ "component_proofs" \in Covers(schema)
                  <=> schema \in {"1.2.0", "1.3.0", "1.4.0", "1.5.0"}
           /\ "constraint_evidence" \in Covers(schema) <=> schema \in {"1.4.0", "1.5.0"}
           /\ "tower_access_evidence" \in Covers(schema) <=> schema = "1.5.0"
BY DEF Covers, Families, Measurements

(* What the verifier expects contains the model and the lock, and the proof *)
(* of every component it requires.                                          *)
LEMMA ExpectedIs ==
    ASSUME NEW d \in Scene, NEW schema
    PROVE  LET required == Needed(d) \cap Covers(schema)
           IN  /\ Base \subseteq ExpectedArtifacts(schema, required)
               /\ ExpectedArtifacts(schema, required) \subseteq Files
               /\ required \subseteq ExpectedArtifacts(schema, required)
<1>1. Base \subseteq ExpectedArtifacts(schema, Needed(d) \cap Covers(schema))
  BY DEF ExpectedArtifacts
<1>2. ExpectedArtifacts(schema, Needed(d) \cap Covers(schema)) \subseteq Files
  BY DEF ExpectedArtifacts, Base, Files, Families, Measurements
<1>3. Needed(d) \cap Covers(schema)
        \subseteq ExpectedArtifacts(schema, Needed(d) \cap Covers(schema))
  BY CoversIs DEF ExpectedArtifacts, Families, Measurements
<1> QED BY <1>1, <1>2, <1>3

(* Files that are as written, and files that are not there.                *)
LEMMA OldHashesAre ==
    ASSUME NEW kept
    PROVE  /\ OldHashes(kept) \in [Files -> 0..1] /\ OldHashes(kept) \in HashSet
           /\ \A f \in Files : OldHashes(kept)[f] = IF f \in kept THEN 1 ELSE 0
           /\ \A f \in Files : OldHashes(kept)[f] # 0 <=> f \in kept
BY DEF OldHashes, HashSet

(* Of a published version of its release, publication's every question is  *)
(* answered: the assumption on Published is all it takes.                  *)
LEMMA OldIsSound ==
    ASSUME NEW v \in Published, InitPublished(v)
    PROVE  Sound /\ EvidenceTypes
<1> DEFINE required == Needed(v.design) \cap Covers(v.schema)
           expected == ExpectedArtifacts(v.schema, required)
           kept == OldFiles(v)
           locked == kept \ {"build_lock", "scene_spec", "certificate", "reports", "status"}
<1>1. /\ v.design \in Scene /\ v.schema \in Schemas /\ v.declares \subseteq Profiles
      /\ v.lock \in {"1.0.0", "1.1.0", "1.2.0", "1.3.0"}
      /\ "component_proofs" \in required => v.lock \in {"1.2.0", "1.3.0"}
      /\ v.schema \in {"1.2.0", "1.3.0", "1.4.0"} => "component_proofs" \in required
      /\ v.schema = "1.4.0" => "constraint_evidence" \in required
      /\ v.schema = "1.5.0" => "tower_access_evidence" \in required
      /\ v.declares # {} => v.lock = "1.3.0"
  BY PublishedAssumption DEF OldVersion, Publishable
<1>2. /\ design = v.design /\ phase = "published" /\ damages = 0 /\ proof = 1
      /\ written = OldHashes(kept)
      /\ lock = [schema |-> v.lock, declares |-> v.declares, inputs |-> Exact(v.design),
                 builders |-> "pinned", files |-> OldHashes(locked)]
      /\ certificate = [schema |-> v.schema,
                        checks |-> RequiredChecks(v.schema, "constraint_evidence" \in required),
                        files |-> OldHashes(expected)]
      /\ publication = [certificate |-> 1, status |-> 1, files |-> OldHashes(expected)]
      /\ measured = [f \in Measurements |-> 1]
  BY DEF InitPublished
<1>3. kept = Base \cup {"scene_spec", "certificate", "reports", "status"} \cup required
             \cup (v.declares \cap Needed(v.design))
  BY DEF OldFiles
<1>4. expected \subseteq kept
  BY <1>1, <1>3 DEF ExpectedArtifacts, Schemas
<1>5. /\ Needed(v.design) \subseteq Families /\ required \subseteq Families \ {"sector_previews"}
      /\ v.declares \subseteq Families
  BY <1>1, NeededIs, CoversIs DEF Profiles, Families, Measurements
<1>6. Base \subseteq expected /\ expected \subseteq Files /\ required \subseteq expected
  BY <1>1, ExpectedIs
<1>7. kept \subseteq Files
  BY <1>3, <1>5 DEF Files, Base
<1>8. /\ \A f \in Files : written[f] = IF f \in kept THEN 1 ELSE 0
      /\ \A f \in Files : lock.files[f] = IF f \in locked THEN 1 ELSE 0
      /\ \A f \in Files : certificate.files[f] = IF f \in expected THEN 1 ELSE 0
      /\ written \in HashSet /\ lock.files \in HashSet /\ certificate.files \in HashSet
  BY <1>2, OldHashesAre
<1>9. /\ lock.schema = v.lock /\ lock.declares = v.declares /\ lock.inputs = Exact(design)
      /\ certificate.schema = v.schema
      /\ certificate.checks = RequiredChecks(v.schema, "constraint_evidence" \in required)
      /\ publication.certificate = 1 /\ publication.status = 1
      /\ publication.files = certificate.files
  BY <1>2
<1> HIDE DEF expected, kept, locked, required
<1>10. Required = required
  BY <1>2, <1>9 DEF Required, required
<1>11. /\ {"certificate", "status", "reports", "scene_spec"} \subseteq kept
       /\ Base \subseteq kept /\ required \subseteq kept
       /\ {"certificate", "status", "reports", "scene_spec"} \cup Base \subseteq Files
  BY <1>3, <1>7
<1>12. ChecksComplete /\ FilesCertified
  BY <1>4, <1>8, <1>9, <1>10 DEF ChecksComplete, FilesCertified
<1>13. ArtifactsComplete
  <2>1. {f \in Files : certificate.files[f] # 0} = expected
    BY <1>6, <1>8
  <2> QED BY <2>1, <1>9, <1>10 DEF ArtifactsComplete, expected
<1>14. \A f \in Measurements \cap kept : MeasuredThis(f)
  <2>1. "glb" \in kept /\ "glb" \in Files
    BY <1>11 DEF Base
  <2> QED BY <1>2, <1>7, <1>8, <2>1 DEF MeasuredThis
<1>15. LockVerified
  <2>1. locked \subseteq kept /\ {"glb", "preview", "metadata"} \subseteq locked
    BY <1>3 DEF locked, Base
  <2>2. LockHolds
    <3>1. {"glb", "preview", "metadata"} \subseteq Files
      BY DEF Files
    <3> QED BY <1>8, <2>1, <3>1 DEF LockHolds
  <2>3. written["build_lock"] = 1 /\ written["scene_spec"] = 1
    BY <1>8, <1>11 DEF Base
  <2>4. InputsOfPlan /\ lock.schema # "none"
    BY <1>1, <1>9 DEF InputsOfPlan
  <2>5. \A f \in Families \cap kept : lock.files[f] # 0
    <3>1. \A f \in Families \cap kept : f \in locked /\ f \in Files
      BY <1>7 DEF locked, Families, Measurements
    <3> QED BY <1>8, <3>1
  <2>6. written["component_proofs"] # 0 => lock.files["component_proofs"] # 0
    <3>1. "component_proofs" \in Families /\ "component_proofs" \in Files
      BY DEF Files, Families
    <3> QED BY <1>8, <2>5, <3>1
  <2>7. "tower_access_evidence" \in lock.declares /\ design.access
           => lock.files["tower_access_evidence"] # 0
    <3>1. ASSUME "tower_access_evidence" \in v.declares, v.design.access
          PROVE  "tower_access_evidence" \in Families \cap kept
      BY <1>1, <1>3, <1>5, <3>1, NeededIs
    <3> QED BY <1>2, <1>9, <2>5, <3>1
  <2> QED BY <2>2, <2>3, <2>4, <2>6, <2>7 DEF LockVerified
<1>16. PreviewsVerified
  <2>1. ASSUME SectorPreviewRequired(design), PreviewsGap = {}
        PROVE  MeasuredThis("sector_previews")
    <3>1. "sector_previews" \in lock.declares
      BY <2>1 DEF PreviewsGap
    <3>2. "sector_previews" \in Needed(v.design)
      BY <1>1, <1>2, <2>1, NeededIs DEF SectorPreviewRequired
    <3>3. "sector_previews" \in Measurements \cap kept
      BY <1>3, <1>9, <3>1, <3>2 DEF Measurements
    <3> QED BY <3>3, <1>14
  <2> QED BY <2>1 DEF PreviewsVerified
<1>17. PersistedVersion(TRUE)
  <2>1. Reads("certificate", TRUE) /\ Reads("status", TRUE)
    BY <1>8, <1>11 DEF Reads
  <2>2. \A f \in Required \cap Measurements : MeasuredThis(f)
    BY <1>10, <1>11, <1>14
  <2>3. /\ certificate.schema = "1.5.0" => "tower_access_evidence" \in Required
        /\ certificate.schema = "1.4.0" => "constraint_evidence" \in Required
        /\ "component_proofs" \in Required => lock.schema \in {"1.2.0", "1.3.0"}
    BY <1>1, <1>9, <1>10 DEF required
  <2> QED BY <1>12, <1>13, <1>15, <1>16, <2>1, <2>2, <2>3 DEF PersistedVersion
<1>18. ReportsVerified /\ \A f \in Files : written[f] \in {0, 1}
  BY <1>2, <1>8, <1>11 DEF ReportsVerified
<1>19. Sound
  BY <1>8, <1>9, <1>11, <1>17, <1>18 DEF Sound
<1>20. EvidenceTypes
  <2>1. {f \in Files : lock.files[f] # 0} \subseteq Model \cup Families
    <3>1. locked \subseteq Model \cup Families
      BY <1>3, <1>5 DEF locked, Base, Model, required
    <3> QED BY <1>8, <3>1
  <2>2. \A f \in Base : certificate.files[f] # 0
    BY <1>6, <1>8
  <2>3. answer = NoAnswer /\ damages \in 0..MaxDamages /\ measured \in [Measurements -> 0..2]
    BY PublishedAssumption DEF InitPublished
  <2> QED BY <1>2, <1>8, <2>1, <2>2, <2>3 DEF EvidenceTypes, Ended, NoAnswer
<1> QED BY <1>19, <1>20

(* What a build, or a version of an earlier release, starts from.          *)
LEMMA VersionBegins ==
    ASSUME InitAll
    PROVE  VersionInv
<1>1. CASE WorkerInit /\ InitEvidence
  <2>1. /\ design \in Designs /\ disk = [s \in Sources(design) |-> "pinned"] /\ edits = 0
        /\ restored = {} /\ phase = "check" /\ todo = Pieces(design) /\ importing = "no"
        /\ drawn = {} /\ records = {} /\ mode = "none"
    BY <1>1 DEF WorkerInit
  <2>2. WorkerTypes
    BY <2>1, SceneAssumption DEF WorkerTypes, Drawing
  <2>3. WorkerInv
    BY <2>1, <2>2 DEF WorkerInv, ModeKnown, ImportKnown, DrawnOnce, DrawnOrMissing,
                      RecordsExplained, DrawingEnds, SourcesWatched, AuthenticSources,
                      ProgramsDrawn,
                      Drawing, Rendered
  <2>4. /\ written = [NoHashes EXCEPT !["scene_spec"] = 1] /\ damages = 0
        /\ lock = NoLock /\ certificate = NoCertificate /\ answer = NoAnswer
    BY <1>1 DEF InitEvidence
  <2>5. written = OldHashes({"scene_spec"})
    BY <2>4 DEF NoHashes, OldHashes, Files
  <2>6. NoHashes \in HashSet /\ {f \in Files : NoHashes[f] # 0} = {}
    BY DEF NoHashes, HashSet
  <2>7. EvidenceTypes
    <3>1. /\ written \in HashSet /\ lock.files = NoHashes /\ certificate.files = NoHashes
          /\ ~Issued /\ ~answer.asked /\ ~answer.verified
      <4>1. written \in HashSet
        BY <2>5, OldHashesAre
      <4>2. lock.files = NoHashes
        BY <2>4 DEF NoLock
      <4>3. certificate.files = NoHashes /\ ~Issued
        BY <2>4 DEF NoCertificate, Issued
      <4>4. ~answer.asked /\ ~answer.verified
        BY <2>4 DEF NoAnswer
      <4> QED BY <4>1, <4>2, <4>3, <4>4
    <3>2. damages \in 0..MaxDamages /\ measured \in [Measurements -> 0..2]
      BY <1>1, <2>4, PublishedAssumption DEF InitEvidence
    <3>3. {f \in Files : lock.files[f] # 0} = {}
      BY <2>6, <3>1
    <3> QED BY <2>6, <3>1, <3>2, <3>3 DEF EvidenceTypes
  <2>8. FilesKnown
    BY <2>1, <2>5 DEF FilesKnown, Untouched, Present, Drawing, Rendered
  <2>9. EvidenceInv
    BY <2>1, <2>4, <2>7, <2>8
       DEF EvidenceInv, MeasuresKnown, LockKnown, CertificateKnown, Untouched, PublishedSound,
           SoundBuildsArePublished, CertifiedIsDrawn, CertifiedWasMeasured, IntactIsServed,
           VerifiedMeansWhole, Issued, NoCertificate, NoAnswer, Rendered
  <2> QED BY <2>3, <2>9 DEF VersionInv
<1>2. ASSUME NEW v \in Published, InitPublished(v)
      PROVE  VersionInv
  <2>1. Sound /\ EvidenceTypes
    BY <1>2, OldIsSound
  <2>2. /\ design = v.design /\ design \in Scene /\ disk = [s \in Sources(design) |-> "pinned"]
        /\ edits = MaxEdits /\ restored = {} /\ phase = "published" /\ todo = {}
        /\ importing = "no" /\ drawn = {} /\ records = {} /\ mode = "real_blender"
        /\ answer = NoAnswer /\ measured = [f \in Measurements |-> 1]
        /\ certificate.schema = v.schema
        /\ certificate.files
              = OldHashes(ExpectedArtifacts(v.schema, Needed(v.design) \cap Covers(v.schema)))
    BY <1>2, PublishedAssumption DEF InitPublished, OldVersion
  <2>3. WorkerTypes
    BY <2>2, SceneAssumption DEF WorkerTypes, Ended
  <2>4. WorkerInv
    BY <2>2, <2>3 DEF WorkerInv, ModeKnown, ImportKnown, DrawnOnce, DrawnOrMissing,
                      RecordsExplained, DrawingEnds, SourcesWatched, AuthenticSources,
                      ProgramsDrawn,
                      Drawing, Rendered, Upcoming
  <2>5. CertifiedWasMeasured
    <3>1. certificate.files["glb"] = 1
      BY <2>2, ExpectedIs, OldHashesAre DEF Base, Files
    <3> QED BY <2>2, <3>1 DEF CertifiedWasMeasured
  <2>6. FilesKnown /\ MeasuresKnown /\ LockKnown /\ CertificateKnown
    BY <2>2 DEF FilesKnown, MeasuresKnown, LockKnown, CertificateKnown, Untouched, Drawing,
                Rendered
  <2>7. EvidenceInv
    BY <2>1, <2>2, <2>5, <2>6 DEF EvidenceInv, PublishedSound, SoundBuildsArePublished,
                                  CertifiedIsDrawn, IntactIsServed, VerifiedMeansWhole,
                                  NoAnswer, Built
  <2> QED BY <2>4, <2>7 DEF VersionInv
<1> QED BY <1>1, <1>2 DEF InitAll

\* What is promised of what was certified, published and answered.
Promises == /\ PublishedSound /\ SoundBuildsArePublished /\ CertifiedIsDrawn
            /\ CertifiedWasMeasured /\ IntactIsServed /\ VerifiedMeansWhole

(* Until a certificate is issued nothing is promised.                      *)
LEMMA NothingPromised ==
    ASSUME EvidenceTypes, UNCHANGED <<certificate, answer>>,
           phase \notin {"check_certificate", "publish"} \cup Ended,
           phase' \notin {"published", "refused"}
    PROVE  Promises' /\ ~Issued' /\ ~answer'.asked /\ ~answer'.verified
<1>1. ~Issued /\ ~answer.asked /\ ~answer.verified
  BY DEF EvidenceTypes, Ended
<1>2. ~Issued' /\ ~answer'.asked /\ ~answer'.verified
  BY <1>1 DEF Issued
<1> QED BY <1>2 DEF Promises, PublishedSound, SoundBuildsArePublished, CertifiedIsDrawn,
                    CertifiedWasMeasured, IntactIsServed, VerifiedMeansWhole

(* What a version is verified by depends on its files and its scene alone. *)
LEMMA VersionRests ==
    ASSUME UNCHANGED <<design, written, measured, lock, certificate>>, NEW luck
    PROVE  PersistedVersion(luck)' <=> PersistedVersion(luck)
<1>1. /\ Required' = Required /\ PreviewsGap' = PreviewsGap
      /\ LockHolds' <=> LockHolds
      /\ \A f : MeasuredThis(f)' <=> MeasuredThis(f)
  BY DEF Required, PreviewsGap, LockHolds, MeasuredThis
<1>2. ChecksComplete' <=> ChecksComplete
  BY <1>1 DEF ChecksComplete
<1>3. FilesCertified' <=> FilesCertified
  BY DEF FilesCertified
<1>4. ArtifactsComplete' <=> ArtifactsComplete
  BY <1>1 DEF ArtifactsComplete
<1>5. LockVerified' <=> LockVerified
  BY <1>1 DEF LockVerified, InputsOfPlan
<1>6. PreviewsVerified' <=> PreviewsVerified
  BY <1>1 DEF PreviewsVerified
<1>7. (\A f \in Required \cap Measurements : MeasuredThis(f))'
          <=> \A f \in Required \cap Measurements : MeasuredThis(f)
  BY <1>1
<1> QED BY <1>1, <1>2, <1>3, <1>4, <1>5, <1>6, <1>7 DEF PersistedVersion, Reads

(* A step that changes neither scene nor evidence leaves a version sound.  *)
LEMMA SoundRests ==
    ASSUME UNCHANGED <<design, evidenceVars>>
    PROVE  Sound' <=> Sound
<1>1. UNCHANGED <<design, written, measured, lock, certificate, proof, publication>>
  BY DEF evidenceVars
<1>2. PersistedVersion(TRUE)' <=> PersistedVersion(TRUE)
  BY <1>1, VersionRests
<1> QED BY <1>1, <1>2 DEF Sound, ReportsVerified, ReportsBound

\* What is known of an untouched build.
Known == FilesKnown /\ MeasuresKnown /\ LockKnown /\ CertificateKnown

(* A step that writes no evidence keeps what is known of it.               *)
LEMMA KnownRests ==
    ASSUME Known, UNCHANGED evidenceVars, design' = design,
           mode = "fallback_no_blender" => mode' = mode,
           \/ phase' = phase \/ phase' \in Ended
           \/ phase \in Drawing /\ phase' \in Drawing
           \/ phase = "compare" /\ phase' = "certify"
           \/ phase = "check_certificate" /\ phase' = "publish"
    PROVE  Known'
<1>1. UNCHANGED <<written, damages, measured, lock, certificate>>
  BY DEF evidenceVars
<1>2. ASSUME NEW ph \in Drawing \cup {"inspect"} \cup Rendered, Untouched(ph)'
      PROVE  Untouched(phase) /\ phase' = ph /\ Present(ph)' = Present(phase)
  <2>1. Untouched(phase) /\ phase' = ph /\ phase' \notin Ended
    BY <1>1, <1>2 DEF Untouched, Ended, Drawing, Rendered
  <2>2. Present(ph)' = Present(ph)
    BY DEF Present
  <2>3. Present(ph) = Present(phase)
    BY <2>1 DEF Present, Drawing
  <2> QED BY <2>1, <2>2, <2>3
<1>3. FilesKnown'
  <2>1. ASSUME NEW ph \in Drawing \cup {"inspect"} \cup Rendered, Untouched(ph)'
        PROVE  written' = OldHashes(Present(ph))'
    <3>1. phase \in Drawing \cup {"inspect"} \cup Rendered
      BY <1>2, <2>1 DEF Ended, Drawing, Rendered
    <3>2. written = OldHashes(Present(phase))
      BY <1>2, <2>1, <3>1 DEF Known, FilesKnown
    <3> QED BY <1>1, <1>2, <2>1, <3>2 DEF OldHashes
  <2> QED BY <2>1 DEF FilesKnown
<1>4. MeasuresKnown'
  BY <1>1 DEF Known, MeasuresKnown, Untouched, Ended, Drawing, Rendered
<1>5. LockKnown'
  BY <1>1 DEF Known, LockKnown, Untouched, Ended, Drawing, Rendered, TrustedInputs
<1>6. CertificateKnown'
  BY <1>1 DEF Known, CertificateKnown, Untouched, Ended, Drawing, Rendered
<1> QED BY <1>3, <1>4, <1>5, <1>6 DEF Known

(* A step that writes no evidence and does not publish keeps every promise. *)
LEMMA PromisesRest ==
    ASSUME EvidenceTypes, Promises, UNCHANGED evidenceVars, design' = design,
           phase' = phase \/ phase' \notin {"published", "refused"},
           phase \in Drawing \/ UNCHANGED <<mode, drawn, records>>,
           phase \in Drawing => phase' \in Drawing \cup {"failed"},
           phase \in {"published", "refused"} => phase' = phase,
           phase \notin {"check_certificate", "publish"} \cup Ended
               \/ phase' \in {"check_certificate", "publish"} \cup Ended
    PROVE  EvidenceTypes' /\ Promises'
<1>1. UNCHANGED <<written, damages, measured, lock, certificate, proof, publication, answer>>
  BY DEF evidenceVars
<1>2. phase \in Drawing => ~Issued
  BY DEF EvidenceTypes, Drawing, Ended
<1>3. EvidenceTypes'
  BY <1>1 DEF EvidenceTypes, Issued
<1>4. PublishedSound'
  BY <1>1, SoundRests DEF Promises, PublishedSound
<1>5. SoundBuildsArePublished'
  BY <1>1 DEF Promises, SoundBuildsArePublished, Built, Drawing
<1>6. CertifiedIsDrawn'
  BY <1>1, <1>2 DEF Promises, CertifiedIsDrawn, Issued, Built
<1>7. CertifiedWasMeasured'
  BY <1>1 DEF Promises, CertifiedWasMeasured, Issued
<1>8. IntactIsServed' /\ VerifiedMeansWhole'
  BY <1>1 DEF Promises, IntactIsServed, VerifiedMeansWhole, ReportsBound
<1> QED BY <1>3, <1>4, <1>5, <1>6, <1>7, <1>8 DEF Promises

(* A step that writes no evidence keeps everything known and promised.     *)
LEMMA EvidenceRests ==
    ASSUME EvidenceInv, UNCHANGED <<design, evidenceVars>>,
           \/ /\ UNCHANGED <<mode, drawn, records>>
              /\ \/ phase' = phase
                 \/ phase' = "failed" /\ phase \notin Ended
                 \/ phase = "compare" /\ phase' = "certify"
                 \/ phase = "check_certificate" /\ phase' = "publish"
           \/ phase \in Drawing /\ phase' \in Drawing \cup {"failed"}
              /\ mode # "fallback_no_blender"
    PROVE  EvidenceInv'
<1>1. Known /\ Promises /\ EvidenceTypes
  BY DEF EvidenceInv, Known, Promises
<1>2. Known'
  BY <1>1, KnownRests DEF Ended
<1>3. EvidenceTypes' /\ Promises'
  BY <1>1, PromisesRest DEF Drawing, Ended
<1> QED BY <1>2, <1>3 DEF EvidenceInv, Known, Promises

(* The worker, and the runner where it gives up, write no evidence.        *)
LEMMA WorkRests ==
    ASSUME WorkerInv, EvidenceInv,
           \/ Work \/ EditWhileBuilding \/ InspectionFails \/ CompareLock \/ CheckCertificate
           \/ UNCHANGED versionVars
    PROVE  EvidenceInv'
<1>1. CASE Work
  <2>1. UNCHANGED evidenceVars /\ UNCHANGED <<design, mode>> /\ phase \in Drawing
        /\ phase' \in Drawing \cup {"failed"}
    <3>1. CASE Draw
      <4>1. PICK p \in Upcoming : DrawPiece(p)
        BY <3>1 DEF Draw
      <4>2. Library /\ phase = "draw" /\ Drew(p)
        BY <4>1, DrawIsOne DEF WorkerInv
      <4>3. phase' \in {"draw", "failed"}
        BY <4>2 DEF Drew, Imports, Missed, Placed, Past, Abort
      <4> QED BY <1>1, <4>2, <4>3 DEF Work, Library, Drawing
    <3>2. CASE ValidateAssembly \/ CheckSegments \/ ProveComponents
      BY <1>1, <3>2 DEF Work, ValidateAssembly, CheckSegments, ProveComponents, Library, Drawing
    <3> QED BY <1>1, <3>1, <3>2 DEF Work
  <2>2. mode # "fallback_no_blender"
    BY <2>1 DEF WorkerInv, ModeKnown
  <2> QED BY <2>1, <2>2, EvidenceRests
<1>2. CASE EditWhileBuilding
  BY <1>2, EvidenceRests DEF EditWhileBuilding, EditLibrary
<1>3. CASE InspectionFails
  BY <1>3, EvidenceRests DEF InspectionFails, RenderingFails, MeasurementFails, MeshFails, Fails,
                            Library0, Ended
<1>4. CASE CompareLock
  BY <1>4, EvidenceRests DEF CompareLock, Library0, Ended
<1>5. CASE CheckCertificate
  BY <1>5, EvidenceRests DEF CheckCertificate, Library0, Ended
<1>6. CASE UNCHANGED versionVars
  BY <1>6, EvidenceRests DEF versionVars, buildVars
<1> QED BY <1>1, <1>2, <1>3, <1>4, <1>5, <1>6

\* The step of a build that gives up.
GivesUp == /\ phase \notin Ended /\ phase' = "failed" /\ UNCHANGED evidenceVars
           /\ UNCHANGED <<design, mode, drawn, records>>

(* A build that gives up certifies nothing.                                *)
LEMMA GivingUpRests ==
    ASSUME EvidenceInv, GivesUp
    PROVE  EvidenceInv'
BY EvidenceRests DEF GivesUp

(* Which files there are once another kind of them was written.            *)
LEMMA WrittenIs ==
    ASSUME NEW kept, written = OldHashes(kept), NEW more \in SUBSET Files,
           NEW after, \A f \in Files : f \in after <=> f \in kept \cup more,
           written' \in [Files -> 0..2],
           \A f \in Files : written'[f] = IF f \in more THEN 1 ELSE written[f]
    PROVE  written' = OldHashes(after)
<1>1. written' = [f \in Files |-> written'[f]]
  OBVIOUS
<1>2. ASSUME NEW f \in Files
      PROVE  written'[f] = IF f \in after THEN 1 ELSE 0
  BY OldHashesAre
<1> QED BY <1>1, <1>2 DEF OldHashes

(* Without Blender nothing of the build is ever untouched.                 *)
LEMMA FallbackKeeps ==
    ASSUME WorkerInv, EvidenceInv, RunWithoutBlender
    PROVE  EvidenceInv'
<1>1. /\ phase = "draw" /\ phase' = "inspect" /\ mode' = "fallback_no_blender"
      /\ written' = [written EXCEPT !["metadata"] = 1]
      /\ UNCHANGED <<damages, measured, lock, certificate, proof, publication, answer>>
  BY DEF RunWithoutBlender, WithoutBlender
<1>2. EvidenceTypes
  BY DEF EvidenceInv
<1>3. Promises' /\ ~Issued' /\ ~answer'.asked /\ ~answer'.verified
  BY <1>1, <1>2, NothingPromised DEF Ended
<1>4. EvidenceTypes'
  <2>1. /\ written \in [Files -> 0..2] /\ written' = [written EXCEPT !["metadata"] = 1]
        /\ "metadata" \in Files
    BY <1>1, <1>2 DEF EvidenceTypes, HashSet, Files
  <2>2. written' \in HashSet
    BY <2>1 DEF HashSet
  <2> QED BY <1>1, <1>2, <1>3, <2>2 DEF EvidenceTypes
<1>5. FilesKnown' /\ MeasuresKnown' /\ LockKnown' /\ CertificateKnown'
  BY <1>1 DEF FilesKnown, MeasuresKnown, LockKnown, CertificateKnown, Untouched
<1> QED BY <1>3, <1>4, <1>5 DEF EvidenceInv, Promises

(* Blender exports the model and what the scene needs of its own evidence. *)
LEMMA ExportKeeps ==
    ASSUME WorkerInv, EvidenceInv, Export
    PROVE  EvidenceInv'
<1> DEFINE more == {"glb", "preview", "metadata"}
                   \cup (Needed(design) \cap {"component_proofs", "sector_previews"})
<1>0. {"glb", "metadata"} \cup Views(design)
          \cup (IF ProofRequired(design) THEN {"component_proofs"} ELSE {}) = more
  BY DEF Views, Needed
<1>1. /\ phase = "export" /\ phase' = "inspect" /\ design' = design
      /\ written' = [f \in Files |-> IF f \in more THEN 1 ELSE written[f]]
      /\ UNCHANGED <<damages, measured, lock, certificate, proof, publication, answer>>
  BY <1>0 DEF Export, Library0
<1>2. EvidenceTypes /\ mode = "none"
  BY <1>1 DEF EvidenceInv, WorkerInv, ModeKnown, Drawing
<1>3. Promises' /\ ~Issued' /\ ~answer'.asked /\ ~answer'.verified
  BY <1>1, <1>2, NothingPromised DEF Ended
<1>4. written' \in HashSet
  BY <1>1, <1>2 DEF EvidenceTypes, HashSet
<1>5. EvidenceTypes'
  BY <1>1, <1>2, <1>3, <1>4 DEF EvidenceTypes
<1>6. FilesKnown'
  <2>1. ASSUME damages = 0
        PROVE  written' = OldHashes(Present("inspect"))'
    <3>1. written = OldHashes({"scene_spec"})
      BY <1>1, <1>2, <2>1 DEF EvidenceInv, FilesKnown, Untouched, Drawing, Present
    <3>2. more \subseteq Files
      BY DEF Files, Families, Measurements
    <3>3. Present("inspect")' = {"scene_spec"} \cup more
      BY <1>1 DEF Present, Model, Drawing
    <3>4. \A f \in Files : written'[f] = IF f \in more THEN 1 ELSE written[f]
      BY <1>1
    <3> HIDE DEF more
    <3>5. written' = OldHashes({"scene_spec"} \cup more)
      BY <1>4, <3>1, <3>2, <3>4, WrittenIs DEF HashSet
    <3> QED BY <3>3, <3>5 DEF OldHashes
  <2> QED BY <1>1, <2>1 DEF FilesKnown, Untouched
<1>7. MeasuresKnown' /\ LockKnown' /\ CertificateKnown'
  BY <1>1 DEF MeasuresKnown, LockKnown, CertificateKnown, Untouched, Rendered
<1> QED BY <1>3, <1>5, <1>6, <1>7 DEF EvidenceInv, Promises

(* The first inspection measures the constraints of a plan.                *)
LEMMA InspectKeeps ==
    ASSUME WorkerInv, EvidenceInv, InspectModel
    PROVE  EvidenceInv'
<1>1. /\ phase = "inspect" /\ UNCHANGED <<design, mode, drawn, records>>
      /\ UNCHANGED <<damages, lock, certificate, proof, publication, answer>>
  BY DEF InspectModel, Library0
<1>2. CASE phase' = "failed" /\ UNCHANGED <<written, measured>>
  BY <1>1, <1>2, GivingUpRests DEF GivesUp, Ended, evidenceVars
<1>3. CASE /\ phase' = "measure" /\ mode = "real_blender"
           /\ measured' = [measured EXCEPT !["constraint_evidence"] =
                             IF design.plan THEN written["glb"] ELSE 0]
           /\ written' = [written EXCEPT !["constraint_evidence"] = IF design.plan THEN 1 ELSE 0]
  <2>1. EvidenceTypes
    BY DEF EvidenceInv
  <2>2. Promises' /\ ~Issued' /\ ~answer'.asked /\ ~answer'.verified
    BY <1>1, <1>3, <2>1, NothingPromised DEF Ended
  <2>3. /\ "constraint_evidence" \in Files /\ "constraint_evidence" \in Measurements
        /\ "glb" \in Files
    BY DEF Files, Families, Measurements
  <2>4. written' \in HashSet /\ measured' \in [Measurements -> 0..2]
    BY <1>3, <2>1, <2>3 DEF EvidenceTypes, HashSet
  <2>5. EvidenceTypes'
    BY <1>1, <1>3, <2>1, <2>2, <2>4 DEF EvidenceTypes
  <2>6. ASSUME damages = 0
        PROVE  /\ written' = OldHashes(Present("measure"))'
               /\ measured'["constraint_evidence"] = IF design.plan THEN 1 ELSE 0
    <3>1. written = OldHashes(Present("inspect")) /\ design \in Scene
      BY <1>1, <1>3, <2>6 DEF EvidenceInv, FilesKnown, Untouched, WorkerInv, WorkerTypes
    <3>2. Present("inspect") = {"scene_spec"} \cup Model
                               \cup (Needed(design) \cap {"component_proofs", "sector_previews"})
      BY DEF Present, Drawing
    <3>3. Present("measure")' = {"scene_spec"} \cup Model
                                \cup (Needed(design) \ {"tower_access_evidence"})
      BY <1>1 DEF Present, Drawing
    <3>4. \A f \in Families : f \in {"component_proofs", "constraint_evidence",
                                     "sector_previews", "tower_access_evidence"}
      BY DEF Families, Measurements
    <3>5. written["glb"] = 1 /\ written["constraint_evidence"] = 0
      BY <2>3, <3>1, <3>2, OldHashesAre DEF Model
    <3>6. ASSUME NEW f \in Files
          PROVE  written'[f] = IF f \in Present("measure")' THEN 1 ELSE 0
      <4>1. CASE f = "constraint_evidence"
        BY <1>3, <2>1, <2>3, <3>1, <3>3, <4>1, NeededIs DEF Model, EvidenceTypes, HashSet
      <4>2. CASE f # "constraint_evidence"
        <5>1. written'[f] = written[f]
          BY <1>3, <2>1, <4>2 DEF EvidenceTypes, HashSet
        <5>2. f \in Present("measure")' <=> f \in Present("inspect")
          BY <3>1, <3>2, <3>3, <3>4, <4>2, NeededIs
        <5> QED BY <3>1, <5>1, <5>2, OldHashesAre
      <4> QED BY <4>1, <4>2
    <3>7. written' = OldHashes(Present("measure")')
      BY <2>4, <3>6 DEF OldHashes, HashSet
    <3>8. measured'["constraint_evidence"] = IF design.plan THEN 1 ELSE 0
      BY <1>3, <2>1, <2>3, <3>5 DEF EvidenceTypes
    <3> QED BY <3>7, <3>8 DEF OldHashes
  <2>7. FilesKnown'
    BY <1>1, <1>3, <2>6 DEF FilesKnown, Untouched
  <2>8. MeasuresKnown' /\ LockKnown' /\ CertificateKnown'
    BY <1>1, <1>3, <2>6 DEF MeasuresKnown, LockKnown, CertificateKnown, Untouched, Rendered
  <2> QED BY <2>2, <2>5, <2>7, <2>8 DEF EvidenceInv, Promises
<1> QED BY <1>1, <1>2, <1>3 DEF InspectModel

(* The second inspection measures the previews and the access to the tower. *)
LEMMA MeasureKeeps ==
    ASSUME WorkerInv, EvidenceInv, MeasureViews
    PROVE  EvidenceInv'
<1>1. /\ phase = "measure" /\ UNCHANGED <<design, mode, drawn, records>>
      /\ UNCHANGED <<damages, lock, certificate, proof, publication, answer>>
  BY DEF MeasureViews, Library0
<1>2. CASE phase' = "failed" /\ UNCHANGED <<written, measured>>
  BY <1>1, <1>2, GivingUpRests DEF GivesUp, Ended, evidenceVars
<1>3. CASE /\ phase' = "lock"
           /\ measured' = [f \in Measurements |->
                IF f = "constraint_evidence" THEN measured[f]
                ELSE IF f \in Needed(design) THEN written["glb"] ELSE 0]
           /\ written' = [written EXCEPT !["tower_access_evidence"] =
                          IF design.access THEN 1 ELSE 0]
  <2>1. EvidenceTypes
    BY DEF EvidenceInv
  <2>2. Promises' /\ ~Issued' /\ ~answer'.asked /\ ~answer'.verified
    BY <1>1, <1>3, <2>1, NothingPromised DEF Ended
  <2>3. "tower_access_evidence" \in Files /\ "glb" \in Files
    BY DEF Files, Families, Measurements
  <2>4. written' \in HashSet
    BY <1>3, <2>1, <2>3 DEF EvidenceTypes, HashSet
  <2>5. measured' \in [Measurements -> 0..2]
    BY <1>3, <2>1, <2>3 DEF EvidenceTypes, HashSet
  <2>6. EvidenceTypes'
    BY <1>1, <1>3, <2>1, <2>2, <2>4, <2>5 DEF EvidenceTypes
  <2>7. ASSUME damages = 0, mode # "fallback_no_blender"
        PROVE  /\ written' = OldHashes(Present("lock"))'
               /\ \A f \in Measurements \cap Needed(design) : measured'[f] = 1
    <3>1. /\ written = OldHashes(Present("measure")) /\ design \in Scene
          /\ measured["constraint_evidence"] = IF design.plan THEN 1 ELSE 0
      BY <1>1, <2>7 DEF EvidenceInv, FilesKnown, MeasuresKnown, Untouched, WorkerInv,
                        WorkerTypes, Rendered
    <3>2. Present("measure") = {"scene_spec"} \cup Model
                               \cup (Needed(design) \ {"tower_access_evidence"})
      BY DEF Present, Drawing
    <3>3. Present("lock")' = {"scene_spec"} \cup Model \cup Needed(design)
      BY <1>1 DEF Present, Drawing
    <3>4. written["glb"] = 1
      BY <2>3, <3>1, <3>2, OldHashesAre DEF Model
    <3>5. ASSUME NEW f \in Files
          PROVE  written'[f] = IF f \in Present("lock")' THEN 1 ELSE 0
      <4>1. CASE f = "tower_access_evidence"
        BY <1>3, <2>1, <2>3, <3>1, <3>3, <4>1, NeededIs DEF Model, EvidenceTypes, HashSet
      <4>2. CASE f # "tower_access_evidence"
        <5>1. written'[f] = written[f]
          BY <1>3, <2>1, <4>2 DEF EvidenceTypes, HashSet
        <5>2. f \in Present("lock")' <=> f \in Present("measure")
          BY <3>2, <3>3, <4>2
        <5> QED BY <3>1, <5>1, <5>2, OldHashesAre
      <4> QED BY <4>1, <4>2
    <3>6. written' = OldHashes(Present("lock")')
      BY <2>4, <3>5 DEF OldHashes, HashSet
    <3>7. \A f \in Measurements \cap Needed(design) : measured'[f] = 1
      BY <1>3, <3>1, <3>4, NeededIs
    <3> QED BY <3>6, <3>7 DEF OldHashes
  <2>8. FilesKnown'
    BY <1>1, <1>3, <2>7 DEF FilesKnown, Untouched
  <2>9. MeasuresKnown'
    <3>1. Needed(design)' = Needed(design)
      BY <1>1
    <3> QED BY <1>1, <1>3, <2>7, <3>1 DEF MeasuresKnown, Untouched
  <2>10. LockKnown' /\ CertificateKnown'
    BY <1>1, <1>3 DEF LockKnown, CertificateKnown, Untouched, Rendered
  <2> QED BY <2>2, <2>6, <2>8, <2>9, <2>10 DEF EvidenceInv, Promises
<1> QED BY <1>1, <1>2, <1>3 DEF MeasureViews

(* The lock lists the model and every evidence that is there.              *)
LEMMA LockKeeps ==
    ASSUME WorkerInv, EvidenceInv, WriteLock
    PROVE  EvidenceInv'
<1>1. /\ phase = "lock" /\ UNCHANGED <<design, mode, drawn, records>>
      /\ UNCHANGED <<damages, measured, certificate, proof, publication, answer>>
  BY DEF WriteLock, Library0
<1>2. CASE phase' = "failed" /\ UNCHANGED <<lock, written>>
  BY <1>1, <1>2, GivingUpRests DEF GivesUp, Ended, evidenceVars
<1>3. CASE /\ phase' = "compare"
           /\ lock' = [schema |-> "1.3.0", declares |-> Profiles, inputs |-> TrustedInputs,
                       builders |-> Builders, files |-> Hashes(Locked)]
           /\ written' = [written EXCEPT !["build_lock"] = 1]
  <2>1. EvidenceTypes
    BY DEF EvidenceInv
  <2>2. Promises' /\ ~Issued' /\ ~answer'.asked /\ ~answer'.verified
    BY <1>1, <1>3, <2>1, NothingPromised DEF Ended
  <2>3. "build_lock" \in Files /\ Locked \subseteq Files /\ Locked \subseteq Model \cup Families
    BY DEF Files, Locked, Model
  <2>4. written' \in HashSet
    BY <1>3, <2>1, <2>3 DEF EvidenceTypes, HashSet
  <2>5. /\ lock'.schema = "1.3.0" /\ lock'.declares = Profiles /\ lock'.inputs = TrustedInputs
        /\ lock'.files = Hashes(Locked)
    BY <1>3
  <2>6. /\ Hashes(Locked) \in HashSet
        /\ \A f \in Files : Hashes(Locked)[f] = IF f \in Locked THEN written[f] ELSE 0
    BY <2>1 DEF Hashes, EvidenceTypes, HashSet
  <2>7. EvidenceTypes'
    <3>1. {f \in Files : lock'.files[f] # 0} \subseteq Model \cup Families
      BY <2>3, <2>5, <2>6
    <3> QED BY <1>1, <1>3, <2>1, <2>2, <2>4, <2>5, <2>6, <3>1 DEF EvidenceTypes
  <2>8. ASSUME damages = 0, mode # "fallback_no_blender"
        PROVE  /\ written' = OldHashes(Present("compare"))'
               /\ lock'.files = OldHashes(Model \cup Needed(design))
               /\ \A f \in Measurements \cap Needed(design) : measured[f] = 1
    <3>1. /\ written = OldHashes(Present("lock")) /\ design \in Scene
          /\ \A f \in Measurements \cap Needed(design) : measured[f] = 1
      BY <1>1, <2>8 DEF EvidenceInv, FilesKnown, MeasuresKnown, Untouched, WorkerInv,
                        WorkerTypes, Rendered
    <3>2. Present("lock") = {"scene_spec"} \cup Model \cup Needed(design)
      BY DEF Present, Drawing
    <3>3. Present("compare")' = {"scene_spec", "build_lock"} \cup Model \cup Needed(design)
      BY <1>1 DEF Present, Drawing
    <3>4. \A f \in Files : written[f] = IF f \in Present("lock") THEN 1 ELSE 0
      BY <3>1, OldHashesAre
    <3>5. \A f \in Files : written'[f] = IF f \in {"build_lock"} THEN 1 ELSE written[f]
      BY <1>3, <2>1 DEF EvidenceTypes, HashSet
    <3>6. \A f \in Files : f \in Present("compare")' <=> f \in Present("lock") \cup {"build_lock"}
      BY <3>2, <3>3
    <3>7. written' = OldHashes(Present("compare")')
      <4>1. ASSUME NEW f \in Files
            PROVE  written'[f] = IF f \in Present("compare")' THEN 1 ELSE 0
        BY <3>4, <3>5, <3>6
      <4> QED BY <2>4, <4>1 DEF OldHashes, HashSet
    <3>8. Locked = Model \cup Needed(design)
      <4>1. {f \in Families : written[f] # 0} = Needed(design)
        <5>1. Families \subseteq Files /\ Families \cap Model = {} /\ "scene_spec" \notin Families
          BY DEF Files, Families, Measurements, Model
        <5> QED BY <3>1, <3>2, <3>4, <5>1, NeededIs
      <4> QED BY <4>1 DEF Locked, Model
    <3>9. ASSUME NEW f \in Files
          PROVE  Hashes(Locked)[f] = IF f \in Model \cup Needed(design) THEN 1 ELSE 0
      BY <2>6, <3>2, <3>4, <3>8
    <3>10. Hashes(Locked) = OldHashes(Model \cup Needed(design))
      BY <2>6, <3>9 DEF OldHashes, HashSet
    <3> QED BY <2>5, <3>1, <3>7, <3>10 DEF OldHashes
  <2>9. FilesKnown'
    BY <1>1, <1>3, <2>8 DEF FilesKnown, Untouched
  <2>10. MeasuresKnown' /\ CertificateKnown'
    BY <1>1, <1>3, <2>8 DEF MeasuresKnown, CertificateKnown, Untouched
  <2>11. LockKnown'
    <3>1. TrustedInputs' = TrustedInputs
      BY <1>1 DEF TrustedInputs
    <3> QED BY <1>1, <1>3, <2>5, <2>8, <3>1 DEF LockKnown, Untouched, OldHashes
  <2> QED BY <2>2, <2>7, <2>9, <2>10, <2>11 DEF EvidenceInv, Promises
<1> QED BY <1>1, <1>2, <1>3 DEF WriteLock

(* A certificate is issued only of what is there, drawn and measured.      *)
LEMMA CertifyKeeps ==
    ASSUME WorkerInv, EvidenceInv, Certify
    PROVE  EvidenceInv'
<1>1. /\ phase = "certify" /\ UNCHANGED <<design, mode, drawn, records>>
      /\ UNCHANGED <<damages, measured, lock, proof, publication, answer>>
  BY DEF Certify, Library0
<1>2. CASE phase' = "failed" /\ UNCHANGED <<certificate, written>>
  BY <1>1, <1>2, GivingUpRests DEF GivesUp, Ended, evidenceVars
<1>3. CASE /\ phase' = "check_certificate" /\ RecordsAccepted /\ MeasuredNeeded
           /\ \A f \in Artifacts(design) : written[f] # 0
           /\ certificate' = [schema |-> CertificateSchema(design),
                              checks |-> IssuedChecks(design),
                              files |-> Hashes(Artifacts(design))]
           /\ written' = [written EXCEPT !["certificate"] = 1, !["reports"] = 1, !["status"] = 1]
  <2>1. EvidenceTypes /\ design \in Scene
    BY DEF EvidenceInv, WorkerInv, WorkerTypes
  <2>2. /\ ~Issued /\ ~answer.asked /\ ~answer.verified
    BY <1>1, <2>1 DEF EvidenceTypes, Ended
  <2>3. /\ certificate'.schema = CertificateSchema(design)
        /\ certificate'.checks = IssuedChecks(design)
        /\ certificate'.files = Hashes(Artifacts(design))
    BY <1>3
  <2>4. {"certificate", "reports", "status", "glb", "scene_spec"} \cup Base \subseteq Files
    BY DEF Files, Base
  <2>5. /\ Base \subseteq Artifacts(design) /\ Artifacts(design) \subseteq Files
        /\ CertifiedFamilies(design) \subseteq Artifacts(design) /\ "glb" \in Base
    BY <2>1, NeededIs DEF Artifacts, CertifiedFamilies, Files, Base
  <2>6. /\ written' \in HashSet
        /\ \A f \in Files : written'[f] = IF f \in {"certificate", "reports", "status"}
                                          THEN 1 ELSE written[f]
    BY <1>3, <2>1, <2>4 DEF EvidenceTypes, HashSet
  <2>7. /\ Hashes(Artifacts(design)) \in HashSet
        /\ \A f \in Files : Hashes(Artifacts(design))[f]
                               = IF f \in Artifacts(design) THEN written[f] ELSE 0
    BY <2>1 DEF Hashes, EvidenceTypes, HashSet
  <2>8. EvidenceTypes'
    <3>1. \A f \in Base : certificate'.files[f] # 0
      BY <1>3, <2>3, <2>5, <2>7
    <3> QED BY <1>1, <1>3, <2>1, <2>2, <2>3, <2>6, <2>7, <3>1 DEF EvidenceTypes
  <2>9. CertifiedIsDrawn'
    <3>1. /\ mode = "real_blender" /\ todo = {} /\ WorkerTypes
          /\ DrawnOnce /\ DrawnOrMissing /\ RecordsExplained
      BY <1>1 DEF WorkerInv, ModeKnown, DrawingEnds, Rendered
    <3>2. design.domain = "telecom" => \A r \in records : r.mode # "missing_file"
      BY <1>3 DEF RecordsAccepted
    <3>3. {o.piece : o \in drawn} = Pieces(design)
      <4>1. \A p \in Pieces(design) : \E o \in drawn : o.piece = p
        BY <1>1, <3>1, <3>2 DEF DrawnOrMissing
      <4> QED BY <3>1, <4>1 DEF WorkerTypes
    <3>4. \A o, p \in drawn : o.piece = p.piece => o = p
      BY <3>1 DEF DrawnOnce
    <3>5. \A r \in records : \E o \in drawn :
             o.piece = r.piece /\ (o.of = "fallback" <=> r.mode = "procedural_fallback")
      BY <3>1, <3>2 DEF RecordsExplained, Explained
    <3> QED BY <1>1, <3>1, <3>3, <3>4, <3>5 DEF CertifiedIsDrawn
  <2>10. CertifiedWasMeasured'
    <3>1. ASSUME NEW f \in Needed(design) \cap Covers(CertificateSchema(design)) \cap Measurements
          PROVE  measured[f] = certificate'.files["glb"]
      <4>1. f \in CertifiedFamilies(design) \cap Measurements
        BY CoversIs DEF CertifiedFamilies
      <4>2. measured[f] = written["glb"]
        BY <1>3, <4>1 DEF MeasuredNeeded, MeasuredThis
      <4> QED BY <2>3, <2>4, <2>5, <2>7, <4>2
    <3> QED BY <1>1, <2>3, <3>1 DEF CertifiedWasMeasured
  <2>11. Promises'
    BY <1>1, <1>3, <2>2, <2>9, <2>10
       DEF Promises, PublishedSound, SoundBuildsArePublished, IntactIsServed, VerifiedMeansWhole
  <2>12. ASSUME damages = 0, mode # "fallback_no_blender"
        PROVE  /\ written' = OldHashes(Present("check_certificate"))'
               /\ certificate'.files = OldHashes(Artifacts(design))
               /\ \A f \in Measurements \cap Needed(design) : measured[f] = 1
               /\ lock.schema = "1.3.0" /\ lock.declares = Profiles
               /\ lock.inputs = TrustedInputs
               /\ lock.files = OldHashes(Model \cup Needed(design))
    <3>1. written = OldHashes(Present("certify"))
      BY <1>1, <2>12 DEF EvidenceInv, FilesKnown, Untouched, Rendered
    <3>2. Present("certify") = {"scene_spec", "build_lock"} \cup Model \cup Needed(design)
      BY DEF Present, Drawing
    <3>3. Present("check_certificate")' = {"scene_spec", "build_lock", "certificate", "reports",
                                           "status"} \cup Model \cup Needed(design)
      BY <1>1 DEF Present, Drawing
    <3>4. \A f \in Files : written[f] = IF f \in Present("certify") THEN 1 ELSE 0
      BY <3>1, OldHashesAre
    <3>5. ASSUME NEW f \in Files
          PROVE  written'[f] = IF f \in Present("check_certificate")' THEN 1 ELSE 0
      BY <2>6, <3>2, <3>3, <3>4
    <3>6. written' = OldHashes(Present("check_certificate")')
      BY <2>6, <3>5 DEF OldHashes, HashSet
    <3>7. Artifacts(design) \subseteq Present("certify")
      BY <3>2 DEF Artifacts, Base, CertifiedFamilies, Model
    <3>8. ASSUME NEW f \in Files
          PROVE  Hashes(Artifacts(design))[f] = IF f \in Artifacts(design) THEN 1 ELSE 0
      BY <2>7, <3>4, <3>7
    <3>9. Hashes(Artifacts(design)) = OldHashes(Artifacts(design))
      BY <2>7, <3>8 DEF OldHashes, HashSet
    <3>10. /\ \A f \in Measurements \cap Needed(design) : measured[f] = 1
           /\ lock.schema = "1.3.0" /\ lock.declares = Profiles
           /\ lock.inputs = TrustedInputs
           /\ lock.files = OldHashes(Model \cup Needed(design))
      BY <1>1, <2>12 DEF EvidenceInv, MeasuresKnown, LockKnown, Untouched, Rendered
    <3> QED BY <2>3, <3>6, <3>9, <3>10 DEF OldHashes
  <2>13. FilesKnown'
    BY <1>1, <1>3, <2>12 DEF FilesKnown, Untouched
  <2>14. MeasuresKnown'
    <3>1. Needed(design)' = Needed(design)
      BY <1>1
    <3> QED BY <1>1, <1>3, <2>12, <3>1 DEF MeasuresKnown, Untouched
  <2>15. LockKnown'
    <3>1. TrustedInputs' = TrustedInputs
      BY <1>1 DEF TrustedInputs
    <3> QED BY <1>1, <1>3, <2>12, <3>1 DEF LockKnown, Untouched, OldHashes
  <2>16. CertificateKnown'
    BY <1>1, <1>3, <2>3, <2>12 DEF CertificateKnown, Untouched, OldHashes
  <2> QED BY <2>8, <2>11, <2>13, <2>14, <2>15, <2>16 DEF EvidenceInv, Promises
<1>4. \/ phase' = "failed" /\ UNCHANGED <<certificate, written>>
      \/ /\ phase' = "check_certificate" /\ RecordsAccepted /\ MeasuredNeeded
         /\ \A f \in Artifacts(design) : written[f] # 0
         /\ certificate' = [schema |-> CertificateSchema(design),
                            checks |-> IssuedChecks(design),
                            files |-> Hashes(Artifacts(design))]
         /\ written' = [written EXCEPT !["certificate"] = 1, !["reports"] = 1, !["status"] = 1]
  BY DEF Certify, EvidenceVerified
<1> QED BY <1>2, <1>3, <1>4

(* The contract of a schema asks of a scene for what its orchestrator put  *)
(* into the certificate, except where the two contradict each other.       *)
LEMMA ContractIsMet ==
    ASSUME NEW d \in Scene, ~Cognitive(d), ~(d.access /\ ~ProofRequired(d))
    PROVE  LET schema == CertificateSchema(d)
               required == Needed(d) \cap Covers(schema)
           IN  /\ IssuedChecks(d) = RequiredChecks(schema, "constraint_evidence" \in required)
               /\ Artifacts(d) = ExpectedArtifacts(schema, required)
               /\ required = CertifiedFamilies(d)
               /\ schema = "1.5.0" => "tower_access_evidence" \in required
               /\ schema = "1.4.0" => "constraint_evidence" \in required
<1>1. /\ \A f \in Needed(d) : f \in {"component_proofs", "constraint_evidence",
                                     "sector_previews", "tower_access_evidence"}
      /\ "component_proofs" \in Needed(d) <=> ProofRequired(d)
      /\ "constraint_evidence" \in Needed(d) <=> d.plan
      /\ "tower_access_evidence" \in Needed(d) <=> d.access
  BY NeededIs DEF Families, Measurements, ProofRequired
<1>2. \A f \in CertifiedFamilies(d) : f \in {"component_proofs", "constraint_evidence",
                                             "tower_access_evidence"}
  BY <1>1 DEF CertifiedFamilies
<1>3. /\ "component_proofs" \in CertifiedFamilies(d) <=> ProofRequired(d)
      /\ "constraint_evidence" \in CertifiedFamilies(d) <=> d.plan
      /\ "tower_access_evidence" \in CertifiedFamilies(d) <=> d.access
  BY <1>1 DEF CertifiedFamilies
<1>4. d.plan => ProofRequired(d)
  BY DEF ProofRequired
<1>5. CASE d.access
  <2>1. CertificateSchema(d) = "1.5.0" /\ ProofRequired(d)
    BY <1>5 DEF CertificateSchema, Cognitive
  <2>2. Needed(d) \cap Covers("1.5.0") = CertifiedFamilies(d)
    BY CoversIs, <1>1 DEF CertifiedFamilies
  <2>3. IssuedChecks(d) = BlueprintChecks \cup CertifiedFamilies(d)
    BY DEF IssuedChecks
  <2>4. RequiredChecks("1.5.0", "constraint_evidence" \in CertifiedFamilies(d))
          = BlueprintChecks \cup {"component_proofs", "tower_access_evidence"}
            \cup (IF d.plan THEN {"constraint_evidence"} ELSE {})
    BY <1>3 DEF RequiredChecks
  <2>5. CertifiedFamilies(d) = {"component_proofs", "tower_access_evidence"}
                               \cup (IF d.plan THEN {"constraint_evidence"} ELSE {})
    BY <1>2, <1>3, <1>5, <2>1
  <2>6. ExpectedArtifacts("1.5.0", CertifiedFamilies(d)) = Base \cup CertifiedFamilies(d)
    BY <2>5 DEF ExpectedArtifacts
  <2> QED BY <1>3, <1>5, <2>1, <2>2, <2>3, <2>4, <2>5, <2>6 DEF Artifacts
<1>6. CASE ~d.access /\ d.plan
  <2>1. CertificateSchema(d) = "1.4.0" /\ ProofRequired(d)
    BY <1>4, <1>6 DEF CertificateSchema, Cognitive
  <2>2. CertifiedFamilies(d) = {"component_proofs", "constraint_evidence"}
    BY <1>2, <1>3, <1>6, <2>1
  <2>3. Needed(d) \cap Covers("1.4.0") = CertifiedFamilies(d)
    BY CoversIs, <1>1, <1>6 DEF CertifiedFamilies
  <2>4. RequiredChecks("1.4.0", TRUE)
          = BlueprintChecks \cup {"component_proofs", "constraint_evidence"}
    BY DEF RequiredChecks
  <2>5. IssuedChecks(d) = BlueprintChecks \cup CertifiedFamilies(d)
    BY DEF IssuedChecks
  <2>6. "constraint_evidence" \in CertifiedFamilies(d)
    BY <2>2
  <2> QED BY <2>1, <2>2, <2>3, <2>4, <2>5, <2>6 DEF Artifacts, ExpectedArtifacts
<1>7. CASE ~d.access /\ ~d.plan /\ ProofRequired(d)
  <2>1. CertificateSchema(d) = "1.2.0"
    BY <1>7 DEF CertificateSchema
  <2>2. CertifiedFamilies(d) = {"component_proofs"}
    BY <1>2, <1>3, <1>7
  <2>3. Needed(d) \cap Covers("1.2.0") = CertifiedFamilies(d)
    BY CoversIs, <1>1, <1>7 DEF CertifiedFamilies
  <2>4. IssuedChecks(d) = BlueprintChecks \cup CertifiedFamilies(d)
    BY DEF IssuedChecks
  <2> QED BY <2>1, <2>2, <2>3, <2>4 DEF Artifacts, ExpectedArtifacts, RequiredChecks
<1>8. CASE ~d.access /\ ~d.plan /\ ~ProofRequired(d)
  <2>1. CertificateSchema(d) = "1.1.0"
    BY <1>8 DEF CertificateSchema
  <2>2. CertifiedFamilies(d) = {}
    BY <1>2, <1>3, <1>8
  <2>3. Needed(d) \cap Covers("1.1.0") = CertifiedFamilies(d)
    BY CoversIs, <1>1, <1>8, <2>2
  <2>4. IssuedChecks(d) = BlueprintChecks \cup CertifiedFamilies(d)
    BY DEF IssuedChecks
  <2> QED BY <2>1, <2>2, <2>3, <2>4 DEF Artifacts, ExpectedArtifacts, RequiredChecks
<1> QED BY <1>5, <1>6, <1>7, <1>8

(* Publication answers an untouched build by its scene alone: it refuses   *)
(* exactly those whose certificate or lock contradicts the verifier.       *)
LEMMA PublicationDecides ==
    ASSUME WorkerInv, EvidenceInv, phase = "publish", damages = 0, NEW luck
    PROVE  /\ PersistedVersion(luck) <=> ~Contradicted(design)
           /\ \A f \in Files : written[f] \in {0, 1}
           /\ written["reports"] = 1
<1> DEFINE d == design
           kept == Present("publish")
<1>1. mode = "real_blender" /\ d \in Scene
  BY DEF WorkerInv, ModeKnown, Rendered, WorkerTypes
<1>2. Untouched("publish")
  BY <1>1 DEF Untouched
<1>3. /\ written = OldHashes(kept)
      /\ \A f \in Measurements \cap Needed(d) : measured[f] = 1
      /\ lock.schema = "1.3.0" /\ lock.declares = Profiles /\ lock.inputs = TrustedInputs
      /\ lock.files = OldHashes(Model \cup Needed(d))
      /\ certificate.schema = CertificateSchema(d)
      /\ certificate.checks = IssuedChecks(d)
      /\ certificate.files = OldHashes(Artifacts(d))
  BY <1>2 DEF EvidenceInv, FilesKnown, MeasuresKnown, LockKnown, CertificateKnown, Rendered
<1>4. kept = {"scene_spec", "build_lock", "certificate", "reports", "status"}
             \cup Model \cup Needed(d)
  BY DEF Present, Drawing
<1>5. /\ \A f \in Files : written[f] = IF f \in kept THEN 1 ELSE 0
      /\ \A f \in Files : lock.files[f] = IF f \in Model \cup Needed(d) THEN 1 ELSE 0
      /\ \A f \in Files : certificate.files[f] = IF f \in Artifacts(d) THEN 1 ELSE 0
  BY <1>3, OldHashesAre
<1> HIDE DEF kept
<1>6. /\ {"scene_spec", "build_lock", "certificate", "reports", "status", "glb"} \subseteq Files
      /\ Model \subseteq Files /\ Families \subseteq Files /\ Needed(d) \subseteq Families
      /\ Artifacts(d) \subseteq kept /\ Artifacts(d) \subseteq Files /\ "glb" \in Model
      /\ kept \subseteq Files
  BY <1>1, <1>4, NeededIs DEF Files, Model, Artifacts, Base, CertifiedFamilies
<1>7. /\ written["scene_spec"] = 1 /\ written["build_lock"] = 1 /\ written["certificate"] = 1
      /\ written["reports"] = 1 /\ written["status"] = 1 /\ written["glb"] = 1
  BY <1>4, <1>5, <1>6
<1>8. Required = Needed(d) \cap Covers(CertificateSchema(d))
  BY <1>3 DEF Required
<1>9. ASSUME Cognitive(d)
      PROVE  ~ChecksComplete
  <2>1. CertificateSchema(d) = "1.3.0"
    BY <1>9 DEF CertificateSchema
  <2>2. "geometry_program_mesh_coverage_complete" \in certificate.checks
    BY <1>3, <1>9 DEF IssuedChecks
  <2>3. "geometry_program_mesh_coverage_complete"
           \notin RequiredChecks("1.3.0", "constraint_evidence" \in Required)
    BY DEF RequiredChecks
  <2> QED BY <1>3, <2>1, <2>2, <2>3 DEF ChecksComplete
<1>10. ASSUME d.access, ~ProofRequired(d)
       PROVE  ~ChecksComplete
  <2>1. CertificateSchema(d) = "1.5.0" /\ ~Cognitive(d)
    BY <1>10 DEF CertificateSchema, Cognitive
  <2>2. "component_proofs" \notin Needed(d)
    BY <1>1, <1>10, NeededIs DEF ProofRequired
  <2>3. certificate.checks = BlueprintChecks \cup CertifiedFamilies(d)
    BY <1>3, <2>1 DEF IssuedChecks
  <2>4. "component_proofs" \notin certificate.checks
    BY <2>2, <2>3 DEF BlueprintChecks, RequirementChecks, CertifiedFamilies
  <2>5. "component_proofs" \in RequiredChecks("1.5.0", "constraint_evidence" \in Required)
    BY DEF RequiredChecks
  <2> QED BY <1>3, <2>1, <2>4, <2>5 DEF ChecksComplete
<1>11. InputsOfPlan <=> "exact" \notin d.programs
  <2>1. "exact" \notin Exact(d)
    BY RolesAre DEF Exact
  <2>2. InputsOfPlan <=> Exact(d) \cup (d.programs \cap {"exact"}) = Exact(d)
    BY <1>3 DEF InputsOfPlan, TrustedInputs
  <2> QED BY <2>1, <2>2
<1>12. LockHolds /\ FilesCertified
  <2>1. \A f \in Files : lock.files[f] # 0 => written[f] = lock.files[f]
    BY <1>4, <1>5
  <2>2. {"glb", "preview", "metadata"} \subseteq {f \in Files : lock.files[f] # 0}
    BY <1>5, <1>6 DEF Model
  <2>3. FilesCertified
    BY <1>5, <1>6 DEF FilesCertified
  <2> QED BY <2>1, <2>2, <2>3 DEF LockHolds
<1>13. LockVerified <=> InputsOfPlan
  <2>1. written["component_proofs"] # 0 => lock.files["component_proofs"] # 0
    <3>1. "component_proofs" \in Files
      BY DEF Files, Families
    <3>2. "component_proofs" \in kept => "component_proofs" \in Needed(d)
      BY <1>4 DEF Model
    <3> QED BY <1>5, <3>1, <3>2
  <2>2. design.access => lock.files["tower_access_evidence"] # 0
    <3>1. "tower_access_evidence" \in Files
      BY DEF Files, Families, Measurements
    <3>2. design.access => "tower_access_evidence" \in Needed(d)
      BY <1>1, NeededIs
    <3> QED BY <1>5, <3>1, <3>2
  <2> QED BY <1>3, <1>7, <1>12, <2>1, <2>2 DEF LockVerified
<1>14. \A f \in Measurements \cap Needed(d) : MeasuredThis(f)
  <2>1. \A f \in Measurements \cap Needed(d) : written[f] = 1
    BY <1>4, <1>5, <1>6
  <2> QED BY <1>3, <1>7, <2>1 DEF MeasuredThis
<1>15. PreviewsVerified
  <2>1. SectorPreviewRequired(design) => "sector_previews" \in Measurements \cap Needed(d)
    BY <1>1, NeededIs DEF SectorPreviewRequired, Measurements
  <2> QED BY <1>14, <2>1 DEF PreviewsVerified
<1>16. ASSUME ~Cognitive(d), ~(d.access /\ ~ProofRequired(d))
       PROVE  PersistedVersion(luck) <=> InputsOfPlan
  <2>1. /\ IssuedChecks(d)
              = RequiredChecks(CertificateSchema(d), "constraint_evidence" \in Required)
        /\ Artifacts(d) = ExpectedArtifacts(CertificateSchema(d), Required)
        /\ CertificateSchema(d) = "1.5.0" => "tower_access_evidence" \in Required
        /\ CertificateSchema(d) = "1.4.0" => "constraint_evidence" \in Required
    BY <1>1, <1>8, <1>16, ContractIsMet
  <2>2. ChecksComplete
    BY <1>3, <2>1 DEF ChecksComplete
  <2>3. ArtifactsComplete
    <3>1. {f \in Files : certificate.files[f] # 0} = Artifacts(d)
      BY <1>5, <1>6
    <3> QED BY <1>3, <2>1, <3>1 DEF ArtifactsComplete
  <2>4. \A f \in Required \cap Measurements : MeasuredThis(f)
    BY <1>8, <1>14
  <2> QED BY <1>3, <1>7, <1>12, <1>13, <1>15, <2>1, <2>2, <2>3, <2>4
          DEF PersistedVersion, Reads
<1>17. PersistedVersion(luck) <=> ~Contradicted(design)
  <2>1. PersistedVersion(luck) => ChecksComplete
    BY DEF PersistedVersion
  <2> QED BY <1>9, <1>10, <1>11, <1>16, <2>1 DEF Contradicted
<1> QED BY <1>5, <1>7, <1>17

(* Publication: what is published untouched is sound for every later read. *)
LEMMA PublishKeeps ==
    ASSUME WorkerInv, EvidenceInv, Publish
    PROVE  EvidenceInv'
<1>1. /\ phase = "publish" /\ UNCHANGED <<design, mode, drawn, records>>
      /\ UNCHANGED <<written, damages, measured, lock, certificate, answer>>
  BY DEF Publish, Library0
<1>2. PICK luck \in BOOLEAN :
        IF PersistedVersion(luck) /\ (ReportsBound => written["reports"] # 0)
        THEN /\ phase' = "published" /\ proof' = written["reports"]
             /\ publication' = [certificate |-> written["certificate"],
                                status |-> written["status"], files |-> certificate.files]
        ELSE phase' = "refused" /\ UNCHANGED <<proof, publication>>
  BY DEF Publish
<1>3. phase' \in {"published", "refused"} /\ EvidenceTypes /\ Promises
  BY <1>2 DEF EvidenceInv, Promises
<1>4. ~answer.asked /\ ~answer.verified
  BY <1>1, <1>3 DEF EvidenceTypes
<1>5. EvidenceTypes'
  BY <1>1, <1>3, <1>4 DEF EvidenceTypes, Issued, Ended
<1>6. FilesKnown' /\ MeasuresKnown' /\ LockKnown' /\ CertificateKnown'
  BY <1>3 DEF FilesKnown, MeasuresKnown, LockKnown, CertificateKnown, Untouched, Drawing, Rendered
<1>7. CertifiedIsDrawn' /\ CertifiedWasMeasured'
  <2>1. CertifiedIsDrawn'
    BY <1>1, <1>3 DEF Promises, CertifiedIsDrawn, Issued, Built
  <2>2. CertifiedWasMeasured'
    BY <1>1, <1>3 DEF Promises, CertifiedWasMeasured, Issued
  <2> QED BY <2>1, <2>2
<1>8. IntactIsServed' /\ VerifiedMeansWhole'
  BY <1>1, <1>4 DEF IntactIsServed, VerifiedMeansWhole
<1>9. SoundBuildsArePublished' /\ PublishedSound'
  <2>1. CASE damages # 0
    BY <1>1, <2>1 DEF SoundBuildsArePublished, PublishedSound
  <2>2. CASE damages = 0
    <3>1. /\ PersistedVersion(luck) <=> ~Contradicted(design)
          /\ \A f \in Files : written[f] \in {0, 1}
          /\ written["reports"] = 1
      BY <1>1, <2>2, PublicationDecides
    <3>2. phase' = "refused" <=> Contradicted(design)
      BY <1>2, <3>1
    <3>3. ASSUME phase' = "published"
          PROVE  Sound'
      <4>1. /\ PersistedVersion(luck) /\ proof' = written["reports"]
            /\ publication' = [certificate |-> written["certificate"],
                               status |-> written["status"], files |-> certificate.files]
        BY <1>2, <3>3
      <4>2. PersistedVersion(TRUE)
        BY <1>1, <2>2, <3>1, <4>1, PublicationDecides
      <4>3. PersistedVersion(TRUE)'
        BY <1>1, <4>2, VersionRests
      <4>4. /\ publication'.certificate = written["certificate"]
            /\ publication'.status = written["status"] /\ publication'.files = certificate.files
        BY <4>1
      <4>5. ReportsVerified'
        BY <1>1, <3>1, <4>1 DEF ReportsVerified
      <4> QED BY <1>1, <3>1, <4>3, <4>4, <4>5 DEF Sound
    <3> QED BY <1>1, <3>2, <3>3 DEF SoundBuildsArePublished, PublishedSound
  <2> QED BY <2>1, <2>2
<1> QED BY <1>5, <1>6, <1>7, <1>8, <1>9 DEF EvidenceInv

(* What a read verifies is whole, and it verifies what is sound.           *)
LEMMA VerifiedIsWhole ==
    ASSUME WorkerTypes, NEW luck, PersistedVersion(luck), ReportsVerified,
           written["status"] = publication.status, certificate.files = publication.files
    PROVE  /\ ReportsBound => written["reports"] = proof
           /\ \A f \in Base : written[f] = publication.files[f]
           /\ \A f \in Needed(design) \ Gaps :
                 written[f] # 0 /\ (f \in Measurements => measured[f] = written["glb"])
<1>1. /\ FilesCertified /\ ArtifactsComplete /\ PreviewsVerified
      /\ \A f \in Required \cap Measurements : MeasuredThis(f)
  BY DEF PersistedVersion
<1>2. /\ Base \subseteq ExpectedArtifacts(certificate.schema, Required)
      /\ Required \subseteq ExpectedArtifacts(certificate.schema, Required)
      /\ design \in Scene
  BY ExpectedIs DEF WorkerTypes, Required
<1>3. \A f \in Base \cup Required : f \in Files /\ certificate.files[f] # 0
  BY <1>1, <1>2 DEF ArtifactsComplete
<1>4. \A f \in Base \cup Required : written[f] = certificate.files[f] /\ written[f] # 0
  BY <1>1, <1>3 DEF FilesCertified
<1>5. ASSUME NEW f \in Needed(design) \ Gaps
      PROVE  written[f] # 0 /\ (f \in Measurements => measured[f] = written["glb"])
  <2>1. CASE f = "sector_previews"
    <3>1. SectorPreviewRequired(design) /\ PreviewsGap = {}
      BY <1>2, <1>5, <2>1, NeededIs DEF Gaps, PreviewsGap, SectorPreviewRequired
    <3> QED BY <1>1, <2>1, <3>1 DEF PreviewsVerified, MeasuredThis
  <2>2. CASE f # "sector_previews"
    <3>1. f \in Required
      BY <1>5, <2>2 DEF Gaps, Uncovered, Required
    <3> QED BY <1>1, <1>4, <3>1 DEF MeasuredThis
  <2> QED BY <2>1, <2>2
<1> QED BY <1>4, <1>5 DEF ReportsVerified

(* A read of the published version answers as promised.                    *)
LEMMA ReadKeeps ==
    ASSUME WorkerInv, EvidenceInv, ReadPublished
    PROVE  EvidenceInv'
<1>1. /\ phase = "published" /\ phase' = phase
      /\ UNCHANGED <<design, mode, drawn, records, written, damages, measured, lock, certificate,
                     proof, publication>>
  BY DEF ReadPublished, buildVars
<1>2. PICK luck \in BOOLEAN :
        LET verified == /\ PersistedVersion(luck) /\ ReportsVerified
                        /\ written["status"] = publication.status
                        /\ written["certificate"] = publication.certificate
                        /\ certificate.files = publication.files
        IN  answer' = [asked |-> TRUE, verified |-> verified,
                       gaps |-> IF verified THEN Gaps ELSE {}]
  BY DEF ReadPublished
<1> DEFINE verified == /\ PersistedVersion(luck) /\ ReportsVerified
                       /\ written["status"] = publication.status
                       /\ written["certificate"] = publication.certificate
                       /\ certificate.files = publication.files
<1>3. /\ answer'.asked /\ answer'.verified = verified
      /\ answer'.gaps = IF verified THEN Gaps ELSE {}
  BY <1>2
<1>4. EvidenceTypes /\ Promises
  BY DEF EvidenceInv, Promises
<1>5. EvidenceTypes'
  BY <1>1, <1>4 DEF EvidenceTypes, Issued
<1>6. FilesKnown' /\ MeasuresKnown' /\ LockKnown' /\ CertificateKnown'
  BY <1>1 DEF FilesKnown, MeasuresKnown, LockKnown, CertificateKnown, Untouched, Drawing, Rendered
<1>7. SoundBuildsArePublished'
  BY <1>1, <1>4 DEF Promises, SoundBuildsArePublished, Built
<1>8. CertifiedIsDrawn' /\ CertifiedWasMeasured'
  <2>1. CertifiedIsDrawn'
    BY <1>1, <1>4 DEF Promises, CertifiedIsDrawn, Issued, Built
  <2>2. CertifiedWasMeasured'
    BY <1>1, <1>4 DEF Promises, CertifiedWasMeasured, Issued
  <2> QED BY <2>1, <2>2
<1>9. PublishedSound'
  <2>1. PersistedVersion(TRUE)' <=> PersistedVersion(TRUE)
    BY <1>1, VersionRests
  <2>2. ReportsVerified' <=> ReportsVerified
    BY <1>1 DEF ReportsVerified, ReportsBound
  <2> QED BY <1>1, <1>4, <2>1, <2>2 DEF Promises, PublishedSound, Sound
<1>10. IntactIsServed'
  <2>1. ASSUME damages = 0
        PROVE  verified
    <3>1. Sound
      BY <1>1, <1>4, <2>1 DEF Promises, PublishedSound
    <3>2. {"certificate", "status"} \subseteq Files
      BY DEF Files
    <3>3. Reads("certificate", luck) /\ Reads("status", luck)
      BY <3>1, <3>2 DEF Sound, PersistedVersion, Reads
    <3> QED BY <3>1, <3>3 DEF Sound, PersistedVersion
  <2> QED BY <1>1, <1>3, <2>1 DEF IntactIsServed
<1>11. VerifiedMeansWhole'
  <2>1. ASSUME verified
        PROVE  /\ ReportsBound => written["reports"] = proof
               /\ \A f \in Base : written[f] = publication.files[f]
               /\ \A f \in Needed(design) \ Gaps :
                     written[f] # 0 /\ (f \in Measurements => measured[f] = written["glb"])
    <3>1. WorkerTypes
      BY DEF WorkerInv
    <3> QED BY <2>1, <3>1, VerifiedIsWhole
  <2>2. answer'.verified => verified /\ answer'.gaps = Gaps
    BY <1>3
  <2> HIDE DEF verified
  <2>3. verified => written["status"] = publication.status
    BY DEF verified
  <2> QED BY <1>1, <2>1, <2>2, <2>3 DEF VerifiedMeansWhole, ReportsBound
<1> QED BY <1>5, <1>6, <1>7, <1>8, <1>9, <1>10, <1>11 DEF EvidenceInv

(* An altered file ends what is promised of an untouched version.          *)
LEMMA DamageKeeps ==
    ASSUME WorkerInv, EvidenceInv, Damage
    PROVE  EvidenceInv'
<1>1. /\ UNCHANGED <<design, phase, mode, drawn, records>>
      /\ UNCHANGED <<measured, lock, certificate, proof, publication>>
      /\ damages < MaxDamages /\ damages' = damages + 1 /\ answer' = NoAnswer
  BY DEF Damage, buildVars
<1>2. EvidenceTypes /\ Promises
  BY DEF EvidenceInv, Promises
<1>3. damages' # 0 /\ damages' \in 0..MaxDamages
  BY <1>1, <1>2, PublishedAssumption DEF EvidenceTypes
<1>4. ~answer'.asked /\ ~answer'.verified
  BY <1>1 DEF NoAnswer
<1>5. written' \in HashSet
  <2>1. PICK f \in Files, content \in {0, 2} : written' = [written EXCEPT ![f] = content]
    BY DEF Damage
  <2>2. written \in [Files -> 0..2] /\ content \in 0..2
    BY <1>2 DEF EvidenceTypes, HashSet
  <2> QED BY <2>1, <2>2 DEF HashSet
<1>6. EvidenceTypes'
  BY <1>1, <1>2, <1>3, <1>4, <1>5 DEF EvidenceTypes, Issued
<1>7. FilesKnown' /\ MeasuresKnown' /\ LockKnown' /\ CertificateKnown'
  BY <1>3 DEF FilesKnown, MeasuresKnown, LockKnown, CertificateKnown, Untouched
<1>8. CertifiedIsDrawn'
  BY <1>1, <1>2 DEF Promises, CertifiedIsDrawn, Issued, Built
<1>9. CertifiedWasMeasured'
  BY <1>1, <1>2 DEF Promises, CertifiedWasMeasured, Issued
<1>10. /\ PublishedSound' /\ SoundBuildsArePublished' /\ IntactIsServed' /\ VerifiedMeansWhole'
  BY <1>3, <1>4 DEF PublishedSound, SoundBuildsArePublished, IntactIsServed, VerifiedMeansWhole
<1> QED BY <1>6, <1>7, <1>8, <1>9, <1>10 DEF EvidenceInv

(* The invariant of a build and of the version it becomes.                 *)
LEMMA VersionKeeps ==
    ASSUME VersionInv, [VersionNext]_versionVars
    PROVE  VersionInv'
<1>1. WorkerInv /\ EvidenceInv
  BY DEF VersionInv
<1>2. WorkerInv'
  BY <1>1, WorkerKeeps
<1>3. CASE \/ Work \/ EditWhileBuilding \/ InspectionFails \/ CompareLock \/ CheckCertificate
           \/ UNCHANGED versionVars
  BY <1>1, <1>2, <1>3, WorkRests DEF VersionInv
<1>4. CASE RunWithoutBlender
  BY <1>1, <1>2, <1>4, FallbackKeeps DEF VersionInv
<1>5. CASE Export
  BY <1>1, <1>2, <1>5, ExportKeeps DEF VersionInv
<1>6. CASE InspectModel
  BY <1>1, <1>2, <1>6, InspectKeeps DEF VersionInv
<1>7. CASE MeasureViews
  BY <1>1, <1>2, <1>7, MeasureKeeps DEF VersionInv
<1>8. CASE WriteLock
  BY <1>1, <1>2, <1>8, LockKeeps DEF VersionInv
<1>9. CASE Certify
  BY <1>1, <1>2, <1>9, CertifyKeeps DEF VersionInv
<1>10. CASE Publish
  BY <1>1, <1>2, <1>10, PublishKeeps DEF VersionInv
<1>11. CASE ReadPublished
  BY <1>1, <1>2, <1>11, ReadKeeps DEF VersionInv
<1>12. CASE Damage
  BY <1>1, <1>2, <1>12, DamageKeeps DEF VersionInv
<1> QED BY <1>3, <1>4, <1>5, <1>6, <1>7, <1>8, <1>9, <1>10, <1>11, <1>12
        DEF VersionNext, Runner

(* The invariant holds of every build and of every version.                *)
LEMMA VersionSafe == VersionSpec => []VersionInv
BY VersionBegins, VersionKeeps, PTL DEF VersionSpec

(* A certificate is issued only of a whole drawing by Blender, each piece  *)
(* once, nothing of a failed import left, imported from the content that   *)
(* was pinned or from a file put back meanwhile, and its measurements were *)
(* taken of the model it names (generate_scene.py, blender_runner.py,      *)
(* completion_certificate.py): for every scene, however often the library  *)
(* is edited under the build and whichever files are altered.              *)
THEOREM CertificatesAreTrue == VersionSpec => []CertifiedIsTrue
<1>1. VersionInv => CertifiedIsTrue
  <2>1. ASSUME VersionInv
        PROVE  BuildTypeOK
    <3>1. WorkerTypes /\ EvidenceTypes
      BY <2>1 DEF VersionInv, WorkerInv, EvidenceInv
    <3>2. DOMAIN disk = Sources(design)
      BY <3>1 DEF WorkerTypes
    <3>3. phase \in {"check", "draw", "prove", "export", "inspect", "measure", "lock", "compare",
                     "certify", "check_certificate", "publish"} \cup Ended
      BY <3>1 DEF WorkerTypes, Drawing, Rendered
    <3>4. {f \in Files : lock.files[f] # 0} \subseteq {"glb", "preview", "metadata"} \cup Families
      BY <3>1 DEF EvidenceTypes, Model
    <3> QED BY <3>1, <3>2, <3>3, <3>4 DEF BuildTypeOK, WorkerTypes, EvidenceTypes
  <2> QED BY <2>1 DEF VersionInv, WorkerInv, EvidenceInv, CertifiedIsTrue
<1> QED BY <1>1, VersionSafe, PTL

(* Publication refuses a build nobody touched only where its certificate   *)
(* or its lock contradicts the verifier, whatever the scene                *)
(* (completion_certificate.py, scene_versioning.py).                       *)
THEOREM SoundVersionsArePublished == VersionSpec => []SoundBuildsArePublished
<1>1. VersionInv => SoundBuildsArePublished
  BY DEF VersionInv, EvidenceInv
<1> QED BY <1>1, VersionSafe, PTL

(* A read verifies every version nobody touched, those of earlier releases *)
(* under the contract of their own schema, and what it verifies is whole   *)
(* or names its gaps, whichever files were altered (scene_versioning.py).  *)
THEOREM ReadsVouch == VersionSpec => []VerifiedReads
<1>1. VersionInv => VerifiedReads
  BY DEF VersionInv, EvidenceInv, VerifiedReads
<1> QED BY <1>1, VersionSafe, PTL
=============================================================================
