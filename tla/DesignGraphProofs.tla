------------------------- MODULE DesignGraphProofs -------------------------
(***************************************************************************)
(* For any number of runs, payload files, errors and deaths: a run that    *)
(* answers completed is proved about one scene and one whole drawing, and  *)
(* Blender draws nothing that was not validated and let through.           *)
(*                                                                         *)
(* The argument. The scene changes only at nodes before the first gate,    *)
(* where no later proof is in the state (Clean); so a proof is about the   *)
(* scene in the state or absent (Anchored), and the certificate, which     *)
(* reads verdicts and no scene, is about that scene too (Issued). The      *)
(* directory is whole when generate says so (Promoted).                    *)
(***************************************************************************)
EXTENDS DesignGraph, TLAPS

Fresh == {"infer", "plan_design", "plan_geometry", "compile", "prepare_revision", "extract",
          "retrieve", "recall", "decide", "select", "asset_fallback", "validate_requirements",
          "compose", "plan_scene", "generated_geometry"}
Early == Fresh \cup {"validate_scene", "validate_cognitive", "repair", "pre_gate"}
Later == {"generate", "qa", "post_gate", "certify"}

\* The numbers of the scenes, as far as the bounds of their types need them.
Numbered ==
    /\ at \in Fresh \ {"generated_geometry", "prepare_revision"} =>
          scene = IF entry = "scene_revision" THEN 2 ELSE 0
    /\ at = "prepare_revision" => entry = "scene_revision"
    /\ at = "plan_scene" => entry # "scene_revision"
    /\ at = "generated_geometry" => scene = 1
    /\ at \in Fresh => repairs = 0
    /\ at \in {"validate_scene", "repair"} => repairs <= 1 /\ scene <= 2 + repairs

\* Where the scene may still change, nothing is proved of it.
Clean ==
    /\ at \in Early => gated = 0 /\ inspected = 0 /\ released = 0 /\ step = "idle"
                         /\ mode = "none"
    /\ at \in Early \cup Later => certified = 0
    /\ at \in Fresh => validated = 0
    /\ at = "repair" /\ sound # "sound" => validated = 0

Anchored ==
    /\ validated \in {0, scene} /\ gated \in {0, scene} /\ inspected \in {0, scene}
    /\ released \in {0, scene}

Drawn ==
    /\ step # "idle" => drawing = scene
    /\ step # "idle" \/ at = "generate" => gated = scene /\ validated = scene /\ accepted

Promoted ==
    /\ step = "recheck" \/ mode = "real_blender" =>
          /\ lock = [by |-> attempt, scene |-> drawing]
          /\ \A i \in 1 .. Payload : files[i] = attempt
    /\ mode = "real_blender" => step = "done"
    /\ step = "stage" => attempt \in 1 .. 3

Issued ==
    certified # 0 =>
        /\ scene # 0 /\ validated = scene /\ gated = scene /\ inspected = scene
        /\ released = scene /\ certified = scene
        /\ mode = "real_blender" /\ step = "done"

Answered == result = "completed" => certified # 0 /\ at = "idle"

\* TypeOK in parts, each within the reach of one prover.
RunTyped ==
    /\ run \in 0 .. Runs /\ entry \in Entries
    /\ at \in Nodes \cup Idle \cup {"end", "raised"}
    /\ sound \in Conditions /\ requested \in {"none", "clean", "repaired"}
    /\ report \in {"none", "passed", "failed"} /\ result \in {"none", "completed", "failed"}
Flags == plan \in BOOLEAN /\ blueprint \in BOOLEAN /\ accepted \in BOOLEAN /\ recorded \in BOOLEAN
Counted ==
    /\ scene \in 0 .. MaxScene /\ repairs \in 0 .. MaxRepairs
    /\ validated \in Proofs /\ gated \in Proofs /\ inspected \in Proofs
    /\ released \in Proofs /\ certified \in Proofs
Stored == threads \subseteq 1 .. Runs /\ kept \subseteq 1 .. Runs
Scalars ==
    /\ step \in Steps /\ attempt \in 0 .. 3 /\ drawing \in 0 .. MaxScene
    /\ scene_file \in 0 .. Altered /\ mode \in {"none", "real_blender"} \cup Fallbacks
    /\ troubles \in 0 .. MaxTroubles
Staged == staging \subseteq 1 .. 3
Filed  == files \in [1 .. Payload -> Made]
Locked == lock \in [by : 0 .. 3, scene : 0 .. MaxScene]
Threaded == at \notin {"idle"} => run \in 1 .. Runs

IInv == TypeOK /\ Numbered /\ Clean /\ Anchored /\ Drawn /\ Promoted /\ Issued /\ Answered
        /\ Threaded

USE DEF request, proofs, decided, shape, counters, store, disk, build

\* The scenes are numbered by the route that made them.
LEMMA NumberedStep == (TypeOK /\ Numbered) /\ [Next]_vars => Numbered'
  <1> SUFFICES ASSUME (TypeOK /\ Numbered), [Next]_vars
        PROVE  Numbered'
    OBVIOUS
  <1> USE GraphAssumption, BuildAssumption DEF TypeOK, Numbered, Fresh
  <1>1. CASE \E e \in Entries : Begin(e)
    BY <1>1 DEF Begin, FirstNode, Entries, NewDirectory, Empty, Unlocked
  <1>2. CASE InferDomain \/ PlanDesign \/ PlanGeometry \/ Compile
    BY <1>2 DEF InferDomain, PlanDesign, PlanGeometry, Compile, Goto, Fail
  <1>3. CASE ValidateCognitive \/ PrepareRevision
    BY <1>3 DEF ValidateCognitive, PrepareRevision, Goto, Fail
  <1>4. CASE Extract \/ Retrieve \/ Recall \/ DecideContext \/ Select \/ AssetFallback
    BY <1>4 DEF Extract, Retrieve, Recall, DecideContext, Select, AssetFallback, Goto, Fail
  <1>5. CASE ValidateRequirements \/ Compose \/ PlanScene \/ GeneratedGeometry
    BY <1>5 DEF ValidateRequirements, Compose, PlanScene, GeneratedGeometry, Goto, Fail
  <1>6. CASE ValidateScene \/ Repair
    BY <1>6 DEF ValidateScene, Repair, Goto, MaxRepairs
  <1>7. CASE PreGate \/ Qa
    BY <1>7 DEF PreGate, Qa, Goto, Fail, MayDraw, MaxRepairs, DrawingPasses, Real, Whole
  <1>8. CASE PostGate \/ Certify
    BY <1>8 DEF PostGate, Certify, Goto, Fail, MayCertify, Proved, Real, Whole
  <1>9. CASE Failure \/ MemoryWriteback \/ Finish
    BY <1>9 DEF Failure, MemoryWriteback, Finish, Goto, Release, Trouble, Answer
  <1>10. CASE Raise \/ Die \/ Restart
    BY <1>10 DEF Raise, Die, Restart, Trouble, Goto, Idle
  <1>11. CASE Generate
    <2>1. CASE Open(scene) \/ Resolve \/ Stage \/ Run
      BY <1>11, <2>1, SMTT(30) DEF Generate, Open, Resolve, Stage, Run, Retry, Discard
    <2>2. CASE Check \/ Seal \/ Verify \/ Compare
      BY <1>11, <2>2, SMTT(30) DEF Generate, Check, Seal, Verify, Compare, Retry, Discard
    <2>3. CASE Promote
      BY <1>11, <2>3, SMTT(30) DEF Generate, Promote, Discard
    <2>4. CASE Recheck \/ Clear
      BY <1>11, <2>4, SMTT(30) DEF Generate, Recheck, Clear, Retry
    <2>5. CASE step \in {"done", "raised"}
      BY <1>11, <2>5 DEF Generate, Goto, Open, BuildStep, Resolve, Stage, Run, Check, Seal,
         Verify, Compare, Promote, Recheck, Clear
    <2> QED  BY <1>11, <2>1, <2>2, <2>3, <2>4, <2>5 DEF Generate, BuildStep
  <1>12. CASE Disturb
    BY <1>12 DEF Disturb, Break, Alter, Trouble
  <1>13. CASE UNCHANGED vars
    BY <1>13 DEF vars
  <1> QED  BY <1>1, <1>2, <1>3, <1>4, <1>5, <1>6, <1>7, <1>8, <1>9, <1>10, <1>11, <1>12, <1>13
     DEF Next, Work

\* Nothing is proved of a scene that may still change.
LEMMA CleanStep == (TypeOK /\ Numbered /\ Clean) /\ [Next]_vars => Clean'
  <1> SUFFICES ASSUME (TypeOK /\ Numbered /\ Clean), [Next]_vars
        PROVE  Clean'
    OBVIOUS
  <1> USE GraphAssumption, BuildAssumption DEF Clean, Fresh, Early, Later
  <1>1. CASE \E e \in Entries : Begin(e)
    BY <1>1 DEF Begin, FirstNode, Entries, NewDirectory, Empty, Unlocked
  <1>2. CASE InferDomain \/ PlanDesign \/ PlanGeometry \/ Compile
    BY <1>2 DEF InferDomain, PlanDesign, PlanGeometry, Compile, Goto, Fail
  <1>3. CASE ValidateCognitive \/ PrepareRevision
    BY <1>3 DEF ValidateCognitive, PrepareRevision, Goto, Fail
  <1>4. CASE Extract \/ Retrieve \/ Recall \/ DecideContext \/ Select \/ AssetFallback
    BY <1>4 DEF Extract, Retrieve, Recall, DecideContext, Select, AssetFallback, Goto, Fail
  <1>5. CASE ValidateRequirements \/ Compose \/ PlanScene \/ GeneratedGeometry
    BY <1>5 DEF ValidateRequirements, Compose, PlanScene, GeneratedGeometry, Goto, Fail
  <1>6. CASE ValidateScene \/ Repair
    BY <1>6 DEF ValidateScene, Repair, Goto, MaxRepairs
  <1>7. CASE PreGate \/ Qa
    BY <1>7 DEF PreGate, Qa, Goto, Fail, MayDraw, MaxRepairs, DrawingPasses, Real, Whole
  <1>8. CASE PostGate \/ Certify
    BY <1>8 DEF PostGate, Certify, Goto, Fail, MayCertify, Proved, Real, Whole
  <1>9. CASE Failure \/ MemoryWriteback \/ Finish
    BY <1>9 DEF Failure, MemoryWriteback, Finish, Goto, Release, Trouble, Answer
  <1>10. CASE Raise \/ Die \/ Restart
    BY <1>10 DEF Raise, Die, Restart, Trouble, Goto, Idle
  <1>11. CASE Generate
    <2>1. CASE Open(scene) \/ Resolve \/ Stage \/ Run
      BY <1>11, <2>1, SMTT(30) DEF Generate, Open, Resolve, Stage, Run, Retry, Discard
    <2>2. CASE Check \/ Seal \/ Verify \/ Compare
      BY <1>11, <2>2, SMTT(30) DEF Generate, Check, Seal, Verify, Compare, Retry, Discard
    <2>3. CASE Promote
      BY <1>11, <2>3, SMTT(30) DEF Generate, Promote, Discard
    <2>4. CASE Recheck \/ Clear
      BY <1>11, <2>4, SMTT(30) DEF Generate, Recheck, Clear, Retry
    <2>5. CASE step \in {"done", "raised"}
      BY <1>11, <2>5 DEF Generate, Goto, Open, BuildStep, Resolve, Stage, Run, Check, Seal,
         Verify, Compare, Promote, Recheck, Clear
    <2> QED  BY <1>11, <2>1, <2>2, <2>3, <2>4, <2>5 DEF Generate, BuildStep
  <1>12. CASE Disturb
    BY <1>12 DEF Disturb, Break, Alter, Trouble
  <1>13. CASE UNCHANGED vars
    BY <1>13 DEF vars
  <1> QED  BY <1>1, <1>2, <1>3, <1>4, <1>5, <1>6, <1>7, <1>8, <1>9, <1>10, <1>11, <1>12, <1>13
     DEF Next, Work

\* A proof is about the scene in the state.
LEMMA AnchoredStep == (TypeOK /\ Clean /\ Anchored) /\ [Next]_vars => Anchored'
  <1> SUFFICES ASSUME (TypeOK /\ Clean /\ Anchored), [Next]_vars
        PROVE  Anchored'
    OBVIOUS
  <1> USE GraphAssumption, BuildAssumption DEF Anchored, Clean, Fresh, Early, Later
  <1>1. CASE \E e \in Entries : Begin(e)
    BY <1>1 DEF Begin, FirstNode, Entries, NewDirectory, Empty, Unlocked
  <1>2. CASE InferDomain \/ PlanDesign \/ PlanGeometry \/ Compile
    BY <1>2 DEF InferDomain, PlanDesign, PlanGeometry, Compile, Goto, Fail
  <1>3. CASE ValidateCognitive \/ PrepareRevision
    BY <1>3 DEF ValidateCognitive, PrepareRevision, Goto, Fail
  <1>4. CASE Extract \/ Retrieve \/ Recall \/ DecideContext \/ Select \/ AssetFallback
    BY <1>4 DEF Extract, Retrieve, Recall, DecideContext, Select, AssetFallback, Goto, Fail
  <1>5. CASE ValidateRequirements \/ Compose \/ PlanScene \/ GeneratedGeometry
    BY <1>5 DEF ValidateRequirements, Compose, PlanScene, GeneratedGeometry, Goto, Fail
  <1>6. CASE ValidateScene \/ Repair
    BY <1>6 DEF ValidateScene, Repair, Goto, MaxRepairs
  <1>7. CASE PreGate \/ Qa
    BY <1>7 DEF PreGate, Qa, Goto, Fail, MayDraw, MaxRepairs, DrawingPasses, Real, Whole
  <1>8. CASE PostGate \/ Certify
    BY <1>8 DEF PostGate, Certify, Goto, Fail, MayCertify, Proved, Real, Whole
  <1>9. CASE Failure \/ MemoryWriteback \/ Finish
    BY <1>9 DEF Failure, MemoryWriteback, Finish, Goto, Release, Trouble, Answer
  <1>10. CASE Raise \/ Die \/ Restart
    BY <1>10 DEF Raise, Die, Restart, Trouble, Goto, Idle
  <1>11. CASE Generate
    <2>1. CASE Open(scene) \/ Resolve \/ Stage \/ Run
      BY <1>11, <2>1, SMTT(30) DEF Generate, Open, Resolve, Stage, Run, Retry, Discard
    <2>2. CASE Check \/ Seal \/ Verify \/ Compare
      BY <1>11, <2>2, SMTT(30) DEF Generate, Check, Seal, Verify, Compare, Retry, Discard
    <2>3. CASE Promote
      BY <1>11, <2>3, SMTT(30) DEF Generate, Promote, Discard
    <2>4. CASE Recheck \/ Clear
      BY <1>11, <2>4, SMTT(30) DEF Generate, Recheck, Clear, Retry
    <2>5. CASE step \in {"done", "raised"}
      BY <1>11, <2>5 DEF Generate, Goto, Open, BuildStep, Resolve, Stage, Run, Check, Seal,
         Verify, Compare, Promote, Recheck, Clear
    <2> QED  BY <1>11, <2>1, <2>2, <2>3, <2>4, <2>5 DEF Generate, BuildStep
  <1>12. CASE Disturb
    BY <1>12 DEF Disturb, Break, Alter, Trouble
  <1>13. CASE UNCHANGED vars
    BY <1>13 DEF vars
  <1> QED  BY <1>1, <1>2, <1>3, <1>4, <1>5, <1>6, <1>7, <1>8, <1>9, <1>10, <1>11, <1>12, <1>13
     DEF Next, Work

\* What Blender draws was validated and let through.
LEMMA DrawnStep == (TypeOK /\ Clean /\ Anchored /\ Drawn) /\ [Next]_vars => Drawn'
  <1> SUFFICES ASSUME (TypeOK /\ Clean /\ Anchored /\ Drawn), [Next]_vars
        PROVE  Drawn'
    OBVIOUS
  <1> USE GraphAssumption, BuildAssumption DEF Drawn, Anchored, Clean, Fresh, Early, Later
  <1>1. CASE \E e \in Entries : Begin(e)
    BY <1>1 DEF Begin, FirstNode, Entries, NewDirectory, Empty, Unlocked
  <1>2. CASE InferDomain \/ PlanDesign \/ PlanGeometry \/ Compile
    BY <1>2 DEF InferDomain, PlanDesign, PlanGeometry, Compile, Goto, Fail
  <1>3. CASE ValidateCognitive \/ PrepareRevision
    BY <1>3 DEF ValidateCognitive, PrepareRevision, Goto, Fail
  <1>4. CASE Extract \/ Retrieve \/ Recall \/ DecideContext \/ Select \/ AssetFallback
    BY <1>4 DEF Extract, Retrieve, Recall, DecideContext, Select, AssetFallback, Goto, Fail
  <1>5. CASE ValidateRequirements \/ Compose \/ PlanScene \/ GeneratedGeometry
    BY <1>5 DEF ValidateRequirements, Compose, PlanScene, GeneratedGeometry, Goto, Fail
  <1>6. CASE ValidateScene \/ Repair
    BY <1>6 DEF ValidateScene, Repair, Goto, MaxRepairs
  <1>7. CASE PreGate \/ Qa
    BY <1>7 DEF PreGate, Qa, Goto, Fail, MayDraw, MaxRepairs, DrawingPasses, Real, Whole
  <1>8. CASE PostGate \/ Certify
    BY <1>8 DEF PostGate, Certify, Goto, Fail, MayCertify, Proved, Real, Whole
  <1>9. CASE Failure \/ MemoryWriteback \/ Finish
    BY <1>9 DEF Failure, MemoryWriteback, Finish, Goto, Release, Trouble, Answer
  <1>10. CASE Raise \/ Die \/ Restart
    BY <1>10 DEF Raise, Die, Restart, Trouble, Goto, Idle
  <1>11. CASE Generate
    <2>1. CASE Open(scene) \/ Resolve \/ Stage \/ Run
      BY <1>11, <2>1, SMTT(30) DEF Generate, Open, Resolve, Stage, Run, Retry, Discard
    <2>2. CASE Check \/ Seal \/ Verify \/ Compare
      BY <1>11, <2>2, SMTT(30) DEF Generate, Check, Seal, Verify, Compare, Retry, Discard
    <2>3. CASE Promote
      BY <1>11, <2>3, SMTT(30) DEF Generate, Promote, Discard
    <2>4. CASE Recheck \/ Clear
      BY <1>11, <2>4, SMTT(30) DEF Generate, Recheck, Clear, Retry
    <2>5. CASE step \in {"done", "raised"}
      BY <1>11, <2>5 DEF Generate, Goto, Open, BuildStep, Resolve, Stage, Run, Check, Seal,
         Verify, Compare, Promote, Recheck, Clear
    <2> QED  BY <1>11, <2>1, <2>2, <2>3, <2>4, <2>5 DEF Generate, BuildStep
  <1>12. CASE Disturb
    BY <1>12 DEF Disturb, Break, Alter, Trouble
  <1>13. CASE UNCHANGED vars
    BY <1>13 DEF vars
  <1> QED  BY <1>1, <1>2, <1>3, <1>4, <1>5, <1>6, <1>7, <1>8, <1>9, <1>10, <1>11, <1>12, <1>13
     DEF Next, Work

\* Only generate, and those who disturb it, touch the directory of a run.
LEMMA OnlyGenerate ==
    [Next]_vars =>
        \/ UNCHANGED build /\ (Trouble \/ UNCHANGED troubles)
        \/ (\E e \in Entries : Begin(e)) \/ Generate \/ Disturb
  BY DEF Next, vars, Work, Release, InferDomain, PlanDesign, PlanGeometry, Compile,
     ValidateCognitive, PrepareRevision, Extract, Retrieve, Recall, DecideContext, Select,
     AssetFallback, ValidateRequirements, Compose, PlanScene, GeneratedGeometry, ValidateScene,
     Repair, PreGate, Qa, PostGate, Certify, Failure, MemoryWriteback, Finish, Raise, Die,
     Restart

\* A directory is whole when its lock is in place, and real only once generate is done.
LEMMA PromotedStep == (TypeOK /\ Promoted) /\ [Next]_vars => Promoted'
  <1> SUFFICES ASSUME (TypeOK /\ Promoted), [Next]_vars
        PROVE  Promoted'
    OBVIOUS
  <1> USE GraphAssumption, BuildAssumption DEF TypeOK, BuildTypeOK, Promoted, Unlocked, Empty,
     Absent, Report, Fallbacks
  <1>1. CASE UNCHANGED build /\ (Trouble \/ UNCHANGED troubles)
    BY <1>1 DEF Trouble
  <1>2. CASE \E e \in Entries : Begin(e)
    BY <1>2 DEF Begin, NewDirectory, Empty, Unlocked
  <1>3. CASE Generate
    <2>1. CASE Open(scene) \/ Resolve \/ Stage \/ Run
      BY <1>3, <2>1, SMTT(30) DEF Generate, Open, Resolve, Stage, Run, Retry, Discard
    <2>2. CASE Check \/ Seal \/ Verify \/ Compare
      BY <1>3, <2>2, SMTT(30) DEF Generate, Check, Seal, Verify, Compare, Retry, Discard
    <2>3. CASE Promote
      BY <1>3, <2>3, SMTT(30) DEF Generate, Promote, Discard
    <2>4. CASE Recheck \/ Clear
      BY <1>3, <2>4, SMTT(30) DEF Generate, Recheck, Clear, Retry
    <2>5. CASE UNCHANGED <<build, troubles>>
      BY <2>5
    <2> QED  BY <1>3, <2>1, <2>2, <2>3, <2>4, <2>5 DEF Generate, BuildStep
  <1>4. CASE Disturb
    BY <1>4 DEF Disturb, Break, Alter, Trouble
  <1> QED  BY <1>1, <1>2, <1>3, <1>4, OnlyGenerate

\* The certificate is about the scene in the state.
LEMMA IssuedStep == (TypeOK /\ Clean /\ Anchored /\ Promoted /\ Issued) /\ [Next]_vars => Issued'
  <1> SUFFICES ASSUME (TypeOK /\ Clean /\ Anchored /\ Promoted /\ Issued), [Next]_vars
        PROVE  Issued'
    OBVIOUS
  <1> USE GraphAssumption, BuildAssumption DEF Issued, Promoted, Anchored, Clean, Fresh, Early,
     Later
  <1>1. CASE \E e \in Entries : Begin(e)
    BY <1>1 DEF Begin, FirstNode, Entries, NewDirectory, Empty, Unlocked
  <1>2. CASE InferDomain \/ PlanDesign \/ PlanGeometry \/ Compile
    BY <1>2 DEF InferDomain, PlanDesign, PlanGeometry, Compile, Goto, Fail
  <1>3. CASE ValidateCognitive \/ PrepareRevision
    BY <1>3 DEF ValidateCognitive, PrepareRevision, Goto, Fail
  <1>4. CASE Extract \/ Retrieve \/ Recall \/ DecideContext \/ Select \/ AssetFallback
    BY <1>4 DEF Extract, Retrieve, Recall, DecideContext, Select, AssetFallback, Goto, Fail
  <1>5. CASE ValidateRequirements \/ Compose \/ PlanScene \/ GeneratedGeometry
    BY <1>5 DEF ValidateRequirements, Compose, PlanScene, GeneratedGeometry, Goto, Fail
  <1>6. CASE ValidateScene \/ Repair
    BY <1>6 DEF ValidateScene, Repair, Goto, MaxRepairs
  <1>7. CASE PreGate \/ Qa
    BY <1>7 DEF PreGate, Qa, Goto, Fail, MayDraw, MaxRepairs, DrawingPasses, Real, Whole
  <1>8. CASE PostGate \/ Certify
    BY <1>8 DEF PostGate, Certify, Goto, Fail, MayCertify, Proved, Real, Whole
  <1>9. CASE Failure \/ MemoryWriteback \/ Finish
    BY <1>9 DEF Failure, MemoryWriteback, Finish, Goto, Release, Trouble, Answer
  <1>10. CASE Raise \/ Die \/ Restart
    BY <1>10 DEF Raise, Die, Restart, Trouble, Goto, Idle
  <1>11. CASE Generate
    <2>1. CASE Open(scene) \/ Resolve \/ Stage \/ Run
      BY <1>11, <2>1, SMTT(30) DEF Generate, Open, Resolve, Stage, Run, Retry, Discard
    <2>2. CASE Check \/ Seal \/ Verify \/ Compare
      BY <1>11, <2>2, SMTT(30) DEF Generate, Check, Seal, Verify, Compare, Retry, Discard
    <2>3. CASE Promote
      BY <1>11, <2>3, SMTT(30) DEF Generate, Promote, Discard
    <2>4. CASE Recheck \/ Clear
      BY <1>11, <2>4, SMTT(30) DEF Generate, Recheck, Clear, Retry
    <2>5. CASE step \in {"done", "raised"}
      BY <1>11, <2>5 DEF Generate, Goto, Open, BuildStep, Resolve, Stage, Run, Check, Seal,
         Verify, Compare, Promote, Recheck, Clear
    <2> QED  BY <1>11, <2>1, <2>2, <2>3, <2>4, <2>5 DEF Generate, BuildStep
  <1>12. CASE Disturb
    BY <1>12 DEF Disturb, Break, Alter, Trouble
  <1>13. CASE UNCHANGED vars
    BY <1>13 DEF vars
  <1> QED  BY <1>1, <1>2, <1>3, <1>4, <1>5, <1>6, <1>7, <1>8, <1>9, <1>10, <1>11, <1>12, <1>13
     DEF Next, Work

\* Completed is answered once, with a certificate.
LEMMA AnsweredStep == (TypeOK /\ Clean /\ Answered) /\ [Next]_vars => Answered'
  <1> SUFFICES ASSUME (TypeOK /\ Clean /\ Answered), [Next]_vars
        PROVE  Answered'
    OBVIOUS
  <1> USE GraphAssumption, BuildAssumption DEF Answered, Clean, Fresh, Early, Later
  <1>1. CASE \E e \in Entries : Begin(e)
    BY <1>1 DEF Begin, FirstNode, Entries, NewDirectory, Empty, Unlocked
  <1>2. CASE InferDomain \/ PlanDesign \/ PlanGeometry \/ Compile
    BY <1>2 DEF InferDomain, PlanDesign, PlanGeometry, Compile, Goto, Fail
  <1>3. CASE ValidateCognitive \/ PrepareRevision
    BY <1>3 DEF ValidateCognitive, PrepareRevision, Goto, Fail
  <1>4. CASE Extract \/ Retrieve \/ Recall \/ DecideContext \/ Select \/ AssetFallback
    BY <1>4 DEF Extract, Retrieve, Recall, DecideContext, Select, AssetFallback, Goto, Fail
  <1>5. CASE ValidateRequirements \/ Compose \/ PlanScene \/ GeneratedGeometry
    BY <1>5 DEF ValidateRequirements, Compose, PlanScene, GeneratedGeometry, Goto, Fail
  <1>6. CASE ValidateScene \/ Repair
    BY <1>6 DEF ValidateScene, Repair, Goto, MaxRepairs
  <1>7. CASE PreGate \/ Qa
    BY <1>7 DEF PreGate, Qa, Goto, Fail, MayDraw, MaxRepairs, DrawingPasses, Real, Whole
  <1>8. CASE PostGate \/ Certify
    BY <1>8 DEF PostGate, Certify, Goto, Fail, MayCertify, Proved, Real, Whole
  <1>9. CASE Failure \/ MemoryWriteback \/ Finish
    BY <1>9 DEF Failure, MemoryWriteback, Finish, Goto, Release, Trouble, Answer
  <1>10. CASE Raise \/ Die \/ Restart
    BY <1>10 DEF Raise, Die, Restart, Trouble, Goto, Idle
  <1>11. CASE Generate
    <2>1. CASE Open(scene) \/ Resolve \/ Stage \/ Run
      BY <1>11, <2>1, SMTT(30) DEF Generate, Open, Resolve, Stage, Run, Retry, Discard
    <2>2. CASE Check \/ Seal \/ Verify \/ Compare
      BY <1>11, <2>2, SMTT(30) DEF Generate, Check, Seal, Verify, Compare, Retry, Discard
    <2>3. CASE Promote
      BY <1>11, <2>3, SMTT(30) DEF Generate, Promote, Discard
    <2>4. CASE Recheck \/ Clear
      BY <1>11, <2>4, SMTT(30) DEF Generate, Recheck, Clear, Retry
    <2>5. CASE step \in {"done", "raised"}
      BY <1>11, <2>5 DEF Generate, Goto, Open, BuildStep, Resolve, Stage, Run, Check, Seal,
         Verify, Compare, Promote, Recheck, Clear
    <2> QED  BY <1>11, <2>1, <2>2, <2>3, <2>4, <2>5 DEF Generate, BuildStep
  <1>12. CASE Disturb
    BY <1>12 DEF Disturb, Break, Alter, Trouble
  <1>13. CASE UNCHANGED vars
    BY <1>13 DEF vars
  <1> QED  BY <1>1, <1>2, <1>3, <1>4, <1>5, <1>6, <1>7, <1>8, <1>9, <1>10, <1>11, <1>12, <1>13
     DEF Next, Work

\* A node belongs to a run.
LEMMA ThreadedStep == (TypeOK /\ Threaded) /\ [Next]_vars => Threaded'
  <1> SUFFICES ASSUME (TypeOK /\ Threaded), [Next]_vars
        PROVE  Threaded'
    OBVIOUS
  <1> USE GraphAssumption, BuildAssumption DEF TypeOK, Threaded
  <1>1. CASE \E e \in Entries : Begin(e)
    BY <1>1 DEF Begin, FirstNode, Entries, NewDirectory, Empty, Unlocked
  <1>2. CASE InferDomain \/ PlanDesign \/ PlanGeometry \/ Compile
    BY <1>2 DEF InferDomain, PlanDesign, PlanGeometry, Compile, Goto, Fail
  <1>3. CASE ValidateCognitive \/ PrepareRevision
    BY <1>3 DEF ValidateCognitive, PrepareRevision, Goto, Fail
  <1>4. CASE Extract \/ Retrieve \/ Recall \/ DecideContext \/ Select \/ AssetFallback
    BY <1>4 DEF Extract, Retrieve, Recall, DecideContext, Select, AssetFallback, Goto, Fail
  <1>5. CASE ValidateRequirements \/ Compose \/ PlanScene \/ GeneratedGeometry
    BY <1>5 DEF ValidateRequirements, Compose, PlanScene, GeneratedGeometry, Goto, Fail
  <1>6. CASE ValidateScene \/ Repair
    BY <1>6 DEF ValidateScene, Repair, Goto, MaxRepairs
  <1>7. CASE PreGate \/ Qa
    BY <1>7 DEF PreGate, Qa, Goto, Fail, MayDraw, MaxRepairs, DrawingPasses, Real, Whole
  <1>8. CASE PostGate \/ Certify
    BY <1>8 DEF PostGate, Certify, Goto, Fail, MayCertify, Proved, Real, Whole
  <1>9. CASE Failure \/ MemoryWriteback \/ Finish
    BY <1>9 DEF Failure, MemoryWriteback, Finish, Goto, Release, Trouble, Answer
  <1>10. CASE Raise \/ Die \/ Restart
    BY <1>10 DEF Raise, Die, Restart, Trouble, Goto, Idle
  <1>11. CASE Generate
    <2>1. CASE Open(scene) \/ Resolve \/ Stage \/ Run
      BY <1>11, <2>1, SMTT(30) DEF Generate, Open, Resolve, Stage, Run, Retry, Discard
    <2>2. CASE Check \/ Seal \/ Verify \/ Compare
      BY <1>11, <2>2, SMTT(30) DEF Generate, Check, Seal, Verify, Compare, Retry, Discard
    <2>3. CASE Promote
      BY <1>11, <2>3, SMTT(30) DEF Generate, Promote, Discard
    <2>4. CASE Recheck \/ Clear
      BY <1>11, <2>4, SMTT(30) DEF Generate, Recheck, Clear, Retry
    <2>5. CASE step \in {"done", "raised"}
      BY <1>11, <2>5 DEF Generate, Goto, Open, BuildStep, Resolve, Stage, Run, Check, Seal,
         Verify, Compare, Promote, Recheck, Clear
    <2> QED  BY <1>11, <2>1, <2>2, <2>3, <2>4, <2>5 DEF Generate, BuildStep
  <1>12. CASE Disturb
    BY <1>12 DEF Disturb, Break, Alter, Trouble
  <1>13. CASE UNCHANGED vars
    BY <1>13 DEF vars
  <1> QED  BY <1>1, <1>2, <1>3, <1>4, <1>5, <1>6, <1>7, <1>8, <1>9, <1>10, <1>11, <1>12, <1>13
     DEF Next, Work

\* The types, part by part.
LEMMA RunStep == (TypeOK /\ RunTyped) /\ [Next]_vars => RunTyped'
  <1> SUFFICES ASSUME (TypeOK /\ RunTyped), [Next]_vars
        PROVE  RunTyped'
    OBVIOUS
  <1> USE GraphAssumption, BuildAssumption DEF RunTyped, Nodes, Idle, Conditions
  <1>1. CASE \E e \in Entries : Begin(e)
    BY <1>1 DEF Begin, FirstNode, Entries, NewDirectory, Empty, Unlocked
  <1>2. CASE InferDomain \/ PlanDesign \/ PlanGeometry \/ Compile
    BY <1>2 DEF InferDomain, PlanDesign, PlanGeometry, Compile, Goto, Fail
  <1>3. CASE ValidateCognitive \/ PrepareRevision
    BY <1>3 DEF ValidateCognitive, PrepareRevision, Goto, Fail
  <1>4. CASE Extract \/ Retrieve \/ Recall \/ DecideContext \/ Select \/ AssetFallback
    BY <1>4 DEF Extract, Retrieve, Recall, DecideContext, Select, AssetFallback, Goto, Fail
  <1>5. CASE ValidateRequirements \/ Compose \/ PlanScene \/ GeneratedGeometry
    BY <1>5 DEF ValidateRequirements, Compose, PlanScene, GeneratedGeometry, Goto, Fail
  <1>6. CASE ValidateScene \/ Repair
    BY <1>6 DEF ValidateScene, Repair, Goto, MaxRepairs
  <1>7. CASE PreGate \/ Qa
    BY <1>7 DEF PreGate, Qa, Goto, Fail, MayDraw, MaxRepairs, DrawingPasses, Real, Whole
  <1>8. CASE PostGate \/ Certify
    BY <1>8 DEF PostGate, Certify, Goto, Fail, MayCertify, Proved, Real, Whole
  <1>9. CASE Failure \/ MemoryWriteback \/ Finish
    BY <1>9 DEF Failure, MemoryWriteback, Finish, Goto, Release, Trouble, Answer
  <1>10. CASE Raise \/ Die \/ Restart
    BY <1>10 DEF Raise, Die, Restart, Trouble, Goto, Idle
  <1>11. CASE Generate
    <2>1. CASE Open(scene) \/ Resolve \/ Stage \/ Run
      BY <1>11, <2>1, SMTT(30) DEF Generate, Open, Resolve, Stage, Run, Retry, Discard
    <2>2. CASE Check \/ Seal \/ Verify \/ Compare
      BY <1>11, <2>2, SMTT(30) DEF Generate, Check, Seal, Verify, Compare, Retry, Discard
    <2>3. CASE Promote
      BY <1>11, <2>3, SMTT(30) DEF Generate, Promote, Discard
    <2>4. CASE Recheck \/ Clear
      BY <1>11, <2>4, SMTT(30) DEF Generate, Recheck, Clear, Retry
    <2>5. CASE step \in {"done", "raised"}
      BY <1>11, <2>5 DEF Generate, Goto, Open, BuildStep, Resolve, Stage, Run, Check, Seal,
         Verify, Compare, Promote, Recheck, Clear
    <2> QED  BY <1>11, <2>1, <2>2, <2>3, <2>4, <2>5 DEF Generate, BuildStep
  <1>12. CASE Disturb
    BY <1>12 DEF Disturb, Break, Alter, Trouble
  <1>13. CASE UNCHANGED vars
    BY <1>13 DEF vars
  <1> QED  BY <1>1, <1>2, <1>3, <1>4, <1>5, <1>6, <1>7, <1>8, <1>9, <1>10, <1>11, <1>12, <1>13
     DEF Next, Work

LEMMA FlagsStep == Flags /\ [Next]_vars => Flags'
  <1> SUFFICES ASSUME Flags, [Next]_vars
        PROVE  Flags'
    OBVIOUS
  <1> USE GraphAssumption, BuildAssumption DEF Flags
  <1>1. CASE \E e \in Entries : Begin(e)
    BY <1>1 DEF Begin, FirstNode, Entries, NewDirectory, Empty, Unlocked
  <1>2. CASE InferDomain \/ PlanDesign \/ PlanGeometry \/ Compile
    BY <1>2 DEF InferDomain, PlanDesign, PlanGeometry, Compile, Goto, Fail
  <1>3. CASE ValidateCognitive \/ PrepareRevision
    BY <1>3 DEF ValidateCognitive, PrepareRevision, Goto, Fail
  <1>4. CASE Extract \/ Retrieve \/ Recall \/ DecideContext \/ Select \/ AssetFallback
    BY <1>4 DEF Extract, Retrieve, Recall, DecideContext, Select, AssetFallback, Goto, Fail
  <1>5. CASE ValidateRequirements \/ Compose \/ PlanScene \/ GeneratedGeometry
    BY <1>5 DEF ValidateRequirements, Compose, PlanScene, GeneratedGeometry, Goto, Fail
  <1>6. CASE ValidateScene \/ Repair
    BY <1>6 DEF ValidateScene, Repair, Goto, MaxRepairs
  <1>7. CASE PreGate \/ Qa
    BY <1>7 DEF PreGate, Qa, Goto, Fail, MayDraw, MaxRepairs, DrawingPasses, Real, Whole
  <1>8. CASE PostGate \/ Certify
    BY <1>8 DEF PostGate, Certify, Goto, Fail, MayCertify, Proved, Real, Whole
  <1>9. CASE Failure \/ MemoryWriteback \/ Finish
    BY <1>9 DEF Failure, MemoryWriteback, Finish, Goto, Release, Trouble, Answer
  <1>10. CASE Raise \/ Die \/ Restart
    BY <1>10 DEF Raise, Die, Restart, Trouble, Goto, Idle
  <1>11. CASE Generate
    <2>1. CASE Open(scene) \/ Resolve \/ Stage \/ Run
      BY <1>11, <2>1, SMTT(30) DEF Generate, Open, Resolve, Stage, Run, Retry, Discard
    <2>2. CASE Check \/ Seal \/ Verify \/ Compare
      BY <1>11, <2>2, SMTT(30) DEF Generate, Check, Seal, Verify, Compare, Retry, Discard
    <2>3. CASE Promote
      BY <1>11, <2>3, SMTT(30) DEF Generate, Promote, Discard
    <2>4. CASE Recheck \/ Clear
      BY <1>11, <2>4, SMTT(30) DEF Generate, Recheck, Clear, Retry
    <2>5. CASE step \in {"done", "raised"}
      BY <1>11, <2>5 DEF Generate, Goto, Open, BuildStep, Resolve, Stage, Run, Check, Seal,
         Verify, Compare, Promote, Recheck, Clear
    <2> QED  BY <1>11, <2>1, <2>2, <2>3, <2>4, <2>5 DEF Generate, BuildStep
  <1>12. CASE Disturb
    BY <1>12 DEF Disturb, Break, Alter, Trouble
  <1>13. CASE UNCHANGED vars
    BY <1>13 DEF vars
  <1> QED  BY <1>1, <1>2, <1>3, <1>4, <1>5, <1>6, <1>7, <1>8, <1>9, <1>10, <1>11, <1>12, <1>13
     DEF Next, Work

LEMMA CountedStep == (TypeOK /\ Numbered /\ Counted) /\ [Next]_vars => Counted'
  <1> SUFFICES ASSUME (TypeOK /\ Numbered /\ Counted), [Next]_vars
        PROVE  Counted'
    OBVIOUS
  <1> USE GraphAssumption, BuildAssumption DEF TypeOK, Counted, Numbered, Proofs, MaxRepairs,
     Fresh
  <1>1. CASE \E e \in Entries : Begin(e)
    BY <1>1 DEF Begin, FirstNode, Entries, NewDirectory, Empty, Unlocked
  <1>2. CASE InferDomain \/ PlanDesign \/ PlanGeometry \/ Compile
    BY <1>2 DEF InferDomain, PlanDesign, PlanGeometry, Compile, Goto, Fail
  <1>3. CASE ValidateCognitive \/ PrepareRevision
    BY <1>3 DEF ValidateCognitive, PrepareRevision, Goto, Fail
  <1>4. CASE Extract \/ Retrieve \/ Recall \/ DecideContext \/ Select \/ AssetFallback
    BY <1>4 DEF Extract, Retrieve, Recall, DecideContext, Select, AssetFallback, Goto, Fail
  <1>5. CASE ValidateRequirements \/ Compose \/ PlanScene \/ GeneratedGeometry
    BY <1>5 DEF ValidateRequirements, Compose, PlanScene, GeneratedGeometry, Goto, Fail
  <1>6. CASE ValidateScene \/ Repair
    BY <1>6 DEF ValidateScene, Repair, Goto, MaxRepairs
  <1>7. CASE PreGate \/ Qa
    BY <1>7 DEF PreGate, Qa, Goto, Fail, MayDraw, MaxRepairs, DrawingPasses, Real, Whole
  <1>8. CASE PostGate \/ Certify
    BY <1>8 DEF PostGate, Certify, Goto, Fail, MayCertify, Proved, Real, Whole
  <1>9. CASE Failure \/ MemoryWriteback \/ Finish
    BY <1>9 DEF Failure, MemoryWriteback, Finish, Goto, Release, Trouble, Answer
  <1>10. CASE Raise \/ Die \/ Restart
    BY <1>10 DEF Raise, Die, Restart, Trouble, Goto, Idle
  <1>11. CASE Generate
    <2>1. CASE Open(scene) \/ Resolve \/ Stage \/ Run
      BY <1>11, <2>1, SMTT(30) DEF Generate, Open, Resolve, Stage, Run, Retry, Discard
    <2>2. CASE Check \/ Seal \/ Verify \/ Compare
      BY <1>11, <2>2, SMTT(30) DEF Generate, Check, Seal, Verify, Compare, Retry, Discard
    <2>3. CASE Promote
      BY <1>11, <2>3, SMTT(30) DEF Generate, Promote, Discard
    <2>4. CASE Recheck \/ Clear
      BY <1>11, <2>4, SMTT(30) DEF Generate, Recheck, Clear, Retry
    <2>5. CASE step \in {"done", "raised"}
      BY <1>11, <2>5 DEF Generate, Goto, Open, BuildStep, Resolve, Stage, Run, Check, Seal,
         Verify, Compare, Promote, Recheck, Clear
    <2> QED  BY <1>11, <2>1, <2>2, <2>3, <2>4, <2>5 DEF Generate, BuildStep
  <1>12. CASE Disturb
    BY <1>12 DEF Disturb, Break, Alter, Trouble
  <1>13. CASE UNCHANGED vars
    BY <1>13 DEF vars
  <1> QED  BY <1>1, <1>2, <1>3, <1>4, <1>5, <1>6, <1>7, <1>8, <1>9, <1>10, <1>11, <1>12, <1>13
     DEF Next, Work

LEMMA StoredStep == (TypeOK /\ Threaded /\ Stored) /\ [Next]_vars => Stored'
  <1> SUFFICES ASSUME (TypeOK /\ Threaded /\ Stored), [Next]_vars
        PROVE  Stored'
    OBVIOUS
  <1> USE GraphAssumption, BuildAssumption DEF TypeOK, Stored, Threaded
  <1>1. CASE \E e \in Entries : Begin(e)
    BY <1>1 DEF Begin, FirstNode, Entries, NewDirectory, Empty, Unlocked
  <1>2. CASE InferDomain \/ PlanDesign \/ PlanGeometry \/ Compile
    BY <1>2 DEF InferDomain, PlanDesign, PlanGeometry, Compile, Goto, Fail
  <1>3. CASE ValidateCognitive \/ PrepareRevision
    BY <1>3 DEF ValidateCognitive, PrepareRevision, Goto, Fail
  <1>4. CASE Extract \/ Retrieve \/ Recall \/ DecideContext \/ Select \/ AssetFallback
    BY <1>4 DEF Extract, Retrieve, Recall, DecideContext, Select, AssetFallback, Goto, Fail
  <1>5. CASE ValidateRequirements \/ Compose \/ PlanScene \/ GeneratedGeometry
    BY <1>5 DEF ValidateRequirements, Compose, PlanScene, GeneratedGeometry, Goto, Fail
  <1>6. CASE ValidateScene \/ Repair
    BY <1>6 DEF ValidateScene, Repair, Goto, MaxRepairs
  <1>7. CASE PreGate \/ Qa
    BY <1>7 DEF PreGate, Qa, Goto, Fail, MayDraw, MaxRepairs, DrawingPasses, Real, Whole
  <1>8. CASE PostGate \/ Certify
    BY <1>8 DEF PostGate, Certify, Goto, Fail, MayCertify, Proved, Real, Whole
  <1>9. CASE Failure \/ MemoryWriteback \/ Finish
    BY <1>9 DEF Failure, MemoryWriteback, Finish, Goto, Release, Trouble, Answer
  <1>10. CASE Raise \/ Die \/ Restart
    BY <1>10 DEF Raise, Die, Restart, Trouble, Goto, Idle
  <1>11. CASE Generate
    <2>1. CASE Open(scene) \/ Resolve \/ Stage \/ Run
      BY <1>11, <2>1, ZenonT(60) DEF Generate, Open, Resolve, Stage, Run, Retry, Discard
    <2>2. CASE Check \/ Seal \/ Verify \/ Compare
      BY <1>11, <2>2, ZenonT(60) DEF Generate, Check, Seal, Verify, Compare, Retry, Discard
    <2>3. CASE Promote
      BY <1>11, <2>3, ZenonT(60) DEF Generate, Promote, Discard
    <2>4. CASE Recheck \/ Clear
      BY <1>11, <2>4, ZenonT(60) DEF Generate, Recheck, Clear, Retry
    <2>5. CASE step \in {"done", "raised"}
      BY <1>11, <2>5 DEF Generate, Goto, Open, BuildStep, Resolve, Stage, Run, Check, Seal,
         Verify, Compare, Promote, Recheck, Clear
    <2> QED  BY <1>11, <2>1, <2>2, <2>3, <2>4, <2>5 DEF Generate, BuildStep
  <1>12. CASE Disturb
    BY <1>12 DEF Disturb, Break, Alter, Trouble
  <1>13. CASE UNCHANGED vars
    BY <1>13 DEF vars
  <1> QED  BY <1>1, <1>2, <1>3, <1>4, <1>5, <1>6, <1>7, <1>8, <1>9, <1>10, <1>11, <1>12, <1>13
     DEF Next, Work

LEMMA ScalarsStep == TypeOK /\ [Next]_vars => Scalars'
  <1> SUFFICES ASSUME TypeOK, [Next]_vars
        PROVE  Scalars'
    OBVIOUS
  <1> USE GraphAssumption, BuildAssumption DEF TypeOK, BuildTypeOK, Scalars, Steps, Fallbacks,
     Altered
  <1>1. CASE UNCHANGED build /\ (Trouble \/ UNCHANGED troubles)
    BY <1>1 DEF Trouble
  <1>2. CASE \E e \in Entries : Begin(e)
    BY <1>2 DEF Begin, NewDirectory, Empty, Unlocked
  <1>3. CASE Generate
    <2>1. CASE Open(scene) \/ Resolve \/ Stage \/ Run
      BY <1>3, <2>1, SMTT(30) DEF Generate, Open, Resolve, Stage, Run, Retry, Discard
    <2>2. CASE Check \/ Seal \/ Verify \/ Compare
      BY <1>3, <2>2, SMTT(30) DEF Generate, Check, Seal, Verify, Compare, Retry, Discard
    <2>3. CASE Promote
      BY <1>3, <2>3, SMTT(30) DEF Generate, Promote, Discard
    <2>4. CASE Recheck \/ Clear
      BY <1>3, <2>4, SMTT(30) DEF Generate, Recheck, Clear, Retry
    <2>5. CASE UNCHANGED <<build, troubles>>
      BY <2>5
    <2> QED  BY <1>3, <2>1, <2>2, <2>3, <2>4, <2>5 DEF Generate, BuildStep
  <1>4. CASE Disturb
    BY <1>4 DEF Disturb, Break, Alter, Trouble
  <1> QED  BY <1>1, <1>2, <1>3, <1>4, OnlyGenerate

LEMMA StagedStep == (TypeOK /\ Promoted) /\ [Next]_vars => Staged'
  <1> SUFFICES ASSUME (TypeOK /\ Promoted), [Next]_vars
        PROVE  Staged'
    OBVIOUS
  <1> USE GraphAssumption, BuildAssumption DEF TypeOK, BuildTypeOK, Staged, Promoted
  <1>1. CASE UNCHANGED build /\ (Trouble \/ UNCHANGED troubles)
    BY <1>1 DEF Trouble
  <1>2. CASE \E e \in Entries : Begin(e)
    BY <1>2 DEF Begin, NewDirectory, Empty, Unlocked
  <1>3. CASE Generate
    <2>1. CASE Open(scene) \/ Resolve \/ Stage \/ Run
      BY <1>3, <2>1, ZenonT(60) DEF Generate, Open, Resolve, Stage, Run, Retry, Discard
    <2>2. CASE Check \/ Seal \/ Verify \/ Compare
      BY <1>3, <2>2, ZenonT(60) DEF Generate, Check, Seal, Verify, Compare, Retry, Discard
    <2>3. CASE Promote
      BY <1>3, <2>3, ZenonT(60) DEF Generate, Promote, Discard
    <2>4. CASE Recheck \/ Clear
      BY <1>3, <2>4, ZenonT(60) DEF Generate, Recheck, Clear, Retry
    <2>5. CASE UNCHANGED <<build, troubles>>
      BY <2>5
    <2> QED  BY <1>3, <2>1, <2>2, <2>3, <2>4, <2>5 DEF Generate, BuildStep
  <1>4. CASE Disturb
    BY <1>4 DEF Disturb, Break, Alter, Trouble
  <1> QED  BY <1>1, <1>2, <1>3, <1>4, OnlyGenerate

LEMMA FiledStep == TypeOK /\ [Next]_vars => Filed'
  <1> SUFFICES ASSUME TypeOK, [Next]_vars
        PROVE  Filed'
    OBVIOUS
  <1> USE GraphAssumption, BuildAssumption DEF TypeOK, BuildTypeOK, Filed, Made, Absent,
     Report, Empty
  <1>1. CASE UNCHANGED build /\ (Trouble \/ UNCHANGED troubles)
    BY <1>1 DEF Trouble
  <1>2. CASE \E e \in Entries : Begin(e)
    BY <1>2 DEF Begin, NewDirectory, Empty, Unlocked
  <1>3. CASE Generate
    <2>1. CASE Open(scene) \/ Resolve \/ Stage \/ Run
      BY <1>3, <2>1, SMTT(30) DEF Generate, Open, Resolve, Stage, Run, Retry, Discard
    <2>2. CASE Check \/ Seal \/ Verify \/ Compare
      BY <1>3, <2>2, SMTT(30) DEF Generate, Check, Seal, Verify, Compare, Retry, Discard
    <2>3. CASE Promote
      BY <1>3, <2>3, SMTT(30) DEF Generate, Promote, Discard
    <2>4. CASE Recheck \/ Clear
      BY <1>3, <2>4, SMTT(30) DEF Generate, Recheck, Clear, Retry
    <2>5. CASE UNCHANGED <<build, troubles>>
      BY <2>5
    <2> QED  BY <1>3, <2>1, <2>2, <2>3, <2>4, <2>5 DEF Generate, BuildStep
  <1>4. CASE Disturb
    BY <1>4 DEF Disturb, Break, Alter, Trouble
  <1> QED  BY <1>1, <1>2, <1>3, <1>4, OnlyGenerate

LEMMA LockedStep == TypeOK /\ [Next]_vars => Locked'
  <1> SUFFICES ASSUME TypeOK, [Next]_vars
        PROVE  Locked'
    OBVIOUS
  <1> USE GraphAssumption, BuildAssumption DEF TypeOK, BuildTypeOK, Locked, Unlocked
  <1>1. CASE UNCHANGED build /\ (Trouble \/ UNCHANGED troubles)
    BY <1>1 DEF Trouble
  <1>2. CASE \E e \in Entries : Begin(e)
    BY <1>2 DEF Begin, NewDirectory, Empty, Unlocked
  <1>3. CASE Generate
    <2>1. CASE Open(scene) \/ Resolve \/ Stage \/ Run
      BY <1>3, <2>1, SMTT(30) DEF Generate, Open, Resolve, Stage, Run, Retry, Discard
    <2>2. CASE Check \/ Seal \/ Verify \/ Compare
      BY <1>3, <2>2, SMTT(30) DEF Generate, Check, Seal, Verify, Compare, Retry, Discard
    <2>3. CASE Promote
      BY <1>3, <2>3, SMTT(30) DEF Generate, Promote, Discard
    <2>4. CASE Recheck \/ Clear
      BY <1>3, <2>4, SMTT(30) DEF Generate, Recheck, Clear, Retry
    <2>5. CASE UNCHANGED <<build, troubles>>
      BY <2>5
    <2> QED  BY <1>3, <2>1, <2>2, <2>3, <2>4, <2>5 DEF Generate, BuildStep
  <1>4. CASE Disturb
    BY <1>4 DEF Disturb, Break, Alter, Trouble
  <1> QED  BY <1>1, <1>2, <1>3, <1>4, OnlyGenerate

\* All parts together.
LEMMA Inductive == IInv /\ [Next]_vars => IInv'
  <1> SUFFICES ASSUME IInv, [Next]_vars PROVE IInv'  OBVIOUS
  <1> USE DEF IInv
  <1>1. RunTyped /\ Flags /\ Counted /\ Stored  BY DEF TypeOK, RunTyped, Flags, Counted, Stored
  <1>2. RunTyped' /\ Flags'  BY <1>1, RunStep, FlagsStep
  <1>3. Counted' /\ Stored'  BY <1>1, CountedStep, StoredStep
  <1>4. Scalars' /\ Staged' /\ Filed' /\ Locked'
    BY ScalarsStep, StagedStep, FiledStep, LockedStep
  <1>5. TypeOK'
    BY <1>2, <1>3, <1>4, Zenon
    DEF TypeOK, BuildTypeOK, RunTyped, Flags, Counted, Stored, Scalars, Staged, Filed, Locked
  <1>6. Numbered' /\ Clean' /\ Anchored' /\ Drawn'
    BY NumberedStep, CleanStep, AnchoredStep, DrawnStep
  <1>7. Promoted' /\ Issued' /\ Answered' /\ Threaded'
    BY PromotedStep, IssuedStep, AnsweredStep, ThreadedStep
  <1> QED  BY <1>5, <1>6, <1>7, Zenon

LEMMA Initially == Init => IInv
  <1> SUFFICES ASSUME Init PROVE IInv  OBVIOUS
  <1> USE GraphAssumption, BuildAssumption DEF Init, BuildInit, NoProof
  <1>1. BuildTypeOK
    BY DEF BuildTypeOK, Steps, Altered, Empty, Made, Absent, Report, Unlocked
  <1>2. RunTyped /\ Flags
    <2>1. RunTyped  BY DEF RunTyped, Entries, Idle, Conditions
    <2>2. Flags  BY DEF Flags
    <2> QED  BY <2>1, <2>2
  <1>3. Counted /\ Stored
    BY DEF Counted, Stored, MaxRepairs, Proofs
  <1>4. TypeOK
    BY <1>1, <1>2, <1>3, Zenon DEF TypeOK, RunTyped, Flags, Counted, Stored
  <1>5. Numbered /\ Clean /\ Anchored /\ Drawn /\ Promoted /\ Issued /\ Answered /\ Threaded
    BY DEF Numbered, Clean, Anchored, Drawn, Promoted, Issued, Answered, Threaded, Fresh, Early,
           Later
  <1> QED  BY <1>4, <1>5, Zenon DEF IInv

LEMMA Invariance == Spec => []IInv
  BY Initially, Inductive, PTL DEF Spec

\* The state of a run and of its output directory keeps its types, whatever the number of
\* runs, payload files and errors: no scene number passes four (DesignOrchestrator).
THEOREM TypeCorrect == Spec => []TypeOK
  <1>1. IInv => TypeOK  BY DEF IInv
  <1> QED  BY <1>1, Invariance, PTL

\* Blender is never started for a scene that was not validated and let through with
\* accepted requirements (pre_blender_gate).
THEOREM DrawnProved == Spec => []NothingDrawnUnproved
  <1>1. IInv => NothingDrawnUnproved  BY DEF IInv, Drawn, NothingDrawnUnproved
  <1> QED  BY <1>1, Invariance, PTL

\* A completed run is proved about one scene and one whole drawing (_result_from_state).
THEOREM CompletedProved == Spec => []CompletedIsProved
  <1>1. IInv => CompletedIsProved
    BY DEF IInv, Drawn, Promoted, Issued, Answered, CompletedIsProved
  <1> QED  BY <1>1, Invariance, PTL

\* Both together: nothing unproved is drawn, nothing unproved is answered completed.
THEOREM GraphProofsHold == Spec => []ProofsHold
  <1>1. TypeOK /\ CompletedIsProved /\ NothingDrawnUnproved => ProofsHold  BY DEF ProofsHold
  <1> QED  BY <1>1, TypeCorrect, DrawnProved, CompletedProved, PTL

-----------------------------------------------------------------------------
(* What a run leaves behind. Until its lock is promoted an output directory has none; a *)
(* staging directory is that of the attempt under way; every way to the end of a run    *)
(* that carries no certificate passes where the report fails or the repairs run out.    *)

Unsealed == {"idle", "open", "stage", "run", "check", "seal", "verify", "compare", "promote"}
Emptied ==
    /\ step \in Unsealed => lock = Unlocked
    /\ step = "done" /\ mode # "real_blender" =>
          lock = Unlocked /\ \A i \in 1 .. Payload : files[i] \in {Absent, Report}

Swept ==
    /\ staging \subseteq {attempt}
    /\ step \in {"idle", "open", "stage", "recheck", "clear", "done"} => staging = {}

Explained ==
    /\ at \in {"failure", "asset_fallback"} => report = "failed"
    /\ at \in {"memory_writeback", "end"} /\ certified = 0 =>
          report = "failed" \/ repairs = MaxRepairs

LeftInv == IInv /\ Emptied /\ Swept /\ Explained /\ ThreadsReleased

\* A directory without its lock stays so until the promotion ends.
LEMMA EmptiedStep == (TypeOK /\ Promoted /\ Emptied) /\ [Next]_vars => Emptied'
  <1> SUFFICES ASSUME TypeOK /\ Promoted /\ Emptied, [Next]_vars
        PROVE  Emptied'
    OBVIOUS
  <1> USE GraphAssumption, BuildAssumption DEF TypeOK, BuildTypeOK, Emptied, Promoted, Unsealed, Unlocked, Empty,
     Absent, Report, Fallbacks
  <1>1. CASE UNCHANGED build /\ (Trouble \/ UNCHANGED troubles)
    BY <1>1 DEF Trouble
  <1>2. CASE \E e \in Entries : Begin(e)
    BY <1>2 DEF Begin, NewDirectory, Empty, Unlocked
  <1>3. CASE Generate
    <2>1. CASE Open(scene) \/ Resolve \/ Stage \/ Run
      BY <1>3, <2>1, SMTT(30) DEF Generate, Open, Resolve, Stage, Run, Retry, Discard
    <2>2. CASE Check \/ Seal \/ Verify \/ Compare
      BY <1>3, <2>2, SMTT(30) DEF Generate, Check, Seal, Verify, Compare, Retry, Discard
    <2>3. CASE Promote
      BY <1>3, <2>3, SMTT(30) DEF Generate, Promote, Discard
    <2>4. CASE Recheck \/ Clear
      BY <1>3, <2>4, SMTT(30) DEF Generate, Recheck, Clear, Retry, Discard
    <2>5. CASE UNCHANGED <<build, troubles>>
      BY <2>5
    <2> QED  BY <1>3, <2>1, <2>2, <2>3, <2>4, <2>5 DEF Generate, BuildStep
  <1>4. CASE Disturb
    BY <1>4 DEF Disturb, Break, Alter, Trouble
  <1> QED  BY <1>1, <1>2, <1>3, <1>4, OnlyGenerate

\* An attempt that ends removes its staging directory.
LEMMA SweptStep == Swept /\ [Next]_vars => Swept'
  <1> SUFFICES ASSUME Swept, [Next]_vars
        PROVE  Swept'
    OBVIOUS
  <1> USE DEF Swept
  <1>1. CASE UNCHANGED build /\ (Trouble \/ UNCHANGED troubles)
    BY <1>1 DEF Trouble
  <1>2. CASE \E e \in Entries : Begin(e)
    BY <1>2 DEF Begin, NewDirectory, Empty, Unlocked
  <1>3. CASE Generate
    <2>1. CASE Open(scene) \/ Resolve \/ Stage \/ Run
      BY <1>3, <2>1, ZenonT(60) DEF Generate, Open, Resolve, Stage, Run, Retry, Discard
    <2>2. CASE Check \/ Seal \/ Verify \/ Compare
      BY <1>3, <2>2, ZenonT(60) DEF Generate, Check, Seal, Verify, Compare, Retry, Discard
    <2>3. CASE Promote
      BY <1>3, <2>3, ZenonT(60) DEF Generate, Promote, Discard
    <2>4. CASE Recheck \/ Clear
      BY <1>3, <2>4, ZenonT(60) DEF Generate, Recheck, Clear, Retry, Discard
    <2>5. CASE UNCHANGED <<build, troubles>>
      BY <2>5
    <2> QED  BY <1>3, <2>1, <2>2, <2>3, <2>4, <2>5 DEF Generate, BuildStep
  <1>4. CASE Disturb
    BY <1>4 DEF Disturb, Break, Alter, Trouble
  <1> QED  BY <1>1, <1>2, <1>3, <1>4, OnlyGenerate

\* A run that is about to end without a certificate has the reason in its report.
LEMMA ExplainedStep == (TypeOK /\ Numbered /\ Explained) /\ [Next]_vars => Explained'
  <1> SUFFICES ASSUME TypeOK, Numbered, Explained, [Next]_vars
        PROVE  Explained'
    OBVIOUS
  <1>0. repairs \in 0 .. MaxRepairs /\ (at = "repair" => repairs <= 1)  BY DEF TypeOK, Numbered
  <1> USE <1>0 DEF Explained
  <1>1. CASE \E e \in Entries : Begin(e)
    BY <1>1 DEF Begin, FirstNode, Entries
  <1>2. CASE InferDomain \/ PlanDesign \/ PlanGeometry \/ Compile
    BY <1>2 DEF InferDomain, PlanDesign, PlanGeometry, Compile, Goto, Fail
  <1>3. CASE ValidateCognitive \/ PrepareRevision
    BY <1>3 DEF ValidateCognitive, PrepareRevision, Goto, Fail
  <1>4. CASE Extract \/ Retrieve \/ Recall \/ DecideContext \/ Select \/ AssetFallback
    BY <1>4 DEF Extract, Retrieve, Recall, DecideContext, Select, AssetFallback, Goto, Fail
  <1>5. CASE ValidateRequirements \/ Compose \/ PlanScene \/ GeneratedGeometry
    BY <1>5 DEF ValidateRequirements, Compose, PlanScene, GeneratedGeometry, Goto, Fail
  <1>6. CASE ValidateScene \/ PreGate \/ Qa \/ PostGate
    BY <1>6 DEF ValidateScene, PreGate, Qa, PostGate, Goto, Fail
  <1>7. CASE Repair
    BY <1>7 DEF Repair, Goto, MaxRepairs
  <1>8. CASE Certify
    BY <1>8 DEF Certify, Goto, Proved
  <1>9. CASE Failure \/ MemoryWriteback \/ Finish
    BY <1>9 DEF Failure, MemoryWriteback, Finish, Goto
  <1>10. CASE Raise \/ Die \/ Restart
    BY <1>10 DEF Raise, Die, Restart, Goto
  <1>11. CASE Generate \/ Disturb
    BY <1>11 DEF Generate, Disturb, Goto
  <1>12. CASE UNCHANGED vars
    BY <1>12 DEF vars
  <1> QED  BY <1>1, <1>2, <1>3, <1>4, <1>5, <1>6, <1>7, <1>8, <1>9, <1>10, <1>11, <1>12
     DEF Next, Work

\* What an action does to the checkpoint store, whatever else it does.
LEMMA StoreMoves ==
    [Next]_vars =>
        \/ \E node \in Nodes \cup {"end", "raised"} : Goto(node) /\ at \notin Idle /\ run' = run
        \/ (\E e \in Entries : Begin(e)) \/ Finish \/ Die \/ Restart
        \/ UNCHANGED <<run, at, threads, kept>>
  <1> SUFFICES ASSUME [Next]_vars PROVE
        \/ \E node \in Nodes \cup {"end", "raised"} : Goto(node) /\ at \notin Idle /\ run' = run
        \/ (\E e \in Entries : Begin(e)) \/ Finish \/ Die \/ Restart
        \/ UNCHANGED <<run, at, threads, kept>>
    OBVIOUS
  <1> USE DEF Nodes, Idle, Fail
  <1>1. CASE InferDomain \/ PlanDesign \/ PlanGeometry \/ Compile
    BY <1>1 DEF InferDomain, PlanDesign, PlanGeometry, Compile
  <1>2. CASE ValidateCognitive \/ PrepareRevision
    BY <1>2 DEF ValidateCognitive, PrepareRevision
  <1>3. CASE Extract \/ Retrieve \/ Recall \/ DecideContext \/ Select \/ AssetFallback
    BY <1>3 DEF Extract, Retrieve, Recall, DecideContext, Select, AssetFallback
  <1>4. CASE ValidateRequirements \/ Compose \/ PlanScene \/ GeneratedGeometry
    BY <1>4 DEF ValidateRequirements, Compose, PlanScene, GeneratedGeometry
  <1>5. CASE ValidateScene \/ Repair
    BY <1>5 DEF ValidateScene, Repair
  <1>6. CASE PreGate \/ Qa \/ PostGate \/ Certify
    BY <1>6 DEF PreGate, Qa, PostGate, Certify
  <1>7. CASE Failure \/ MemoryWriteback \/ Raise
    BY <1>7 DEF Failure, MemoryWriteback, Raise
  <1>8. CASE Generate \/ Disturb
    BY <1>8 DEF Generate, Disturb
  <1>9. CASE UNCHANGED vars
    BY <1>9 DEF vars
  <1> QED  BY <1>1, <1>2, <1>3, <1>4, <1>5, <1>6, <1>7, <1>8, <1>9 DEF Next, Work

\* A thread is in the store for the run under way, or because it could not be released.
LEMMA ReleasedStep == ThreadsReleased /\ [Next]_vars => ThreadsReleased'
  <1> SUFFICES ASSUME ThreadsReleased, [Next]_vars
        PROVE  ThreadsReleased'
    OBVIOUS
  <1> USE DEF ThreadsReleased, Idle
  <1>1. ASSUME NEW node \in Nodes \cup {"end", "raised"}, Goto(node), at \notin Idle, run' = run
        PROVE  ThreadsReleased'
    BY <1>1 DEF Goto, Nodes
  <1>2. ASSUME NEW e \in Entries, Begin(e) PROVE ThreadsReleased'
    BY <1>2 DEF Begin, FirstNode
  <1>3. CASE Finish
    BY <1>3 DEF Finish, Release
  <1>4. CASE Die
    BY <1>4 DEF Die
  <1>5. CASE Restart
    BY <1>5 DEF Restart
  <1>6. CASE UNCHANGED <<run, at, threads, kept>>
    BY <1>6
  <1> QED  BY <1>1, <1>2, <1>3, <1>4, <1>5, <1>6, StoreMoves

LEMMA LeftInvariance == Spec => []LeftInv
  <1>1. Init => LeftInv
    <2> SUFFICES ASSUME Init PROVE LeftInv  OBVIOUS
    <2>1. IInv  BY Initially
    <2>2. Emptied /\ Swept  BY DEF Init, BuildInit, Emptied, Swept
    <2>3. Explained /\ ThreadsReleased
      BY DEF Init, Explained, ThreadsReleased, Idle
    <2> QED  BY <2>1, <2>2, <2>3 DEF LeftInv
  <1>2. LeftInv /\ [Next]_vars => LeftInv'
    <2> SUFFICES ASSUME LeftInv, [Next]_vars PROVE LeftInv'  OBVIOUS
    <2>1. IInv /\ TypeOK /\ Numbered /\ Promoted  BY DEF LeftInv, IInv
    <2>2. Emptied /\ Swept /\ Explained /\ ThreadsReleased  BY DEF LeftInv
    <2>3. IInv'  BY <2>1, Inductive
    <2>4. Emptied' /\ Swept'  BY <2>1, <2>2, EmptiedStep, SweptStep
    <2>5. Explained' /\ ThreadsReleased'  BY <2>1, <2>2, ExplainedStep, ReleasedStep
    <2> QED  BY <2>3, <2>4, <2>5 DEF LeftInv
  <1> QED  BY <1>1, <1>2, PTL DEF Spec

\* What a run leaves behind tells its outcome, for any number of runs, payload files and
\* disturbances: a lock stands for a whole drawing, a result matches its directory, a run
\* that ends without a certificate is explained, no checkpoint thread stays behind one
\* that could be released (BlenderRunner.generate, _release_workflow_checkpoint).
THEOREM LeavesTellOutcome == Spec => []WhatRunsLeave
  <1>1. LeftInv => WhatRunsLeave
    <2> SUFFICES ASSUME LeftInv PROVE WhatRunsLeave  OBVIOUS
    <2> USE DEF LeftInv, IInv
    <2>1. LockMeansWhole  BY DEF LockMeansWhole, Emptied, Promoted, Unsealed
    <2>2. ResultMatchesDirectory
      BY DEF ResultMatchesDirectory, Emptied, Promoted, Swept
    <2>3. FailureIsExplained  BY DEF FailureIsExplained, Explained
    <2> QED  BY <2>1, <2>2, <2>3 DEF WhatRunsLeave
  <1> QED  BY <1>1, LeftInvariance, PTL
=============================================================================
