---------------------------- MODULE DesignGraph ----------------------------
(***************************************************************************)
(* DesignOrchestrator: one run of the design graph, node after node, from  *)
(* the request to the completion certificate, with BlenderBuild as its     *)
(* generate_blender node and the checkpoint threads it leaves behind.      *)
(*                                                                         *)
(* A proof about a scene is the number of that scene, 0 where there is no  *)
(* proof or it failed. What the rules, the inspectors and the language     *)
(* model decide is left open; which of their verdicts the code asks for,   *)
(* and about which scene, is not.                                          *)
(***************************************************************************)
EXTENDS BlenderBuild

CONSTANTS
    Runs,           \* number of runs, one after the other
    Retention,      \* checkpoint_retention_threads
    AllowFallback   \* allow_blender_fallback

ASSUME GraphAssumption ==
    /\ Runs \in Nat \ {0} /\ Retention \in Nat /\ AllowFallback \in BOOLEAN
    /\ MaxScene >= 4

VARIABLES
    run,         \* the run under way, or the last one
    entry,       \* its entry mode
    at,          \* the node it is at
    scene,       \* the scene in the state; each change makes a new one
    sound,       \* what the validators find in it
    requested,   \* requirements: "none", "clean", or "repaired" (repair_events)
    plan,        \* the cognitive plan is in the state
    blueprint,   \* the blueprint was composed and covers the requirements
    accepted,    \* requirement_report passed
    report,      \* the report of the run
    validated,   \* scene_report and coverages: the scene they passed
    repairs,     \* repair_attempts
    recorded,    \* scene_repair_recorded
    gated,       \* pre_blender_gate: the scene it passed
    inspected,   \* qa_report: the scene it passed
    released,    \* post_blender_gate: the scene it passed
    certified,   \* completion_certificate: the scene it was issued for
    result,      \* what the run answers
    threads,     \* checkpoint threads in the store
    kept         \* history: threads of runs that died or could not delete theirs

request  == <<run, entry, requested>>
proofs   == <<validated, gated, inspected, released, certified>>
decided  == <<plan, blueprint, accepted, report>>
shape    == <<scene, sound>>
counters == <<repairs, recorded>>
store    == <<threads, kept>>
vars == <<request, at, shape, decided, proofs, counters, result, store, build, troubles>>

-----------------------------------------------------------------------------

Entries   == {"natural_language", "legacy_telecom", "validated_requirements", "scene_revision"}
Nodes     == {"infer", "plan_design", "plan_geometry", "compile", "validate_cognitive",
              "prepare_revision", "extract", "retrieve", "recall", "decide", "select",
              "asset_fallback", "validate_requirements", "compose", "plan_scene",
              "generated_geometry", "validate_scene", "repair", "pre_gate", "generate", "qa", "post_gate",
              "certify", "failure", "memory_writeback"}
Idle      == {"idle", "dead"}
Conditions == {"sound", "repairable", "unsound"}
MaxRepairs == 2
Proofs    == 0 .. MaxScene

TypeOK ==
    /\ BuildTypeOK
    /\ run \in 0 .. Runs /\ entry \in Entries
    /\ at \in Nodes \cup Idle \cup {"end", "raised"}
    /\ scene \in 0 .. MaxScene /\ sound \in Conditions
    /\ requested \in {"none", "clean", "repaired"}
    /\ plan \in BOOLEAN /\ blueprint \in BOOLEAN /\ accepted \in BOOLEAN
    /\ report \in {"none", "passed", "failed"}
    /\ validated \in Proofs /\ gated \in Proofs /\ inspected \in Proofs
    /\ released \in Proofs /\ certified \in Proofs
    /\ repairs \in 0 .. MaxRepairs /\ recorded \in BOOLEAN
    /\ result \in {"none", "completed", "failed"}
    /\ threads \subseteq 1 .. Runs /\ kept \subseteq 1 .. Runs

NoProof ==
    /\ validated = 0 /\ gated = 0 /\ inspected = 0 /\ released = 0 /\ certified = 0
    /\ plan = FALSE /\ blueprint = FALSE /\ accepted = FALSE /\ report = "none"
    /\ repairs = 0 /\ recorded = FALSE

Init ==
    /\ BuildInit /\ troubles = 0
    /\ run = 0 /\ entry = "natural_language" /\ at = "idle"
    /\ scene = 0 /\ sound = "sound" /\ requested = "none" /\ NoProof
    /\ result = "none" /\ threads = {} /\ kept = {}

Real == mode = "real_blender"

\* Every node leaves a checkpoint of the run's own thread.
Goto(node) == at' = node /\ threads' = threads \cup {run} /\ UNCHANGED kept

FirstNode(e) ==
    IF e = "natural_language" THEN "infer"
    ELSE IF e = "legacy_telecom" THEN "extract"
    ELSE IF e = "validated_requirements" THEN "retrieve" ELSE "prepare_revision"

\* run, run_requirements, run_scene_revision: the state a run starts with. A revision
\* brings its scene, and the certified plan when the scene is a cognitive one.
Begin(e) ==
    /\ at = "idle" /\ run < Runs
    /\ run' = run + 1 /\ entry' = e
    /\ NewDirectory /\ UNCHANGED troubles
    /\ requested' = IF e = "validated_requirements" THEN "clean" ELSE "none"
    /\ IF e = "scene_revision"
       THEN scene' = 1 /\ sound' \in Conditions /\ plan' \in BOOLEAN
       ELSE scene' = 0 /\ sound' = "sound" /\ plan' = FALSE
    /\ validated' = 0 /\ gated' = 0 /\ inspected' = 0 /\ released' = 0 /\ certified' = 0
    /\ blueprint' = FALSE /\ accepted' = FALSE /\ report' = "none"
    /\ repairs' = 0 /\ recorded' = FALSE /\ result' = "none"
    /\ at' = FirstNode(e)
    /\ threads' = threads \cup {run'} /\ UNCHANGED kept

\* A handler of a failure leaves the report it finds, or a failed one.
Fail == report' = "failed" /\ Goto("failure")

-----------------------------------------------------------------------------
(* The cognitive route.                                                    *)

InferDomain ==
    /\ at = "infer"
    /\ \/ Goto("extract") /\ UNCHANGED decided
       \/ Goto("plan_design") /\ UNCHANGED decided
       \/ Fail /\ UNCHANGED <<plan, blueprint, accepted>>
    /\ UNCHANGED <<request, shape, proofs, counters, result, build, troubles>>

\* A plan that asks for clarification is kept with a failed report.
PlanDesign ==
    /\ at = "plan_design"
    /\ \/ /\ plan' = TRUE /\ accepted' = TRUE /\ report' = "passed"
          /\ Goto("plan_geometry")
       \/ plan' \in BOOLEAN /\ accepted' = FALSE /\ Fail
    /\ UNCHANGED <<request, shape, blueprint, proofs, counters, result, build, troubles>>

PlanGeometry ==
    /\ at = "plan_geometry"
    /\ \/ Goto("compile") /\ UNCHANGED report
       \/ Fail
    /\ UNCHANGED <<request, shape, plan, blueprint, accepted, proofs, counters, result, build,
                   troubles>>

Compile ==
    /\ at = "compile"
    /\ \/ scene' = 1 /\ sound' \in {"sound", "unsound"} /\ Goto("validate_cognitive")
          /\ UNCHANGED report
       \/ Fail /\ UNCHANGED shape
    /\ UNCHANGED <<request, plan, blueprint, accepted, proofs, counters, result, build,
                   troubles>>

ValidateCognitive ==
    /\ at = "validate_cognitive"
    /\ IF sound = "sound" /\ accepted
       THEN validated' = scene /\ report' = "passed" /\ Goto("pre_gate")
       ELSE validated' = 0 /\ Fail
    /\ UNCHANGED <<request, shape, plan, blueprint, accepted, gated, inspected, released,
                   certified, counters, result, build, troubles>>

-----------------------------------------------------------------------------
(* A revision, and the telecommunications route.                           *)

\* A revision that cannot be prepared ends the run there, past memory_writeback.
PrepareRevision ==
    /\ at = "prepare_revision"
    /\ \/ /\ plan /\ accepted' = TRUE /\ report' = "passed"
          /\ Goto("validate_cognitive")
          /\ UNCHANGED <<shape, requested>>
       \/ /\ ~plan /\ scene' = 2 /\ sound' \in Conditions /\ requested' = "clean"
          /\ Goto("validate_requirements")
          /\ UNCHANGED <<accepted, report>>
       \/ /\ report' = "failed" /\ accepted' = FALSE /\ Goto("end")
          /\ UNCHANGED <<shape, requested>>
    /\ UNCHANGED <<run, entry, plan, blueprint, proofs, counters, result, build, troubles>>

\* The extraction may fail, ask for a confirmation, or repair what it read.
Extract ==
    /\ at = "extract"
    /\ \/ requested' \in {"clean", "repaired"} /\ Goto("retrieve") /\ UNCHANGED report
       \/ requested' \in {"none", "clean", "repaired"} /\ Fail
    /\ UNCHANGED <<run, entry, shape, plan, blueprint, accepted, proofs, counters, result,
                   build, troubles>>

\* The three nodes that gather hints catch their own errors, and nothing a later node
\* decides on comes from them.
Retrieve ==
    /\ at = "retrieve" /\ Goto("recall")
    /\ UNCHANGED <<request, shape, decided, proofs, counters, result, build, troubles>>

Recall ==
    /\ at = "recall" /\ Goto("decide")
    /\ UNCHANGED <<request, shape, decided, proofs, counters, result, build, troubles>>

DecideContext ==
    /\ at = "decide" /\ Goto("select")
    /\ UNCHANGED <<request, shape, decided, proofs, counters, result, build, troubles>>

Select ==
    /\ at = "select"
    /\ \/ Goto("validate_requirements") /\ UNCHANGED <<accepted, report>>
       \/ accepted' = FALSE /\ report' = "failed" /\ Goto("asset_fallback")
    /\ UNCHANGED <<request, shape, plan, blueprint, proofs, counters, result, build, troubles>>

AssetFallback ==
    /\ at = "asset_fallback"
    /\ \/ Goto("validate_requirements") /\ UNCHANGED report
       \/ report' = "failed" /\ Goto("memory_writeback")
    /\ UNCHANGED <<request, shape, plan, blueprint, accepted, proofs, counters, result, build,
                   troubles>>

ValidateRequirements ==
    /\ at = "validate_requirements"
    /\ \/ accepted' = TRUE /\ report' = "passed" /\ Goto("compose")
       \/ accepted' = FALSE /\ Fail
    /\ UNCHANGED <<request, shape, plan, blueprint, proofs, counters, result, build, troubles>>

\* A blueprint that does not cover the requirements raises.
Compose ==
    /\ at = "compose"
    /\ \/ /\ blueprint' = TRUE
          /\ Goto(IF entry = "scene_revision" THEN "validate_scene" ELSE "plan_scene")
       \/ Goto("raised") /\ UNCHANGED blueprint
    /\ UNCHANGED <<request, shape, plan, accepted, report, proofs, counters, result, build,
                   troubles>>

PlanScene ==
    /\ at = "plan_scene"
    /\ scene' = scene + 1 /\ sound' \in Conditions
    /\ \/ Goto("generated_geometry")
       \/ Goto("validate_scene")
    /\ UNCHANGED <<request, decided, proofs, counters, result, build, troubles>>

GeneratedGeometry ==
    /\ at = "generated_geometry"
    /\ \/ /\ scene' = scene + 1 /\ sound' \in {sound, "unsound"}
          /\ Goto("validate_scene") /\ UNCHANGED report
       \/ Fail /\ UNCHANGED shape
    /\ UNCHANGED <<request, plan, blueprint, accepted, proofs, counters, result, build,
                   troubles>>

\* _scene_route: a sound scene made from repaired requirements still passes by the
\* repair handler once, which records the repairs.
ValidateScene ==
    /\ at = "validate_scene"
    /\ IF sound = "sound"
       THEN /\ validated' = scene
            /\ report' = IF accepted THEN "passed" ELSE "failed"
            /\ Goto(IF requested = "repaired" /\ ~recorded THEN "repair" ELSE "pre_gate")
       ELSE validated' = 0 /\ report' = "failed" /\ Goto("repair")
    /\ UNCHANGED <<request, shape, plan, blueprint, accepted, gated, inspected, released,
                   certified, counters, result, build, troubles>>

\* Mutant: a repaired scene goes on as if it had been validated.
RepairValidates ==
    /\ at = "repair"
    /\ repairs' = repairs + 1
    /\ report' = "passed"
    /\ IF sound = "repairable"
       THEN scene' = scene + 1 /\ sound' \in {"sound", "unsound"} /\ validated' = scene
            /\ UNCHANGED recorded
       ELSE recorded' = (recorded \/ (requested = "repaired" /\ validated # 0))
            /\ UNCHANGED <<shape, validated>>
    /\ Goto("pre_gate")
    /\ UNCHANGED <<request, plan, blueprint, accepted, gated, inspected, released, certified,
                   result, build, troubles>>

\* scene_repair_handler and _scene_repair_route: the scene is repaired, or the repairs
\* of the requirements are recorded, or nothing can be done. The report becomes the
\* scene's own, of before the repair, and the second attempt is never validated.
Repair ==
    /\ at = "repair"
    /\ repairs' = repairs + 1
    /\ report' = IF validated # 0 THEN "passed" ELSE "failed"
    /\ IF sound = "repairable"
       THEN scene' = scene + 1 /\ sound' \in {"sound", "unsound"} /\ UNCHANGED recorded
       ELSE recorded' = (recorded \/ (requested = "repaired" /\ validated # 0))
            /\ UNCHANGED shape
    /\ Goto(IF repairs' < MaxRepairs THEN "validate_scene" ELSE "memory_writeback")
    /\ UNCHANGED <<request, plan, blueprint, accepted, proofs, result, build, troubles>>

-----------------------------------------------------------------------------
(* Blender, the inspections and the certificate.                           *)

\* evaluate_pre_blender_gate reads the reports and validates the scene it is given again.
MayDraw ==
    accepted /\ validated # 0 /\ requested # "none" /\ sound = "sound" /\ repairs <= MaxRepairs

\* The gate of a cognitive run reads the reports only.
PreGate ==
    /\ at = "pre_gate"
    /\ \/ /\ IF plan THEN accepted /\ validated # 0 ELSE MayDraw
          /\ gated' = scene /\ Goto("generate") /\ UNCHANGED report
       \/ gated' = 0 /\ Fail
    /\ UNCHANGED <<request, shape, plan, blueprint, accepted, validated, inspected, released,
                   certified, counters, result, build, troubles>>

Generate ==
    /\ at = "generate"
    /\ \/ Open(scene) /\ UNCHANGED <<at, store>>
       \/ BuildStep /\ UNCHANGED <<at, store>>
       \/ step = "done" /\ Goto("qa") /\ UNCHANGED <<build, troubles>>
       \/ step = "raised" /\ Goto("raised") /\ UNCHANGED <<build, troubles>>
    /\ UNCHANGED <<request, shape, decided, proofs, counters, result>>

\* Whole: the files the result names are regular files of one drawing.
Whole == lock # Unlocked /\ \A i \in 1 .. Payload : files[i] = lock.by

\* GenerationQA.validate: generation_real_blender is a check whether fallbacks are
\* allowed or not.
DrawingPasses == Real /\ Whole

Qa ==
    /\ at = "qa"
    /\ \/ /\ DrawingPasses /\ inspected' = scene
          /\ report' = IF accepted /\ validated # 0 THEN "passed" ELSE "failed"
          /\ Goto("post_gate")
       \/ inspected' = 0 /\ Fail
    /\ UNCHANGED <<request, shape, plan, blueprint, accepted, validated, gated, released,
                   certified, counters, result, build, troubles>>

\* evaluate_post_blender_gate.
MayCertify == (AllowFallback \/ Real) /\ inspected # 0 /\ \A i \in 1 .. Payload : files[i] # Absent

PostGate ==
    /\ at = "post_gate"
    /\ \/ MayCertify /\ released' = scene /\ Goto("certify") /\ UNCHANGED report
       \/ released' = 0 /\ Fail
    /\ UNCHANGED <<request, shape, plan, blueprint, accepted, validated, gated, inspected,
                   certified, counters, result, build, troubles>>

\* build_completion_certificate: every proof once more, and the files it names.
Proved ==
    /\ plan \/ (requested # "none" /\ blueprint)
    /\ scene # 0 /\ validated # 0 /\ gated # 0 /\ inspected # 0 /\ released # 0
    /\ Real /\ Whole

\* A rejected certificate fails the report.
Certify ==
    /\ at = "certify"
    /\ \/ Proved /\ certified' = scene /\ UNCHANGED report
       \/ certified' = 0 /\ report' = "failed"
    /\ Goto("memory_writeback")
    /\ UNCHANGED <<request, shape, plan, blueprint, accepted, validated, gated, inspected,
                   released, counters, result, build, troubles>>

\* The handlers of a failed plan, extraction, rule, geometry, gate or inspection.
Failure ==
    /\ at = "failure"
    /\ Goto("memory_writeback")
    /\ UNCHANGED <<request, shape, decided, proofs, counters, result, build, troubles>>

\* Its errors are recorded and do not block.
MemoryWriteback ==
    /\ at = "memory_writeback"
    /\ Goto("end")
    /\ UNCHANGED <<request, shape, decided, proofs, counters, result, build, troubles>>

-----------------------------------------------------------------------------
(* The ends of a run.                                                      *)

\* _release_workflow_checkpoint: an error of the store is swallowed.
Release ==
    \/ threads' = threads \ {run} /\ UNCHANGED <<kept, troubles>>
    \/ kept' = kept \cup {run} /\ Trouble /\ UNCHANGED threads

\* _result_from_state; a run that raised has failed.
Answer == IF at = "end" /\ report = "passed" /\ certified # 0 THEN "completed" ELSE "failed"

Finish ==
    /\ at \in {"end", "raised"}
    /\ result' = Answer
    /\ at' = "idle" /\ Release
    /\ UNCHANGED <<request, shape, decided, proofs, counters, build>>

\* _runtime_node reports the exception and raises it again.
Raise ==
    /\ at \in {"compile", "validate_requirements", "plan_scene", "validate_scene", "repair",
               "qa", "post_gate", "certify"}
    /\ Trouble /\ Goto("raised")
    /\ UNCHANGED <<request, shape, decided, proofs, counters, result, build>>

Die ==
    /\ at \notin Idle /\ Trouble
    /\ at' = "dead" /\ kept' = kept \cup {run}
    /\ UNCHANGED <<request, shape, decided, proofs, counters, result, threads, build>>

\* enforce_thread_quota: the threads updated last are kept.
Restart ==
    /\ at = "dead"
    /\ at' = "idle"
    /\ threads' = {t \in threads : Cardinality({u \in threads : u > t}) < Retention}
    /\ UNCHANGED <<request, shape, decided, proofs, counters, result, kept, build, troubles>>

Disturb ==
    /\ at = "generate"
    /\ Break \/ Alter
    /\ UNCHANGED <<request, at, shape, decided, proofs, counters, result, store>>

Work ==
    \/ InferDomain \/ PlanDesign \/ PlanGeometry \/ Compile \/ ValidateCognitive
    \/ PrepareRevision \/ Extract \/ Retrieve \/ Recall \/ DecideContext \/ Select
    \/ AssetFallback
    \/ ValidateRequirements \/ Compose \/ PlanScene \/ GeneratedGeometry \/ ValidateScene
    \/ Repair \/ PreGate \/ Generate \/ Qa \/ PostGate \/ Certify \/ Failure
    \/ MemoryWriteback \/ Finish

Next == (\E e \in Entries : Begin(e)) \/ Work \/ Raise \/ Disturb \/ Die \/ Restart

Spec == Init /\ [][Next]_vars

\* The graph runs in a thread that waits for nothing but the nodes themselves, each of
\* which has a time limit; a process that died is started again.
FairSpec == Spec /\ WF_vars(Work) /\ WF_vars(Restart)

-----------------------------------------------------------------------------

(* A run answers completed only when the report, both gates, the           *)
(* inspections and the certificate are all about the scene in its state,   *)
(* and the output directory holds a whole drawing of that scene by Blender *)
(* (_result_from_state and the routes of _build_graph).                    *)
CompletedIsProved ==
    result = "completed" =>
        /\ scene # 0
        /\ validated = scene /\ gated = scene /\ inspected = scene /\ released = scene
        /\ certified = scene
        /\ mode = "real_blender" /\ lock = [by |-> attempt, scene |-> scene]
        /\ \A i \in 1 .. Payload : files[i] = attempt

(* Blender is started for no scene but the one that was validated and let  *)
(* through by the gate, with accepted requirements (pre_blender_gate).     *)
NothingDrawnUnproved ==
    step # "idle" => drawing = scene /\ gated = scene /\ validated = scene /\ accepted

(* A run that ends without completing has a failed report to say why,      *)
(* unless it raised, or used up its repairs: the second repair ends the    *)
(* run unvalidated, with the report of a scene that passed when it only    *)
(* recorded the repairs of the requirements (_scene_repair_route).         *)
FailureIsExplained ==
    at = "end" /\ certified = 0 => report = "failed" \/ repairs = MaxRepairs

(* A checkpoint thread outlives its run only when the process died or the  *)
(* store refused to delete it (_release_workflow_checkpoint).              *)
ThreadsReleased ==
    threads \ kept \subseteq IF at \in Idle THEN {} ELSE {run}

(* Every run ends, whatever the repairs and the attempts of Blender.       *)
EveryRunEnds == at \notin Idle ~> at \in Idle

(* What is drawn was proved, and what is answered completed was proved of  *)
(* the drawing it leaves (_build_graph).                                   *)
ProofsHold == TypeOK /\ CompletedIsProved /\ NothingDrawnUnproved

(* What a run leaves behind tells its outcome: a lock stands for a whole   *)
(* drawing, the directory is the last attempt's, a failure has its report  *)
(* and no checkpoint thread stays (BlenderRunner.generate,                 *)
(* _release_workflow_checkpoint).                                          *)
WhatRunsLeave ==
    LockMeansWhole /\ ResultMatchesDirectory /\ FailureIsExplained /\ ThreadsReleased
=============================================================================
