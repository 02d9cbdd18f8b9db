---------------------------- MODULE BlenderBuild ----------------------------
(***************************************************************************)
(* BlenderRunner.generate: a scene is drawn in a staging directory, the    *)
(* drawing is checked there and locked to its inputs, and only then its    *)
(* files are moved one by one into the output directory, the lock last.    *)
(* Three attempts; then, or when Blender is absent or too slow, the        *)
(* directory is emptied and a metadata file says that nothing was drawn.   *)
(*                                                                         *)
(* A file is the number of the attempt that made it. What Blender draws    *)
(* is abstracted to whether the checks of an attempt pass.                 *)
(***************************************************************************)
EXTENDS Integers, FiniteSets

CONSTANTS
    MaxScene,     \* bound: scenes a run can go through
    Payload,      \* number of payload files of a drawing, in the order of promotion
    MaxTroubles   \* bound: errors raised, files altered by someone else, deaths

ASSUME BuildAssumption ==
    MaxScene \in Nat \ {0} /\ Payload \in Nat \ {0} /\ MaxTroubles \in Nat

VARIABLES
    step,        \* where generate is
    attempt,     \* the attempt under way, 0 before the first
    drawing,     \* the scene generate was called with
    scene_file,  \* the scene scene_spec.json holds
    staging,     \* attempts whose staging directory exists
    files,       \* the payload files of the output directory
    lock,        \* build.lock.json of the output directory: attempt and scene
    mode,        \* generation mode of the result, "none" before it
    troubles     \* errors, alterations and deaths so far

disk  == <<scene_file, staging, files, lock>>
build == <<step, attempt, drawing, disk, mode>>

Steps == {"idle", "open", "stage", "run", "check", "seal", "verify", "compare", "promote",
          "recheck", "clear", "done", "raised"}
Fallbacks == {"fallback_no_blender", "fallback_blender_timeout", "fallback_blender_error"}

Absent  == 0
Report  == 4                     \* the metadata of a fallback, made by no attempt
Made    == {Absent, Report} \cup 1 .. 3
Altered == MaxScene + 1          \* a scene_spec.json that is no scene of this run
Unlocked == [by |-> 0, scene |-> 0]
Empty    == [i \in 1 .. Payload |-> Absent]

BuildTypeOK ==
    /\ step \in Steps
    /\ attempt \in 0 .. 3
    /\ drawing \in 0 .. MaxScene
    /\ scene_file \in 0 .. Altered
    /\ staging \subseteq 1 .. 3
    /\ files \in [1 .. Payload -> Made]
    /\ lock \in [by : 0 .. 3, scene : 0 .. MaxScene]
    /\ mode \in {"none", "real_blender"} \cup Fallbacks
    /\ troubles \in 0 .. MaxTroubles

BuildInit ==
    /\ step = "idle" /\ attempt = 0 /\ drawing = 0 /\ mode = "none"
    /\ scene_file = 0 /\ staging = {} /\ files = Empty /\ lock = Unlocked

\* A run has an output directory of its own.
NewDirectory ==
    /\ step' = "idle" /\ attempt' = 0 /\ drawing' = 0 /\ mode' = "none"
    /\ scene_file' = 0 /\ staging' = {} /\ files' = Empty /\ lock' = Unlocked

Trouble == troubles < MaxTroubles /\ troubles' = troubles + 1

-----------------------------------------------------------------------------

\* scene_spec.json is replaced and hashed first.
Open(scene) ==
    /\ step = "idle"
    /\ drawing' = scene /\ scene_file' = scene
    /\ step' = "open"
    /\ UNCHANGED <<attempt, staging, files, lock, mode, troubles>>

Resolve ==
    /\ step = "open"
    /\ \/ step' = "stage" /\ attempt' = 1 /\ UNCHANGED mode
       \/ step' = "clear" /\ mode' = "fallback_no_blender" /\ UNCHANGED attempt
    /\ UNCHANGED <<drawing, disk, troubles>>

\* Mutant: every failure is followed by another attempt.
RetryAlways ==
    step' = "stage" /\ attempt' = (attempt % 3) + 1 /\ UNCHANGED mode

\* The end of a failed attempt: the next one, or the fallback.
Retry ==
    IF attempt < 3
    THEN step' = "stage" /\ attempt' = attempt + 1 /\ UNCHANGED mode
    ELSE step' = "clear" /\ mode' = "fallback_blender_error" /\ UNCHANGED attempt

Discard == staging' = staging \ {attempt}

\* The directory, the worker sources and the scene are copied; nothing was run yet.
Stage ==
    /\ step = "stage"
    /\ \/ step' = "run" /\ staging' = staging \cup {attempt} /\ UNCHANGED <<attempt, mode>>
       \/ Discard /\ Retry
    /\ UNCHANGED <<drawing, scene_file, files, lock, troubles>>

\* A time-out is the one failure that is not tried again.
Run ==
    /\ step = "run"
    /\ \/ step' = "check" /\ UNCHANGED <<attempt, staging, mode>>
       \/ Discard /\ Retry
       \/ /\ Discard /\ step' = "clear" /\ mode' = "fallback_blender_timeout"
          /\ UNCHANGED attempt
    /\ UNCHANGED <<drawing, scene_file, files, lock, troubles>>

\* The metadata, component proofs, model, constraints and previews of the staged drawing.
Check ==
    /\ step = "check"
    /\ \/ step' = "seal" /\ UNCHANGED <<attempt, staging, mode>>
       \/ Discard /\ Retry
    /\ UNCHANGED <<drawing, scene_file, files, lock, troubles>>

\* The lock is written beside the staged files. The catalogue it binds may have changed
\* since Blender read it, or change before the lock is verified.
Seal ==
    /\ step = "seal"
    /\ \/ step' = "verify" /\ UNCHANGED <<attempt, staging, mode>>
       \/ Discard /\ Retry
    /\ UNCHANGED <<drawing, scene_file, files, lock, troubles>>

Verify ==
    /\ step = "verify"
    /\ \/ step' = "compare" /\ UNCHANGED <<attempt, staging, mode>>
       \/ Discard /\ Retry
    /\ UNCHANGED <<drawing, scene_file, files, lock, troubles>>

\* The public scene must still be the one that was drawn.
Compare ==
    /\ step = "compare"
    /\ IF scene_file = drawing
       THEN step' = "promote" /\ UNCHANGED <<attempt, staging, mode>>
       ELSE Discard /\ Retry
    /\ UNCHANGED <<drawing, scene_file, files, lock, troubles>>

\* Mutant: the lock is promoted first.
PromoteLockFirst ==
    /\ step = "promote"
    /\ IF lock.by # attempt
       THEN /\ lock' = [by |-> attempt, scene |-> drawing]
            /\ UNCHANGED <<files, step, staging>>
       ELSE IF \A i \in 1 .. Payload : files[i] = attempt
            THEN step' = "recheck" /\ Discard /\ UNCHANGED <<files, lock>>
            ELSE /\ \E i \in 1 .. Payload :
                       /\ files[i] # attempt /\ \A j \in 1 .. i - 1 : files[j] = attempt
                       /\ files' = [files EXCEPT ![i] = attempt]
                 /\ UNCHANGED <<step, lock, staging>>
    /\ UNCHANGED <<attempt, drawing, scene_file, mode, troubles>>

\* _promote_staged_artifacts, one file after the other, the lock last.
Promote ==
    /\ step = "promote"
    /\ \/ \E i \in 1 .. Payload :
            /\ files[i] # attempt /\ \A j \in 1 .. i - 1 : files[j] = attempt
            /\ files' = [files EXCEPT ![i] = attempt]
            /\ UNCHANGED <<step, lock, staging>>
       \/ /\ \A i \in 1 .. Payload : files[i] = attempt
          /\ lock' = [by |-> attempt, scene |-> drawing]
          /\ step' = "recheck" /\ Discard
          /\ UNCHANGED files
    /\ UNCHANGED <<attempt, drawing, scene_file, mode, troubles>>

\* What was promoted over a scene that changed meanwhile is taken back.
Recheck ==
    /\ step = "recheck"
    /\ IF scene_file = drawing
       THEN step' = "done" /\ mode' = "real_blender"
       ELSE step' = "clear" /\ UNCHANGED mode
    /\ UNCHANGED <<attempt, drawing, disk, troubles>>

\* _clear_generated_artifacts, one file after the other, the lock after the files;
\* then the next attempt, or the metadata of the fallback.
Clear ==
    /\ step = "clear"
    /\ \/ \E i \in 1 .. Payload :
            /\ files[i] # Absent /\ \A j \in 1 .. i - 1 : files[j] = Absent
            /\ files' = [files EXCEPT ![i] = Absent]
            /\ UNCHANGED <<step, attempt, lock, mode>>
       \/ /\ files = Empty /\ lock # Unlocked
          /\ lock' = Unlocked
          /\ UNCHANGED <<step, attempt, files, mode>>
       \/ /\ files = Empty /\ lock = Unlocked
          /\ IF mode = "none" THEN Retry /\ UNCHANGED files
             ELSE /\ step' = "done" /\ files' = [files EXCEPT ![Payload] = Report]
                  /\ UNCHANGED <<attempt, mode>>
          /\ UNCHANGED lock
    /\ UNCHANGED <<drawing, scene_file, staging, troubles>>

BuildStep ==
    Resolve \/ Stage \/ Run \/ Check \/ Seal \/ Verify \/ Compare \/ Promote \/ Recheck
    \/ Clear

\* An error of the file system outside the guarded parts leaves generate as it is.
Break ==
    /\ step \in {"open", "stage", "promote", "clear"} /\ Trouble
    /\ step' = "raised"
    /\ UNCHANGED <<attempt, drawing, disk, mode>>

\* Someone else writes scene_spec.json while Blender is at work.
Alter ==
    /\ step \in {"run", "compare", "promote", "recheck"} /\ scene_file # Altered /\ Trouble
    /\ scene_file' = Altered
    /\ UNCHANGED <<step, attempt, drawing, staging, files, lock, mode>>

-----------------------------------------------------------------------------

(* The lock is the commit marker of a drawing: where it is, every payload  *)
(* file comes from the attempt it names, unless the directory is being, or *)
(* was being, emptied (_promote_staged_artifacts, blender_runner.py:950).  *)
LockMeansWhole ==
    lock # Unlocked /\ step \in {"promote", "recheck", "done"} =>
        \A i \in 1 .. Payload : files[i] = lock.by

(* A result says real_blender only of a directory whose files, lock and    *)
(* scene_spec.json agree, and fallback only of a directory with nothing    *)
(* of any attempt in it; neither leaves a staging directory behind.        *)
ResultMatchesDirectory ==
    step = "done" =>
        /\ staging = {}
        /\ mode = "real_blender" =>
              /\ lock = [by |-> attempt, scene |-> drawing]
              /\ \A i \in 1 .. Payload : files[i] = attempt
        /\ mode # "real_blender" =>
              lock = Unlocked /\ \A i \in 1 .. Payload : files[i] \in {Absent, Report}
=============================================================================
