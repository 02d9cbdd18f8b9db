---------------------------- MODULE BuildEvidence ----------------------------
(***************************************************************************)
(* What a build leaves behind to be believed: the runner measures the      *)
(* staged files and binds them with a lock (blender_runner.py), the        *)
(* orchestrator certifies them (completion_certificate.py), publication    *)
(* and every later read verify them again (scene_versioning.py).           *)
(*                                                                         *)
(* A file is absent (0), as written (1) or altered since (2); a hash is    *)
(* the content it was taken of.  What an altered file says is anybody's    *)
(* guess: a check that reads it may pass or fail.                          *)
(***************************************************************************)
EXTENDS SceneBuild

CONSTANTS Published,   \* versions published by earlier releases
          MaxDamages   \* bound on the alterations of files

VARIABLES written,     \* [file of the build -> its content]
          damages,     \* how often a file was altered
          measured,    \* [evidence file -> content of the model it measured]
          lock,        \* the build lock
          certificate, \* the completion certificate
          proof,       \* content of the reports when their proof was written
          publication, \* what the manifest recorded
          answer       \* the last verification of the published version

evidenceVars == <<written, damages, measured, lock, certificate, proof, publication, answer>>
versionVars == <<buildVars, evidenceVars>>

Measurements == {"constraint_evidence", "sector_previews", "tower_access_evidence"}
Families == {"component_proofs"} \cup Measurements
Files == {"glb", "preview", "metadata", "scene_spec", "build_lock", "certificate",
          "reports", "status"} \cup Families

NoHashes == [f \in Files |-> 0]
NoLock == [schema |-> "none", declares |-> {}, inputs |-> {}, builders |-> "none",
           files |-> NoHashes]
NoCertificate == [schema |-> "none", checks |-> {}, files |-> NoHashes]
Unpublished == [certificate |-> 0, status |-> 0, files |-> NoHashes]
NoAnswer == [asked |-> FALSE, verified |-> FALSE, gaps |-> {}]

(* The evidence profiles a lock declares, those of its release. *)
Profiles == {"sector_previews", "tower_access_evidence"}
(* The evidence families a scene needs. *)
SectorPreviewRequired(d) == d.plan
Needed(d) == (IF ProofRequired(d) THEN {"component_proofs"} ELSE {})
             \cup (IF d.plan THEN {"constraint_evidence"} ELSE {})
             \cup (IF SectorPreviewRequired(d) THEN {"sector_previews"} ELSE {})
             \cup (IF d.access THEN {"tower_access_evidence"} ELSE {})

(* What a certificate of each schema covers, and the checks it must list. *)
Covers(schema) ==
    (IF schema \in {"1.2.0", "1.3.0", "1.4.0", "1.5.0"} THEN {"component_proofs"} ELSE {})
    \cup (IF schema \in {"1.4.0", "1.5.0"} THEN {"constraint_evidence"} ELSE {})
    \cup (IF schema = "1.5.0" THEN {"tower_access_evidence"} ELSE {})
RequirementChecks == {"common", "requirements_present", "semantic_mesh_coverage_complete"}
BlueprintChecks == RequirementChecks \cup {"design_blueprint_present"}
RequiredChecks(schema, constrained) ==
    CASE schema = "1.0.0" -> RequirementChecks
      [] schema = "1.1.0" -> BlueprintChecks
      [] schema = "1.2.0" -> BlueprintChecks \cup {"component_proofs"}
      [] schema = "1.3.0" -> {"common", "cognitive_plan_linked",
                              "semantic_mesh_coverage_complete", "component_proofs"}
      [] schema = "1.4.0" -> BlueprintChecks \cup {"component_proofs", "constraint_evidence"}
      [] OTHER -> BlueprintChecks \cup {"component_proofs", "tower_access_evidence"}
                  \cup (IF constrained THEN {"constraint_evidence"} ELSE {})
Base == {"glb", "preview", "metadata", "build_lock"}
ExpectedArtifacts(schema, required) ==
    CASE schema = "1.5.0" -> Base \cup {"tower_access_evidence"}
                             \cup (required \cap {"component_proofs", "constraint_evidence"})
      [] schema = "1.4.0" -> Base \cup {"component_proofs", "constraint_evidence"}
      [] schema \in {"1.2.0", "1.3.0"} -> Base \cup {"component_proofs"}
      [] OTHER -> Base

(* What the orchestrator puts into the certificate of a new build. *)
Cognitive(d) == d.domain = "generic" /\ ~d.plan /\ ~d.access
CertifiedFamilies(d) == Needed(d) \ {"sector_previews"}
(* Mutant: component proofs decide the schema before the plan does. *)
CertificateBySchema(d) == IF Cognitive(d) THEN "1.3.0"
                          ELSE IF d.access THEN "1.5.0"
                          ELSE IF ProofRequired(d) THEN "1.2.0" ELSE "1.1.0"
CertificateSchema(d) == IF Cognitive(d) THEN "1.3.0"
                        ELSE IF d.access THEN "1.5.0"
                        ELSE IF d.plan THEN "1.4.0"
                        ELSE IF ProofRequired(d) THEN "1.2.0" ELSE "1.1.0"
IssuedChecks(d) ==
    IF Cognitive(d)
    THEN {"common", "cognitive_plan_linked", "geometry_program_mesh_coverage_complete",
          "component_proofs"}
    ELSE BlueprintChecks \cup CertifiedFamilies(d)

-----------------------------------------------------------------------------
(* Versions of earlier releases: certified and locked by older schemas.    *)
(* The publication of each refused a version without the evidence of its   *)
(* own schema, or with component proofs a lock of its time could not list. *)
Schemas == {"1.0.0", "1.1.0", "1.2.0", "1.3.0", "1.4.0", "1.5.0"}
OldVersion == [design : Scene, schema : Schemas, lock : {"1.0.0", "1.1.0", "1.2.0", "1.3.0"},
               declares : SUBSET Profiles]
Publishable(v) ==
    LET required == Needed(v.design) \cap Covers(v.schema)
    IN  /\ v.schema \in {"1.2.0", "1.3.0", "1.4.0"} => "component_proofs" \in required
        /\ v.schema = "1.4.0" => "constraint_evidence" \in required
        /\ v.schema = "1.5.0" => "tower_access_evidence" \in required
        /\ "component_proofs" \in required => v.lock \in {"1.2.0", "1.3.0"}
        /\ v.declares # {} => v.lock = "1.3.0"
ASSUME PublishedAssumption ==
    /\ Published \subseteq OldVersion
    /\ \A v \in Published : Publishable(v)
    /\ MaxDamages \in Nat
OldFiles(v) == Base \cup {"scene_spec", "certificate", "reports", "status"}
               \cup (Needed(v.design) \cap Covers(v.schema))
               \cup (v.declares \cap Needed(v.design))
OldHashes(kept) == [f \in Files |-> IF f \in kept THEN 1 ELSE 0]
InitPublished(v) ==
    LET required == Needed(v.design) \cap Covers(v.schema)
    IN  /\ design = v.design /\ disk = [s \in Sources(v.design) |-> "pinned"]
        /\ edits = MaxEdits /\ restored = {} /\ phase = "published" /\ todo = {}
        /\ importing = "no" /\ drawn = {} /\ records = {} /\ mode = "real_blender"
        /\ written = OldHashes(OldFiles(v)) /\ damages = 0
        /\ measured = [f \in Measurements |-> 1] /\ proof = 1
        /\ lock = [schema |-> v.lock, declares |-> v.declares,
                   inputs |-> Exact(v.design), builders |-> "pinned",
                   files |-> OldHashes(OldFiles(v) \ {"build_lock", "scene_spec",
                                                      "certificate", "reports", "status"})]
        /\ certificate = [schema |-> v.schema,
                          checks |-> RequiredChecks(v.schema, "constraint_evidence" \in required),
                          files |-> OldHashes(ExpectedArtifacts(v.schema, required))]
        /\ publication = [certificate |-> 1, status |-> 1,
                          files |-> OldHashes(ExpectedArtifacts(v.schema, required))]
        /\ answer = NoAnswer
InitEvidence ==
    /\ written = [NoHashes EXCEPT !["scene_spec"] = 1] /\ damages = 0
    /\ measured = [f \in Measurements |-> 0] /\ proof = 0
    /\ lock = NoLock /\ certificate = NoCertificate /\ publication = Unpublished
    /\ answer = NoAnswer

(* The worker's own steps write nothing but, at the end, the staged files. *)
Work == /\ (ValidateAssembly \/ Draw \/ CheckSegments \/ ProveComponents)
        /\ UNCHANGED evidenceVars
RunWithoutBlender ==
    /\ WithoutBlender
    /\ written' = [written EXCEPT !["metadata"] = 1]
    /\ UNCHANGED <<damages, measured, lock, certificate, proof, publication, answer>>
Library0 == UNCHANGED <<design, disk, edits, restored, todo, importing, drawn, records>>
(* The views of the whole scene and, under a plan, one of every sector. *)
Views(d) == {"preview"} \cup (IF SectorPreviewRequired(d) THEN {"sector_previews"} ELSE {})
Export ==
    /\ phase = "export" /\ phase' = "inspect" /\ mode' = "real_blender" /\ Library0
    /\ written' = [f \in Files |->
          IF f \in {"glb", "metadata"} \cup Views(design)
                   \cup (IF ProofRequired(design) THEN {"component_proofs"} ELSE {})
          THEN 1 ELSE written[f]]
    /\ UNCHANGED <<damages, measured, lock, certificate, proof, publication, answer>>

(* A file is altered or lost after it was written. *)
Damage ==
    /\ damages < MaxDamages /\ phase \notin {"failed", "refused"}
    /\ \E f \in Files, content \in {0, 2} :
         /\ written[f] = 1
         /\ written' = [written EXCEPT ![f] = content]
    /\ damages' = damages + 1 /\ answer' = NoAnswer
    /\ UNCHANGED <<buildVars, measured, lock, certificate, proof, publication>>

(* Whether a check that reads the file f may pass, given its luck. *)
Reads(f, luck) == written[f] = 1 \/ (written[f] = 2 /\ luck)

-----------------------------------------------------------------------------
(* The runner inspects the staging directory, in two reads of the model:   *)
(* the first for the structure and the constraints of the plan, ...        *)
ProofBound(luck) == written["component_proofs"] = 1 /\ Reads("metadata", luck)
InspectModel ==
    /\ phase = "inspect"
    /\ UNCHANGED <<damages, lock, certificate, proof, publication, answer, mode>> /\ Library0
    /\ \E luck \in BOOLEAN :
         IF /\ Reads("metadata", luck) /\ mode = "real_blender"
            /\ (ProofRequired(design) => ProofBound(luck))
            /\ Reads("glb", luck)
         THEN /\ phase' = "measure"
              /\ measured' = [measured EXCEPT !["constraint_evidence"] =
                                IF design.plan THEN written["glb"] ELSE 0]
              /\ written' = [written EXCEPT !["constraint_evidence"] = IF design.plan THEN 1 ELSE 0]
         ELSE phase' = "failed" /\ UNCHANGED <<written, measured>>

(* ... the second for the previews and the access to the tower.            *)
MeasureViews ==
    /\ phase = "measure"
    /\ UNCHANGED <<damages, lock, certificate, proof, publication, answer, mode>> /\ Library0
    /\ \E luck \in BOOLEAN :
         IF /\ Reads("preview", luck)
            /\ (Needed(design) \cap {"sector_previews", "tower_access_evidence"} # {}
                  => Reads("glb", luck))
            /\ ("sector_previews" \in Needed(design) => written["sector_previews"] = 1)
         THEN /\ phase' = "lock"
              /\ measured' = [f \in Measurements |->
                   IF f = "constraint_evidence" THEN measured[f]
                   ELSE IF f \in Needed(design) THEN written["glb"] ELSE 0]
              /\ written' = [written EXCEPT !["tower_access_evidence"] =
                             IF design.access THEN 1 ELSE 0]
         ELSE phase' = "failed" /\ UNCHANGED <<written, measured>>

(* Rendering may raise, and what is measured of the built pieces may always *)
(* come out wrong: their constraints and access, their place in the mesh.  *)
Fails(at) == /\ phase \in at /\ phase' = "failed"
             /\ UNCHANGED <<mode, evidenceVars>> /\ Library0
RenderingFails == Fails({"export"})
MeasurementFails == Fails({"inspect", "measure"})
MeshFails == Fails({"certify"})
InspectionFails == RenderingFails \/ MeasurementFails \/ MeshFails

(* The library must still be what the plan recorded; the evidence lists     *)
(* every exact file, those of exact programs too.                          *)
InputsUnchanged ==
    /\ (design.plan => disk["catalog"] = "pinned")
    /\ \A s \in Exact(design) \cup (design.programs \cap {"exact"}) : disk[s] = "pinned"
TrustedInputs == Exact(design) \cup (design.programs \cap {"exact"})
Builders == IF design.plan THEN disk["builders"] ELSE "none"
Locked == {"glb", "preview", "metadata"} \cup {f \in Families : written[f] # 0}
Hashes(kept) == [f \in Files |-> IF f \in kept THEN written[f] ELSE 0]

WriteLock ==
    /\ phase = "lock"
    /\ UNCHANGED <<damages, measured, certificate, proof, publication, answer, mode>> /\ Library0
    /\ IF InputsUnchanged /\ written["metadata"] # 0
       THEN /\ phase' = "compare"
            /\ lock' = [schema |-> "1.3.0", declares |-> Profiles, inputs |-> TrustedInputs,
                        builders |-> Builders, files |-> Hashes(Locked)]
            /\ written' = [written EXCEPT !["build_lock"] = 1]
       ELSE phase' = "failed" /\ UNCHANGED <<lock, written>>

(* The lock holds: every recorded file is as recorded, none is missing. *)
LockHolds == /\ \A f \in Files : lock.files[f] # 0 => written[f] = lock.files[f]
             /\ {"glb", "preview", "metadata"} \subseteq {f \in Files : lock.files[f] # 0}
LockConfirmed == /\ InputsUnchanged /\ lock.builders = Builders
                 /\ written["build_lock"] = 1 /\ written["scene_spec"] = 1
                 /\ \A f \in Locked : lock.files[f] # 0
                 /\ LockHolds
CompareLock ==
    /\ phase = "compare"
    /\ phase' = IF LockConfirmed THEN "certify" ELSE "failed"
    /\ UNCHANGED <<mode, evidenceVars>> /\ Library0

-----------------------------------------------------------------------------
(* Quality assurance reads the metadata: the records of a telecom scene    *)
(* name no missing file and no mode it does not know.                      *)
ValidModes == {"generated", "imported_glb", "stretched_imported_glb", "procedural_fallback",
               "missing_file"}
RecordsAccepted ==
    design.domain = "telecom" => \A r \in records : r.mode \in ValidModes \ {"missing_file"}

(* MeshQA counts in the model what a telecom scene asks for, the marks too; *)
(* of a generic scene every program has its meshes.                        *)
CountedRoles == (Roles \ {"antenna_mount"}) \cup (Marks \ {"tower_access", "height_marker"})
ExpectedCount(role) == IF Has(design, role) THEN Expected(role) ELSE 0
ObservedCount(role) == Cardinality({o.piece : o \in {q \in drawn : q.piece.role = role}})
SemanticCoverage == \A role \in CountedRoles : ObservedCount(role) >= ExpectedCount(role)
ProgramsMeshed == \A p \in design.programs : \E o \in drawn : o.piece = Piece("program", p)
MeshAccepted == IF design.domain = "generic" THEN ProgramsMeshed ELSE SemanticCoverage

(* A measurement counts only for the model it was taken of. *)
MeasuredThis(f) == written[f] = 1 /\ measured[f] = written["glb"]
MeasuredNeeded == \A f \in CertifiedFamilies(design) \cap Measurements : MeasuredThis(f)
(* Mutant: evidence is believed whatever model it measured. *)
EvidenceBelieved(luck) == ProofRequired(design) => ProofBound(luck)
EvidenceVerified(luck) == (ProofRequired(design) => ProofBound(luck)) /\ MeasuredNeeded
Artifacts(d) == Base \cup CertifiedFamilies(d)

Certify ==
    /\ phase = "certify"
    /\ UNCHANGED <<damages, measured, lock, proof, publication, answer, mode>> /\ Library0
    /\ \E luck \in BOOLEAN :
         IF /\ Reads("metadata", luck) /\ Reads("glb", luck) /\ Reads("preview", luck)
            /\ RecordsAccepted /\ (written["glb"] = 1 => MeshAccepted)
            /\ EvidenceVerified(luck)
            /\ \A f \in Artifacts(design) : written[f] # 0
         THEN /\ phase' = "check_certificate"
              /\ certificate' = [schema |-> CertificateSchema(design),
                                 checks |-> IssuedChecks(design),
                                 files |-> Hashes(Artifacts(design))]
              /\ written' = [written EXCEPT !["certificate"] = 1, !["reports"] = 1, !["status"] = 1]
         ELSE phase' = "failed" /\ UNCHANGED <<certificate, written>>

(* The certificate in memory is compared with the files once more. *)
FilesCertified == \A f \in Files : certificate.files[f] # 0 => written[f] = certificate.files[f]
CheckCertificate ==
    /\ phase = "check_certificate"
    /\ phase' = IF FilesCertified /\ MeasuredNeeded THEN "publish" ELSE "failed"
    /\ UNCHANGED <<mode, evidenceVars>> /\ Library0

-----------------------------------------------------------------------------
(* verify_persisted_version_detailed: the version under its own contract.  *)
Uncovered == (Needed(design) \ {"sector_previews"}) \ Covers(certificate.schema)
Required == Needed(design) \cap Covers(certificate.schema)
PreviewsGap == IF SectorPreviewRequired(design)
                  /\ ~(lock.schema = "1.3.0" /\ "sector_previews" \in lock.declares)
               THEN {"sector_previews"} ELSE {}
Gaps == Uncovered \cup PreviewsGap
ChecksComplete ==
    certificate.checks = RequiredChecks(certificate.schema, "constraint_evidence" \in Required)
ArtifactsComplete ==
    {f \in Files : certificate.files[f] # 0} = ExpectedArtifacts(certificate.schema, Required)
(* The trusted inputs a lock may list: those of the plan's components. *)
InputsOfPlan == lock.schema \in {"1.2.0", "1.3.0"} => lock.inputs = Exact(design)
LockVerified == /\ written["build_lock"] = 1 /\ written["scene_spec"] = 1
                /\ lock.schema # "none" /\ InputsOfPlan /\ LockHolds
                /\ (written["component_proofs"] # 0 => lock.files["component_proofs"] # 0)
                /\ ("tower_access_evidence" \in lock.declares /\ design.access
                      => lock.files["tower_access_evidence"] # 0)
PreviewsVerified ==
    SectorPreviewRequired(design) /\ PreviewsGap = {} => MeasuredThis("sector_previews")
(* The reports are bound since locks of 1.1.0; those of an older version   *)
(* were never part of what its publication recorded.                       *)
ReportsBound == lock.schema \in {"1.1.0", "1.2.0", "1.3.0"}
(* Mutant: the reports are there; what they say is not compared. *)
ReportsPresent == ReportsBound => written["reports"] # 0
ReportsVerified == ReportsBound => written["reports"] # 0 /\ written["reports"] = proof
PersistedVersion(luck) ==
    /\ Reads("certificate", luck) /\ ChecksComplete
    /\ (certificate.schema = "1.5.0" => "tower_access_evidence" \in Required)
    /\ (certificate.schema = "1.4.0" => "constraint_evidence" \in Required)
    /\ FilesCertified /\ ArtifactsComplete
    /\ \A f \in Required \cap Measurements : MeasuredThis(f)
    /\ LockVerified
    /\ ("component_proofs" \in Required => lock.schema \in {"1.2.0", "1.3.0"})
    /\ PreviewsVerified /\ Reads("status", luck)

(* Publication: verify, write the proof of the reports, then the manifest. *)
Publish ==
    /\ phase = "publish"
    /\ UNCHANGED <<written, damages, measured, lock, certificate, answer, mode>> /\ Library0
    /\ \E luck \in BOOLEAN :
         IF PersistedVersion(luck) /\ (ReportsBound => written["reports"] # 0)
         THEN /\ phase' = "published" /\ proof' = written["reports"]
              /\ publication' = [certificate |-> written["certificate"],
                                 status |-> written["status"],
                                 files |-> certificate.files]
         ELSE phase' = "refused" /\ UNCHANGED <<proof, publication>>

(* verified_active_version: each later read repeats it, and compares the   *)
(* manifest.                                                               *)
ReadPublished ==
    /\ phase = "published" /\ ~answer.asked
    /\ \E luck \in BOOLEAN :
         LET verified == /\ PersistedVersion(luck) /\ ReportsVerified
                         /\ written["status"] = publication.status
                         /\ written["certificate"] = publication.certificate
                         /\ certificate.files = publication.files
         IN  answer' = [asked |-> TRUE, verified |-> verified,
                        gaps |-> IF verified THEN Gaps ELSE {}]
    /\ UNCHANGED <<buildVars, written, damages, measured, lock, certificate, proof, publication>>

Runner == \/ Export \/ InspectModel \/ MeasureViews \/ WriteLock \/ CompareLock
          \/ Certify \/ CheckCertificate \/ Publish
InitAll == (WorkerInit /\ InitEvidence) \/ \E v \in Published : InitPublished(v)
EditWhileBuilding ==
    /\ EditLibrary /\ phase \notin {"published", "failed", "refused"}
    /\ UNCHANGED evidenceVars
VersionNext == \/ Work \/ Runner \/ RunWithoutBlender \/ InspectionFails \/ ReadPublished
        \/ EditWhileBuilding \/ Damage
VersionSpec == InitAll /\ [][VersionNext]_versionVars

-----------------------------------------------------------------------------
Ended == {"failed", "refused", "published"}
Issued == certificate.schema # "none"
Built == drawn # {}
HashSet == [Files -> 0..2]

(* Types, and what a lock may record: the model, its preview, the metadata *)
(* and the evidence; a certificate names no file that was missing.         *)
BuildTypeOK ==
    /\ DOMAIN disk = Sources(design) /\ edits \in 0..MaxEdits /\ restored \subseteq DOMAIN disk
    /\ phase \in {"check", "draw", "prove", "export", "inspect", "measure", "lock", "compare",
                 "certify", "check_certificate", "publish"} \cup Ended
    /\ importing \in {"no", "pinned", "hashed"}
    /\ todo \subseteq Pieces(design)
    /\ \A x \in drawn \cup records : x.piece \in Pieces(design)
    /\ written \in HashSet /\ lock.files \in HashSet /\ damages \in 0..MaxDamages
    /\ {f \in Files : lock.files[f] # 0} \subseteq {"glb", "preview", "metadata"} \cup Families
    /\ Issued => \A f \in Artifacts(design) \cap Base : certificate.files[f] # 0

(* An exactly imported piece of a locked build holds the content the plan  *)
(* pinned, unless its file was changed between the last hash and Blender's *)
(* read and put back before the lock was written: three readings of the    *)
(* file agree with the plan and the fourth, the import itself, is unseen.  *)
AuthenticSources ==
    phase \in {"compare", "certify", "check_certificate", "publish", "published"} =>
        \A o \in drawn :
            /\ (o.piece.role \in Exact(design) => o.of = "pinned" \/ o.piece.role \in restored)
            /\ (o.piece = Piece("program", "exact") => o.of = "pinned" \/ "exact" \in restored)

(* A certified scene was drawn by Blender and is exactly the planned one:  *)
(* each piece once, nothing left of a failed import, every record told how *)
(* its piece came to be and a replaced piece is recorded as replaced.      *)
CertifiedIsDrawn ==
    Issued /\ Built =>
        /\ mode = "real_blender"
        /\ {o.piece : o \in drawn} = Pieces(design)
        /\ \A o, p \in drawn : o.piece = p.piece => o = p
        /\ \A r \in records : \E o \in drawn :
              o.piece = r.piece /\ (o.of = "fallback" <=> r.mode = "procedural_fallback")

(* The measurements a certificate rests on were taken of the model it      *)
(* certifies, although the model is a file that is read four times.        *)
CertifiedWasMeasured ==
    Issued =>
        \A f \in Needed(design) \cap Covers(certificate.schema) \cap Measurements :
            measured[f] = certificate.files["glb"]

(* Which certified builds publication refuses although nobody touched      *)
(* their files: those of the cognitive path, whose certificate lists       *)
(* geometry_program_mesh_coverage_complete where the verifier wants        *)
(* semantic_mesh_coverage_complete; those with an exact program, whose     *)
(* file the lock lists and the verifier does not expect; and those with    *)
(* access evidence but no component proof.  All others are published.      *)
Contradicted(d) == Cognitive(d) \/ "exact" \in d.programs \/ (d.access /\ ~ProofRequired(d))
SoundBuildsArePublished ==
    phase \in {"refused", "published"} /\ damages = 0 /\ Built =>
        (phase = "refused" <=> Contradicted(design))

(* A published version nobody touched is verified by every read, those of  *)
(* earlier releases under the contract of their own schema.                *)
IntactIsServed == damages = 0 /\ answer.asked => answer.verified

(* What a verified answer vouches for: the certified files, the status and *)
(* - where a publication bound them - the reports are those of the         *)
(* publication, and every evidence the scene needs is there and was taken  *)
(* of the served model, or is named as a gap.                              *)
VerifiedMeansWhole ==
    answer.verified =>
        /\ ReportsBound => written["reports"] = proof
        /\ written["status"] = publication.status
        /\ \A f \in Base : written[f] = publication.files[f]
        /\ \A f \in Needed(design) \ answer.gaps :
              written[f] # 0 /\ (f \in Measurements => measured[f] = written["glb"])

(* A certificate is issued only of a whole drawing by Blender, from the    *)
(* content that was pinned, measured on the model it names                 *)
(* (blender_runner.py, completion_certificate.py).                         *)
CertifiedIsTrue ==
    BuildTypeOK /\ AuthenticSources /\ CertifiedIsDrawn /\ CertifiedWasMeasured

(* A read verifies what nobody touched, and whatever it verifies is whole  *)
(* (scene_versioning.py verified_active_version).                          *)
VerifiedReads == IntactIsServed /\ VerifiedMeansWhole
=============================================================================
