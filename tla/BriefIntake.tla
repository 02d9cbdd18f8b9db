----------------------------- MODULE BriefIntake -----------------------------
(* A telecom brief from the user's words to a validated scene. A client has    *)
(* a text analysed, and either confirms that analysis or sends a text straight *)
(* to creation; the chat's document pack adds its confirmed facts to whatever  *)
(* text is sent. The run then retrieves hints, chooses equipment, validates,   *)
(* and plans the scene.                                                        *)
(*                                                                             *)
(* One brief at a time; the process may restart, which forgets the secret that *)
(* signs the analyses, and the pack's facts may be corrected.                  *)
EXTENDS SitePlan

CONSTANTS
  Texts,       \* what a user may write
  Answers,     \* what a model may answer, as changes of the baseline it is shown
  Knowledge,   \* the lists of hints a search of the knowledge base may return
  Catalogues,  \* the sets of assets the library may hold
  Facts,       \* the successive confirmed facts of the chat's pack
  MaxRestarts  \* bound: restarts of the API process

ASSUME TextsAssumption == \A text \in Texts : IsText(text)

\* What an answer may be: values of the type of their field, sound or not, and requests,
\* sound or not, whose description covers what it is for.
IsAnswer(answer) ==
  /\ DOMAIN answer.over \subseteq BriefFields
  /\ "include_cables" \in DOMAIN answer.over => answer.over.include_cables \in BOOLEAN
  /\ answer.requests \in Seq([id : STRING, inside : SUBSET STRING, quantity : Nat,
                              sound : BOOLEAN, parts : SUBSET STRING])
  /\ \A i \in DOMAIN answer.requests : answer.requests[i].id \in answer.requests[i].parts

ASSUME AnswersAssumption == \A answer \in Answers : IsAnswer(answer)

ASSUME KnowledgeAssumption ==
  \A hints \in Knowledge : Len(hints) \in Nat /\ DOMAIN hints = 1 .. Len(hints)

ASSUME CataloguesAssumption ==
  \A catalogue \in Catalogues :
    IsFiniteSet(catalogue) /\ \A a \in catalogue : a.height \in Nat

\* A revision of the pack is the list of its facts, field by field.
ASSUME FactsAssumption ==
  /\ Facts \in Seq([tower_height_m : Seq(Nat), sector_count : Seq(Nat),
                    antenna_install_height_m : Seq(Nat), azimuths_deg : Seq(Seq(Nat))])
  /\ MaxRestarts \in Nat

VARIABLES
  process,   \* the running API process
  pack,      \* the revision of the chat's pack, 0 when it has none
  analysis,  \* the last analysis the client holds
  design     \* the design under way

briefVars == <<process, pack, analysis, design>>

None == [process |-> 0]

NoAnswer == [over |-> [f \in {} |-> 0], written |-> {}, requests |-> <<>>, objectMode |-> FALSE]

NoDesign ==
  [stage |-> "none", reason |-> "none", route |-> "none", text |-> <<>>, pack |-> 0,
   answer |-> NoAnswer, requirement |-> <<>>, hints |-> <<>>, plan |-> <<>>,
   assets |-> <<>>, catalogue |-> {}, deck |-> 0, scene |-> <<>>]

Idle == design.stage = "none"

(* combine_prompt_with_document_context: the facts follow the user's words,    *)
(* each a plain statement.                                                     *)
FactsOf(revision, f) == IF revision = 0 THEN <<>> ELSE Facts[revision][f]

AsStatements(facts) == [i \in DOMAIN facts |-> [value |-> facts[i], late |-> FALSE]]

WithFacts(text, revision) ==
  [f \in DOMAIN text |-> IF f \in Critical
                         THEN text[f] \o AsStatements(FactsOf(revision, f)) ELSE text[f]]

(* The receipt of an analysis. *)
Receipt(text, read) ==
  [process |-> process, text |-> text, pack |-> pack,
   requirement |-> read.requirement, answer |-> read.answer]

(* RequirementExtractor.extract: the requirements it may return for a text. A  *)
(* rejected answer, a provider that fails and a provider that is off all end   *)
(* with the baseline.                                                          *)
Readings(text) ==
  IF Unreadable(text) THEN {}
  ELSE {[requirement |-> Extracted(text, a), answer |-> a] :
          a \in {b \in Answers : ~Rejected(text, Baseline(text), b)}}
       \cup {[requirement |-> r, answer |-> NoAnswer] : r \in {Fallback(text), Deterministic(text)}}

(* Every text a run may be given, read once.                                    *)
Whole == {WithFacts(text, revision) : text \in Texts, revision \in 0 .. Len(Facts)}

Reading == [text \in Whole |-> Readings(text)]

Plainly == [text \in {t \in Whole : ~Unreadable(t)} |-> Deterministic(text)]

BriefInit ==
  /\ process = 1
  /\ pack \in {0} \cup {i \in {1} : Facts # <<>>}
  /\ analysis = None
  /\ design = NoDesign

-----------------------------------------------------------------------------
\* parse_requirements: a receipt and a token are issued for what was read, unless the
\* text says nothing of a site. A text the parser cannot read is answered with an error.
Analyse(text) ==
  /\ Idle
  /\ LET whole == WithFacts(text, pack) IN
     \E read \in Reading[whole] :
       analysis' = IF SiteEvidence(read.requirement)
                   THEN Receipt(whole, read)
                   ELSE None
  /\ UNCHANGED <<process, pack, design>>

(* A run that ends without a scene. *)
Failed(reason) == [NoDesign EXCEPT !.stage = "failed", !.reason = reason]

\* The user corrects a confirmed fact: the pack's digest changes.
CorrectPack ==
  /\ Idle
  /\ pack # 0 /\ pack < Len(Facts)
  /\ pack' = pack + 1
  /\ UNCHANGED <<process, analysis, design>>

\* A new process signs with a secret of its own. A run under way is lost with the old one.
RestartApi ==
  /\ process <= MaxRestarts
  /\ process' = process + 1
  /\ design' = IF design.stage \in {"none", "planned", "failed"} THEN design
               ELSE Failed("INTERRUPTED")
  /\ UNCHANGED <<pack, analysis>>

\* What a confirmation must satisfy: nothing left to confirm, the same facts, the same
\* text and requirement as the receipt, a token of this process, a site.
\* Mutant: the token is not bound to the process.
AdmittedByAnyProcess(text, sent) ==
  /\ analysis # None
  /\ ~UnresolvedState(sent)
  /\ analysis.pack = pack
  /\ analysis.text = text /\ analysis.requirement = sent
  /\ SiteEvidence(sent)

Admitted(text, sent) ==
  /\ analysis # None
  /\ ~UnresolvedState(sent)
  /\ analysis.pack = pack
  /\ analysis.text = text /\ analysis.requirement = sent
  /\ analysis.process = process
  /\ SiteEvidence(sent)

Started(stage, route, text) ==
  [NoDesign EXCEPT !.stage = stage, !.route = route, !.text = text, !.pack = pack]

\* POST /designs with a confirmed requirement: any text, and the requirement of the
\* analysis or another one.
Confirm(text) ==
  /\ Idle
  /\ analysis # None
  /\ LET whole == WithFacts(text, pack) IN
     \E sent \in {analysis.requirement}
                   \cup {Plainly[t] : t \in {whole} \cap DOMAIN Plainly} :
       /\ Admitted(whole, sent)
       /\ design' = [Started("context", "confirmed", whole) EXCEPT
                       !.answer = analysis.answer, !.requirement = sent]
  /\ analysis' = None
  /\ UNCHANGED <<process, pack>>

\* POST /designs with a text alone: it is accepted as it is.
CreateFromText(text) ==
  /\ Idle
  /\ design' = Started("extract", "text", WithFacts(text, pack))
  /\ analysis' = None
  /\ UNCHANGED <<process, pack>>

-----------------------------------------------------------------------------
Untouched == UNCHANGED <<process, pack, analysis>>

\* _extract_requirements: the text is read again, possibly with another answer.
Extract ==
  /\ design.stage = "extract"
  /\ \/ /\ Reading[design.text] = {}
        /\ design' = Failed("EXTRACTION_FAILED")
     \/ \E read \in Reading[design.text] :
          design' = IF read.requirement.confirmation_fields # {}
                    THEN Failed("INPUT_CONFIRMATION_REQUIRED")
                    ELSE [design EXCEPT !.stage = "context", !.answer = read.answer,
                                        !.requirement = read.requirement]
  /\ Untouched

\* _retrieve_rag_context: a search that fails is an empty context.
RetrieveContext ==
  /\ design.stage = "context"
  /\ \E hints \in Knowledge \cup {<<>>} :
       design' = [design EXCEPT !.stage = "decide", !.hints = hints]
  /\ Untouched

\* _decide_planning_context: a planning model is asked when one is configured and some
\* hint could change something; refused or failing, it leaves every value.
Decide ==
  /\ design.stage = "decide"
  /\ \E asked \in BOOLEAN :
       \E pick \in Picks(design.hints, design.requirement, asked) :
         design' = [design EXCEPT !.stage = "assets",
                      !.plan = Resolution(pick, design.hints, design.requirement)]
  /\ Untouched

\* _select_assets, then _asset_fallback_handler when a slot has no compatible asset.
SelectAssets ==
  /\ design.stage = "assets"
  /\ \E catalogue \in Catalogues :
       LET r          == design.requirement
           assemblies == Assemblies(catalogue, r)
           Take(kit)  == design' = [design EXCEPT !.stage = "validate", !.assets = kit,
                                                  !.catalogue = catalogue]
       IN  \/ \E picked \in assemblies : Take(picked)
           \/ /\ assemblies = {} /\ FallbackPossible(catalogue, r)
              /\ Take(FallbackAssembly(catalogue, r))
           \/ /\ assemblies = {} /\ ~FallbackPossible(catalogue, r)
              /\ design' = Failed("ASSET_FALLBACK_FAILED")
  /\ Untouched

\* _validate_requirements: the tower engineer reads the words of the run, which for a
\* confirmed requirement are not the user's.
Declined == design.route = "text" /\ design.text.platform = "declined"

ValidateRequirements ==
  /\ design.stage = "validate"
  /\ design' = IF ~RulesPass(design.requirement) THEN Failed("RULE_VIOLATION")
               ELSE [design EXCEPT !.stage = "plan",
                       !.deck = IF DeckWanted(design.requirement, Declined)
                                THEN DeckLevel(design.requirement) ELSE 0]
  /\ Untouched

\* compose_design_blueprint, plan_scene and the generated components, whose planner may
\* refuse them.
PlanScene ==
  /\ design.stage = "plan"
  /\ \/ LET r == design.requirement IN
        design' = IF /\ SpecialistsPass(r, design.assets)
                     /\ BlueprintCovers(r, design.plan, Blueprint(r, design.plan))
                  THEN [design EXCEPT !.stage = "check",
                          !.scene = Scene(r, design.plan, design.assets, design.deck)]
                  ELSE Failed("BLUEPRINT_REFUSED")
     \/ /\ DOMAIN design.requirement.requests # {}
        /\ design' = Failed("GEOMETRY_PROGRAM_FAILED")
  /\ Untouched

\* _validate_scene. Nothing repair_scene_spec mends is wrong with a planned scene, so a
\* refused scene ends the run.
ValidateScene ==
  /\ design.stage = "check"
  /\ design' = IF SceneAccepted(design.requirement, design.plan, design.scene, design.deck)
               THEN [design EXCEPT !.stage = "planned"]
               ELSE Failed("SCENE_REFUSED")
  /\ Untouched

Steps == \/ Extract \/ RetrieveContext \/ Decide \/ SelectAssets
         \/ ValidateRequirements \/ PlanScene \/ ValidateScene

BriefNext ==
  \/ \E text \in Texts : Analyse(text) \/ Confirm(text) \/ CreateFromText(text)
  \/ CorrectPack
  \/ RestartApi
  \/ Steps

BriefSpec == BriefInit /\ [][BriefNext]_briefVars
-----------------------------------------------------------------------------
(* What must hold. *)

Read ==
  design.stage \in {"context", "decide", "assets", "validate", "plan", "check", "planned"}

ScenePlanned == design.stage = "planned"

\* Every requirement a run works on, and every analysis a client holds, satisfies the
\* contract of RequirementSpec (contracts/requirements.py:206-248).
BriefTypeOK ==
  /\ process \in 1 .. MaxRestarts + 1
  /\ pack \in 0 .. Len(Facts)
  /\ analysis # None => Valid(analysis.requirement.values)
  /\ design.stage \in {"none", "extract", "context", "decide", "assets", "validate",
                       "plan", "check", "planned", "failed"}
  /\ Read => Valid(design.requirement.values)

\* What a person means by several statements of one field: the last correction.
Meant(stated) ==
  LET late == {i \in DOMAIN stated : stated[i].late}
  IN  IF late = {} THEN stated[1].value ELSE stated[Max(late)].value

\* What the user and the pack said reaches the planned scene, whatever the model answers
\* and the knowledge base hints (groq.py _protect_explicit_source_fields; rag/planning.py
\* "without overriding source-backed requirements"). A platform declined by the user of a
\* confirmed requirement is added all the same, and "gnss" is not read.
StatedIsKept ==
  ScenePlanned =>
    LET t == design.text
        s == design.scene
        Kept(f, value) == t[f] # <<>> => value = Meant(t[f])
    IN  /\ Kept("tower_height_m", s.tower_height_m)
        /\ Kept("sector_count", Len(s.azimuths_deg))
        /\ Kept("antenna_install_height_m", s.antenna_install_height_m)
        /\ t.azimuths_deg # <<>> =>
             \A i \in DOMAIN s.azimuths_deg :
               s.azimuths_deg[i] = Meant(t.azimuths_deg)[i] % 360
        /\ t.tower_type # "unsaid" => s.structure = StructureFor(t.tower_type)
        /\ t.beamwidth_deg # 0 => s.beamwidth_deg = t.beamwidth_deg
        /\ t.cables # "unsaid" => (s.cables > 0) = (t.cables = "wanted")
        /\ t.gps = "gps" => s.gps
        /\ t.platform = "wanted" => s.platforms > 0
        /\ t.platform = "declined" /\ design.route = "text" => s.platforms = 0

\* A text that contradicts itself is never planned: two values of a field and no
\* correction, sectors and azimuths that do not match, antennas above the tower
\* (requirement_provenance.py resolve_critical_requirements).
ContradictionNeverPlanned ==
  ScenePlanned =>
    LET t == design.text
        Said(f) == t[f] # <<>>
    IN  /\ \A f \in Critical :
             (\E i, j \in DOMAIN t[f] : t[f][i].value # t[f][j].value)
               => \E i \in DOMAIN t[f] : t[f][i].late
        /\ Said("sector_count") /\ Said("azimuths_deg")
             => Len(Meant(t.azimuths_deg)) = Meant(t.sector_count)
        /\ Said("tower_height_m") /\ Said("antenna_install_height_m")
             => Meant(t.antenna_install_height_m) <= Meant(t.tower_height_m)

\* The confirmed facts of the pack in force when the run was accepted are those of the
\* planned scene, unless the user's own words correct them (prompt_context.py, main.py
\* _document_aware_requirements_text).
FactsReachTheScene ==
  ScenePlanned =>
    LET told == FactsOf(design.pack, "tower_height_m")
        said == design.text.tower_height_m
    IN  \A i \in DOMAIN told :
          design.scene.tower_height_m = told[i] \/ \E k \in DOMAIN said : said[k].late

\* The evidence shown beside a value is about that value, and blames the user's text only
\* for what the text says (groq.py _merge_llm_provenance, requirement_provenance.py
\* align_evidence_with_repaired_values). A number a model wrote as text and the tower's
\* characteristics may replace a default without their evidence following: it then still
\* speaks of what was not said.
SourcesAreTrue ==
  LET Lagging(f, answer) == f \in answer.written \cup {"tower_characteristics"}
      Told(r, text, answer) ==
        /\ \A f \in BriefFields : \/ r.evidence[f].value = r.values[f]
                                  \/ Lagging(f, answer) /\ ~r.evidence[f].explicit
        /\ \A f \in Critical : r.evidence[f].source = "user_text" => text[f] # <<>>
  IN  /\ analysis # None => Told(analysis.requirement, analysis.text, analysis.answer)
      /\ Read => Told(design.requirement, design.text, design.answer)

\* The planned scene differs from the requirement only in planning fields nobody stated,
\* and then by a hint of the right type, scope and range (rag/planning.py).
WithinAuthority ==
  ScenePlanned =>
    LET r == design.requirement
        s == design.scene
        Hinted(f, value) ==
          /\ f \in r.defaults
          /\ \E i \in DOMAIN design.hints :
               /\ design.hints[i].field = f /\ design.hints[i].value = value
               /\ design.hints[i].typed
               /\ design.hints[i].scope = {} \/ r.values.tower_type \in design.hints[i].scope
    IN  /\ s.beamwidth_deg # r.values.beamwidth_deg => Hinted("beamwidth_deg", s.beamwidth_deg)
        /\ s.antenna_install_height_m # r.values.antenna_install_height_m
             => Hinted("antenna_install_height_m", s.antenna_install_height_m)
        /\ (s.cables > 0) = r.values.include_cables
        /\ s.antenna_install_height_m <= s.tower_height_m

\* The support is of the type asked for whenever the catalogue has one of that type, and
\* the antenna fits the support whenever one does (asset_registry.py select_*_fallback).
NearestEquipment ==
  ScenePlanned =>
    LET type  == design.requirement.values.tower_type
        tower == design.scene.tower
        Has(kind, t) == OfTowerType(design.catalogue, kind, t) # {}
    IN  /\ Has("tower", type) => Fits(tower, type)
        /\ \E t \in IF tower.towers = {} THEN {type} ELSE tower.towers :
             Has("antenna", t) => Fits(design.scene.antenna, t)

\* Every component a model asks for is planned, by itself or in the description of the
\* component it is part of (groq.py _compose_nested_geometry_requests), unless the contract
\* refused one of them: then all are given up, and a warning says the answer was repaired
\* (groq.py _repair_and_validate). Left out: a component inside one that is itself inside
\* another, whose description is lost.
RequestsSurvive ==
  Read =>
    LET asked == design.answer.requests
        kept  == design.requirement.requests
        Nested(r) == \E i \in DOMAIN asked : asked[i].id \in r.inside /\ asked[i].inside # {}
        Told      == ~RequestsValid(asked) /\ "LLM_FIELD_REPAIRED" \in design.requirement.warnings
    IN  \A i \in DOMAIN asked :
          Nested(asked[i]) \/ Told \/ \E k \in DOMAIN kept : asked[i].id \in kept[k].parts

\* A confirmed run works on the very analysis the running process issued, for the same
\* text, the same facts and nothing left to confirm (main.py _create_design, hashing.py
\* "A confirmation is valid only for the API process that issued it").
ConfirmedIsAnalysed ==
  [][design.stage = "none" /\ design'.stage = "context" =>
       /\ analysis.process = process
       /\ design'.requirement = analysis.requirement
       /\ design'.text = analysis.text /\ analysis.pack = design'.pack
       /\ design'.requirement.confirmation_fields = {}]_briefVars

\* What the text, the pack's facts or a confirmed component request says is in the planned
\* scene, and what contradicts itself is planned by nobody (groq.py, fallback.py, main.py).
SaidIsPlanned ==
  BriefTypeOK /\ StatedIsKept /\ FactsReachTheScene /\ RequestsSurvive /\ ContradictionNeverPlanned

\* Nothing is blamed on the user that the user did not say, no hint decides more than it may
\* and no equipment replaces a nearer one (requirement_provenance.py, rag/planning.py,
\* asset_registry.py).
NothingInvented == SourcesAreTrue /\ WithinAuthority /\ NearestEquipment
=============================================================================
