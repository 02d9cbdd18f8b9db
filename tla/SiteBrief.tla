------------------------------ MODULE SiteBrief ------------------------------
(* What a telecom brief becomes before anything is planned: the deterministic  *)
(* reading of the text (requirement_parser, requirement_provenance), the       *)
(* merge of a model's answer with it (llm/groq), and the evidence that says    *)
(* where each value comes from. Pure operators; BriefIntake runs them.         *)
(*                                                                             *)
(* A text is a record: for each critical field the statements found in it, in  *)
(* text order, and for the other fields what it says of them (described: that  *)
(* it has words for the legs, widths, foundation or material of a tower). A    *)
(* requirement is the record of its values, the fields still carrying a        *)
(* DEFAULT warning, the evidence of each field, the fields a person must       *)
(* confirm, the components asked for and the warnings of the answer.           *)
EXTENDS Integers, Sequences, FiniteSetsExt

Critical == {"tower_height_m", "sector_count", "antenna_install_height_m", "azimuths_deg"}

BriefFields == Critical \cup {"tower_type", "tower_characteristics", "beamwidth_deg",
                              "include_cables", "include_gps_antenna"}

StructureFor(type) == IF type = "monopole" THEN "monopole" ELSE "lattice"

(* A list of statements of one field: [value, late], late marking a correction *)
(* cue before it. What the patterns of the parser find in the words.           *)
Statements(values) == Seq([value : values, late : BOOLEAN])

IsText(text) ==
  text \in [tower_height_m : Statements(Nat), sector_count : Statements(Nat),
            antenna_install_height_m : Statements(Nat), azimuths_deg : Statements(Seq(Nat)),
            tower_type : STRING, platform : {"unsaid", "wanted", "declined"},
            material : STRING, described : BOOLEAN, beamwidth_deg : Nat,
            cables : {"unsaid", "wanted", "declined"}, gps : {"unsaid", "gps", "gnss"}]

Corrections(stated) == {i \in DOMAIN stated : stated[i].late}

Conflicting(stated) == \E i, j \in DOMAIN stated : stated[i].value # stated[j].value

Chosen(stated) ==
  IF Conflicting(stated) /\ Corrections(stated) # {} THEN Max(Corrections(stated)) ELSE 1

Unresolved(stated) == Conflicting(stated) /\ Corrections(stated) = {}

Evidence(value, source, explicit, conflict, confirm) ==
  [value |-> value, source |-> source, explicit |-> explicit,
   defaulted |-> source = "default", conflict |-> conflict, confirm |-> confirm]

Resolve(stated, default) ==
  IF stated = <<>> THEN Evidence(default, "default", FALSE, FALSE, FALSE)
  ELSE Evidence(stated[Chosen(stated)].value, "user_text", TRUE,
                Conflicting(stated), Unresolved(stated))

Uniform(count) == [i \in 1 .. count |-> (360 \div count) * (i - 1)]

(* The four critical fields of a text, with the two checks between fields. *)
ResolveCritical(text) ==
  LET tower    == Resolve(text.tower_height_m, 30)
      count    == Resolve(text.sector_count, 3)
      install  == Resolve(text.antenna_install_height_m, Min({24, tower.value}))
      azimuths == Resolve(text.azimuths_deg, Uniform(count.value))
      uneven   == Len(azimuths.value) # count.value
      tooHigh  == install.value > tower.value
      Marked(e, when) == [e EXCEPT !.conflict = @ \/ when, !.confirm = @ \/ when]
  IN  [tower_height_m |-> tower,
       sector_count   |-> Marked(count, uneven),
       antenna_install_height_m |-> Marked(install, tooHigh),
       azimuths_deg   |-> IF uneven
                          THEN Marked([azimuths EXCEPT !.value = Uniform(count.value),
                                                       !.source = "repair"], TRUE)
                          ELSE azimuths]

(* repair_requirement_candidate on the resolved values. The list of azimuths   *)
(* has one entry per sector by then, so the third handler finds nothing.       *)
SafeHeight(tower) == Max({1, tower - 3})

RepairHeight(install, tower) ==
  IF tower > 0 /\ install > tower THEN SafeHeight(tower) ELSE install

RepairAzimuths(azimuths) == [i \in DOMAIN azimuths |-> azimuths[i] % 360]

(* Mutant: the evidence keeps the value that was repaired away. *)
AlignUnrepaired(evidence, value) == evidence

Align(evidence, value) ==
  IF evidence.value = value THEN evidence
  ELSE [evidence EXCEPT !.value = value, !.source = "repair"]

(* A platform that is named is one platform, unless it is declined. The        *)
(* material is steel unless other words were found.                            *)
Characteristics(text, type) ==
  [structure |-> StructureFor(type), platforms |-> IF text.platform = "wanted" THEN 1 ELSE 0,
   material |-> text.material]

(* Declined: a negation stands before the word. *)
Included(said) == said # "declined"

TextValues(text, critical) ==
  LET type == IF text.tower_type = "unsaid" THEN "lattice_tower" ELSE text.tower_type IN
  [tower_height_m |-> critical.tower_height_m.value,
   sector_count   |-> critical.sector_count.value,
   antenna_install_height_m |-> RepairHeight(critical.antenna_install_height_m.value,
                                             critical.tower_height_m.value),
   azimuths_deg   |-> RepairAzimuths(critical.azimuths_deg.value),
   tower_type     |-> type,
   tower_characteristics |-> Characteristics(text, type),
   beamwidth_deg  |-> IF text.beamwidth_deg = 0 THEN 65 ELSE text.beamwidth_deg,
   include_cables |-> Included(text.cables),
   include_gps_antenna |-> text.gps = "gps"]

(* The fields the parser filled in itself, each announced by its DEFAULT       *)
(* warning. An absent accessory is not announced.                              *)
Defaulted(text, critical) ==
  {f \in Critical : ~critical[f].explicit}
    \cup {f \in {"tower_type"} : text.tower_type = "unsaid"}
    \cup {f \in {"tower_characteristics"} : text.platform = "unsaid" /\ ~text.described}
    \cup {f \in {"beamwidth_deg"} : text.beamwidth_deg = 0}
    \cup {f \in {"include_cables"} : text.cables = "unsaid"}

(* parse_requirements_text: the deterministic baseline. *)
Baseline(text) ==
  LET critical == ResolveCritical(text)
      values   == TextValues(text, critical)
      defaults == Defaulted(text, critical)
  IN  [values   |-> values,
       defaults |-> defaults,
       evidence |-> [f \in BriefFields |->
         IF f \in Critical THEN Align(critical[f], values[f])
         ELSE Evidence(values[f], IF f \in defaults THEN "default" ELSE "user_text",
                       f \notin defaults, FALSE, FALSE)],
       confirmation_fields |-> {f \in Critical : critical[f].confirm},
       requests |-> [i \in {} |-> 0],
       warnings |-> {}]

(* What RequirementSpec and TowerCharacteristics refuse, field by field and    *)
(* between fields. platforms = -1 stands for a count that contradicts its flag.*)
FieldValid(f, v) ==
  CASE f \in {"tower_height_m", "antenna_install_height_m"} -> v[f] \in 1 .. 150
    [] f = "sector_count" -> v[f] \in 1 .. 12
    [] f = "azimuths_deg" -> v[f] # <<>> /\ \A i \in DOMAIN v[f] : v[f][i] \in 0 .. 359
    [] f = "beamwidth_deg" -> v[f] \in 1 .. 360
    [] f = "tower_characteristics" -> v[f].platforms \in 0 .. 12
    [] OTHER -> TRUE

Consistent(v) == /\ Len(v.azimuths_deg) = v.sector_count
                 /\ v.antenna_install_height_m <= v.tower_height_m

Valid(v) == (\A f \in BriefFields : FieldValid(f, v)) /\ Consistent(v)

(* The parser raises: a count of no sectors divides by zero, a value out of    *)
(* range fails the contract.                                                   *)
Unreadable(text) ==
  \/ Resolve(text.sector_count, 3).value = 0
  \/ ~Valid(Baseline(text).values)

-----------------------------------------------------------------------------
(* A model's answer: the fields it changes from the baseline it was shown, and *)
(* among them those it wrote as text where a number was asked for.             *)
Candidate(b, answer) ==
  [f \in BriefFields |-> IF f \in DOMAIN answer.over THEN answer.over[f] ELSE b.values[f]]

(* Words of the text that name a field whatever they say of it. *)
Named(text) ==
  {f \in {"tower_characteristics"} : text.platform # "unsaid"}
    \cup {f \in {"include_cables"} : text.cables # "unsaid"}
    \cup {f \in {"include_gps_antenna"} : text.gps # "unsaid"}

(* Mutant: a value read in the text is protected only if its field is critical *)
(* and in conflict.                                                            *)
ProtectedInConflict(text, b) == {f \in Critical : b.evidence[f].conflict}

Protected(text, b) ==
  LET sourced  == (BriefFields \ b.defaults) \cup Named(text)
      explicit == {f \in BriefFields : b.evidence[f].explicit /\ ~b.evidence[f].confirm}
      kept     == explicit \cup {f \in sourced : ~b.evidence[f].defaulted}
  IN  kept \cup {f \in {"tower_characteristics"} : "tower_type" \in kept}

Restored(text, b, candidate) ==
  [f \in BriefFields |-> IF f \in Protected(text, b) THEN b.values[f] ELSE candidate[f]]

(* A list of requests the contract takes: at most eight, each for 1 to 32      *)
(* pieces and with a sound description, role and dimensions.                   *)
RequestsValid(requests) ==
  /\ Len(requests) <= 8
  /\ \A i \in DOMAIN requests : requests[i].quantity \in 1 .. 32 /\ requests[i].sound

(* _repair_and_validate: azimuths that are not numbers, fields that contradict *)
(* each other and the material come from the baseline.                         *)
Leveled(b, v, written) ==
  LET numbers  == v.azimuths_deg # <<>> /\ "azimuths_deg" \notin written
      azimuths == IF numbers THEN v.azimuths_deg ELSE b.values.azimuths_deg
      even     == Len(azimuths) = v.sector_count
      install  == IF v.antenna_install_height_m > v.tower_height_m
                  THEN b.values.antenna_install_height_m ELSE v.antenna_install_height_m
      material == b.values.tower_characteristics.material
      tower    == IF v.tower_characteristics.material = material THEN v.tower_characteristics
                  ELSE [v.tower_characteristics EXCEPT !.material = material]
  IN  [v EXCEPT !.azimuths_deg = IF even THEN azimuths ELSE b.values.azimuths_deg,
                !.sector_count = IF even THEN @ ELSE b.values.sector_count,
                !.antenna_install_height_m = install,
                !.tower_characteristics = tower]

(* ... and then every field the contract still refuses, the whole list of      *)
(* requests when one of them is refused.                                       *)
Repaired(b, v, written) ==
  LET level == Leveled(b, v, written) IN
  [f \in BriefFields |-> IF FieldValid(f, level) THEN level[f] ELSE b.values[f]]

RequestsKept(answer) == IF RequestsValid(answer.requests) THEN answer.requests ELSE <<>>

Repairing(text, b, answer) ==
  \/ ~Valid(Restored(text, b, Candidate(b, answer)))
  \/ ~RequestsValid(answer.requests)

Merged(text, b, answer) ==
  LET restored == Restored(text, b, Candidate(b, answer)) IN
  IF Repairing(text, b, answer) THEN Repaired(b, restored, answer.written) ELSE restored

(* The repaired answer still contradicts itself, or asks for one component     *)
(* twice: the extraction raises and the baseline is used instead.              *)
Rejected(text, b, answer) ==
  LET kept == RequestsKept(answer) IN
  \/ ~Valid(Merged(text, b, answer))
  \/ \E i, j \in DOMAIN kept : i # j /\ kept[i].id = kept[j].id

(* Fields whose answer compares different from what the contract makes of it:  *)
(* a number written as text, and the characteristics of a tower without        *)
(* platforms in a strict answer, where the schema requires the empty list of   *)
(* levels that the contract's dump leaves out.                                 *)
Reworded(b, answer) ==
  answer.written
    \cup {f \in {"tower_characteristics"} :
            ~answer.objectMode /\ Candidate(b, answer)[f].platforms = 0}

(* _merge_llm_provenance: the evidence of a field follows the value only when  *)
(* what the model wrote compares equal to the value that is selected.          *)
MergedEvidence(b, values, answer) ==
  [f \in BriefFields |->
    LET said == Candidate(b, answer)[f] IN
    IF f \notin Reworded(b, answer) /\ said = values[f] /\ said # b.evidence[f].value
    THEN [b.evidence[f] EXCEPT !.value = said, !.source = "llm",
                               !.explicit = FALSE, !.defaulted = FALSE]
    ELSE b.evidence[f]]

-----------------------------------------------------------------------------
(* Components outside the catalogue. A request says which roles its relation   *)
(* text names (inside), how many it wants and the requests its description     *)
(* covers (parts), itself at first.                                            *)
HostsOf(child, requests, consumed) ==
  {i \in DOMAIN requests :
     /\ requests[i].id # child.id
     /\ requests[i].id \notin consumed
     /\ requests[i].id \in child.inside
     /\ requests[i].quantity = child.quantity}

(* One request of the list folded into its only host. The host's description   *)
(* takes in the child's as it was received.                                    *)
Compose(state, child) ==
  LET hosts == HostsOf(child, state.received, state.consumed) IN
  IF Cardinality(hosts) # 1 THEN state
  ELSE LET host == CHOOSE i \in hosts : TRUE IN
       [state EXCEPT !.composed[host].parts = @ \cup child.parts,
                     !.consumed = @ \cup {child.id}]

(* The list after each of its requests was looked at, in their order. *)
Composing(requests) ==
  LET after[n \in 0 .. Len(requests)] ==
        IF n = 0
        THEN [received |-> requests, composed |-> requests, consumed |-> {}]
        ELSE Compose(after[n - 1], requests[n])
  IN  after

(* What is left of the list, by the places the requests had in it. *)
ComposeNested(requests) ==
  LET end  == Composing(requests)[Len(requests)]
      free == {i \in DOMAIN requests : requests[i].id \notin end.consumed}
  IN  [i \in free |-> end.composed[i]]

(* extract_requirements with a model's answer merged in. *)
Extracted(text, answer) ==
  LET b      == Baseline(text)
      values == Merged(text, b, answer)
  IN  [b EXCEPT !.values = values,
                !.defaults = {f \in b.defaults : values[f] = b.values[f]},
                !.evidence = MergedEvidence(b, values, answer),
                !.requests = ComposeNested(RequestsKept(answer)),
                !.warnings = {w \in {"LLM_FIELD_REPAIRED"} : Repairing(text, b, answer)}
                               \cup {w \in {"LLM_JSON_OBJECT_FALLBACK"} : answer.objectMode}]

(* RequirementExtractor: without a provider, or when it raises, the baseline. *)
Fallback(text) == [Baseline(text) EXCEPT !.warnings = {"LLM_EXTRACTION_FALLBACK"}]

Deterministic(text) == Baseline(text)

(* telecom_brief_admission: some part of the site's identity was said. *)
Identity == {"tower_type"} \cup Critical

SiteEvidence(r) == \E f \in Identity : r.evidence[f].explicit /\ ~r.evidence[f].defaulted

(* models._has_unresolved_confirmation_state: what a confirmed requirement may *)
(* not carry.                                                                  *)
UnresolvedState(r) ==
  \/ r.confirmation_fields # {}
  \/ \E f \in BriefFields : r.evidence[f].conflict \/ r.evidence[f].confirm
=============================================================================
