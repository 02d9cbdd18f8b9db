------------------------------- MODULE SitePlan -------------------------------
(* From a requirement to a scene: the planning hints of the knowledge base     *)
(* (rag/planning, llm/planning_decision), the choice of the equipment          *)
(* (asset_registry, assembly_planner), the specialists' checks, the blueprint  *)
(* and the scene, and the two coverage checks between them. Pure operators.    *)
EXTENDS SiteBrief

PlanningFields == {"antenna_install_height_m", "beamwidth_deg", "include_cables"}

(* A hint is [field, value, typed, scope]: typed says its value has the type   *)
(* of its field, scope the tower types it is written for, {} for all.          *)
InScope(hint, r) == hint.scope = {} \/ r.values.tower_type \in hint.scope

Validated(hint, r) ==
  /\ hint.typed
  /\ CASE hint.field = "antenna_install_height_m" -> hint.value \in 1 .. r.values.tower_height_m
       [] hint.field = "beamwidth_deg" -> hint.value \in 1 .. 360
       [] OTHER -> TRUE

Inferred(r) == PlanningFields \cap r.defaults

Candidates(hints, r) ==
  {i \in DOMAIN hints : /\ hints[i].field \in PlanningFields
                        /\ InScope(hints[i], r)
                        /\ Validated(hints[i], r)}

Eligible(hints, r) ==
  {i \in Candidates(hints, r) : /\ hints[i].field \in Inferred(r)
                                /\ hints[i].value # r.values[hints[i].field]}

(* resolve_planning_hints: the best-ranked candidate of an inferred field. *)
RankedPick(hints, r) ==
  [f \in PlanningFields |->
    LET mine == {i \in Candidates(hints, r) : hints[i].field = f}
    IN  IF mine = {} \/ f \notin Inferred(r) THEN 0 ELSE Min(mine)]

KeepCurrent == [f \in PlanningFields |-> 0]

(* What the model may choose for a field: its current value, or one of its     *)
(* candidates when the field is inferred.                                      *)
Selectable(f, hints, r) ==
  {0} \cup {i \in Candidates(hints, r) : hints[i].field = f /\ f \in Inferred(r)}

(* resolve_model_decision: any other selection is an error, and the whole      *)
(* decision falls back to the current values.                                  *)
Bounded(pick, hints, r) == \A f \in PlanningFields : pick[f] \in Selectable(f, hints, r)

(* The picks a planning step may end with: the policy's, or, when a model is   *)
(* asked, any bounded one.                                                     *)
Picks(hints, r, asked) ==
  IF asked /\ Eligible(hints, r) # {}
  THEN {KeepCurrent} \cup {p \in [PlanningFields -> 0 .. Len(hints)] : Bounded(p, hints, r)}
  ELSE {RankedPick(hints, r)}

Resolution(pick, hints, r) ==
  [f \in PlanningFields |-> IF pick[f] = 0 THEN r.values[f] ELSE hints[pick[f]].value]

-----------------------------------------------------------------------------
(* The catalogue: assets [id, type, towers, height, parametric, zones], towers *)
(* = {} for all tower types, height that of the exemplar, parametric when it   *)
(* is drawn from parameters and not imported, zones = where things are mounted *)
(* on it. Brackets, radios and cabinets are chosen like antennas.              *)
RequiredSlots(r) ==
  {"tower", "antenna"}
    \cup {s \in {"cable"} : r.values.include_cables}
    \cup {s \in {"gps"} : r.values.include_gps_antenna}

Fits(asset, towerType) == towerType \in asset.towers \/ asset.towers = {}

Compatible(catalogue, type, towerType) ==
  {a \in catalogue : a.type = type /\ Fits(a, towerType)}

(* select_tower: a tower of the very type must exist, whichever is chosen.     *)
OfTowerType(catalogue, kind, towerType) ==
  {a \in catalogue : a.type = kind /\ towerType \in a.towers}

(* plan: every slot has candidates; the selector may take any of them, the     *)
(* deterministic ranking one of them.                                          *)
Assemblies(catalogue, r) ==
  LET type  == r.values.tower_type
      slots == RequiredSlots(r)
  IN  {pick \in [slots -> catalogue] :
        /\ OfTowerType(catalogue, "tower", type) # {}
        /\ \A s \in slots : pick[s] \in Compatible(catalogue, s, type)}

(* select_tower_fallback, with one family for the towers of a kind: an exact   *)
(* type tall enough, then the closest type and the tallest.                    *)
TypeDistance(asset, type) == IF type \in asset.towers THEN 0 ELSE 2

FallbackTower(catalogue, r) ==
  LET towers == {a \in catalogue : a.type = "tower"}
      type   == r.values.tower_type
      tall   == {a \in towers : TypeDistance(a, type) = 0
                                  /\ a.height >= r.values.tower_height_m}
      Closer(a, b) == \/ TypeDistance(a, type) < TypeDistance(b, type)
                      \/ /\ TypeDistance(a, type) = TypeDistance(b, type)
                         /\ a.height >= b.height
  IN  IF tall # {} THEN CHOOSE a \in tall : \A b \in tall : a.height <= b.height
      ELSE CHOOSE a \in towers : \A b \in towers : Closer(a, b)

FallbackAsset(catalogue, type, towerType) ==
  LET fitting == Compatible(catalogue, type, towerType) IN
  IF fitting # {} THEN CHOOSE a \in fitting : TRUE
  ELSE CHOOSE a \in {b \in catalogue : b.type = type} : TRUE

(* asset_fallback_handler: no cable asset, and no assembly plan. *)
FallbackSlots(r) == RequiredSlots(r) \ {"cable"}

FallbackPossible(catalogue, r) ==
  \A s \in FallbackSlots(r) : \E a \in catalogue : a.type = s

FallbackAssembly(catalogue, r) ==
  LET tower == FallbackTower(catalogue, r)
      type  == IF tower.towers = {} THEN r.values.tower_type
               ELSE CHOOSE t \in tower.towers : TRUE
  IN  [s \in FallbackSlots(r) |->
        IF s = "tower" THEN tower ELSE FallbackAsset(catalogue, s, type)]

-----------------------------------------------------------------------------
(* The specialists. Two sectors closer than 10 degrees are an error.           *)
Gap(a, b) == LET d == IF a > b THEN a - b ELSE b - a
             IN  IF d > 180 THEN 360 - d ELSE d

Overlapping(azimuths) ==
  \E i, j \in DOMAIN azimuths : i < j /\ Gap(azimuths[i], azimuths[j]) < 10

RulesPass(r) == ~Overlapping(r.values.azimuths_deg) /\ r.values.beamwidth_deg <= 180

(* A tall lattice tower without a platform gets one, unless it was declined. *)
DeckWanted(r, declined) ==
  /\ r.values.tower_characteristics.structure = "lattice"
  /\ r.values.tower_height_m >= 20
  /\ r.values.tower_characteristics.platforms = 0
  /\ ~declined

(* The deck two and a half metres below the antennas (in half metres). *)
DeckLevel(r) == Min({Max({2 * r.values.antenna_install_height_m - 5, 2}),
                     2 * r.values.tower_height_m - 1})

-----------------------------------------------------------------------------
(* compose: what the scene is to be built of, and the values it is held to.    *)
Requested(r) == {r.requests[i].id : i \in DOMAIN r.requests}

Intents(r) ==
  [antenna |-> r.values.sector_count,
   cable |-> IF r.values.include_cables THEN r.values.sector_count ELSE 0,
   generated |-> Requested(r)]

Constraints(r, plan) ==
  [tower_height_m |-> r.values.tower_height_m,
   azimuths_deg |-> r.values.azimuths_deg,
   antenna_install_height_m |-> plan.antenna_install_height_m,
   beamwidth_deg |-> plan.beamwidth_deg]

(* The specialists that must pass before a blueprint exists. *)
SpecialistsPass(r, assets) ==
  /\ \A s, t \in DOMAIN assets : s # t => assets[s] # assets[t]
  /\ Cardinality(Requested(r)) = Cardinality(DOMAIN r.requests)
  /\ \A i \in DOMAIN r.requests : r.requests[i].quantity \in 1 .. 32

Blueprint(r, plan) == [intents |-> Intents(r), constraints |-> Constraints(r, plan)]

(* evaluate_blueprint_requirement_coverage *)
BlueprintCovers(r, plan, blueprint) ==
  LET i == blueprint.intents
      c == blueprint.constraints
  IN  /\ i.antenna = r.values.sector_count
      /\ Cardinality(i.generated) = Cardinality(DOMAIN r.requests)
      /\ c.tower_height_m = r.values.tower_height_m
      /\ c.azimuths_deg = r.values.azimuths_deg
      /\ c.antenna_install_height_m = plan.antenna_install_height_m
      /\ c.beamwidth_deg = plan.beamwidth_deg

(* The accessories stand in the scene when asked for and chosen. *)
HasGps(r, assets) == r.values.include_gps_antenna /\ "gps" \in DOMAIN assets

(* build_scene_spec, the generated components added by their own planner. *)
Scene(r, plan, assets, deck) ==
  [tower_height_m |-> r.values.tower_height_m,
   structure |-> r.values.tower_characteristics.structure,
   platforms |-> IF deck = 0 THEN r.values.tower_characteristics.platforms ELSE 1,
   deck |-> deck,
   azimuths_deg |-> r.values.azimuths_deg,
   antenna_install_height_m |-> plan.antenna_install_height_m,
   beamwidth_deg |-> plan.beamwidth_deg,
   cables |-> IF plan.include_cables THEN Len(r.values.azimuths_deg) ELSE 0,
   gps |-> HasGps(r, assets),
   roles |-> Requested(r),
   tower |-> assets["tower"],
   antenna |-> assets["antenna"]]

(* validate_scene_spec: the zones of the tower, those of an exemplar stretched *)
(* to its height with a practical envelope beside them, and the antenna's own. *)
(* An asset without zones is not looked at.                                    *)
PracticalHeight(h, t) == h >= 3 /\ 5 * h >= t /\ (50 * h <= 49 * t \/ h = 3 \/ 5 * h = t)

OnTower(h, t, tower) ==
  IF tower.parametric
  THEN \/ PracticalHeight(h, t)
       \/ \E z \in tower.zones : z.low * t <= h * tower.height /\ h * tower.height <= z.high * t
  ELSE \E z \in tower.zones : z.low <= h /\ h <= z.high

MountZoneValid(scene) ==
  LET h == scene.antenna_install_height_m IN
  /\ scene.tower.zones # {} => OnTower(h, scene.tower_height_m, scene.tower)
  /\ scene.antenna.zones # {} => \E z \in scene.antenna.zones : z.low <= h /\ h <= z.high

(* evaluate_blueprint_scene_coverage and evaluate_requirement_coverage. *)
CompilesBlueprint(blueprint, scene) ==
  /\ Len(scene.azimuths_deg) = blueprint.intents.antenna
  /\ scene.cables = blueprint.intents.cable
  /\ scene.roles = blueprint.intents.generated

CoversRequirement(r, plan, scene, deck) ==
  /\ scene.tower_height_m = r.values.tower_height_m
  /\ scene.structure = r.values.tower_characteristics.structure
  /\ scene.platforms = (IF deck = 0 THEN r.values.tower_characteristics.platforms ELSE 1)
  /\ scene.azimuths_deg = r.values.azimuths_deg
  /\ scene.antenna_install_height_m = plan.antenna_install_height_m
  /\ scene.beamwidth_deg = plan.beamwidth_deg
  /\ scene.gps = r.values.include_gps_antenna

SceneAccepted(r, plan, scene, deck) ==
  /\ MountZoneValid(scene)
  /\ CompilesBlueprint(Blueprint(r, plan), scene)
  /\ CoversRequirement(r, plan, scene, deck)
===============================================================================
