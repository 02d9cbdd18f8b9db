---------------------------- MODULE SceneRevision ----------------------------
(***************************************************************************)
(* The edit of a certified design in words: SceneEditAgent turns the       *)
(* prompt into operations on the SceneSpec, checks that the prompt asks    *)
(* for them, derives the operations they entail and patches the scene; the *)
(* orchestrator rebinds assets, reconciles the assembly plan with the      *)
(* scene, asks the specialists and checks the result. One edit of a design *)
(* runs at a time (WorkflowGate), and a refused one leaves the design.     *)
(*                                                                         *)
(* Lengths are in centimetres, angles in degrees, a switch is 0 or 1. A    *)
(* prompt is what the checks read of it: the fields its words name, the    *)
(* families the fallback parser finds, sectors, one quantity, a direction, *)
(* markers of removal. Of the fields that behave alike one is kept (the    *)
(* ladder for the lightning rod, azimuth for the tilts); geometry programs *)
(* are left out.                                                           *)
(***************************************************************************)
EXTENDS Integers, FiniteSets, FiniteSetsExt

CONSTANTS
    Sectors,       \* the sectors of the design
    Scenes,        \* certified scenes edits begin from
    Prompts,       \* edits a user may ask for
    Operations,    \* operations the model may propose
    MaxOperations, \* bound: operations of one proposal
    MaxEdits       \* bound: edits of the design

VARIABLES
    scene, \* the scene of the active version
    plan,  \* its assembly plan
    edit,  \* the edit that runs, or how the last one ended
    edits  \* how many were asked

vars == <<scene, plan, edit, edits>>

Structures == {"lattice", "monopole", "rooftop_mast", "small_cell_pole"}
Reasons    == {"none", "plan", "patch", "assets", "requirements", "scene", "quality"}
Phases     == {"idle", "asked", "planned", "validated", "patched", "prepared", "required",
               "checked", "applied", "refused"}

\* An operation sets a field; "at" tells which sector, or which structure is wanted.
Switches     == {"platform", "ladder", "cable", "cabinet", "gps"}
Lengths      == {"towerHeight", "installHeight", "gpsPosition"}
SectorFields == {"installHeight", "azimuth", "cable"}
Path(o) == IF o.field \in SectorFields THEN <<o.field, o.at>> ELSE <<o.field, "tower">>
Op(f, a, v) == [field |-> f, at |-> a, value |-> v]

Fields == Switches \cup Lengths \cup SectorFields \cup {"platformCount", "structure"}
OperationSet ==
    {o \in [field : Fields, at : Sectors \cup Structures \cup {"tower"}, value : Int] :
        /\ o.field \in SectorFields => o.at \in Sectors
        /\ o.field = "structure" => o.at \in Structures}
PromptSet ==
    [names : SUBSET Fields, parser : SUBSET {"tower", "antenna", "gps", "azimuth", "move",
                                             "cabinet", "cable"},
     sectors : SUBSET Sectors, selected : SUBSET Sectors, amount : Int,
     unit : {"none", "", "m", "deg"}, mode : {"absolute", "delta"}, direction : -1 .. 1,
     removal : BOOLEAN, every : BOOLEAN]
Degrees == {d \in Nat : d < 360}
SceneSet ==
    [structure : Structures, legs : Nat, profile : BOOLEAN, height : Nat, count : Nat,
     foundation : {"concrete_pad", "rooftop_anchored", "pole_base"},
     levels : SUBSET Nat, ladder : 0 .. 1, install : [Sectors -> Nat],
     azimuth : [Sectors -> Degrees], cable : [Sectors -> 0 .. 1], radio : BOOLEAN,
     antenna : {"panel", "dualband"}, tower : Structures, cabinet : 0 .. 1, gps : 0 .. 1,
     gpsAt : Int, gpsUsers : BOOLEAN]

Larger(x, y)  == IF x < y THEN y ELSE x
Smaller(x, y) == IF x < y THEN x ELSE y
Highest(n, S) == {x \in S : Cardinality({y \in S : y > x}) < n}
Lowest(n, S)  == {x \in S : Cardinality({y \in S : y < x}) < n}

-----------------------------------------------------------------------------
(* What a scene entails.                                                   *)

\* parametric_tower_mount_envelope.
MinInstall(height) == Larger(300, (height * 20) \div 100)
MaxInstall(height) == Larger(MinInstall(height), (height * 98) \div 100)

\* default_gps_position: half a metre below the top.
GpsPlace(height) == Larger(50, height - 50)

\* _required_slots.
Roles(s) ==
    {"support_structure", "sector_antenna", "antenna_mount"}
      \cup (IF \E x \in Sectors : s.cable[x] = 1 THEN {"sector_cable_route"} ELSE {})
      \cup (IF s.radio THEN {"remote_radio"} ELSE {})
      \cup (IF s.cabinet = 1 THEN {"ground_equipment"} ELSE {})
      \cup (IF s.gps = 1 THEN {"timing_antenna"} ELSE {})

\* _scene_asset_by_role, and the one candidate of the roles it does not tell.
Asset(s, role) ==
    CASE role = "support_structure" -> s.tower
      [] role = "sector_antenna"    -> s.antenna
      [] OTHER                      -> role

\* _connections, each with the two roles it joins.
Connections(roles) ==
    {<<"antenna_mount", "support_structure">>, <<"sector_antenna", "antenna_mount">>}
      \cup (IF "remote_radio" \in roles
            THEN {<<"remote_radio", "antenna_mount">>, <<"sector_antenna", "remote_radio">>}
            ELSE {})
      \cup (IF "sector_cable_route" \in roles
            THEN {<<IF "remote_radio" \in roles THEN "remote_radio" ELSE "sector_antenna",
                    "sector_cable_route">>}
            ELSE {})

\* resolve_scene_assembly: an operation per connection and sector it serves.
Compiled(connections, s) ==
    {j \in connections \X Sectors : j[1][2] = "sector_cable_route" => s.cable[j[2]] = 1}

\* AssetAssemblyPlanner.plan, by the model or by its deterministic fallback.
PlanOf(s, by) ==
    [parts       |-> [r \in Roles(s) |-> [asset |-> Asset(s, r), by |-> by]],
     height      |-> s.height,
     connections |-> Connections(Roles(s)),
     operations  |-> Compiled(Connections(Roles(s)), s),
     authority   |-> by]

\* The validators of TowerCharacteristics, of the tower's placement and of SceneSpec.
ValidTower(s) ==
    /\ s.structure = "lattice" => s.legs >= 3
    /\ s.levels # {} => Cardinality(s.levels) = s.count
ValidPlacement(s) ==
    /\ s.profile => s.structure = "lattice"
    /\ \A l \in s.levels : l < s.height
ValidScene(s) ==
    /\ ValidTower(s) /\ ValidPlacement(s)
    /\ \A x \in Sectors : s.install[x] <= s.height

\* The rules of the two specialists and of the mount zones.
Apart(a, b) == LET d == (a - b) % 360 IN Smaller(d, 360 - d)
SectorsOverlap(s) == \E x, y \in Sectors : x # y /\ Apart(s.azimuth[x], s.azimuth[y]) < 10

FoundationSuits(s) ==
    CASE s.structure = "lattice"      -> s.foundation = "concrete_pad"
      [] s.structure = "rooftop_mast" -> s.foundation = "rooftop_anchored"
      [] OTHER                        -> s.foundation \in {"concrete_pad", "pole_base"}

Mounted(s) == \A x \in Sectors : s.install[x] \in MinInstall(s.height) .. MaxInstall(s.height)

\* What a certified scene carries belongs on its tower: the model of the tower, antennas that
\* suit it and hang within reach, and a receiver half a metre below the top unless the user
\* placed it.
Suited(s) ==
    /\ s.tower = s.structure
    /\ s.structure = "small_cell_pole" => s.antenna = "panel"
    /\ Mounted(s)
    /\ s.gps = 1 /\ ~s.gpsUsers => s.gpsAt = GpsPlace(s.height)

\* A scene that passed its creation: the contract of SceneSpec, the validators of the graph,
\* and the equipment the planner chose for it.
Certified(s) ==
    /\ s \in SceneSet /\ ValidScene(s)
    /\ FoundationSuits(s) /\ ~SectorsOverlap(s) /\ Suited(s)
    /\ s.gps = 0 => s.gpsAt = 0 /\ ~s.gpsUsers

ASSUME RevisionAssumption ==
    /\ \A s \in Scenes : Certified(s)
    /\ Prompts \subseteq PromptSet /\ Operations \subseteq OperationSet
    /\ {MaxOperations, MaxEdits} \subseteq Nat

-----------------------------------------------------------------------------
(* _validate_patch_alignment: what a prompt authorizes.                    *)

\* _candidate_values_for_path: the quantity, when its unit suits the field.
Quantity(p, field) ==
    IF field \in Lengths  THEN IF p.unit \in {"m", ""} THEN {p.amount * 100} ELSE {}
    ELSE IF field = "azimuth" THEN IF p.unit \in {"deg", ""} THEN {p.amount} ELSE {}
    ELSE IF p.unit = "" THEN {p.amount} ELSE {}
Absolute(p, field) == IF p.mode = "absolute" THEN Quantity(p, field) ELSE {}
Delta(p, field)    == IF p.mode = "delta" THEN Quantity(p, field) ELSE {}

Current(s, o) ==
    CASE o.field = "towerHeight"   -> s.height
      [] o.field = "platformCount" -> s.count
      [] o.field = "installHeight" -> s.install[o.at]
      [] o.field = "azimuth"       -> s.azimuth[o.at]
      [] o.field = "gpsPosition"   -> s.gpsAt

\* A platform counts for one when the prompt gives no number.
CountGrounded(s, p, value) ==
    LET steps == IF Delta(p, "platformCount") # {} THEN Delta(p, "platformCount") ELSE {1}
    IN  IF p.removal /\ p.every THEN value = 0
        ELSE \/ p.direction = 1 /\ \E n \in steps : value = s.count + n
             \/ (p.direction = -1 \/ p.removal) /\ p.direction # 1
                  /\ \E n \in steps : value = s.count - n

Grounded(s, p, o) ==
    \/ o.value \in Absolute(p, o.field)
    \/ IF o.field = "platformCount" THEN CountGrounded(s, p, o.value)
       ELSE p.direction # 0 /\ \E n \in Delta(p, o.field) :
                                  o.value = Current(s, o) + p.direction * n

\* Mutant: a sector may be changed that the prompt does not mention.
AlignedAnywhere(s, p, o) ==
    /\ o.field \in p.names
    /\ o.field \in Switches => o.value = IF p.removal THEN 0 ELSE 1
    /\ o.field = "gpsPosition" => o.value # s.gpsAt
    /\ o.field \notin Switches \cup {"structure"} => Grounded(s, p, o)

Aligned(s, p, o) ==
    /\ o.field \in p.names
    /\ o.field \in SectorFields /\ p.sectors # {} => o.at \in p.sectors
    /\ o.field \in Switches => o.value = IF p.removal THEN 0 ELSE 1
    /\ o.field = "gpsPosition" => o.value # s.gpsAt
    /\ o.field \notin Switches \cup {"structure"} => Grounded(s, p, o)

\* resolve_targeted_edit: a selected component can be changed, nothing else.
Selected(p, o) == p.selected # {} => o.field \in SectorFields /\ o.at \in p.selected

\* AdaptationCapabilityService: an accessory the scene has not has no capability.
Declared(s, o) == o.field = "gpsPosition" => s.gps = 1

InRange(o) ==
    /\ o.field = "towerHeight" => 300 <= o.value /\ o.value <= 15000
    /\ o.field = "installHeight" => 20 <= o.value /\ o.value <= 15000
    /\ o.field = "azimuth" => o.value \in Degrees
    /\ o.field = "platformCount" => 0 <= o.value /\ o.value <= 12

Capable(s, p, o) == Selected(p, o) /\ Declared(s, o) /\ InRange(o)

-----------------------------------------------------------------------------
(* The plan of an edit.                                                    *)

Editing(phase) == edit.phase = phase
Continue(phase) == edit' = [edit EXCEPT !.phase = phase]
Refuse(reason)  == edit' = [edit EXCEPT !.phase = "refused", !.reason = reason]

NoPrompt == [names |-> {}, parser |-> {}, sectors |-> {}, selected |-> {}, amount |-> 0,
             unit |-> "none", mode |-> "absolute", direction |-> 0, removal |-> FALSE,
             every |-> FALSE]
Edit(phase, prompt, s, q) ==
    [phase |-> phase, reason |-> "none", prompt |-> prompt, ops |-> {}, derived |-> {},
     scene |-> s, plan |-> q, wanted |-> [count |-> 0, ladder |-> 0]]

\* _edit_design: the edit begins from the verified active version.
Ask ==
    /\ edit.phase \in {"idle", "applied", "refused"} /\ edits < MaxEdits
    /\ edits' = edits + 1
    /\ \E p \in Prompts : edit' = Edit("asked", p, scene, plan)
    /\ UNCHANGED <<scene, plan>>

\* _plan_adaptation: a proposal that is out of reach or not asked for goes to the fallback.
PlanByModel ==
    /\ Editing("asked")
    /\ LET open == {o \in Operations : Capable(scene, edit.prompt, o)
                                         /\ Aligned(scene, edit.prompt, o)}
       IN  \E n \in 1 .. MaxOperations : \E ops \in kSubset(n, open) :
             /\ \A o, u \in ops : o # u => Path(o) # Path(u)
             /\ edit' = [edit EXCEPT !.phase = "planned", !.ops = ops]
    /\ UNCHANGED <<scene, plan, edits>>

\* _fallback_patch: a height in metres is a height to reach, and a switch of the cables
\* is one of all sectors.
FallbackOps(s, p) ==
    LET present == IF p.removal THEN 0 ELSE 1
        some    == IF p.sectors # {} THEN p.sectors ELSE Sectors
    IN  (IF p.unit # "m" THEN {}
         ELSE IF "tower" \in p.parser THEN {Op("towerHeight", "tower", p.amount * 100)}
         ELSE IF "antenna" \in p.parser /\ "gps" \notin p.parser
              THEN {Op("installHeight", x, p.amount * 100) : x \in some}
              ELSE {})
        \cup (IF "azimuth" \in p.parser /\ p.sectors # {}
              THEN {Op("azimuth", x, p.amount) : x \in p.sectors} ELSE {})
        \cup (IF "gps" \in p.parser /\ "move" \notin p.parser
              THEN {Op("gps", "tower", present)} ELSE {})
        \cup (IF "cabinet" \in p.parser THEN {Op("cabinet", "tower", present)} ELSE {})
        \cup (IF "cable" \in p.parser THEN {Op("cable", x, present) : x \in Sectors} ELSE {})

PlanByFallback ==
    /\ Editing("asked")
    /\ LET ops == FallbackOps(scene, edit.prompt)
       IN  IF ops # {} /\ \A o \in ops : Capable(scene, edit.prompt, o)
           THEN edit' = [edit EXCEPT !.phase = "planned", !.ops = ops]
           ELSE Refuse("plan")
    /\ UNCHANGED <<scene, plan, edits>>

-----------------------------------------------------------------------------
(* What operations entail.                                                 *)

Values(ops, field) == {o.value : o \in {u \in ops : u.field = field}}
Only(S) == CHOOSE v \in S : TRUE

\* The antennas a tower of height h is too low for, where the edit does not place them, and
\* where they hang on it: as far below the top as before, within reach.
TooHigh(s, ops, h) ==
    {x \in Sectors : /\ h < s.height /\ s.install[x] > Smaller(h, MaxInstall(h))
                     /\ \A o \in ops : Path(o) # <<"installHeight", x>>}
Hung(s, h, x) ==
    Smaller(Larger(h - (s.height - s.install[x]), MinInstall(h)), Smaller(h, MaxInstall(h)))

\* Mutant: an antenna keeps its distance to the top, however little tower is left.
DerivedUnclamped(s, ops) ==
    UNION {{Op("installHeight", x, Smaller(h - (s.height - s.install[x]), MaxInstall(h))) :
              x \in TooHigh(s, ops, h)} : h \in Values(ops, "towerHeight")}

\* derive_dependent_operations: antennas follow a tower that is lowered below them.
Derived(s, ops) ==
    UNION {{Op("installHeight", x, Hung(s, h, x)) : x \in TooHigh(s, ops, h)} :
             h \in Values(ops, "towerHeight")}

\* _profile_levels: the share of the height the access profile declares.
ProfileLevels(height, n) == {(height * (55 * n + 35 * i)) \div (100 * n) : i \in 0 .. n - 1}

\* resolve_platform_edit: levels for n platforms; the height is the one before the edit.
ResolvedLevels(s, n) ==
    IF n = s.count THEN s.levels
    ELSE IF n < Cardinality(s.levels) THEN Highest(n, s.levels)
    ELSE IF s.profile THEN s.levels \cup Lowest(n - Cardinality(s.levels),
                                                ProfileLevels(s.height, n) \ s.levels)
    ELSE {}

PlatformTarget(s, ops) ==
    IF Values(ops, "platformCount") # {} THEN Only(Values(ops, "platformCount"))
    ELSE IF Values(ops, "platform") = {} THEN s.count
    ELSE IF Only(Values(ops, "platform")) = 0 THEN 0
    ELSE Larger(s.count, 1)

PlatformsResolve(s, ops) ==
    LET n == PlatformTarget(s, ops)
    IN  /\ \A v \in Values(ops, "platform") : (v = 1) <=> n > 0
        /\ ~s.profile /\ s.levels # {} => n <= s.count

\* Both resolutions are tried before the patch is.
Validate ==
    /\ Editing("planned")
    /\ IF /\ \A o \in edit.ops : Aligned(scene, edit.prompt, o)
          /\ PlatformsResolve(scene, edit.ops)
       THEN edit' = [edit EXCEPT !.phase = "validated", !.derived = Derived(scene, edit.ops)]
       ELSE Refuse("plan")
    /\ UNCHANGED <<scene, plan, edits>>

-----------------------------------------------------------------------------
(* The patch.                                                              *)

Set(s, ops, field, default) ==
    IF Values(ops, field) = {} THEN default ELSE Only(Values(ops, field))
SetSectors(ops, field, values) ==
    [x \in Sectors |-> Set(x, {o \in ops : o.at = x}, field, values[x])]

\* Mutant: the position is set, and not marked as the user's.
PatchedUnmarked(s, ops) ==
    [s EXCEPT !.height = Set(s, ops, "towerHeight", @),
              !.structure = IF \E o \in ops : o.field = "structure"
                            THEN (CHOOSE o \in ops : o.field = "structure").at ELSE @,
              !.count = PlatformTarget(s, ops),
              !.levels = ResolvedLevels(s, PlatformTarget(s, ops)),
              !.ladder = Set(s, ops, "ladder", @),
              !.install = SetSectors(ops, "installHeight", @),
              !.azimuth = SetSectors(ops, "azimuth", @),
              !.cable = SetSectors(ops, "cable", @),
              !.cabinet = Set(s, ops, "cabinet", @),
              !.gps = Set(s, ops, "gps", @),
              !.gpsAt = Set(s, ops, "gpsPosition", @)]

\* PatchApplier.apply and _mark_user_defined_accessory_positions.
Patched(s, ops) ==
    [s EXCEPT !.height = Set(s, ops, "towerHeight", @),
              !.structure = IF \E o \in ops : o.field = "structure"
                            THEN (CHOOSE o \in ops : o.field = "structure").at ELSE @,
              !.count = PlatformTarget(s, ops),
              !.levels = ResolvedLevels(s, PlatformTarget(s, ops)),
              !.ladder = Set(s, ops, "ladder", @),
              !.install = SetSectors(ops, "installHeight", @),
              !.azimuth = SetSectors(ops, "azimuth", @),
              !.cable = SetSectors(ops, "cable", @),
              !.cabinet = Set(s, ops, "cabinet", @),
              !.gps = Set(s, ops, "gps", @),
              !.gpsAt = Set(s, ops, "gpsPosition", @),
              !.gpsUsers = @ \/ Values(ops, "gpsPosition") # {}]

\* All or nothing.
Execute ==
    /\ Editing("validated")
    /\ LET s == Patched(scene, edit.ops \cup edit.derived)
       IN  IF ValidScene(s)
           THEN edit' = [edit EXCEPT !.phase = "patched", !.scene = s]
           ELSE Refuse("patch")
    /\ UNCHANGED <<scene, plan, edits>>

-----------------------------------------------------------------------------
(* _prepare_scene_revision.                                                *)

\* _rebind_revision_accessory: only a place the user gave is kept.
GpsRebound(s) == IF s.gps = 0 THEN 0 ELSE IF s.gpsUsers THEN s.gpsAt ELSE GpsPlace(s.height)

\* _scene_with_revision_dependencies: a tower model suits one structure, the dual-band
\* antenna does not suit a pole; an accessory that is switched off is dropped.
Rebound(s) ==
    [s EXCEPT !.tower = s.structure,
              !.antenna = IF s.structure = "small_cell_pole" THEN "panel" ELSE @,
              !.gpsUsers = s.gps = 1 /\ @,
              !.gpsAt = GpsRebound(s)]

\* Mutant: connections are kept whatever roles the scene has.
ReconciledLoosely(q, s) ==
    LET kept == {r \in DOMAIN q.parts \cap Roles(s) : q.parts[r].asset = Asset(s, r)}
        rule == Roles(s) # kept
    IN  [parts       |-> [r \in Roles(s) |-> IF r \in kept THEN q.parts[r]
                                             ELSE [asset |-> Asset(s, r), by |-> "rule"]],
         height      |-> s.height,
         connections |-> q.connections,
         operations  |-> Compiled(q.connections, s),
         authority   |-> IF rule THEN "rule" ELSE q.authority]

\* reconcile_with_scene, then resolve_scene_assembly.
Reconciled(q, s) ==
    LET kept == {r \in DOMAIN q.parts \cap Roles(s) : q.parts[r].asset = Asset(s, r)}
        rule == Roles(s) # kept
        joined == IF DOMAIN q.parts = Roles(s) THEN q.connections ELSE Connections(Roles(s))
    IN  [parts       |-> [r \in Roles(s) |-> IF r \in kept THEN q.parts[r]
                                             ELSE [asset |-> Asset(s, r), by |-> "rule"]],
         height      |-> s.height,
         connections |-> joined,
         operations  |-> Compiled(joined, s),
         authority   |-> IF rule THEN "rule" ELSE q.authority]

\* A connection of a role the plan has not fails the compilation.
Prepare ==
    /\ Editing("patched")
    /\ LET s == Rebound(edit.scene)
           q == Reconciled(edit.plan, s)
       IN  IF \A c \in q.connections : {c[1], c[2]} \subseteq DOMAIN q.parts
           THEN edit' = [edit EXCEPT !.phase = "prepared", !.scene = s, !.plan = q]
           ELSE Refuse("assets")
    /\ UNCHANGED <<scene, plan, edits>>

-----------------------------------------------------------------------------
(* The specialists and the checks.                                         *)

\* _requirements_from_scene, of which the specialists may change two; and what the checks
\* of coverage compare, the rest being read from the scene itself.
Required(s)    == [count |-> s.count, ladder |-> s.ladder]
Covers(s, req) == Required(s) = req

\* TowerEngineerAgent.validate.
WantsPlatform(s) == s.height >= 2000
WantsLadder(s)   == s.height >= 600

\* apply_tower_engineer_recommendations: the text of a revision declines nothing.
Recommended(s) ==
    IF s.structure # "lattice" THEN Required(s)
    ELSE [count  |-> IF WantsPlatform(s) /\ s.count = 0 THEN 1 ELSE s.count,
          ladder |-> IF WantsLadder(s) THEN 1 ELSE s.ladder]

\* _validate_requirements.
CheckRequirements ==
    /\ Editing("prepared")
    /\ IF FoundationSuits(edit.scene) /\ ~SectorsOverlap(edit.scene)
       THEN edit' = [edit EXCEPT !.phase = "required", !.wanted = Recommended(edit.scene)]
       ELSE Refuse("requirements")
    /\ UNCHANGED <<scene, plan, edits>>

\* _validate_scene: what the specialists added has to be in the scene.
CheckScene ==
    /\ Editing("required")
    /\ IF Mounted(edit.scene) /\ Covers(edit.scene, edit.wanted)
       THEN Continue("checked")
       ELSE Refuse("scene")
    /\ UNCHANGED <<scene, plan, edits>>

\* Blender, its gates and the certificate are DesignGraph's; the commit of the version is
\* DesignPublication's.
Settle ==
    /\ Editing("checked")
    /\ \/ Continue("applied") /\ scene' = edit.scene /\ plan' = edit.plan
       \/ Refuse("quality") /\ UNCHANGED <<scene, plan>>
    /\ UNCHANGED edits

-----------------------------------------------------------------------------

Init ==
    /\ scene \in Scenes
    /\ \E by \in {"llm", "rule"} : plan = PlanOf(scene, by)
    /\ edit = Edit("idle", NoPrompt, scene, plan)
    /\ edits = 0

Next == \/ Ask \/ PlanByModel \/ PlanByFallback \/ Validate \/ Execute \/ Prepare
        \/ CheckRequirements \/ CheckScene \/ Settle

Spec == Init /\ [][Next]_vars

-----------------------------------------------------------------------------
(* Properties.                                                             *)

\* Types, and that a served scene keeps the contract of SceneSpec, whatever was rebound after
\* it was last validated.
SceneTypeOK ==
    /\ scene \in SceneSet /\ plan.authority \in {"llm", "rule"} /\ edits \in 0 .. MaxEdits
    /\ ValidScene(scene)
    /\ edit.phase \in Phases /\ edit.reason \in Reasons /\ edit.prompt \in Prompts \cup {NoPrompt}

\* However edits follow one another, the assembly plan of the design is the plan of its scene:
\* its roles and assets, its connections, and an operation for each sector they serve
\* (reconcile_with_scene keeps what it can of the old plan).
PlanMatchesScene ==
    /\ DOMAIN plan.parts = Roles(scene)
    /\ \A r \in Roles(scene) : plan.parts[r].asset = Asset(scene, r)
    /\ plan.height = scene.height
    /\ plan.connections = Connections(Roles(scene))
    /\ plan.operations = Compiled(plan.connections, scene)

\* A plan of which the rules chose a component is not shown as the model's.
AuthorityTruthful ==
    plan.authority = "llm" => \A r \in DOMAIN plan.parts : plan.parts[r].by = "llm"

\* The equipment of the served scene belongs on its tower, after whatever was rebound.
EquipmentFollowsTower == Suited(scene)

\* A tower may be lowered to any height its platforms are below: the antennas follow, and no
\* check refuses the result.
Lowers(o) == o.field = "towerHeight" /\ o.value < scene.height
Settled(s) == Covers(s, Recommended(s))
LoweringIsAccepted ==
    /\ edit.phase = "refused" /\ edit.reason \in {"patch", "assets", "requirements", "scene"}
    /\ \E o \in edit.ops : edit.ops = {o} /\ Lowers(o)
    /\ Settled(scene)
    => \E o \in edit.ops : \E l \in scene.levels : l >= o.value

\* An edit that leaves no trace of itself is not answered "applied": what each operation sets
\* is so in the design served afterwards, after everything that was derived and rebound.  The
\* checks do let an edit move a receiver that it removes; of that move nothing is left.
Holds(s, o) ==
    CASE o.field = "structure"     -> s.structure = o.at
      [] o.field = "platform"      -> (s.count > 0) = (o.value = 1)
      [] o.field = "ladder"        -> s.ladder = o.value
      [] o.field = "cable"         -> s.cable[o.at] = o.value
      [] o.field = "cabinet"       -> s.cabinet = o.value
      [] o.field = "gps"           -> s.gps = o.value
      [] o.field = "gpsPosition"   -> s.gps = 1 => s.gpsAt = o.value
      [] OTHER                     -> Current(s, o) = o.value
Applies == edit.phase = "checked" /\ edit'.phase = "applied"
AppliedMeansDone == [][Applies => \A o \in edit.ops : Holds(scene', o)]_vars

\* An edit changes what its prompt names, in the sectors it names; besides, antennas follow a
\* lowered tower, the receiver its top, and a new structure brings its assets.
OnlyAskedChanges ==
    [][LET asked(f) == f \in edit.prompt.names
           there(x) == edit.prompt.sectors # {} => x \in edit.prompt.sectors
       IN  /\ scene'.height # scene.height => asked("towerHeight")
           /\ scene'.structure # scene.structure => asked("structure")
           /\ scene'.levels # scene.levels => asked("platform") \/ asked("platformCount")
           /\ scene'.ladder # scene.ladder => asked("ladder")
           /\ scene'.cabinet # scene.cabinet => asked("cabinet")
           /\ scene'.gps # scene.gps => asked("gps")
           /\ scene'.antenna # scene.antenna => asked("structure")
           /\ scene'.gpsAt # scene.gpsAt =>
                asked("gps") \/ asked("gpsPosition") \/ scene'.height # scene.height
           /\ \A x \in Sectors :
                /\ scene'.azimuth[x] # scene.azimuth[x] => asked("azimuth") /\ there(x)
                /\ scene'.cable[x] # scene.cable[x] => asked("cable") /\ there(x)
                /\ scene'.install[x] # scene.install[x] =>
                     \/ asked("installHeight") /\ there(x)
                     \/ scene'.height < scene.height /\ scene.install[x] > MaxInstall(scene'.height)
      ]_vars

\* The place a user gave the receiver survives every later edit that neither moves nor removes
\* it, whatever becomes of the tower.
PositionsAreKept ==
    [][scene.gpsUsers /\ scene'.gps = 1 /\ (\A o \in edit.ops : o.field # "gpsPosition")
         => scene'.gpsUsers /\ scene'.gpsAt = scene.gpsAt]_vars

\* Platforms that stay, stay where they are: levels are added to the ones there are, or the
\* highest are kept.
PlatformsKept ==
    [][\/ scene.levels \subseteq scene'.levels
       \/ scene'.levels = Highest(Cardinality(scene'.levels), scene.levels)]_vars

\* Through a series of edits the plan, its authority and the equipment stay those of the
\* scene that is served (assembly_planner.py, dependent_constraints.py).
PlanFollowsScene ==
    SceneTypeOK /\ PlanMatchesScene /\ AuthorityTruthful /\ EquipmentFollowsTower

\* What an edit was not asked to change stays: other fields, the place a user chose, the
\* platforms there are (SceneEditAgent, AdaptationCapabilityService).
UntouchedStays == OnlyAskedChanges /\ PositionsAreKept /\ PlatformsKept
=============================================================================
