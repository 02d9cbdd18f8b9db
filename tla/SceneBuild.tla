----------------------------- MODULE SceneBuild -----------------------------
(***************************************************************************)
(* The Blender worker (generate_scene.py): it draws the pieces of one      *)
(* scene in a fixed order, builds some and imports others from files of    *)
(* the asset library, keeps one record per piece and proves at the end     *)
(* that every planned piece is in the scene.                               *)
(*                                                                         *)
(* The library may change under the worker: a source holds the content the *)
(* scene was planned with ("pinned"), another one, or nothing.  Geometry,  *)
(* placement and materials are left out: a piece is a role at a sector.    *)
(***************************************************************************)
EXTENDS Integers, FiniteSets, Sequences, Functions

CONSTANTS Designs,   \* the scenes the worker may be given
          Sectors,   \* the sectors of a telecom scene, in order
          MaxEdits   \* bound on the changes of the asset library

VARIABLES design,    \* the scene being built
          disk,      \* [source of the library -> its content]
          edits,     \* how often the library changed
          restored,  \* sources that changed and were put back
          phase,     \* what the worker, then the runner, does next
          todo,      \* pieces left to draw
          importing, \* how far the import of the next piece is
          drawn,     \* objects of the Blender scene
          records,   \* asset records of the scene
          mode       \* generation mode of the metadata

buildVars == <<design, disk, edits, restored, phase, todo, importing, drawn, records, mode>>

(* What the worker draws, in its order: the tower and what stands on it,   *)
(* the equipment and the marks of each sector, the rest of the site.       *)
First == <<"support_structure", "foundation", "tower_access", "height_marker">>
PerSector == <<"antenna_mount", "sector_antenna", "remote_radio", "sector_cable_route",
               "sector_beam", "azimuth_arrow">>
Last == <<"ground_equipment", "timing_antenna", "label">>
Programs == <<"typed", "exact">>
(* Marks are drawn and never recorded; the roles are those of a plan. *)
Marks == {"foundation", "tower_access", "height_marker", "sector_beam", "azimuth_arrow", "label"}
Roles == (Range(First) \cup Range(PerSector) \cup Range(Last)) \ Marks

(* A role is absent, generated, or imported exactly as planned; the timing *)
(* antenna may come from a stored file that has no boundary; the cabinet   *)
(* and the timing antenna may be asked for without an accessory listed.    *)
(* Nothing imports a cable, and every site has a tower, antennas, brackets. *)
Strategies == {strategy \in [Roles -> {"absent", "generated", "exact", "stored", "unlisted"}] :
                  /\ strategy["sector_cable_route"] # "exact"
                  /\ \A role \in Roles : /\ strategy[role] = "stored" => role = "timing_antenna"
                                        /\ strategy[role] = "unlisted" =>
                                              role \in {"timing_antenna", "ground_equipment"}
                  /\ \A role \in {"support_structure", "antenna_mount", "sector_antenna"} :
                        strategy[role] # "absent"}
(* "adapter": the radio hangs on a member drawn up to it, not on a fixed    *)
(* anchor of the bracket.  "plan" is an assembly plan of schema 1.1.0.     *)
Scene == {d \in [domain : {"telecom", "generic"}, plan : BOOLEAN, programs : SUBSET Range(Programs),
                 access : BOOLEAN, adapter : BOOLEAN, fallback : BOOLEAN, hashed : BOOLEAN,
                 marks : SUBSET Marks, strategy : Strategies] :
             d.access => "tower_access" \in d.marks}
ASSUME SceneAssumption ==
    /\ Designs \subseteq Scene
    /\ Sectors \in Seq(Range(Sectors))
    /\ MaxEdits \in Nat

Has(d, role) ==
    d.domain = "telecom" /\ IF role \in Marks THEN role \in d.marks ELSE d.strategy[role] # "absent"
Exact(d) == {role \in Roles : Has(d, role) /\ d.strategy[role] = "exact"}
PlanRoles(d) == IF d.plan THEN {role \in Roles : Has(d, role)} ELSE {}

(* The files a build reads: the manifests and builder profiles of a plan,  *)
(* one file per imported role, the file and manifest of an exact program.  *)
Sources(d) ==
    {role \in Roles : Has(d, role) /\ d.strategy[role] \in {"exact", "stored"}}
    \cup (IF d.plan THEN {"catalog"} ELSE {})
    \cup (IF d.domain = "telecom" THEN {"builders"} ELSE {})
    \cup (d.programs \cap {"exact"})
ContentsOf(s) == IF s = "catalog" THEN {"pinned", "neighbour", "other"}
                 ELSE IF s = "builders" THEN {"pinned", "other"}
                 ELSE {"pinned", "other", "absent"}

Piece(role, at) == [role |-> role, at |-> at]
Routed(d) == d.plan /\ Has(d, "remote_radio")
Pieces(d) ==
    {Piece(role, "global") : role \in {g \in Range(First) \cup Range(Last) : Has(d, g)}}
    \cup {Piece(role, s) : role \in {g \in Range(PerSector) : Has(d, g)}, s \in Range(Sectors)}
    \cup {Piece("program", p) : p \in d.programs}
    \cup (IF Routed(d) THEN {Piece("route", s) : s \in Range(Sectors)} ELSE {})

(* Then come the programs and, last, the remaining routes of the plan. *)
Index(order, x) == CHOOSE i \in DOMAIN order : order[i] = x
Rank(p) ==
    LET after == Len(PerSector) * (Len(Sectors) + 1)
    IN  CASE p.role \in Range(First) -> Index(First, p.role)
          [] p.role \in Range(PerSector) ->
                Len(PerSector) * Index(Sectors, p.at) + Index(PerSector, p.role)
          [] p.role \in Range(Last) -> after + Index(Last, p.role)
          [] p.role = "program" -> after + Len(Last) + Index(Programs, p.at)
          [] p.role = "route" -> after + Len(Last) + Len(Programs) + Index(Sectors, p.at)
Upcoming == {p \in todo : \A q \in todo : Rank(p) <= Rank(q)}

(* The operations of the plan an object of a role stands for. *)
Operations(d, role) ==
    CASE role = "antenna_mount" ->
            {"mount-to-support"} \cup (IF Has(d, "remote_radio") THEN {"radio-to-mount"} ELSE {})
      [] role = "sector_antenna" -> {"antenna-to-mount"}
      [] role = "remote_radio" -> {"radio-to-mount"}
      [] role = "sector_cable_route" -> {"radio-to-base-route"}
      [] role = "route" -> {"antenna-to-radio-rf"}
      [] OTHER -> {}
PlanOperations(d) ==
    UNION {Operations(d, role) : role \in PlanRoles(d) \cup (IF Routed(d) THEN {"route"} ELSE {})}

(* An object carries the plan's stamp: its role, its builder, its           *)
(* operations.  A scene without a plan has unstamped objects.              *)
Object(p, of) == [piece |-> p, of |-> of, stamped |-> design.plan /\ p.role \in Roles,
                  ops |-> IF design.plan THEN Operations(design, p.role) ELSE {}]
Record(p, how, ok) == [piece |-> p, mode |-> how, ok |-> ok]
Generated(p) == Record(p, "generated", TRUE)

WorkerInit ==
    /\ design \in Designs
    /\ disk = [s \in Sources(design) |-> "pinned"]
    /\ edits = 0 /\ restored = {}
    /\ phase = "check" /\ todo = Pieces(design) /\ importing = "no"
    /\ drawn = {} /\ records = {} /\ mode = "none"

(* The library is edited while the build runs. *)
EditLibrary ==
    /\ edits < MaxEdits
    /\ \E s \in DOMAIN disk : \E content \in ContentsOf(s) \ {disk[s]} :
         /\ disk' = [disk EXCEPT ![s] = content]
         /\ restored' = IF content = "pinned" THEN restored \cup {s} ELSE restored
    /\ edits' = edits + 1
    /\ UNCHANGED <<design, phase, todo, importing, drawn, records, mode>>

-----------------------------------------------------------------------------
(* What the outcome of one step changes. *)
Abort == /\ phase' = "failed"
         /\ UNCHANGED <<todo, importing, drawn, records>>
Continue(p, object, entries) ==
    /\ drawn' = drawn \cup object
    /\ records' = records \cup entries
    /\ todo' = todo \ {p} /\ importing' = "no"
    /\ UNCHANGED phase
Place(p, of, entries) == Continue(p, {Object(p, of)}, entries)
(* Any drawing may raise: the builder, its profile or the plan may be wrong. *)
Build(p, of, entries) == Place(p, of, entries) \/ Abort
Enter(step) == importing' = step /\ UNCHANGED <<phase, todo, drawn, records>>
Library == UNCHANGED <<design, disk, edits, restored, mode>>

(* Before anything is drawn: catalogue, manifests, builders and exact      *)
(* files are what the plan recorded.  Nothing exact without a plan.  The   *)
(* rest of the plan may be refused too.                                    *)
Trusted ==
    IF design.plan
    THEN /\ disk["catalog"] = "pinned" /\ disk["builders"] = "pinned"
         /\ \A role \in Exact(design) : disk[role] = "pinned"
    ELSE Exact(design) \ {"antenna_mount"} = {}
ValidateAssembly ==
    /\ phase = "check"
    /\ phase' \in IF Trusted THEN {"draw", "failed"} ELSE {"failed"}
    /\ UNCHANGED <<todo, importing, drawn, records>> /\ Library

(* Python without Blender: metadata alone, nothing drawn.  The records are *)
(* those of the tower, the antennas, the radios and the listed accessories. *)
Listed(p) ==
    \/ p.role \in {"support_structure", "sector_antenna", "remote_radio"}
    \/ /\ p.role \in {"ground_equipment", "timing_antenna"}
       /\ design.strategy[p.role] # "unlisted"
WithoutBlender ==
    /\ phase = "draw" /\ todo = Pieces(design) /\ importing = "no"
    /\ phase' = "inspect" /\ mode' = "fallback_no_blender"
    /\ records' = {Record(p, "not_generated", FALSE) : p \in {q \in todo : Listed(q)}}
    /\ UNCHANGED <<design, disk, edits, restored, todo, importing, drawn>>

At(p, role) == phase = "draw" /\ importing = "no" /\ p.role = role
IsExact(role) == role \in Exact(design)

(* exact_asset_boundary: the manifest of the role and its file, again. *)
Boundary(role) ==
    \/ disk["catalog"] # "other" /\ disk[role] = "pinned" /\ Enter("pinned")
    \/ Abort

DrawTower(p) ==
    /\ At(p, "support_structure") /\ Library
    /\ IF IsExact("support_structure") THEN Boundary("support_structure")
       ELSE Build(p, "built", {Generated(p)})

(* Foundation, ladder and platforms, height marker, beams, arrows, labels. *)
Mark(p, role) == At(p, role) /\ Library /\ Build(p, "built", {})
DrawFoundation(p) == Mark(p, "foundation")
DrawTowerAccess(p) == Mark(p, "tower_access")
DrawHeightMarker(p) == Mark(p, "height_marker")
DrawBeam(p) == Mark(p, "sector_beam")
DrawAzimuthArrow(p) == Mark(p, "azimuth_arrow")
DrawLabels(p) == Mark(p, "label")
DrawMark(p) == \/ DrawFoundation(p) \/ DrawTowerAccess(p) \/ DrawHeightMarker(p)
               \/ DrawBeam(p) \/ DrawAzimuthArrow(p) \/ DrawLabels(p)

(* A bracket or a cable has a record if it is a component of a plan, of an *)
(* older schema too.                                                       *)
Entries(p) == IF design.plan THEN {{Generated(p)}} ELSE {{}, {Generated(p)}}

(* A radio of the plan hangs on its bracket: an exact one by a fixed        *)
(* anchor, a generated one by a member drawn up to it.  An exact bracket   *)
(* needs the plan to place it.                                             *)
Hung == design.plan /\ Has(design, "remote_radio")
FixedAnchors == Hung => ~design.adapter
AdapterFits == Hung => design.adapter
DrawBracket(p) ==
    /\ At(p, "antenna_mount") /\ Library
    /\ IF IsExact("antenna_mount")
       THEN IF design.plan /\ FixedAnchors THEN Boundary("antenna_mount") ELSE Abort
       ELSE IF AdapterFits
            THEN \E entries \in Entries(p) : Build(p, "built", entries)
            ELSE Abort

DrawAntenna(p) ==
    /\ At(p, "sector_antenna") /\ Library
    /\ IF IsExact("sector_antenna") THEN Boundary("sector_antenna")
       ELSE Build(p, "built", {Generated(p)})

DrawRadio(p) ==
    /\ At(p, "remote_radio") /\ Library
    /\ IF IsExact("remote_radio") THEN Boundary("remote_radio")
       ELSE Build(p, "built", {Generated(p)})

DrawCable(p) ==
    /\ At(p, "sector_cable_route") /\ Library
    /\ \E entries \in Entries(p) : Build(p, "built", entries)

(* Without an accessory to build, a procedural one, recorded as such. *)
Procedural(p) == Build(p, "fallback", {Record(p, "procedural_fallback", TRUE)})

DrawCabinet(p) ==
    /\ At(p, "ground_equipment") /\ Library
    /\ CASE design.strategy["ground_equipment"] = "exact" -> Boundary("ground_equipment")
         [] design.strategy["ground_equipment"] = "unlisted" -> Procedural(p)
         [] OTHER -> Build(p, "built", {Generated(p)})

DrawTimingAntenna(p) ==
    /\ At(p, "timing_antenna") /\ Library
    /\ CASE design.strategy["timing_antenna"] = "exact" -> Boundary("timing_antenna")
         [] design.strategy["timing_antenna"] = "stored" -> Enter("pinned")
         [] design.strategy["timing_antenna"] = "unlisted" -> Procedural(p)
         [] OTHER -> Build(p, "built", {Generated(p)})

(* The programs are compiled one by one and recorded together.  An exact   *)
(* one pins its manifest and its file, then imports.                       *)
ProgramRecords(p) ==
    IF \E q \in todo : q.role = "program" /\ q # p THEN {}
    ELSE {Record(Piece("program", x), IF x = "exact" THEN "imported_glb_exact" ELSE "generated", TRUE) :
            x \in design.programs}
DrawProgram(p) ==
    /\ At(p, "program") /\ Library
    /\ IF p.at = "typed" THEN Build(p, "built", ProgramRecords(p))
       ELSE \/ disk["exact"] = "pinned" /\ Enter("hashed")
            \/ Abort

DrawRoute(p) ==
    /\ At(p, "route") /\ Library
    /\ Build(p, "built", {})

-----------------------------------------------------------------------------
(* _try_import_glb_asset.  The source of the piece being imported: *)
Source(p) == IF p.role = "program" THEN "exact" ELSE p.role
Bounded(p) == p.role = "program" \/ IsExact(p.role)

(* A stored file that cannot be used is replaced by a generated piece, and *)
(* says so, or - where no replacement is allowed - by nothing.             *)
UseFallback(p) ==
    IF design.fallback THEN Procedural(p) ELSE Continue(p, {}, {Record(p, "missing_file", FALSE)})

(* The file is hashed once more, then read by Blender: two reads of it. *)
HashFile(p) ==
    /\ phase = "draw" /\ importing = "pinned" /\ Library
    /\ IF Bounded(p)
       THEN IF disk[Source(p)] = "pinned" THEN Enter("hashed") ELSE Abort
       ELSE IF disk[Source(p)] = "absent" \/ (design.hashed /\ disk[Source(p)] # "pinned")
            THEN UseFallback(p)
            ELSE Enter("hashed")

(* What is left of a failed import: its objects are removed. *)
AfterFailedImport(before, partial) == before

(* Reading fails, finds nothing, finds other dimensions than planned, or fits. *)
Outcomes(content) == IF content = "absent" THEN {"raises"}
                     ELSE {"raises", "empty", "differs", "fits"}
ReadFile(p) ==
    LET debris == {[piece |-> p, of |-> "debris", stamped |-> FALSE, ops |-> {}]}
        imported == IF p.role = "program" THEN ProgramRecords(p)
                    ELSE {Record(p, "imported_glb", TRUE)}
    IN  /\ phase = "draw" /\ importing = "hashed" /\ Library
        /\ \E outcome \in Outcomes(disk[Source(p)]) :
             \/ /\ outcome = "fits"
                /\ Place(p, disk[Source(p)], imported)
             \/ /\ outcome # "fits" /\ Bounded(p) /\ Abort
             \/ /\ outcome = "differs" /\ ~Bounded(p)
                /\ Place(p, disk[Source(p)], {Record(p, "stretched_imported_glb", TRUE)})
             \/ /\ outcome \in {"raises", "empty"} /\ ~Bounded(p)
                /\ \/ /\ drawn' = AfterFailedImport(drawn, IF outcome = "raises" THEN debris ELSE {})
                               \cup (IF design.fallback THEN {Object(p, "fallback")} ELSE {})
                      /\ records' = records \cup
                           {IF design.fallback
                            THEN Record(p, "procedural_fallback", TRUE)
                            ELSE Record(p, "missing_file", FALSE)}
                      /\ todo' = todo \ {p} /\ importing' = "no" /\ UNCHANGED phase
                   \/ design.fallback /\ Abort

(* All is drawn: anchors, camera and light are added, and every generated  *)
(* member must meet its end points, measured.                              *)
CheckSegments ==
    /\ phase = "draw" /\ todo = {}
    /\ phase' \in {"prove", "failed"}
    /\ UNCHANGED <<todo, importing, drawn, records>> /\ Library

-----------------------------------------------------------------------------
(* The component proofs: per role of the plan as many stamped roots as     *)
(* instances, each with a record; every operation executed; every program. *)
(* A mesh, a bound or the nodes of a program may be wrong as well.         *)
Roots(role) == {o \in drawn : o.piece.role = role /\ o.stamped}
Expected(role) == IF role \in Range(PerSector) THEN Len(Sectors) ELSE 1
Recorded(o) == \E r \in records : r.piece = o.piece
ComponentProved(role) ==
    /\ Cardinality(Roots(role)) = Expected(role)
    /\ \A o \in Roots(role) : Recorded(o)
ProofRequired(d) == d.plan \/ d.programs # {}
Proved ==
    /\ \A role \in PlanRoles(design) : ComponentProved(role)
    /\ design.plan => PlanOperations(design) \subseteq UNION {o.ops : o \in drawn}
    /\ \A p \in design.programs : \E o \in drawn : o.piece = Piece("program", p)
ProveComponents ==
    /\ phase = "prove"
    /\ phase' \in IF ~ProofRequired(design) THEN {"export"}
                  ELSE IF Proved THEN {"export", "failed"} ELSE {"failed"}
    /\ UNCHANGED <<todo, importing, drawn, records>> /\ Library

DrawPiece(p) ==
    \/ DrawTower(p) \/ DrawMark(p) \/ DrawBracket(p) \/ DrawAntenna(p) \/ DrawRadio(p)
    \/ DrawCable(p) \/ DrawCabinet(p) \/ DrawTimingAntenna(p) \/ DrawProgram(p) \/ DrawRoute(p)
    \/ HashFile(p) \/ ReadFile(p)
Draw == \E p \in Upcoming : DrawPiece(p)
=============================================================================
