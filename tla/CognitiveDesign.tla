---------------------------- MODULE CognitiveDesign ----------------------------
(***************************************************************************)
(* A design that is not a telecom site, from its plan to its proofs: the   *)
(* model answers in stages (core/agents/cognitive_design_planner.py), each *)
(* generated component gets a geometry program                             *)
(* (core/agents/geometry_program_planner.py), the scene is compiled        *)
(* (core/services/cognitive_scene_compiler.py), the Blender worker builds  *)
(* it node by node (apps/blender_worker/geometry_program_compiler.py) and  *)
(* the mesh is inspected (core/qa/mesh_qa.py).  A certified design can be  *)
(* revised: a component is generated again, or a reused one is moved       *)
(* (core/agents/scene_edit_agent.py).                                      *)
(*                                                                         *)
(* A language model answers anything of Plans and Replies, or fails.  The  *)
(* catalogue may change at any time, at most Changes times; a design is    *)
(* revised at most Revisions times.                                        *)
(***************************************************************************)
EXTENDS GeometryProgram, ProgramSurfaces, CognitivePlan

CONSTANTS Plans,          \* what the models plan
          Replies,        \* the programs the model writes
          Sources,        \* the catalogue at the start
          Changes,        \* how often the catalogue changes
          Revisions,      \* how often a design is revised
          MaxRepairs      \* repairs of a reply, of its shape as of its geometry

\* Why a run fails.
Reasons == {"ROUTED_AWAY", "PLANNING_REQUEST", "PLAN_INVALID", "CLARIFICATION_REQUIRED",
            "GEOMETRY_REQUEST", "GEOMETRY_INVALID", "SCENE_REFUSED", "COMPOSITION_CYCLE",
            "DIFFERS", "CLOSED_PROGRAM", "UNRESOLVED_GRAPH", "MESH_SOURCE", "EMPTY_MESH",
            "MODIFIER_FAILED", "SOURCE_REFUSED", "MESH_QA"}

ASSUME PlansAssumption   == \A p \in Plans : IsPlan(p)
ASSUME RepliesAssumption == \A p \in Replies : IsReply(p)
\* What is absent is absent for a plan as for a program, and is no number and no reason.
ASSUME AbsentAssumption  == None = Nothing /\ None \notin Int /\ None \notin Reasons
\* The planner asks three times at most.
ASSUME BoundsAssumption  == Changes \in Nat /\ Revisions \in Nat /\ MaxRepairs \in 0 .. 4

VARIABLES
  plan,        \* what the models plan for this request
  catalogue,   \* the qualified files, and how often it has changed
  phase,       \* where the design is
  ask,         \* the request under way: its format, retries and repairs
  decided,     \* the components whose source is decided
  turn,        \* the component whose geometry is being drafted
  draft,       \* the candidate program, and the reply it came from
  programs,    \* the generated programs, by component
  placed,      \* the placements of the catalogued components
  scene,       \* the compiled scene
  built,       \* the worker's objects, by component and node
  revising,    \* the component being revised
  served,      \* the certified scene
  revisions,   \* revisions begun
  fault        \* why the run failed, or the revision was refused

designVars == <<plan, catalogue, phase, ask, decided, turn, draft, programs, placed, scene, built,
          revising, served, revisions, fault>>
planning == <<plan, decided>>
drafting == <<turn, draft, programs>>
building == <<scene, built, placed>>
history  == <<revising, served, revisions>>

\* f, and g where f says nothing.
Over(f, g) == [x \in DOMAIN f \cup DOMAIN g |-> IF x \in DOMAIN f THEN f[x] ELSE g[x]]

\* What a pool of threads decides at once.
Pool == 3
NoAsk == [format |-> "strict", retries |-> 0, repairs |-> 0]
Stages == {"intent", "components", "relations"}
Ended == {"failed", "certified"}

After(stage) ==
  CASE stage = "intent" -> "components" [] stage = "components" -> "relations"
    [] OTHER -> "judge"

DesignInit ==
  /\ plan \in Plans
  /\ catalogue = [files |-> Sources, changes |-> 0]
  /\ phase = "domain"
  /\ ask = NoAsk
  /\ decided = {}
  /\ turn = 1 /\ draft = None
  /\ programs = <<>> /\ placed = <<>> /\ built = <<>>
  /\ scene = None /\ served = None
  /\ revising = None /\ revisions = 0
  /\ fault = None

---------------------------------------------------------------------------
(* The plan. *)

\* The first build fails; a revision is refused and the design stays.
FailRun(why) ==
  /\ phase' = IF served = None THEN "failed" ELSE "certified"
  /\ fault' = why
  /\ ask' = NoAsk
  /\ turn' = 1 /\ draft' = None
  /\ revising' = None

\* Without a router the words decide, and never for a generic design.
RouteDomain ==
  /\ phase = "domain"
  /\ \E answer \in Domains \cup {"error"} :
       IF answer = "generic_cognitive_v1"
       THEN phase' = "intent" /\ UNCHANGED <<ask, turn, draft, revising, fault>>
       ELSE FailRun("ROUTED_AWAY")
  /\ UNCHANGED <<planning, catalogue, programs, building, served, revisions>>

\* A rejected constrained decoding is retried twice without the schema, a
\* reply of the wrong shape repaired twice.
AskStage ==
  /\ phase \in Stages
  /\ \/ /\ phase' = After(phase)
        /\ ask' = NoAsk
        /\ UNCHANGED <<turn, draft, revising, fault>>
     \/ /\ ask.repairs = 0 /\ ask.retries < 2
        /\ ask' = [ask EXCEPT !.format = "object", !.retries = @ + 1]
        /\ UNCHANGED <<phase, turn, draft, revising, fault>>
     \/ /\ ask.repairs < MaxRepairs
        /\ ask' = [ask EXCEPT !.format = "object", !.repairs = @ + 1]
        /\ UNCHANGED <<phase, turn, draft, revising, fault>>
     \/ FailRun("PLANNING_REQUEST")
  /\ UNCHANGED <<planning, catalogue, programs, building, served, revisions>>

\* The intent and the graph are judged once the three stages are answered.
JudgeGraph ==
  /\ phase = "judge"
  /\ IF IntentOK(plan) /\ GraphOK(plan)
     THEN phase' = "decide" /\ UNCHANGED <<ask, turn, draft, revising, fault>>
     ELSE FailRun("PLAN_INVALID")
  /\ UNCHANGED <<planning, catalogue, programs, building, served, revisions>>

\* The components are decided side by side, by a pool that takes them in order.
DecideComponent(c) ==
  /\ phase = "decide"
  /\ c \in Components(plan) \ decided
  /\ Cardinality({b \in Components(plan) \ decided : b < c}) < Pool
  /\ decided' = decided \cup {c}
  /\ UNCHANGED <<plan, catalogue, phase, ask, drafting, building, history, fault>>

\* The decisions are read in the order of the graph, once all are there.
JudgeDecisions ==
  /\ phase = "decide"
  /\ decided = Components(plan)
  /\ IF \A c \in Components(plan) :
          DecisionOK(catalogue.files, plan.components[c], plan.decisions[c])
     THEN phase' = "route" /\ UNCHANGED <<ask, turn, draft, revising, fault>>
     ELSE FailRun("PLAN_INVALID")
  /\ UNCHANGED <<planning, catalogue, programs, building, served, revisions>>

RouteSpecialists ==
  /\ phase = "route"
  /\ IF ~RouteOK(plan) THEN FailRun("PLAN_INVALID")
     ELSE IF plan.clarify THEN FailRun("CLARIFICATION_REQUIRED")
     ELSE phase' = "geometry" /\ UNCHANGED <<ask, turn, draft, revising, fault>>
  /\ UNCHANGED <<planning, catalogue, programs, building, served, revisions>>

---------------------------------------------------------------------------
(* The geometry of one component after the other. *)
ToDraft == IF revising = None THEN Chosen(plan, Generated) ELSE {revising}

\* The caller owns the identity, the quantity and the limit of a program.  One
\* list of adjustments is pinned for all the attempts.
Pinned(reply, c, notes) ==
  [reply EXCEPT !.role = plan.components[c].role, !.quantity = plan.components[c].quantity,
                !.limit = plan.components[c].limit, !.ground = plan.components[c].ground,
                !.exact = FALSE, !.notes = notes]

SkipComponent ==
  /\ phase = "geometry" /\ draft = None
  /\ turn \in Components(plan) \ ToDraft
  /\ turn' = turn + 1
  /\ UNCHANGED <<planning, catalogue, phase, ask, draft, programs, building, history, fault>>

\* The strict decoder may refuse once, then the reply is a plain object.
AskProgram ==
  /\ phase = "geometry" /\ draft = None
  /\ turn \in ToDraft
  /\ \/ /\ \E reply \in Replies :
             draft' = [program |-> Pinned(reply, turn, <<>>), reply |-> reply, judged |-> FALSE]
        /\ ask' = NoAsk
        /\ UNCHANGED <<phase, turn, revising, fault>>
     \/ /\ ask.format = "strict"
        /\ ask' = [ask EXCEPT !.format = "object"]
        /\ UNCHANGED <<phase, turn, draft, revising, fault>>
     \/ FailRun("GEOMETRY_REQUEST")
  /\ UNCHANGED <<planning, catalogue, programs, building, served, revisions>>

AcceptProgram(program) ==
  /\ programs' = Over([c \in {turn} |-> program], programs)
  /\ draft' = None
  /\ ask' = NoAsk
  /\ turn' = turn + 1
  /\ UNCHANGED <<phase, revising, fault>>

\* The reply is tidied, lifted to the ground, and judged; the last one that
\* only exceeds its limit is shrunk and judged again.
JudgeProgram ==
  /\ phase = "geometry" /\ draft # None
  /\ ~draft.judged
  /\ LET tidy   == Tidied(draft.program)
         lifted == NormalizeGround(tidy)
         last   == ask.repairs = MaxRepairs
         final  == IF last /\ ~Admitted(lifted) /\ Fits(lifted)
                   THEN FitToMaximum(lifted) ELSE lifted
     IN  IF GroundRaises(tidy) \/ (last /\ ~Admitted(final))
         THEN FailRun("GEOMETRY_INVALID") /\ UNCHANGED programs
         ELSE IF Admitted(final) THEN AcceptProgram(final)
         ELSE /\ draft' = [draft EXCEPT !.program = lifted, !.judged = TRUE]
              /\ UNCHANGED <<phase, ask, turn, programs, revising, fault>>
  /\ UNCHANGED <<planning, catalogue, building, served, revisions>>

\* The repaired reply is pinned again, the adjustments of the refused one with it.
RepairProgram ==
  /\ phase = "geometry" /\ draft # None
  /\ draft.judged
  /\ \/ /\ \E reply \in Replies :
             draft' = [program |-> Pinned(reply, turn, draft.program.notes), reply |-> reply,
                       judged |-> FALSE]
        /\ ask' = [ask EXCEPT !.repairs = @ + 1]
        /\ UNCHANGED <<phase, turn, revising, fault>>
     \/ FailRun("GEOMETRY_REQUEST")
  /\ UNCHANGED <<planning, catalogue, programs, building, served, revisions>>

AllDrafted ==
  /\ phase = "geometry" /\ draft = None
  /\ turn \notin Components(plan)
  /\ phase' = "compose"
  /\ turn' = 1
  /\ placed' = <<>>
  /\ UNCHANGED <<planning, catalogue, ask, draft, programs, scene, built, history, fault>>

---------------------------------------------------------------------------
(* The scene. *)
Catalogued(p) == Chosen(p, Exact)

CheckComposition ==
  /\ phase = "compose"
  /\ IF SceneFaults(plan, programs) \cup CompositionFaults(plan) # {}
     THEN FailRun("SCENE_REFUSED") /\ UNCHANGED placed
     ELSE /\ phase' = "placing"
          /\ placed' = [c \in Chosen(plan, {"reuse"}) |-> plan.decisions[c].placement]
          /\ UNCHANGED <<ask, turn, draft, revising, fault>>
  /\ UNCHANGED <<planning, catalogue, programs, scene, built, served, revisions>>

Pending == Chosen(plan, {"compose"}) \ DOMAIN placed
Target(c) == Component(plan, Driver(plan, c).target)
Placeable   == {c \in Pending : Target(c) \in DOMAIN placed}

\* Mutant: the first target's placement is not added.
PlaceWaveFlat ==
  /\ phase = "placing"
  /\ Pending # {}
  /\ IF Placeable = {} THEN FailRun("COMPOSITION_CYCLE") /\ UNCHANGED placed
     ELSE /\ placed' = Over([c \in Placeable |-> Driver(plan, c).offset], placed)
          /\ UNCHANGED <<phase, ask, turn, draft, revising, fault>>
  /\ UNCHANGED <<planning, catalogue, programs, scene, built, served, revisions>>

\* Each wave places what is aligned with a placed component.
PlaceWave ==
  /\ phase = "placing"
  /\ Pending # {}
  /\ IF Placeable = {} THEN FailRun("COMPOSITION_CYCLE") /\ UNCHANGED placed
     ELSE /\ placed' = Over([c \in Placeable |-> placed[Target(c)] + Driver(plan, c).offset],
                           placed)
          /\ UNCHANGED <<phase, ask, turn, draft, revising, fault>>
  /\ UNCHANGED <<planning, catalogue, programs, scene, built, served, revisions>>

Compiled ==
  [c \in Catalogued(plan) |-> ExactProgram(catalogue.files, plan, c, placed[c])]

\* Mutant: what was generated again must be what the scene held.
DiffersAnywhere == scene # None /\ (scene.exact # Compiled \/ scene.programs # programs)
\* A revision is compiled again from the plan: what the scene holds of the
\* catalogue must be what the plan and the catalogue give.
Differs == scene # None /\ scene.exact # Compiled

CompileScene ==
  /\ phase = "placing"
  /\ Pending = {}
  /\ IF \E c \in Catalogued(plan) : ReuseFaults(catalogue.files, plan, c, placed[c]) # {}
     THEN FailRun("SCENE_REFUSED") /\ UNCHANGED <<scene, built>>
     ELSE IF Differs
     THEN FailRun("DIFFERS") /\ UNCHANGED <<scene, built>>
     ELSE /\ scene' = [programs |-> programs, exact |-> Compiled, at |-> catalogue.changes]
          /\ built' = <<>>
          /\ phase' = "worker"
          /\ UNCHANGED <<ask, turn, draft, revising, fault>>
  /\ UNCHANGED <<planning, catalogue, programs, placed, served, revisions>>

---------------------------------------------------------------------------
(* The worker. *)

\* The worker checks again, without the contract, what it will follow.
Closed(p) ==
  /\ UniqueIds(p)
  /\ ReferencesKnown(p)
  /\ Profiles(p) \subseteq p.construction
  /\ LinksKnown(p)

\* What is created; flags, role, emptiness and border come with it or with its source.
Object(type, e) ==
  [type |-> type, low |-> e[1], high |-> e[2], frame |-> Untouched, hidden |-> type = "empty",
   role |-> FALSE, hollow |-> FALSE, border |-> FALSE]

Span(o) == <<o.low, o.high>>

\* The faces the worker writes for the solid it sweeps along a profile.
FacesOf(x, profile) ==
  CASE x.kind = "extrude" -> ExtrudeFaces(profile.points)
    [] x.kind = "revolve" -> RevolveFaces(profile.points, profile.closed, x.count, x.loop)
    [] OTHER              -> SweepFaces(profile.points, x.count, x.loop)

\* A copy inherits the flags of its source; the operands of a boolean are baked
\* where they stand into an object of its own.
Raw(p, n, objs, hollow) ==
  LET x == Node(p, n)
      Baked(m) == Map(objs[m].frame, Span(objs[m])) IN
  CASE x.kind = "profile" -> Object("empty", <<0, 0>>)
    [] x.kind = "curve"   -> Object("curve", <<x.low, x.high>>)
    [] x.kind = "terrain" ->
         [Object("mesh", <<x.low, x.high>>) EXCEPT !.border = ~Watertight(TerrainFaces(3, 2))]
    [] x.kind = "primitive" -> Object("mesh", <<x.low, x.high>>)
    [] x.kind \in Swept   ->
         LET profile == Node(p, x.uses[1]) IN
         [Object("mesh", SweptExtent(x, profile)) EXCEPT
            !.border = ~Watertight(FacesOf(x, profile))]
    [] x.kind = "boolean" ->
         [Object("mesh", BooleanExtent(x.op, Baked(x.uses[1]), Baked(x.uses[2]))) EXCEPT
            !.hollow = n \in hollow,
            !.border = \E m \in Uses(x) : objs[m].border]
    [] OTHER ->
         LET source == objs[x.uses[1]]
             e == CASE x.kind = "array"    -> ArrayExtent(x, Span(source))
                    [] x.kind = "modifier" -> ModifiedExtent(x, Span(source))
                    [] OTHER               -> Span(source)
         IN  [source EXCEPT !.low = e[1], !.high = e[2]]

\* The parent and the transform are the node's own, also those of a copy.
Finish(p, n, o, objs) ==
  LET x == Node(p, n) IN
  [o EXCEPT !.hidden = @ \/ n \in p.construction, !.role = @ \/ x.role,
            !.frame = IF x.parent = None THEN Local(x)
                      ELSE Compose(objs[x.parent].frame, Local(x))]

\* Booleans may leave nothing, except a union.
Booleans(p, ns) == {n \in ns : Node(p, n).kind = "boolean"}
Voidable(p, ns) == {n \in Booleans(p, ns) : Node(p, n).op # "union"}
Modified(p, ns) == {n \in ns : Node(p, n).kind \in {"array", "modifier", "boolean"}}

\* What stops the worker: a program it cannot follow, nodes that wait for each
\* other, a source that is not a mesh, an operand without faces.
WaveFaults(p, ns, objs) ==
  LET when(refused, name) == IF refused THEN {name} ELSE {}
      sources(n) == {objs[u] : u \in Uses(Node(p, n))}
  IN  when(~Closed(p), "CLOSED_PROGRAM")
        \cup when(ns = {}, "UNRESOLVED_GRAPH")
        \cup when(\E n \in Modified(p, ns) : \E o \in sources(n) : o.type # "mesh", "MESH_SOURCE")
        \cup when(\E n \in Booleans(p, ns) : \E o \in sources(n) : o.hollow, "EMPTY_MESH")

\* Programs are built one after the other, the generated ones first.
Unbuilt ==
  {c \in DOMAIN scene.programs : c \notin DOMAIN built \/ DOMAIN built[c] # Ids(scene.programs[c])}
Unimported == {c \in DOMAIN scene.exact : c \notin DOMAIN built}
First(S) == CHOOSE c \in S : \A d \in S : c <= d
Build(c, objs) == Over([d \in {c} |-> objs], built)

CompileWave ==
  /\ phase = "worker" /\ Unbuilt # {}
  /\ LET c     == First(Unbuilt)
         p     == scene.programs[c]
         objs  == IF c \in DOMAIN built THEN built[c] ELSE <<>>
         ready == {n \in Ids(p) \ DOMAIN objs : Needs(p, n) \subseteq DOMAIN objs}
     IN  IF WaveFaults(p, ready, objs) # {}
         THEN FailRun(CHOOSE f \in WaveFaults(p, ready, objs) : TRUE) /\ UNCHANGED built
         ELSE \/ /\ \E hollow \in SUBSET Voidable(p, ready) :
                      built' = Build(c, Over([n \in ready |->
                                          Finish(p, n, Raw(p, n, objs, hollow), objs)], objs))
                 /\ UNCHANGED <<phase, ask, turn, draft, revising, fault>>
              \/ /\ Modified(p, ready) # {}
                 /\ FailRun("MODIFIER_FAILED")
                 /\ UNCHANGED built
  /\ UNCHANGED <<planning, catalogue, programs, scene, placed, served, revisions>>

\* The file, its version and its qualification are checked before the import.
ImportExact ==
  /\ phase = "worker" /\ Unbuilt = {} /\ Unimported # {}
  /\ LET c == First(Unimported) IN
     IF Admissible(catalogue.files, scene.exact[c])
     THEN /\ built' = Build(c, [catalog_asset |->
                               [type |-> "group", place |-> scene.exact[c].place]])
          /\ UNCHANGED <<phase, ask, turn, draft, revising, fault>>
     ELSE FailRun("SOURCE_REFUSED") /\ UNCHANGED built
  /\ UNCHANGED <<planning, catalogue, programs, scene, placed, served, revisions>>

---------------------------------------------------------------------------
(* The inspection of what was built. *)
Geometric(c) ==
  {n \in DOMAIN built[c] : built[c][n].type \in {"mesh", "curve"} /\ ~built[c][n].hollow}

\* A high fidelity component is more than primitives and their instances.
Detailing(p) == \E i \in DOMAIN p.nodes : p.nodes[i].kind \notin {"primitive", "instance"}

Position(c) == built[c].catalog_asset.place

Inspected ==
  /\ \A c \in DOMAIN scene.programs :
       /\ Geometric(c) # {}
       /\ scene.programs[c].materials
       /\ Detailing(scene.programs[c])
  /\ \A c \in Chosen(plan, {"compose"}) :
       Position(c) - Position(Target(c)) = Driver(plan, c).offset

Inspect ==
  /\ phase = "worker" /\ Unbuilt = {} /\ Unimported = {}
  /\ IF Inspected
     THEN /\ phase' = "certified"
          /\ served' = scene
          /\ revising' = None
          /\ UNCHANGED <<ask, turn, draft, fault>>
     ELSE FailRun("MESH_QA") /\ UNCHANGED served
  /\ UNCHANGED <<planning, catalogue, programs, building, revisions>>

---------------------------------------------------------------------------
(* The revision of a certified design, and the catalogue. *)
Revise(c, revised) ==
  /\ phase = "certified"
  /\ revisions < Revisions
  /\ revisions' = revisions + 1
  /\ revising' = c
  /\ programs' = served.programs
  /\ scene' = revised
  /\ placed' = <<>> /\ built' = <<>>
  /\ fault' = None
  /\ UNCHANGED <<planning, catalogue, ask, turn, draft, served>>

\* A generated component is asked for again, in the same role and quantity.
Rebuild(c) ==
  /\ Revise(c, served)
  /\ c \in Chosen(plan, Generated)
  /\ phase' = "geometry"

\* A reused component is moved where its permissions allow, unless a relation
\* places it.
Move(c, place) ==
  /\ phase = "certified" /\ c \in DOMAIN served.exact
  /\ ~\E i \in Binding(plan) : Touches(plan.relations[i], plan.components[c].id)
  /\ Admissible(catalogue.files, served.exact[c])
  /\ Permitted(catalogue.files[served.exact[c].asset], place)
  /\ Revise(c, [served EXCEPT !.exact = [@ EXCEPT ![c] = [@ EXCEPT !.place = place]]])
  /\ phase' = "compose"

\* A file is replaced, or its qualification withdrawn or restored.
Requalify(a) ==
  /\ catalogue.changes < Changes
  /\ \/ catalogue' = [changes |-> catalogue.changes + 1,
                      files |-> [catalogue.files EXCEPT ![a].version = @ + 1]]
     \/ catalogue' = [changes |-> catalogue.changes + 1,
                      files |-> [catalogue.files EXCEPT ![a].admitted = ~@]]
  /\ UNCHANGED <<planning, phase, ask, drafting, building, history, fault>>

Work ==
  \/ RouteDomain \/ AskStage \/ JudgeGraph \/ JudgeDecisions \/ RouteSpecialists
  \/ \E c \in Components(plan) : DecideComponent(c)
  \/ SkipComponent \/ AskProgram \/ JudgeProgram \/ RepairProgram \/ AllDrafted
  \/ CheckComposition \/ PlaceWave \/ CompileScene
  \/ CompileWave \/ ImportExact \/ Inspect

\* The design is certified or refused, and nobody revises it any more.
Rest == phase \in Ended /\ UNCHANGED designVars

DesignNext ==
  \/ Work
  \/ Rest
  \/ \E c \in Components(plan) : Rebuild(c)
  \/ \E c \in Components(plan) : \E place \in {1, 3} : Move(c, place)
  \/ \E a \in Assets : Requalify(a)

DesignSpec == DesignInit /\ [][DesignNext]_designVars

---------------------------------------------------------------------------
(* Properties *)
\* The type invariant.
DesignTypeOK ==
  /\ plan \in Plans
  /\ phase \in Stages \cup Ended \cup {"domain", "judge", "decide", "route", "geometry", "compose",
                                      "placing", "worker"}
  /\ ask \in [format : {"strict", "object"}, retries : 0 .. 2, repairs : 0 .. MaxRepairs]
  /\ decided \subseteq Components(plan)
  /\ turn \in 1 .. Len(plan.components) + 1
  /\ DOMAIN programs \subseteq Chosen(plan, Generated)
  /\ DOMAIN placed \subseteq Catalogued(plan)
  /\ \A c \in DOMAIN built :
       c \in DOMAIN scene.programs => DOMAIN built[c] \subseteq Ids(scene.programs[c])
  /\ revising \in Components(plan) \cup {None}
  /\ revisions \in 0 .. Revisions
  /\ fault \in Reasons \cup {None}

\* A program the contract admits is one the worker can build: what stops the
\* worker is an empty operand, a modifier of Blender's or a withdrawn file.
AcceptedCompiles == fault \notin {"CLOSED_PROGRAM", "UNRESOLVED_GRAPH", "MESH_SOURCE"}

Complete(c) == c \in DOMAIN built /\ DOMAIN built[c] = Ids(scene.programs[c])
InWorld(c, n) == Map(built[c][n].frame, Span(built[c][n]))

\* What the worker has built of a component is no taller than the limit its
\* program was judged against, wherever its copies and cuts took it.
EnvelopeContains ==
  phase = "worker" =>
     \A c \in DOMAIN scene.programs :
        LET p == scene.programs[c] IN
        p.limit # None /\ Complete(c) =>
           \A m, n \in Visible(p) : InWorld(c, m)[2] - InWorld(c, n)[1] <= p.limit

\* The solid a closed profile sweeps has no border, nor has what is cut from
\* solids, copied or arrayed: only terrains and open profiles leave one.
Made(p, n)     == Reached([m \in Ids(p) |-> Uses(Node(p, m))], n)
Bordered(p, n) == Node(p, n).kind = "terrain" \/ (n \in Profiles(p) /\ ~Node(p, n).closed)
SurfacesClosed ==
  phase = "worker" =>
     \A c \in DOMAIN built \cap DOMAIN scene.programs : \A n \in DOMAIN built[c] :
        LET p == scene.programs[c] IN
        built[c][n].border => \E m \in Made(p, n) : Bordered(p, m)

\* No visible root of an accepted component that touches the ground dips below it, unless it
\* had to be shrunk or overturns a boolean.  Each root is lifted by its own depth, but a boolean
\* goes up with its lifted operands, and then what mirrors it, what cuts it where it stands
\* upside down, and the boolean itself when it does, go down.  What hangs below a root
\* follows it, wherever that is.
Is(p, n, kind, op) == Node(p, n).kind = kind /\ Node(p, n).op = op
Blends(p, n)   == \E b \in Measured(p, n) : Node(p, b).kind = "boolean"
Upturned(p, n) == Blends(p, n) /\ Frame(p, n).turned
Sinks(p, n) ==
  \E m \in Measured(p, n) :
     \/ Is(p, m, "modifier", "mirror") /\ Blends(p, m)
     \/ Node(p, m).kind = "boolean" /\ \E k \in Read(Node(p, m)) : Upturned(p, k)
StandsOnGround ==
  \A c \in DOMAIN programs :
     programs[c].ground /\ "fit" \notin Range(programs[c].notes) =>
        \A n \in Roots(programs[c]) :
           \/ Upturned(programs[c], n) \/ Sinks(programs[c], n)
           \/ Standing(programs[c], n)[1] >= 0

Changed(p, q, kinds, field) ==
  \E i \in DOMAIN p.nodes : q.nodes[i].kind \in kinds /\ p.nodes[i][field] # q.nodes[i][field]
Tells(p, notes) == Range(p.notes) \cap notes # {}

\* What an accepted program changes of the reply it comes from, it tells: a profile is reset,
\* anything else only lifted, shrunk or freed of an ellipsis.
Accepting == draft # None /\ draft' = None /\ turn' = turn + 1
Disclosing ==
  Accepting =>
     LET p == programs'[turn]
         q == draft.reply
         shapes == Kinds \ {"profile"}
     IN  /\ Changed(p, q, shapes, "at") => Tells(p, {"ground", "fit"})
         /\ Changed(p, q, shapes, "scale") => Tells(p, {"fit"})
         /\ Changed(p, q, Kinds, "gaps") => Tells(p, {"points"})
         /\ \/ \E f \in {"at", "scale"} : Changed(p, q, {"profile"}, f)
            \/ \E f \in {"turned", "role", "clad", "parent"} : Changed(p, q, Kinds, f)
            \/ p.construction # q.construction
            => Tells(p, {"profiles"})
ChangesAreDisclosed == [][Disclosing]_designVars

\* A certified design has every component of the plan, in its role and number,
\* the catalogued ones from the file and version the scene names.
ServedCoversPlan ==
  phase = "certified" /\ fault = None =>
     /\ DOMAIN served.programs \cup DOMAIN served.exact = Components(plan)
     /\ \A c \in DOMAIN served.programs :
          /\ served.programs[c].role = plan.components[c].role
          /\ Cardinality({n \in DOMAIN built[c] : built[c][n].role}) >= plan.components[c].quantity

\* From the compiler to the certificate, an aligned component stands where its
\* relation to its target says, through every link of a chain.
PlacementsHold ==
  phase = "worker" =>
     \A i \in DOMAIN plan.relations :
        LET r == plan.relations[i]
            place(id) == scene.exact[Component(plan, id)].place
        IN  /\ r.required /\ r.kind = "aligned_with"
            /\ {Component(plan, r.source), Component(plan, r.target)} \subseteq DOMAIN scene.exact
            => place(r.source) - place(r.target) = r.offset

\* A certified design whose catalogue has not changed compiles again: the
\* revision of a generated component is never refused for another one.
SceneRefused == fault = None /\ fault' \in {"SCENE_REFUSED", "COMPOSITION_CYCLE", "DIFFERS"}
Reproducing ==
  served # None /\ SceneRefused => catalogue.changes > served.at \/ revising \in Catalogued(plan)
RevisionReproduces == [][Reproducing]_designVars

\* The worker builds what the contract admitted as the contract judged it: it refuses none,
\* within the measured envelope, closed, and on the ground but for what a lift turns down
\* (geometry_program.py, geometry_program_planner.py, geometry_program_compiler.py).
BuiltAsJudged ==
  DesignTypeOK /\ AcceptedCompiles /\ EnvelopeContains /\ SurfacesClosed /\ StandsOnGround

\* A certified scene is the planned one: every component, in its role, number and place
\* (cognitive_composition.py, cognitive_scene_compiler.py, mesh_qa.py).
ServedAsPlanned == ServedCoversPlan /\ PlacementsHold
================================================================================
