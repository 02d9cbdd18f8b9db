----------------------------- MODULE CognitivePlan -----------------------------
(***************************************************************************)
(* What a language model plans for a design that is not a telecom site,    *)
(* and what judges it: the contract of the plan                            *)
(* (core/contracts/cognitive_design.py), the closed registry of            *)
(* specialists (core/services/cognitive_runtime.py), the reuse of a        *)
(* catalogued file (core/services/cognitive_asset_reuse.py), the placement *)
(* of aligned components (core/services/cognitive_composition.py) and the  *)
(* faults of the scene compiler (core/services/cognitive_scene_compiler.py)*)
(*                                                                         *)
(* A plan is a record of                                                   *)
(*   missing, clarify   information is missing; the model says so          *)
(*   components         [id, role, parent, quantity, limit, ground]        *)
(*   relations          [id, kind, source, target, required, port, offset] *)
(*   decisions          one [strategy, chosen, tuned, placement, tools]    *)
(*                      per component                                      *)
(*   route              [specialist, inputs, needs, wave]                  *)
(* The catalogue gives each asset [version, admitted, roles, height,       *)
(* reach, tunable].  As in GeometryProgram, one axis stands for the three. *)
(***************************************************************************)
EXTENDS Integers, Sequences, FiniteSets, SequencesExt, Functions

CONSTANTS Nothing,         \* no parent, limit, placement, port or offset
          Assets           \* the files the catalogue can hold

Generated == {"procedural_generate", "compose_and_generate"}
Exact     == {"reuse", "compose"}
Sourced   == Exact \cup {"adapt", "compose_and_generate"}
Blocked   == {"clarify", "unsupported"}
Tools     == {"primitive", "curve", "instance", "profile", "extrude", "revolve", "sweep",
              "array", "boolean", "modifier", "terrain", "anchor", "connector", "group"}
Strategies == Generated \cup Sourced \cup Blocked
Domains   == {"generic_cognitive_v1", "telecom_v1", "blocked"}

\* The specialists and what each one waits for; the last one is a required gate.
Waits == [author |-> {}, compiler |-> {"author"}, qa |-> {"compiler"}]
Gates == {"qa"}

Keys(s)         == {s[i].id : i \in DOMAIN s}
Unique(s)       == IsInjective([i \in DOMAIN s |-> s[i].id])
Components(p)   == DOMAIN p.components
Component(p, c) == CHOOSE i \in Components(p) : p.components[i].id = c
Chosen(p, S)    == {i \in Components(p) : p.decisions[i].strategy \in S}
Touches(r, c)   == c \in {r.source, r.target}

\* What the schemas of the plan admit, whatever the model writes.
IsPlan(p) ==
  /\ {p.missing, p.clarify} \subseteq BOOLEAN
  /\ p.components \in Seq(ToSet(p.components))
  /\ p.relations \in Seq(ToSet(p.relations))
  /\ DOMAIN p.decisions = Components(p)
  /\ \A c \in Components(p) :
       /\ p.components[c].quantity \in Nat \ {0}
       /\ p.components[c].limit \in (Nat \ {0}) \cup {Nothing}
       /\ p.components[c].ground \in BOOLEAN
       /\ p.decisions[c].strategy \in Strategies
       /\ p.decisions[c].placement \in Int \cup {Nothing}
  /\ \A i \in DOMAIN p.relations :
       /\ p.relations[i].required \in BOOLEAN
       /\ p.relations[i].offset \in Int \cup {Nothing}

---------------------------------------------------------------------------
(* The contract, stage by stage. *)
IntentOK(p) == p.clarify = p.missing

\* No set of components in which each one's parent is another of the set.
Rooted(p) ==
  \A S \in (SUBSET Components(p)) \ {{}} :
     \E i \in S : p.components[i].parent \notin {p.components[j].id : j \in S}

GraphOK(p) ==
  /\ Unique(p.components)
  /\ \A i \in Components(p) : p.components[i].parent \in Keys(p.components) \cup {Nothing}
  /\ Rooted(p)
  /\ Unique(p.relations)
  /\ \A i \in DOMAIN p.relations :
       /\ p.relations[i].source \in Keys(p.components)
       /\ p.relations[i].target \in Keys(p.components)
       /\ p.relations[i].port # "undeclared"

\* The admitted files that fit the component's role are its candidates.
Candidates(catalogue, c) ==
  {a \in Assets : catalogue[a].admitted /\ c.role \in catalogue[a].roles}

DecisionOK(catalogue, c, d) ==
  /\ d.chosen \subseteq Candidates(catalogue, c)
  /\ d.strategy \in Sourced => d.chosen # {}
  /\ d.chosen # {} => d.strategy \in Exact
  /\ d.tuned \subseteq UNION {catalogue[a].tunable : a \in d.chosen}
  /\ d.tools \subseteq Tools

RouteOK(p) ==
  LET R == p.route
      chosen == {R[i].specialist : i \in DOMAIN R}
  IN  /\ Cardinality(chosen) = Len(R)
      /\ chosen \subseteq DOMAIN Waits
      /\ Gates \subseteq chosen
      /\ \A i \in DOMAIN R :
           /\ Waits[R[i].specialist] \subseteq chosen
           /\ R[i].inputs \subseteq Keys(p.components)
           /\ R[i].needs = Waits[R[i].specialist]
           /\ \A j \in DOMAIN R : R[j].specialist \in R[i].needs => R[j].wave < R[i].wave

---------------------------------------------------------------------------
(* The placement of aligned components. *)

\* The required relations in which a catalogued component takes part.
Binding(p) ==
  {i \in DOMAIN p.relations :
     /\ p.relations[i].required
     /\ \E c \in Chosen(p, Exact) : Touches(p.relations[i], p.components[c].id)}

Aligns(p, i) ==
  LET r == p.relations[i] IN
  /\ r.kind = "aligned_with"
  /\ Component(p, r.source) \in Chosen(p, {"compose"})
  /\ Component(p, r.target) \in Chosen(p, Exact)
  /\ r.source # r.target
  /\ r.port = Nothing
  /\ r.offset # Nothing

Drivers(p, c) == {i \in Binding(p) : p.relations[i].source = p.components[c].id}
Driver(p, c)  == p.relations[CHOOSE i \in Drivers(p, c) : TRUE]

\* What refuses a composition before any placement is derived.
CompositionFaults(p) ==
  LET composed == Chosen(p, {"compose"})
      fault(refused, name) == IF refused THEN {name} ELSE {}
  IN  IF composed = {} THEN {}
      ELSE fault(\E i \in Binding(p) : ~Aligns(p, i), "RELATION_UNSUPPORTED")
        \cup fault(\E c \in composed : Cardinality(Drivers(p, c)) > 1, "MULTIPLE_DRIVERS")
        \cup fault(\E c \in composed : Drivers(p, c) = {}, "REQUIRES_DRIVER")
        \cup fault(\E c \in Chosen(p, Exact) : p.components[c].parent # Nothing, "PARENT")
        \cup fault(\E c \in Chosen(p, {"reuse"}) : p.decisions[c].placement = Nothing,
                   "REQUIRES_PLACEMENT")
        \cup fault(\E c \in composed : p.decisions[c].placement # Nothing, "MUST_BE_DERIVED")

\* Outside a composition every required relation of a reused component counts.
Unresolved(p, c) ==
  /\ Chosen(p, {"compose"}) = {}
  /\ \E i \in DOMAIN p.relations :
       p.relations[i].required /\ Touches(p.relations[i], p.components[c].id)

---------------------------------------------------------------------------
(* The reuse of one catalogued file. *)
Asset(p, c)     == CHOOSE a \in p.decisions[c].chosen : TRUE
Magnitude(z)    == IF z < 0 THEN -z ELSE z
Permitted(entry, place) == Magnitude(place) <= entry.reach

\* The program the compiler writes: the source, its version and its placement.
ExactProgram(catalogue, p, c, place) ==
  LET a == Asset(p, c)
  IN  [id |-> p.components[c].id, asset |-> a, version |-> catalogue[a].version,
       place |-> place, derived |-> p.decisions[c].strategy = "compose"]

\* The file is still the one the program names, and still qualified.
Admissible(catalogue, x) ==
  /\ catalogue[x.asset].version = x.version
  /\ catalogue[x.asset].admitted
  /\ Permitted(catalogue[x.asset], x.place)

ReuseFaults(catalogue, p, c, place) ==
  LET k == p.components[c]
      d == p.decisions[c]
      fault(refused, name) == IF refused THEN {name} ELSE {}
  IN  IF k.quantity # 1 \/ Cardinality(d.chosen) # 1 THEN {"SINGLE_COMPONENT"}
      ELSE IF place = Nothing THEN {"REQUIRES_PLACEMENT"}
      ELSE LET a == catalogue[Asset(p, c)] IN
             fault(d.tuned # {}, "ADAPTS_PARAMETERS")
             \cup fault(k.parent # Nothing \/ Unresolved(p, c), "RELATION_NOT_EXECUTABLE")
             \cup fault(~a.admitted, "NOT_AUTHORIZED")
             \cup fault(k.role \notin a.roles, "ROLE_NOT_AUTHORIZED")
             \cup fault(k.limit # Nothing /\ a.height > k.limit, "EXCEEDS_LIMIT")
             \cup fault(~Permitted(a, place), "TRANSFORM_NOT_AUTHORIZED")

---------------------------------------------------------------------------
(* The faults of the scene compiler that no placement decides, given the   *)
(* generated programs, by component.                                       *)
SceneFaults(p, supplied) ==
  LET roles == {supplied[c].role : c \in DOMAIN supplied}
      wanted == {p.components[c].role : c \in Chosen(p, Generated)}
      fault(refused, name) == IF refused THEN {name} ELSE {}
  IN  fault(p.clarify, "CLARIFICATION")
        \cup fault(Chosen(p, Blocked) # {}, "BLOCKED")
        \cup fault(Cardinality(roles) < Cardinality(DOMAIN supplied), "ROLES_DUPLICATED")
        \cup fault(Chosen(p, {"adapt"}) # {}, "ASSEMBLY_NOT_COMPILED")
        \cup fault(~(wanted \subseteq roles), "MISSING")
        \cup fault(~(roles \subseteq wanted), "UNPLANNED")
        \cup fault(\E c \in Chosen(p, Generated) : \E g \in Range(supplied) :
                     g.role = p.components[c].role /\ g.quantity # p.components[c].quantity,
                   "QUANTITY_MISMATCH")
================================================================================
