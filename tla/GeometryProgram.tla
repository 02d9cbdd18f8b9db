---------------------------- MODULE GeometryProgram ----------------------------
(***************************************************************************)
(* The declarative geometry a language model writes for one component:     *)
(* the contract that admits a program (core/contracts/geometry_program.py),*)
(* its measured envelope, and the deterministic adjustments the planner    *)
(* makes to a reply before and after the contract has judged it            *)
(* (core/agents/geometry_program_planner.py).                              *)
(*                                                                         *)
(* Space is reduced to the vertical axis: a node has an extent <<low,      *)
(* high>> and a transform, of a translation "at", a scale <<numerator,     *)
(* denominator>> and a rotation that leaves it upright or turns it upside  *)
(* down ("turned"): the angles between, which mix the axes, are left out.  *)
(* The adjustments and the envelope treat the three axes alike.  A program *)
(* is                                                                      *)
(*   nodes         a sequence of nodes (identifiers may clash in a reply)  *)
(*   construction  the nodes that must not appear as visible geometry      *)
(*   anchors, connectors, groups, materials                                *)
(*   role, quantity, limit, ground, exact   pinned by the caller           *)
(*   text          the disclosures are plain strings                       *)
(*   notes         the adjustments recorded, deterministic_adjustments     *)
(***************************************************************************)
EXTENDS Integers, Sequences, FiniteSets, SequencesExt, Functions

CONSTANT None                       \* no parent, no limit, no placement

Solids     == {"primitive", "terrain"}
Swept      == {"extrude", "revolve", "sweep"}
Copies     == {"instance", "array", "modifier"}
Kinds      == Solids \cup Swept \cup Copies \cup {"boolean", "profile", "curve", "exact_asset"}
\* The adjustments of one planning are at most three per attempt and a fit.
MaxNotes   == 16

\* What the schema of a reply admits, whatever the model writes: how many other nodes a node is
\* built from, and the ranges of its numbers.
Arity(kind) == CASE kind \in Swept \cup Copies -> 1 [] kind = "boolean" -> 2 [] OTHER -> 0

IsNode(x) ==
  /\ DOMAIN x = {"id", "kind", "parent", "uses", "role", "at", "scale", "turned", "low", "high",
                 "closed", "gaps", "enough", "count", "step", "op", "clad", "points", "loop"}
  /\ x.id # None /\ x.kind \in Kinds
  /\ DOMAIN x.uses = 1 .. Arity(x.kind)
  /\ {x.role, x.clad, x.closed, x.enough, x.loop, x.turned} \subseteq BOOLEAN
  /\ {x.at, x.low, x.high, x.step} \subseteq Int /\ x.low <= x.high
  /\ {x.gaps, x.count, x.points} \subseteq Nat
  /\ x.scale \in (Nat \ {0}) \X (Nat \ {0})
  /\ x.kind = "modifier" /\ x.op # "mirror" => x.step >= 0
  /\ x.kind = "profile" /\ x.closed => x.points >= 3
  /\ x.kind = "revolve" => x.count >= 3
  /\ x.kind = "sweep" => x.count >= (IF x.loop THEN 3 ELSE 2)

IsReply(p) ==
  /\ DOMAIN p = {"nodes", "construction", "anchors", "connectors", "groups", "materials", "role",
                 "quantity", "limit", "ground", "exact", "text", "notes"}
  /\ p.nodes \in Seq(ToSet(p.nodes))
  /\ \A i \in DOMAIN p.nodes : IsNode(p.nodes[i])
  /\ {p.materials, p.text} \subseteq BOOLEAN

Ids(p)     == {p.nodes[i].id : i \in DOMAIN p.nodes}
Node(p, n) == p.nodes[CHOOSE i \in DOMAIN p.nodes : p.nodes[i].id = n]
Visible(p) == Ids(p) \ p.construction
Roots(p)   == {n \in Visible(p) : Node(p, n).parent = None}
Carriers(p) == {i \in DOMAIN p.nodes : p.nodes[i].role}
Profiles(p) == {n \in Ids(p) : Node(p, n).kind = "profile"}

\* What a node is built from, and what it waits for.
Uses(x)    == ToSet(x.uses)
Needs(p, n) == Uses(Node(p, n)) \cup ({Node(p, n).parent} \ {None})

\* No set of nodes in which each needs another of the set.
Acyclic(p) == \A S \in (SUBSET Ids(p)) \ {{}} : \E n \in S : Needs(p, n) \cap S = {}

\* What is reached from n along the references of each node.
Reached(references, n) ==
  {m \in DOMAIN references :
     \A S \in SUBSET DOMAIN references :
        n \in S /\ (\A k \in S : references[k] \subseteq S) => m \in S}

\* A reference resolves to a mesh through instances, arrays and modifiers.
CopyOf(x)       == IF x.kind \in Copies THEN {x.uses[1]} ELSE {}
Originals(p, n) == Reached([m \in Ids(p) |-> CopyOf(Node(p, m))], n)
MeshSource(p, n) ==
  \E m \in Originals(p, n) : Node(p, m).kind \in Solids \cup Swept \cup {"boolean"}

---------------------------------------------------------------------------
(* The envelope. *)
Scaled(f, z)  == (z * f.scale[1]) \div f.scale[2]
Within(f, z)  == IF f.turned THEN f.at - Scaled(f, z) ELSE f.at + Scaled(f, z)
Local(x)      == [at |-> x.at, scale |-> x.scale, turned |-> x.turned]
Compose(f, g) == [at |-> Within(f, g.at), turned |-> (f.turned # g.turned),
                  scale |-> <<f.scale[1] * g.scale[1], f.scale[2] * g.scale[2]>>]
Hull(a, b)    == <<IF a[1] < b[1] THEN a[1] ELSE b[1], IF a[2] > b[2] THEN a[2] ELSE b[2]>>
Meet(a, b)    == <<IF a[1] > b[1] THEN a[1] ELSE b[1], IF a[2] < b[2] THEN a[2] ELSE b[2]>>
Map(f, e)     == IF f.turned THEN <<Within(f, e[2]), Within(f, e[1])>>
                 ELSE <<Within(f, e[1]), Within(f, e[2])>>

\* A swept solid: a revolution keeps the heights of its profile, a sweep along
\* a level path turns its profile over, an extrusion is centred on its depth.
SweptExtent(x, profile) ==
  CASE x.kind = "revolve" -> <<profile.low, profile.high>>
    [] x.kind = "sweep"   -> <<x.low - profile.high, x.high - profile.low>>
    [] OTHER              -> <<x.low, x.high>>

\* count copies of a source, each one step further.
ArrayExtent(x, e) == Hull(e, <<e[1] + (x.count - 1) * x.step, e[2] + (x.count - 1) * x.step>>)

ModifiedExtent(x, e) ==
  IF x.op = "mirror" THEN Hull(e, <<-e[2], -e[1]>>) ELSE <<e[1] - x.step, e[2] + x.step>>

BooleanExtent(op, left, right) ==
  CASE op = "difference" -> left
    [] op = "union"      -> Hull(left, right)
    [] OTHER             -> Meet(left, right)

\* The frame and the extent of a node, given those of the nodes it needs: the
\* operands of a boolean count where they stand, the source of a copy counts as
\* it was defined, and a profile is flat.
FrameOf(x, measure) ==
  IF x.parent = None THEN Local(x) ELSE Compose(measure[x.parent].frame, Local(x))

ExtentOf(p, x, measure) ==
  LET source(i)   == measure[x.uses[i]].extent
      standing(i) == Map(measure[x.uses[i]].frame, source(i)) IN
  CASE x.kind = "profile"  -> <<0, 0>>
    [] x.kind \in Swept    -> SweptExtent(x, Node(p, x.uses[1]))
    [] x.kind = "instance" -> source(1)
    [] x.kind = "array"    -> ArrayExtent(x, source(1))
    [] x.kind = "modifier" -> ModifiedExtent(x, source(1))
    [] x.kind = "boolean"  -> BooleanExtent(x.op, standing(1), standing(2))
    [] OTHER               -> <<x.low, x.high>>

Measures(p) ==
  LET measure[n \in Ids(p)] == [frame  |-> FrameOf(Node(p, n), measure),
                                extent |-> ExtentOf(p, Node(p, n), measure)]
  IN  measure

Frame(p, n)    == Measures(p)[n].frame
Extent(p, n)   == Measures(p)[n].extent
Standing(p, n) == Map(Frame(p, n), Extent(p, n))

\* The nodes whose extent is computed with that of n: not a cutter's.
Read(x) == IF x.kind = "boolean" /\ x.op = "difference" THEN {x.uses[1]} ELSE Uses(x)
Measured(p, n) == Reached([m \in Ids(p) |-> Read(Node(p, m))], n)

\* An intersection whose operands do not overlap: the measure raises.
Disjoint(p, n) ==
  LET x == Node(p, n) IN
  /\ x.kind = "boolean" /\ x.op = "intersection"
  /\ LET e == Extent(p, n) IN e[1] > e[2]

Measurable(p, ns) == \A n \in UNION {Measured(p, m) : m \in ns} : ~Disjoint(p, n)

Envelope(p) ==
  LET standing == {Standing(p, n) : n \in Visible(p)}
  IN  <<CHOOSE z \in {e[1] : e \in standing} : \A e \in standing : z <= e[1],
        CHOOSE z \in {e[2] : e \in standing} : \A e \in standing : z >= e[2]>>

Height(p) == Envelope(p)[2] - Envelope(p)[1]

---------------------------------------------------------------------------
(* The contract, in the order the validator checks it. *)
FieldsOK(p) ==
  /\ p.text
  /\ p.nodes # <<>>
  /\ \A i \in DOMAIN p.nodes :
       LET x == p.nodes[i] IN
       /\ x.gaps = 0
       /\ x.kind = "array" => x.count >= 2 /\ x.step # 0
       /\ x.kind = "boolean" => x.uses[1] # x.uses[2]

\* A catalogued file is alone in a program written by the compiler.
ExactIsolated(p) ==
  (\E i \in DOMAIN p.nodes : p.nodes[i].kind = "exact_asset") =>
     /\ p.exact
     /\ Len(p.nodes) = 1
     /\ p.quantity = 1
     /\ ~p.materials /\ p.anchors = <<>> /\ p.connectors = <<>>
     /\ p.groups = {} /\ p.construction = {}

UniqueIds(p) == Cardinality(Ids(p)) = Len(p.nodes)

ReferencesKnown(p) ==
  \A i \in DOMAIN p.nodes :
     LET x == p.nodes[i] IN
     /\ x.parent \in (Ids(p) \cup {None}) \ {x.id}
     /\ Uses(x) \subseteq Ids(p) \ {x.id}

SourcesFit(p) ==
  \A i \in DOMAIN p.nodes :
     LET x == p.nodes[i] IN
     /\ x.kind \in Swept =>
          /\ x.uses[1] \in Profiles(p)
          /\ x.kind # "revolve" => Node(p, x.uses[1]).closed
     /\ x.kind \in {"array", "modifier", "boolean"} =>
          \A n \in Uses(x) : MeshSource(p, n)

\* A profile is a definition: no transform, parent, material or role, never visible.
Untouched     == [at |-> 0, scale |-> <<1, 1>>, turned |-> FALSE]
Defining(x)   == ~x.clad /\ ~x.role /\ x.parent = None /\ Local(x) = Untouched
ProfilesBare(p) ==
  /\ Profiles(p) \subseteq p.construction
  /\ \A n \in Profiles(p) : Defining(Node(p, n))

LinksKnown(p) ==
  /\ p.construction \subseteq Ids(p)
  /\ IsInjective([i \in DOMAIN p.anchors |-> p.anchors[i].id])
  /\ \A i \in DOMAIN p.anchors : p.anchors[i].node \in Ids(p)
  /\ IsInjective([i \in DOMAIN p.connectors |-> p.connectors[i].id])
  /\ \A i \in DOMAIN p.connectors :
       \E j \in DOMAIN p.anchors : p.anchors[j].id = p.connectors[i].anchor
  /\ \A g \in p.groups : g \subseteq Ids(p)

RoleCarried(p) ==
  /\ Cardinality(Carriers(p)) = p.quantity
  /\ \A i \in Carriers(p) : p.nodes[i].id \notin p.construction

Detailed(p) == ~p.exact => Len(p.nodes) >= 3

\* Mutant: no node is taller than the limit, wherever the nodes stand.
WithinLimitEach(p) ==
  p.limit # None =>
     /\ Visible(p) # {}
     /\ Measurable(p, Visible(p))
     /\ \A n \in Visible(p) : Standing(p, n)[2] - Standing(p, n)[1] <= p.limit

WithinLimit(p) ==
  p.limit # None =>
     /\ Visible(p) # {}
     /\ Measurable(p, Visible(p))
     /\ Height(p) <= p.limit

Admitted(p) ==
  /\ FieldsOK(p)
  /\ ExactIsolated(p)
  /\ UniqueIds(p)
  /\ ReferencesKnown(p)
  /\ SourcesFit(p)
  /\ Acyclic(p)
  /\ ProfilesBare(p)
  /\ LinksKnown(p)
  /\ RoleCarried(p)
  /\ Detailed(p)
  /\ WithinLimit(p)

---------------------------------------------------------------------------
(* The adjustments.  Each one changes the reply and records that it did. *)
Noted(p, note) == [p EXCEPT !.notes = Append(@, note)]
Change(p, F(_)) == [p EXCEPT !.nodes = [i \in DOMAIN @ |-> F(@[i])]]
Unlimited(p)   == [p EXCEPT !.limit = None]

\* Disclosures are text: anything else is written out.
NormalizeDisclosures(p) == [p EXCEPT !.text = TRUE]

\* An ellipsis in a list of points is dropped when enough points remain.
Abridged(x) == x.kind \in {"curve", "profile", "sweep"} /\ x.gaps > 0 /\ x.enough

\* Mutant: the points dropped are not recorded.
NormalizePointsSilently(p) ==
  LET Close(x) == IF Abridged(x) THEN [x EXCEPT !.gaps = 0] ELSE x
  IN  IF \E i \in DOMAIN p.nodes : Abridged(p.nodes[i]) THEN Change(p, Close) ELSE p

NormalizePoints(p) ==
  IF (\E i \in DOMAIN p.nodes : Abridged(p.nodes[i])) /\ Len(p.notes) < MaxNotes
  THEN LET Close(x) == IF Abridged(x) THEN [x EXCEPT !.gaps = 0] ELSE x
       IN  Noted(Change(p, Close), "points")
  ELSE p

\* A profile loses what only its consumers may have, and becomes construction.
Misplaced(p) ==
  {i \in DOMAIN p.nodes :
     LET x == p.nodes[i] IN
     x.kind = "profile" /\ (~Defining(x) \/ x.id \notin p.construction)}

NormalizeProfiles(p) ==
  LET Bare(x) == IF x.kind = "profile"
                 THEN [x EXCEPT !.clad = FALSE, !.role = FALSE, !.parent = None, !.at = 0,
                                !.scale = <<1, 1>>, !.turned = FALSE]
                 ELSE x
      done == [Change(p, Bare) EXCEPT !.construction = @ \cup Profiles(p)]
  IN  IF Misplaced(p) # {} /\ Len(p.notes) < MaxNotes THEN Noted(done, "profiles") ELSE done

\* The measure of a ground-contact reply raises outside the guarded call.
GroundRaises(p) ==
  p.ground /\ Admitted(Unlimited(p)) /\ ~Measurable(p, Roots(p))

Sunk(p) == {n \in Roots(p) : Standing(p, n)[1] < 0}

\* Every visible root that dips below the ground is lifted by its own depth, measured before
\* any other is: what a boolean takes of a lifted operand moves with it.
NormalizeGround(p) ==
  IF p.ground /\ Admitted(Unlimited(p)) /\ Sunk(p) # {} /\ Len(p.notes) < MaxNotes
  THEN LET sunk    == Sunk(p)
           Lift(x) == IF x.id \in sunk
                      THEN [x EXCEPT !.at = @ - Standing(p, x.id)[1]] ELSE x
       IN  Noted(Change(p, Lift), "ground")
  ELSE p

Tidied(p) == NormalizeProfiles(NormalizePoints(NormalizeDisclosures(p)))

Total(p, ns) ==
  LET total[i \in 0 .. Len(p.nodes)] ==
        IF i = 0 THEN 0
        ELSE total[i - 1] + (IF p.nodes[i].id \in ns THEN p.nodes[i].at ELSE 0)
  IN  total[Len(p.nodes)]

Fits(p) ==
  /\ p.limit # None
  /\ Admitted(Unlimited(p))
  /\ Roots(p) # {}
  /\ Measurable(p, Visible(p))
  /\ Height(p) > p.limit

\* The last resort: the visible roots shrink about the mean of their origins.
FitToMaximum(p) ==
  LET roots  == Roots(p)
      pivot  == Total(p, roots) \div Cardinality(roots)
      actual == Height(p)
      Shrink(x) ==
        IF x.id \in roots
        THEN [x EXCEPT !.at = pivot + ((@ - pivot) * p.limit) \div actual,
                       !.scale = <<@[1] * p.limit, @[2] * actual>>]
        ELSE x
  IN  Noted(Change(p, Shrink), "fit")
================================================================================
