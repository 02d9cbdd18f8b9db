------------------------ MODULE SceneRevisionProofs ------------------------
(***************************************************************************)
(* Theorems of SceneRevision, for any sectors, any certified scenes an     *)
(* edit may begin from, any prompts, any operations a model proposes and   *)
(* any number of edits; and of BriefIntake, for any texts, answers, hints, *)
(* catalogues, facts and number of restarts.                               *)
(*                                                                         *)
(* SceneRevision. All that an edit does to the scene is Outcome, the patch *)
(* and the rebinding of the operations that were judged and of those they  *)
(* entail. The lemmas say what Outcome sets, what it leaves and that what  *)
(* passes the checks is certified again; the invariant says that an edit,  *)
(* at each of its steps, holds just that.                                  *)
(*                                                                         *)
(* BriefIntake. The lemmas say what the reading of a text keeps of it      *)
(* (WellRead), what the merge of an answer keeps of the reading            *)
(* (Faithful), what is left of the components asked for (Surviving), what  *)
(* a hint may change (Authorised) and what equipment is taken (Near). The  *)
(* invariant, BriefInv, says which of these a run has at each stage.       *)
(***************************************************************************)
EXTENDS SceneRevision, BriefIntake, FiniteSetTheorems, SequenceTheorems, WellFoundedInduction,
        TLAPS

-----------------------------------------------------------------------------
(* What an edit does to a scene.                                           *)

\* Operations of which no two set the same field; and what becomes of a scene.
Distinct(ops) == \A o, u \in ops : o # u => Path(o) # Path(u)

WithDerived(s, ops) == ops \cup Derived(s, ops)
Made(s, ops)        == Patched(s, WithDerived(s, ops))
Outcome(s, ops)     == Rebound(Made(s, ops))

\* A record with the fields of a scene, whatever they hold.
SceneFields == {"structure", "legs", "profile", "height", "count", "foundation", "levels",
                "ladder", "install", "azimuth", "cable", "radio", "antenna", "tower",
                "cabinet", "gps", "gpsAt", "gpsUsers"}
SceneRecord(s) == s = [f \in SceneFields |-> s[f]]

\* A scene is a record of its fields.
LEMMA SceneIsRecord == ASSUME NEW s \in SceneSet PROVE SceneRecord(s)
BY DEF SceneSet, SceneRecord, SceneFields

\* Such a record is a scene, when each field has its type.
LEMMA RecordIsScene ==
    ASSUME NEW s, SceneRecord(s),
           s.structure \in Structures, s.legs \in Nat, s.profile \in BOOLEAN, s.height \in Nat,
           s.count \in Nat, s.foundation \in {"concrete_pad", "rooftop_anchored", "pole_base"},
           s.levels \in SUBSET Nat, s.ladder \in 0 .. 1, s.install \in [Sectors -> Nat],
           s.azimuth \in [Sectors -> Degrees], s.cable \in [Sectors -> 0 .. 1],
           s.radio \in BOOLEAN, s.antenna \in {"panel", "dualband"},
           s.tower \in Structures, s.cabinet \in 0 .. 1, s.gps \in 0 .. 1,
           s.gpsAt \in Int, s.gpsUsers \in BOOLEAN
    PROVE  s \in SceneSet
BY DEF SceneSet, SceneRecord, SceneFields

\* What the planning gives, and the validation of the plan.
Planned(s, p, ops) ==
    ops \subseteq OperationSet /\ Distinct(ops) /\ \A o \in ops : Capable(s, p, o)
Judged(s, p, ops) ==
    /\ Planned(s, p, ops) /\ \A o \in ops : Aligned(s, p, o)
    /\ PlatformsResolve(s, ops)

\* What a single value set leaves.
LEMMA OnlyOne == \A v : Only({v}) = v
BY DEF Only

\* No two operations set a field: PatchApplier takes the value of the one that does.
LEMMA OneValue ==
    ASSUME NEW ops, Distinct(ops), NEW o \in ops, o.field \notin SectorFields
    PROVE  Values(ops, o.field) = {o.value}
BY DEF Values, Distinct, Path

\* The same of a field of a sector.
LEMMA OneSectorValue ==
    ASSUME NEW ops, Distinct(ops), NEW o \in ops, NEW f \in SectorFields, NEW x,
           o.field = f, o.at = x
    PROVE  Values({u \in ops : u.at = x}, f) = {o.value}
BY DEF Values, Distinct, Path

\* derive_dependent_operations adds heights of antennas, of a tower that is lowered below
\* them, and only where the edit sets none.
LEMMA DerivedFollow ==
    ASSUME NEW s, NEW ops, NEW o \in Derived(s, ops)
    PROVE  \E t \in ops :
             /\ t.field = "towerHeight" /\ t.value < s.height /\ o.at \in Sectors
             /\ o = Op("installHeight", o.at, Hung(s, t.value, o.at))
             /\ s.install[o.at] > Smaller(t.value, MaxInstall(t.value))
             /\ \A u \in ops : Path(u) # <<"installHeight", o.at>>
BY DEF Derived, Values, TooHigh, Op

\* It adds one wherever that is so.
LEMMA DerivedThere ==
    ASSUME NEW s, NEW ops, NEW t \in ops, NEW x \in Sectors,
           t.field = "towerHeight", t.value < s.height,
           s.install[x] > Smaller(t.value, MaxInstall(t.value)),
           \A u \in ops : Path(u) # <<"installHeight", x>>
    PROVE  Op("installHeight", x, Hung(s, t.value, x)) \in Derived(s, ops)
BY DEF Derived, Values, TooHigh, Op

\* What is derived sets nothing else.
LEMMA DerivedElsewhere ==
    ASSUME NEW s, NEW ops, NEW f, f # "installHeight"
    PROVE  Values(WithDerived(s, ops), f) = Values(ops, f)
<1>1. \A o \in Derived(s, ops) : o.field = "installHeight"
  BY DEF Derived, Op
<1>. QED
  BY <1>1 DEF Values, WithDerived

\* A field the edit sets has its value, any other its old one.
LEMMA SetOf ==
    ASSUME NEW s, NEW ops, Distinct(ops), NEW f, f \notin SectorFields, NEW d
    PROVE  /\ \A o \in ops : o.field = f => Set(s, ops, f, d) = o.value
           /\ (\A o \in ops : o.field # f) => Set(s, ops, f, d) = d
<1>1. \A o \in ops : o.field = f => Set(s, ops, f, d) = o.value
  BY OneValue, OnlyOne DEF Set
<1>. QED
  BY <1>1 DEF Set, Values

\* The same, sector by sector.
LEMMA SetSectorsOf ==
    ASSUME NEW ops, Distinct(ops), NEW f \in SectorFields, NEW v, NEW x \in Sectors
    PROVE  /\ \A o \in ops : o.field = f /\ o.at = x => SetSectors(ops, f, v)[x] = o.value
           /\ (\A o \in ops : ~(o.field = f /\ o.at = x)) => SetSectors(ops, f, v)[x] = v[x]
<1>1. SetSectors(ops, f, v)[x] = Set(x, {o \in ops : o.at = x}, f, v[x])
  BY DEF SetSectors
<1>2. \A o \in ops : o.field = f /\ o.at = x => SetSectors(ops, f, v)[x] = o.value
  <2>1. ASSUME NEW o \in ops, o.field = f, o.at = x
        PROVE  SetSectors(ops, f, v)[x] = o.value
    <3>1. Values({u \in ops : u.at = x}, f) = {o.value}
      BY <2>1, OneSectorValue
    <3>. QED
      BY <1>1, <3>1, OnlyOne DEF Set
  <2>. QED
    BY <2>1
<1>3. ASSUME \A o \in ops : ~(o.field = f /\ o.at = x)
      PROVE  SetSectors(ops, f, v)[x] = v[x]
  <2>1. Values({o \in ops : o.at = x}, f) = {}
    BY <1>3 DEF Values
  <2>. QED
    BY <1>1, <2>1 DEF Set
<1>. QED
  BY <1>2, <1>3

\* What is derived sets no field that the edit sets, and none twice.
LEMMA WithDerivedDistinct ==
    ASSUME NEW s, NEW ops, ops \subseteq OperationSet, Distinct(ops)
    PROVE  Distinct(WithDerived(s, ops))
<1>1. \A o \in Derived(s, ops) : Path(o) = <<"installHeight", o.at>>
  BY DEF Derived, Op, Path, SectorFields
<1>2. \A o \in Derived(s, ops), u \in ops : Path(o) # Path(u)
  BY <1>1, DerivedFollow
<1>3. ASSUME NEW o \in Derived(s, ops), NEW u \in Derived(s, ops), Path(o) = Path(u)
      PROVE  o = u
  <2>1. o.at = u.at
    BY <1>1, <1>3
  <2>2. PICK t \in ops : /\ t.field = "towerHeight"
                         /\ o = Op("installHeight", o.at, Hung(s, t.value, o.at))
    BY DerivedFollow
  <2>3. PICK w \in ops : /\ w.field = "towerHeight"
                         /\ u = Op("installHeight", u.at, Hung(s, w.value, u.at))
    BY DerivedFollow
  <2>4. t = w
    BY <2>2, <2>3 DEF Distinct, Path, SectorFields
  <2>. QED
    BY <2>1, <2>2, <2>3, <2>4
<1>. QED
  BY <1>2, <1>3 DEF Distinct, WithDerived

\* Every field of the scene an edit leaves, after _scene_with_revision_dependencies.
LEMMA OutcomeFields ==
    ASSUME NEW s \in SceneSet, NEW ops
    PROVE  LET t == Outcome(s, ops)
               n == PlatformTarget(s, ops)
           IN  /\ t.legs = s.legs /\ t.profile = s.profile /\ t.radio = s.radio
               /\ t.foundation = s.foundation
               /\ t.height = Set(s, ops, "towerHeight", s.height)
               /\ t.structure = IF \E o \in ops : o.field = "structure"
                                THEN (CHOOSE o \in ops : o.field = "structure").at
                                ELSE s.structure
               /\ t.count = n /\ t.levels = ResolvedLevels(s, n)
               /\ t.ladder = Set(s, ops, "ladder", s.ladder)
               /\ t.install = SetSectors(WithDerived(s, ops), "installHeight", s.install)
               /\ t.azimuth = SetSectors(ops, "azimuth", s.azimuth)
               /\ t.cable = SetSectors(ops, "cable", s.cable)
               /\ t.cabinet = Set(s, ops, "cabinet", s.cabinet)
               /\ t.gps = Set(s, ops, "gps", s.gps)
               /\ t.tower = t.structure
               /\ t.antenna = IF t.structure = "small_cell_pole" THEN "panel" ELSE s.antenna
               /\ t.gpsUsers = (t.gps = 1 /\ (s.gpsUsers \/ Values(ops, "gpsPosition") # {}))
               /\ t.gpsAt = IF t.gps = 0 THEN 0
                            ELSE IF s.gpsUsers \/ Values(ops, "gpsPosition") # {}
                            THEN Set(s, ops, "gpsPosition", s.gpsAt)
                            ELSE GpsPlace(t.height)
               /\ SceneRecord(t) /\ (ValidScene(Made(s, ops)) <=> ValidScene(t))
<1>. DEFINE all == WithDerived(s, ops)
           r == Made(s, ops)
           t == Outcome(s, ops)
<1>1. \A f : f # "installHeight" => Values(all, f) = Values(ops, f)
  BY DerivedElsewhere
<1>2. ASSUME NEW x, NEW f, f # "installHeight"
      PROVE  Values({o \in all : o.at = x}, f) = Values({o \in ops : o.at = x}, f)
  <2>1. \A o \in Derived(s, ops) : o.field = "installHeight"
    BY DEF Derived, Op
  <2>. QED
    BY <1>2, <2>1 DEF Values, WithDerived
<1>3. ASSUME NEW f, f # "installHeight", NEW d PROVE Set(s, all, f, d) = Set(s, ops, f, d)
  <2>1. Values(all, f) = Values(ops, f)
    BY <1>1, <1>3
  <2>. QED
    BY <2>1 DEF Set
<1>4. ASSUME NEW f, f # "installHeight", NEW v
      PROVE  SetSectors(all, f, v) = SetSectors(ops, f, v)
  <2>1. \A x : Values({o \in all : o.at = x}, f) = Values({o \in ops : o.at = x}, f)
    BY <1>2, <1>4
  <2>. QED
    BY <2>1 DEF SetSectors, Set
<1>5. PlatformTarget(s, all) = PlatformTarget(s, ops)
  BY <1>1 DEF PlatformTarget
<1>6. \A o \in Derived(s, ops) : o.field # "structure"
  BY DEF Derived, Op
<1>7. /\ (\E o \in all : o.field = "structure") = (\E o \in ops : o.field = "structure")
      /\ (CHOOSE o \in all : o.field = "structure") =
         (CHOOSE o \in ops : o.field = "structure")
  <2>1. \A o : (o \in all /\ o.field = "structure") = (o \in ops /\ o.field = "structure")
    BY <1>6 DEF WithDerived
  <2>. QED
    BY <2>1
<1>8. /\ SceneRecord(r)
      /\ r.legs = s.legs /\ r.profile = s.profile /\ r.radio = s.radio
      /\ r.foundation = s.foundation /\ r.tower = s.tower /\ r.antenna = s.antenna
      /\ r.height = Set(s, all, "towerHeight", s.height)
      /\ r.structure = IF \E o \in all : o.field = "structure"
                       THEN (CHOOSE o \in all : o.field = "structure").at
                       ELSE s.structure
      /\ r.count = PlatformTarget(s, all)
      /\ r.levels = ResolvedLevels(s, PlatformTarget(s, all))
      /\ r.ladder = Set(s, all, "ladder", s.ladder)
      /\ r.install = SetSectors(all, "installHeight", s.install)
      /\ r.azimuth = SetSectors(all, "azimuth", s.azimuth)
      /\ r.cable = SetSectors(all, "cable", s.cable)
      /\ r.cabinet = Set(s, all, "cabinet", s.cabinet)
      /\ r.gps = Set(s, all, "gps", s.gps)
      /\ r.gpsAt = Set(s, all, "gpsPosition", s.gpsAt)
      /\ r.gpsUsers = (s.gpsUsers \/ Values(all, "gpsPosition") # {})
  <2>2. DOMAIN s = SceneFields
    BY SceneIsRecord DEF SceneRecord
  <2>3. SceneRecord(r)
    BY SceneIsRecord, ZenonT(60) DEF Made, Patched, SceneRecord
  <2>4. /\ r.legs = s.legs /\ r.profile = s.profile /\ r.radio = s.radio
        /\ r.foundation = s.foundation /\ r.tower = s.tower /\ r.antenna = s.antenna
    BY <2>2 DEF Made, Patched, SceneFields
  <2>. QED
    BY <2>2, <2>3, <2>4 DEF Made, Patched, SceneFields
<1>. HIDE DEF r, t
<1>9. /\ r.height = Set(s, ops, "towerHeight", s.height)
      /\ r.structure = IF \E o \in ops : o.field = "structure"
                        THEN (CHOOSE o \in ops : o.field = "structure").at
                        ELSE s.structure
      /\ r.count = PlatformTarget(s, ops)
      /\ r.levels = ResolvedLevels(s, PlatformTarget(s, ops))
      /\ r.ladder = Set(s, ops, "ladder", s.ladder)
      /\ r.install = SetSectors(all, "installHeight", s.install)
      /\ r.azimuth = SetSectors(ops, "azimuth", s.azimuth)
      /\ r.cable = SetSectors(ops, "cable", s.cable)
      /\ r.cabinet = Set(s, ops, "cabinet", s.cabinet)
      /\ r.gps = Set(s, ops, "gps", s.gps)
      /\ r.gpsAt = Set(s, ops, "gpsPosition", s.gpsAt)
      /\ r.gpsUsers = (s.gpsUsers \/ Values(ops, "gpsPosition") # {})
  BY <1>1, <1>3, <1>4, <1>5, <1>7, <1>8, ZenonT(60)
<1>10. /\ SceneRecord(t)
       /\ t.legs = r.legs /\ t.profile = r.profile /\ t.radio = r.radio
       /\ t.foundation = r.foundation
       /\ t.height = r.height /\ t.structure = r.structure
       /\ t.count = r.count /\ t.levels = r.levels
       /\ t.ladder = r.ladder /\ t.install = r.install
       /\ t.azimuth = r.azimuth /\ t.cable = r.cable
       /\ t.cabinet = r.cabinet /\ t.gps = r.gps
       /\ t.tower = r.structure
       /\ t.antenna = IF r.structure = "small_cell_pole" THEN "panel" ELSE r.antenna
       /\ t.gpsUsers = (r.gps = 1 /\ r.gpsUsers)
       /\ t.gpsAt = GpsRebound(r)
  <2>1. DOMAIN r = SceneFields
    BY <1>8 DEF SceneRecord
  <2>2. t = Rebound(r)
    BY DEF t, r, Outcome
  <2>3. SceneRecord(t)
    BY <1>8, <2>2 DEF Rebound, SceneRecord
  <2>. QED
    BY <2>1, <2>2, <2>3 DEF Rebound, SceneFields
<1>11. t.gpsAt = IF t.gps = 0 THEN 0
                 ELSE IF s.gpsUsers \/ Values(ops, "gpsPosition") # {}
                 THEN Set(s, ops, "gpsPosition", s.gpsAt)
                 ELSE GpsPlace(t.height)
  BY <1>9, <1>10, Zenon DEF GpsRebound
<1>12. ValidScene(r) <=> ValidScene(t)
  BY <1>10 DEF ValidScene, ValidTower, ValidPlacement
<1>. QED
  BY <1>8, <1>9, <1>10, <1>11, <1>12, Zenon DEF t, r

\* parametric_tower_mount_envelope: the reach of a tower of three metres or more is not empty,
\* lies below its top, and begins lower on a lower tower.
LEMMA Reach ==
    ASSUME NEW h \in Nat, h >= 300
    PROVE  /\ MinInstall(h) \in Nat /\ MaxInstall(h) \in Nat
           /\ 300 <= MinInstall(h) /\ MinInstall(h) <= MaxInstall(h) /\ MaxInstall(h) <= h
           /\ \A k \in Nat : h <= k => MinInstall(h) <= MinInstall(k)
BY DEF MinInstall, MaxInstall, Larger

\* AdaptationCapabilityService bounds what an operation may set.
LEMMA Ranges ==
    ASSUME NEW s, NEW p, NEW ops, Planned(s, p, ops), NEW o \in ops
    PROVE  /\ o.value \in Int
           /\ o.field = "towerHeight" => 300 <= o.value
           /\ o.field = "installHeight" => 20 <= o.value
           /\ o.field = "azimuth" => o.value \in Degrees
           /\ o.field = "platformCount" => 0 <= o.value
BY DEF Planned, Capable, InRange, OperationSet

\* Where an antenna ends up: where the edit puts it, on what is left of a tower that was
\* lowered below it, or where it was.
PlacedIn(ops, t, x) ==
    \E o \in ops : o.field = "installHeight" /\ o.at = x /\ t.install[x] = o.value
LoweredIn(s, ops, t, x) ==
    \E o \in ops : /\ o.field = "towerHeight" /\ o.value < s.height
                 /\ s.install[x] > MaxInstall(o.value)
                 /\ t.install[x] = Hung(s, o.value, x)
LeftIn(s, ops, t, x) ==
    /\ t.install[x] = s.install[x]
    /\ \A o \in ops : o.field = "towerHeight" /\ o.value < s.height
                        => s.install[x] <= MaxInstall(o.value)
Unplaced(ops, x) == \A o \in ops : o.field # "installHeight" \/ o.at # x

\* One of the three holds of every antenna.
LEMMA InstallsFollow ==
    ASSUME NEW s \in SceneSet, NEW p, NEW ops, Judged(s, p, ops), NEW x \in Sectors
    PROVE  \/ PlacedIn(ops, Outcome(s, ops), x)
           \/ Unplaced(ops, x) /\ LoweredIn(s, ops, Outcome(s, ops), x)
           \/ Unplaced(ops, x) /\ LeftIn(s, ops, Outcome(s, ops), x)
<1>. DEFINE all == WithDerived(s, ops)
           t == Outcome(s, ops)
<1>1. Distinct(ops) /\ ops \subseteq OperationSet
  BY DEF Judged, Planned
<1>2. Distinct(all)
  BY <1>1, WithDerivedDistinct
<1>3. t.install[x] = SetSectors(all, "installHeight", s.install)[x]
  BY OutcomeFields
<1>4. "installHeight" \in SectorFields
  BY DEF SectorFields
<1>5. /\ \A o \in all : o.field = "installHeight" /\ o.at = x => t.install[x] = o.value
      /\ (\A o \in all : ~(o.field = "installHeight" /\ o.at = x)) =>
             t.install[x] = s.install[x]
  BY <1>2, <1>3, <1>4, SetSectorsOf
<1>6. \A o \in ops : o.field = "towerHeight" =>
          /\ o.value \in Nat /\ o.value >= 300
          /\ Smaller(o.value, MaxInstall(o.value)) = MaxInstall(o.value)
  <2>1. ASSUME NEW o \in ops, o.field = "towerHeight"
        PROVE  o.value \in Nat /\ o.value >= 300
    <3>1. o.value \in Int /\ 300 <= o.value
      BY <2>1, Ranges DEF Judged
    <3>. QED
      BY <3>1
  <2>2. ASSUME NEW h \in Nat, h >= 300 PROVE Smaller(h, MaxInstall(h)) = MaxInstall(h)
    BY <2>2, Reach DEF Smaller
  <2>. QED
    BY <2>1, <2>2
<1>. HIDE DEF t, all
<1>7. CASE \E o \in ops : o.field = "installHeight" /\ o.at = x
  BY <1>5, <1>7 DEF all, WithDerived, t, PlacedIn
<1>8. CASE \A o \in ops : o.field # "installHeight" \/ o.at # x
  <2>1. \A o \in ops : Path(o) # <<"installHeight", x>>
    BY <1>8 DEF Path, SectorFields
  <2>2. CASE \E o \in ops : /\ o.field = "towerHeight" /\ o.value < s.height
                           /\ s.install[x] > MaxInstall(o.value)
    <3>1. PICK o \in ops : /\ o.field = "towerHeight" /\ o.value < s.height
                           /\ s.install[x] > MaxInstall(o.value)
      BY <2>2
    <3>2. Op("installHeight", x, Hung(s, o.value, x)) \in Derived(s, ops)
      BY <2>1, <3>1, <1>6, DerivedThere
    <3>3. t.install[x] = Hung(s, o.value, x)
      BY <3>2, <1>5 DEF all, WithDerived, Op
    <3>. QED
      BY <3>1, <3>3, <1>8 DEF t, LoweredIn, Unplaced
  <2>3. CASE \A o \in ops : o.field = "towerHeight" /\ o.value < s.height
                               => ~(s.install[x] > MaxInstall(o.value))
    <3>1. \A o \in Derived(s, ops) : o.at # x
      BY <2>3, <1>6, DerivedFollow
    <3>2. t.install[x] = s.install[x]
      BY <3>1, <1>5, <1>8 DEF all, WithDerived
    <3>3. s.install[x] \in Nat
      BY DEF SceneSet
    <3>4. \A o \in ops : o.field = "towerHeight" /\ o.value < s.height
                               => s.install[x] <= MaxInstall(o.value)
      BY <2>3, <3>3, <1>6, Reach
    <3>. QED
      BY <3>2, <3>4, <1>8 DEF t, LeftIn, Unplaced
  <2>. QED
    BY <2>2, <2>3
<1>. QED
  BY <1>7, <1>8

\* An antenna that follows a lowered tower hangs within its reach.
LEMMA HungWithin ==
    ASSUME NEW s \in SceneSet, NEW h \in Nat, h >= 300, NEW x \in Sectors
    PROVE  Hung(s, h, x) \in MinInstall(h) .. MaxInstall(h)
<1>1. s.height \in Nat /\ s.install[x] \in Nat
  BY DEF SceneSet
<1>2. /\ MinInstall(h) \in Nat /\ MaxInstall(h) \in Nat
      /\ MinInstall(h) <= MaxInstall(h) /\ MaxInstall(h) <= h
  BY Reach
<1>. QED
  BY <1>1, <1>2 DEF Hung, Larger, Smaller

\* A field keeps its type.
LEMMA SetTyped ==
    ASSUME NEW s, NEW ops, Distinct(ops), NEW f, f \notin SectorFields, NEW S, NEW d \in S,
           \A o \in ops : o.field = f => o.value \in S
    PROVE  Set(s, ops, f, d) \in S
BY SetOf

\* So does a field of the sectors.
LEMMA SetSectorsTyped ==
    ASSUME NEW ops, Distinct(ops), NEW f \in SectorFields, NEW S, NEW v \in [Sectors -> S],
           \A o \in ops : o.field = f => o.value \in S
    PROVE  SetSectors(ops, f, v) \in [Sectors -> S]
<1>1. \A x \in Sectors : SetSectors(ops, f, v)[x] \in S
  BY SetSectorsOf
<1>. QED
  BY <1>1 DEF SetSectors

\* Each operation of a judged edit holds in the scene it leaves, after everything that was
\* derived and rebound.
LEMMA DoneByOutcome ==
    ASSUME NEW s \in SceneSet, NEW p, NEW ops, Judged(s, p, ops), NEW o \in ops
    PROVE  Holds(Outcome(s, ops), o)
<1>. DEFINE t == Outcome(s, ops)
            n == PlatformTarget(s, ops)
<1>1. /\ Distinct(ops) /\ ops \subseteq OperationSet /\ PlatformsResolve(s, ops)
      /\ o.field \in Fields
  BY DEF Judged, Planned, OperationSet
<1>2. /\ t.height = Set(s, ops, "towerHeight", s.height)
      /\ t.structure = IF \E u \in ops : u.field = "structure"
                       THEN (CHOOSE u \in ops : u.field = "structure").at
                       ELSE s.structure
      /\ t.count = n
      /\ t.ladder = Set(s, ops, "ladder", s.ladder)
      /\ t.azimuth = SetSectors(ops, "azimuth", s.azimuth)
      /\ t.cable = SetSectors(ops, "cable", s.cable)
      /\ t.cabinet = Set(s, ops, "cabinet", s.cabinet)
      /\ t.gps = Set(s, ops, "gps", s.gps)
      /\ t.gpsAt = IF t.gps = 0 THEN 0
                   ELSE IF s.gpsUsers \/ Values(ops, "gpsPosition") # {}
                   THEN Set(s, ops, "gpsPosition", s.gpsAt)
                   ELSE GpsPlace(t.height)
  BY OutcomeFields
<1>. HIDE DEF t
<1>3. \A u \in ops : Path(u) = Path(o) => u = o
  BY <1>1 DEF Distinct
<1>4. CASE o.field \in {"ladder", "cabinet", "gps", "towerHeight"}
  BY <1>1, <1>2, <1>4, SetOf DEF Holds, Current, SectorFields, t
<1>5. CASE o.field = "gpsPosition"
  <2>1. Values(ops, "gpsPosition") # {}
    BY <1>5 DEF Values
  <2>2. Set(s, ops, "gpsPosition", s.gpsAt) = o.value
    BY <1>1, <1>5, SetOf DEF SectorFields
  <2>. QED
    BY <1>2, <1>5, <2>1, <2>2 DEF Holds, t
<1>6. CASE o.field \in {"azimuth", "cable"}
  <2>1. o.at \in Sectors
    BY <1>1, <1>6 DEF OperationSet, SectorFields
  <2>2. SetSectors(ops, o.field, IF o.field = "azimuth" THEN s.azimuth ELSE s.cable)[o.at]
          = o.value
    BY <1>1, <1>6, <2>1, SetSectorsOf DEF SectorFields
  <2>. QED
    BY <1>2, <1>6, <2>2 DEF Holds, Current, t
<1>7. CASE o.field = "structure"
  <2>1. \A u \in ops : u.field = "structure" => u = o
    BY <1>3, <1>7 DEF Path, SectorFields
  <2>2. (CHOOSE u \in ops : u.field = "structure") = o
    BY <1>7, <2>1
  <2>. QED
    BY <1>2, <1>7, <2>2 DEF Holds, t
<1>8. CASE o.field = "platformCount"
  <2>1. Values(ops, "platformCount") = {o.value}
    BY <1>1, <1>8, OneValue DEF SectorFields
  <2>2. n = o.value
    BY <2>1, OnlyOne DEF PlatformTarget
  <2>. QED
    BY <1>2, <1>8, <2>2 DEF Holds, Current, t
<1>9. CASE o.field = "platform"
  <2>1. o.value \in Values(ops, "platform")
    BY <1>9 DEF Values
  <2>2. (o.value = 1) <=> n > 0
    BY <1>1, <2>1 DEF PlatformsResolve
  <2>. QED
    BY <1>2, <1>9, <2>2 DEF Holds, t
<1>10. CASE o.field = "installHeight"
  <2>1. o.at \in Sectors
    BY <1>1, <1>10 DEF OperationSet, SectorFields
  <2>2. PICK u \in ops : u.field = "installHeight" /\ u.at = o.at /\ t.install[o.at] = u.value
    <3>1. ~Unplaced(ops, o.at)
      BY <1>10 DEF Unplaced
    <3>2. PlacedIn(ops, Outcome(s, ops), o.at)
      BY <2>1, <3>1, InstallsFollow
    <3>. QED
      BY <3>2 DEF PlacedIn, t
  <2>3. u = o
    BY <1>3, <1>10, <2>2 DEF Path
  <2>. QED
    BY <1>10, <2>2, <2>3 DEF Holds, Current, t
<1>. QED
  BY <1>1, <1>4, <1>5, <1>6, <1>7, <1>8, <1>9, <1>10
     DEF Fields, Switches, Lengths, SectorFields

\* resolve_platform_edit aims at a number of platforms.
LEMMA TargetCounts ==
    ASSUME NEW s \in SceneSet, NEW p, NEW ops, Judged(s, p, ops)
    PROVE  PlatformTarget(s, ops) \in Nat
<1>1. s.count \in Nat /\ Distinct(ops)
  BY DEF SceneSet, Judged, Planned
<1>2. CASE Values(ops, "platformCount") # {}
  <2>1. PICK o \in ops : o.field = "platformCount"
    BY <1>2 DEF Values
  <2>2. Values(ops, "platformCount") = {o.value}
    BY <1>1, <2>1, OneValue DEF SectorFields
  <2>3. o.value \in Nat
    BY <2>1, Ranges DEF Judged
  <2>. QED
    BY <1>2, <2>2, <2>3, OnlyOne DEF PlatformTarget
<1>3. CASE Values(ops, "platformCount") = {}
  BY <1>1, <1>3 DEF PlatformTarget, Larger
<1>. QED
  BY <1>2, <1>3

\* A quotient of naturals is one.
LEMMA Quotient == ASSUME NEW a \in Nat, NEW b \in Nat, b > 0 PROVE a \div b \in Nat
OBVIOUS

\* A product of naturals is one.
LEMMA Product == ASSUME NEW a \in Nat, NEW b \in Nat PROVE a * b \in Nat
OBVIOUS

\* The levels of an access profile are heights.
LEMMA ProfileLevelsAreHeights ==
    ASSUME NEW h \in Nat, NEW n \in Nat
    PROVE  ProfileLevels(h, n) \subseteq Nat
<1>1. ASSUME NEW i \in 0 .. n - 1
      PROVE  (h * (55 * n + 35 * i)) \div (100 * n) \in Nat
  <2>1. 55 * n + 35 * i \in Nat /\ 100 * n \in Nat /\ 100 * n > 0
    OBVIOUS
  <2>2. h * (55 * n + 35 * i) \in Nat
    BY <2>1, Product
  <2>. QED
    BY <2>1, <2>2, Quotient
<1>. QED
  BY <1>1 DEF ProfileLevels

\* So are those the resolution leaves.
LEMMA LevelsAreHeights ==
    ASSUME NEW s \in SceneSet, NEW n \in Nat
    PROVE  ResolvedLevels(s, n) \subseteq Nat
<1>1. s.levels \subseteq Nat /\ s.height \in Nat
  BY DEF SceneSet
<1>2. ProfileLevels(s.height, n) \subseteq Nat
  BY <1>1, ProfileLevelsAreHeights
<1>3. \A k, S : Highest(k, S) \subseteq S /\ Lowest(k, S) \subseteq S
  BY DEF Highest, Lowest
<1>4. Highest(n, s.levels) \subseteq Nat
  BY <1>1, <1>3
<1>5. Lowest(n - Cardinality(s.levels), ProfileLevels(s.height, n) \ s.levels) \subseteq Nat
  BY <1>2, <1>3
<1>. QED
  BY <1>1, <1>4, <1>5, Zenon DEF ResolvedLevels

\* _validate_patch_alignment: a switch is set on or off, a field is one the prompt names, in a
\* sector it names.
LEMMA SwitchValues ==
    ASSUME NEW s, NEW p, NEW ops, Judged(s, p, ops), NEW o \in ops
    PROVE  /\ o.field \in Switches => o.value \in 0 .. 1
           /\ o.field \in p.names
           /\ o.field \in SectorFields /\ p.sectors # {} => o.at \in p.sectors
BY DEF Judged, Aligned

\* What a judged edit leaves has the type of a scene, whether it then passes the checks or not.
LEMMA OutcomeIsScene ==
    ASSUME NEW s \in SceneSet, NEW p, NEW ops, Judged(s, p, ops)
    PROVE  Outcome(s, ops) \in SceneSet
<1>. DEFINE t == Outcome(s, ops)
            n == PlatformTarget(s, ops)
<1>1. /\ Distinct(ops) /\ ops \subseteq OperationSet
      /\ \A o \in ops : o.value \in Int
  BY DEF Judged, Planned, OperationSet
<1>2. /\ t.legs = s.legs /\ t.profile = s.profile /\ t.radio = s.radio
      /\ t.foundation = s.foundation
      /\ t.height = Set(s, ops, "towerHeight", s.height)
      /\ t.structure = IF \E u \in ops : u.field = "structure"
                       THEN (CHOOSE u \in ops : u.field = "structure").at
                       ELSE s.structure
      /\ t.count = n /\ t.levels = ResolvedLevels(s, n)
      /\ t.ladder = Set(s, ops, "ladder", s.ladder)
      /\ t.install = SetSectors(WithDerived(s, ops), "installHeight", s.install)
      /\ t.azimuth = SetSectors(ops, "azimuth", s.azimuth)
      /\ t.cable = SetSectors(ops, "cable", s.cable)
      /\ t.cabinet = Set(s, ops, "cabinet", s.cabinet)
      /\ t.gps = Set(s, ops, "gps", s.gps)
      /\ t.tower = t.structure
      /\ t.antenna = IF t.structure = "small_cell_pole" THEN "panel" ELSE s.antenna
      /\ t.gpsUsers = (t.gps = 1 /\ (s.gpsUsers \/ Values(ops, "gpsPosition") # {}))
      /\ t.gpsAt = IF t.gps = 0 THEN 0
                   ELSE IF s.gpsUsers \/ Values(ops, "gpsPosition") # {}
                   THEN Set(s, ops, "gpsPosition", s.gpsAt)
                   ELSE GpsPlace(t.height)
      /\ SceneRecord(t)
  BY OutcomeFields
<1>. HIDE DEF t
<1>3. /\ s.structure \in Structures /\ s.legs \in Nat /\ s.profile \in BOOLEAN
      /\ s.height \in Nat /\ s.foundation \in {"concrete_pad", "rooftop_anchored", "pole_base"}
      /\ s.ladder \in 0 .. 1 /\ s.install \in [Sectors -> Nat]
      /\ s.azimuth \in [Sectors -> Degrees] /\ s.cable \in [Sectors -> 0 .. 1]
      /\ s.radio \in BOOLEAN /\ s.antenna \in {"panel", "dualband"}
      /\ s.cabinet \in 0 .. 1 /\ s.gps \in 0 .. 1 /\ s.gpsAt \in Int
  BY DEF SceneSet
<1>4. t.height \in Nat
  <2>1. \A o \in ops : o.field = "towerHeight" => o.value \in Nat
    BY Ranges DEF Judged
  <2>2. Set(s, ops, "towerHeight", s.height) \in Nat
    BY <1>1, <1>3, <2>1, SetTyped DEF SectorFields
  <2>. QED
    BY <1>2, <2>2
<1>5. t.structure \in Structures
  <2>1. \A o \in ops : o.field = "structure" => o.at \in Structures
    BY <1>1 DEF OperationSet
  <2>. QED
    BY <1>2, <1>3, <2>1
<1>6. t.count \in Nat /\ t.levels \in SUBSET Nat
  BY <1>2, TargetCounts, LevelsAreHeights
<1>7. /\ t.ladder \in 0 .. 1 /\ t.cabinet \in 0 .. 1 /\ t.gps \in 0 .. 1
      /\ t.cable \in [Sectors -> 0 .. 1]
  <2>1. /\ \A o \in ops : o.field = "ladder" => o.value \in 0 .. 1
        /\ \A o \in ops : o.field = "cabinet" => o.value \in 0 .. 1
        /\ \A o \in ops : o.field = "gps" => o.value \in 0 .. 1
        /\ \A o \in ops : o.field = "cable" => o.value \in 0 .. 1
    BY SwitchValues DEF Switches
  <2>2. Set(s, ops, "ladder", s.ladder) \in 0 .. 1
    BY <1>1, <1>3, <2>1, SetTyped DEF SectorFields
  <2>3. Set(s, ops, "cabinet", s.cabinet) \in 0 .. 1
    BY <1>1, <1>3, <2>1, SetTyped DEF SectorFields
  <2>4. Set(s, ops, "gps", s.gps) \in 0 .. 1
    BY <1>1, <1>3, <2>1, SetTyped DEF SectorFields
  <2>5. SetSectors(ops, "cable", s.cable) \in [Sectors -> 0 .. 1]
    BY <1>1, <1>3, <2>1, SetSectorsTyped DEF SectorFields
  <2>. QED
    BY <1>2, <2>2, <2>3, <2>4, <2>5
<1>8. t.azimuth \in [Sectors -> Degrees]
  <2>1. \A o \in ops : o.field = "azimuth" => o.value \in Degrees
    BY Ranges DEF Judged
  <2>. QED
    BY <1>1, <1>2, <1>3, <2>1, SetSectorsTyped DEF SectorFields
<1>9. t.install \in [Sectors -> Nat]
  <2>1. ASSUME NEW x \in Sectors PROVE t.install[x] \in Nat
    <3>1. CASE PlacedIn(ops, t, x)
      <4>1. PICK o \in ops : o.field = "installHeight" /\ t.install[x] = o.value
        BY <3>1 DEF PlacedIn
      <4>2. o.value \in Nat
        BY <4>1, Ranges DEF Judged
      <4>. QED
        BY <4>1, <4>2
    <3>2. CASE LoweredIn(s, ops, t, x)
      <4>1. PICK o \in ops : o.field = "towerHeight" /\ t.install[x] = Hung(s, o.value, x)
        BY <3>2 DEF LoweredIn
      <4>2. o.value \in Nat /\ 300 <= o.value
        BY <4>1, Ranges DEF Judged
      <4>3. Hung(s, o.value, x) \in MinInstall(o.value) .. MaxInstall(o.value)
        BY <4>2, HungWithin
      <4>. QED
        BY <4>1, <4>2, <4>3, Reach
    <3>3. CASE LeftIn(s, ops, t, x)
      BY <1>3, <3>3 DEF LeftIn
    <3>. QED
      BY <3>1, <3>2, <3>3, InstallsFollow DEF t
  <2>. QED
    BY <1>2, <2>1 DEF SetSectors
<1>10. t.gpsAt \in Int
  <2>1. Set(s, ops, "gpsPosition", s.gpsAt) \in Int
    BY <1>1, <1>3, SetTyped DEF SectorFields
  <2>2. GpsPlace(t.height) \in Int
    BY <1>4 DEF GpsPlace, Larger
  <2>. QED
    BY <1>2, <2>1, <2>2
<1>11. /\ t.antenna \in {"panel", "dualband"} /\ t.gpsUsers \in BOOLEAN
       /\ t.tower \in Structures
  BY <1>2, <1>3, <1>5
<1>12. t \in SceneSet
  <2>1. /\ t.legs \in Nat /\ t.profile \in BOOLEAN /\ t.radio \in BOOLEAN
        /\ t.foundation \in {"concrete_pad", "rooftop_anchored", "pole_base"}
        /\ SceneRecord(t)
    BY <1>2, <1>3
  <2>. QED
    BY <1>4, <1>5, <1>6, <1>7, <1>8, <1>9, <1>10, <1>11, <2>1, RecordIsScene
<1>. QED
  BY <1>12 DEF t

\* What an edit may change (OnlyAskedChanges, PositionsAreKept, PlatformsKept), of one edit.
AskedOnly(s, p, t) ==
    LET asked(f) == f \in p.names
        there(x) == p.sectors # {} => x \in p.sectors
    IN  /\ t.height # s.height => asked("towerHeight")
        /\ t.structure # s.structure => asked("structure")
        /\ t.levels # s.levels => asked("platform") \/ asked("platformCount")
        /\ t.ladder # s.ladder => asked("ladder")
        /\ t.cabinet # s.cabinet => asked("cabinet")
        /\ t.gps # s.gps => asked("gps")
        /\ t.antenna # s.antenna => asked("structure")
        /\ t.gpsAt # s.gpsAt => asked("gps") \/ asked("gpsPosition") \/ t.height # s.height
        /\ \A x \in Sectors :
             /\ t.azimuth[x] # s.azimuth[x] => asked("azimuth") /\ there(x)
             /\ t.cable[x] # s.cable[x] => asked("cable") /\ there(x)
             /\ t.install[x] # s.install[x] =>
                  \/ asked("installHeight") /\ there(x)
                  \/ t.height < s.height /\ s.install[x] > MaxInstall(t.height)
PositionKept(s, ops, t) ==
    s.gpsUsers /\ t.gps = 1 /\ (\A o \in ops : o.field # "gpsPosition")
      => t.gpsUsers /\ t.gpsAt = s.gpsAt
LevelsKept(s, t) ==
    s.levels \subseteq t.levels \/ t.levels = Highest(Cardinality(t.levels), s.levels)

\* An edit changes what its prompt names, and what that entails (OnlyAskedChanges).
LEMMA OutcomeIsAsked ==
    ASSUME NEW s, Certified(s), NEW p, NEW ops, Judged(s, p, ops)
    PROVE  AskedOnly(s, p, Outcome(s, ops))
<1>. DEFINE t == Outcome(s, ops)
            n == PlatformTarget(s, ops)
<1>1. s \in SceneSet /\ Suited(s) /\ (s.gps = 0 => s.gpsAt = 0)
  BY DEF Certified
<1>2. Distinct(ops)
  BY DEF Judged, Planned
<1>3. /\ t.height = Set(s, ops, "towerHeight", s.height)
      /\ t.structure = IF \E u \in ops : u.field = "structure"
                       THEN (CHOOSE u \in ops : u.field = "structure").at
                       ELSE s.structure
      /\ t.levels = ResolvedLevels(s, n)
      /\ t.ladder = Set(s, ops, "ladder", s.ladder)
      /\ t.azimuth = SetSectors(ops, "azimuth", s.azimuth)
      /\ t.cable = SetSectors(ops, "cable", s.cable)
      /\ t.cabinet = Set(s, ops, "cabinet", s.cabinet)
      /\ t.gps = Set(s, ops, "gps", s.gps)
      /\ t.antenna = IF t.structure = "small_cell_pole" THEN "panel" ELSE s.antenna
      /\ t.gpsAt = IF t.gps = 0 THEN 0
                   ELSE IF s.gpsUsers \/ Values(ops, "gpsPosition") # {}
                   THEN Set(s, ops, "gpsPosition", s.gpsAt)
                   ELSE GpsPlace(t.height)
  BY <1>1, OutcomeFields
<1>. HIDE DEF t
<1>4. \A o \in ops : /\ o.field \in p.names
                     /\ o.field \in SectorFields /\ p.sectors # {} => o.at \in p.sectors
  BY SwitchValues
<1>5. /\ t.height # s.height => "towerHeight" \in p.names
      /\ t.ladder # s.ladder => "ladder" \in p.names
      /\ t.cabinet # s.cabinet => "cabinet" \in p.names
      /\ t.gps # s.gps => "gps" \in p.names
  BY <1>2, <1>3, <1>4, SetOf DEF SectorFields
<1>6. t.structure # s.structure => "structure" \in p.names
  BY <1>3, <1>4
<1>7. t.antenna # s.antenna => "structure" \in p.names
  BY <1>1, <1>3, <1>6 DEF Suited
<1>8. t.levels # s.levels => "platform" \in p.names \/ "platformCount" \in p.names
  <2>1. SUFFICES ASSUME "platform" \notin p.names, "platformCount" \notin p.names
                 PROVE  t.levels = s.levels
    OBVIOUS
  <2>2. Values(ops, "platform") = {} /\ Values(ops, "platformCount") = {}
    BY <1>4, <2>1 DEF Values
  <2>3. n = s.count
    BY <2>2 DEF PlatformTarget
  <2>. QED
    BY <1>3, <2>3 DEF ResolvedLevels
<1>9. t.gpsAt # s.gpsAt =>
        "gps" \in p.names \/ "gpsPosition" \in p.names \/ t.height # s.height
  <2>1. SUFFICES ASSUME "gps" \notin p.names, "gpsPosition" \notin p.names,
                        t.height = s.height
                 PROVE  t.gpsAt = s.gpsAt
    OBVIOUS
  <2>2. t.gps = s.gps
    BY <1>5, <2>1
  <2>3. Values(ops, "gpsPosition") = {} /\ Set(s, ops, "gpsPosition", s.gpsAt) = s.gpsAt
    BY <1>4, <2>1 DEF Values, Set
  <2>4. s.gps \in {0, 1}
    BY <1>1 DEF SceneSet
  <2>. QED
    BY <1>1, <1>3, <2>1, <2>2, <2>3, <2>4 DEF Suited
<1>10. ASSUME NEW x \in Sectors
       PROVE  LET there == p.sectors # {} => x \in p.sectors
              IN  /\ t.azimuth[x] # s.azimuth[x] => "azimuth" \in p.names /\ there
                  /\ t.cable[x] # s.cable[x] => "cable" \in p.names /\ there
  <2>1. ASSUME NEW f \in SectorFields, NEW v, SetSectors(ops, f, v)[x] # v[x]
        PROVE  f \in p.names /\ (p.sectors # {} => x \in p.sectors)
    <3>1. PICK o \in ops : o.field = f /\ o.at = x
      BY <1>2, <2>1, SetSectorsOf
    <3>. QED
      BY <1>4, <3>1
  <2>. QED
    BY <1>3, <2>1 DEF SectorFields
<1>11. ASSUME NEW x \in Sectors, t.install[x] # s.install[x]
       PROVE  \/ "installHeight" \in p.names /\ (p.sectors # {} => x \in p.sectors)
              \/ t.height < s.height /\ s.install[x] > MaxInstall(t.height)
  <2>1. CASE PlacedIn(ops, t, x)
    BY <1>4, <2>1 DEF PlacedIn, SectorFields
  <2>2. CASE LoweredIn(s, ops, t, x)
    <3>1. PICK o \in ops : /\ o.field = "towerHeight" /\ o.value < s.height
                           /\ s.install[x] > MaxInstall(o.value)
      BY <2>2 DEF LoweredIn
    <3>2. t.height = o.value
      BY <1>2, <1>3, <3>1, SetOf DEF SectorFields
    <3>. QED
      BY <3>1, <3>2
  <2>3. ~LeftIn(s, ops, t, x)
    BY <1>11 DEF LeftIn
  <2>. QED
    BY <1>1, <2>1, <2>2, <2>3, InstallsFollow DEF t
<1>12. AskedOnly(s, p, t)
  BY <1>5, <1>6, <1>7, <1>8, <1>9, <1>10, <1>11, Zenon DEF AskedOnly
<1>. QED
  BY <1>12 DEF t

\* The place a user gave the receiver is kept (PositionsAreKept).
LEMMA OutcomeKeepsPosition ==
    ASSUME NEW s \in SceneSet, NEW p, NEW ops, Judged(s, p, ops)
    PROVE  PositionKept(s, ops, Outcome(s, ops))
<1>. DEFINE t == Outcome(s, ops)
<1>1. /\ t.gpsUsers = (t.gps = 1 /\ (s.gpsUsers \/ Values(ops, "gpsPosition") # {}))
      /\ t.gpsAt = IF t.gps = 0 THEN 0
                   ELSE IF s.gpsUsers \/ Values(ops, "gpsPosition") # {}
                   THEN Set(s, ops, "gpsPosition", s.gpsAt)
                   ELSE GpsPlace(t.height)
  BY OutcomeFields
<1>2. (\A o \in ops : o.field # "gpsPosition") =>
        Set(s, ops, "gpsPosition", s.gpsAt) = s.gpsAt
  BY SetOf DEF Judged, Planned, SectorFields
<1>. HIDE DEF t
<1>3. t.gps = 1 => t.gps # 0
  OBVIOUS
<1>4. PositionKept(s, ops, t)
  BY <1>1, <1>2, <1>3, Zenon DEF PositionKept
<1>. QED
  BY <1>4 DEF t

\* Platforms that stay, stay where they are (PlatformsKept).
LEMMA OutcomeKeepsLevels ==
    ASSUME NEW s, Certified(s), NEW p, NEW ops, Judged(s, p, ops),
           ValidScene(Outcome(s, ops))
    PROVE  LevelsKept(s, Outcome(s, ops))
<1>. DEFINE t == Outcome(s, ops)
            n == PlatformTarget(s, ops)
<1>1. /\ s \in SceneSet /\ s.count \in Nat /\ s.height \in Nat
      /\ s.levels \in SUBSET Nat /\ (\A l \in s.levels : l < s.height)
      /\ s.levels # {} => Cardinality(s.levels) = s.count
  BY DEF Certified, SceneSet, ValidScene, ValidTower, ValidPlacement
<1>2. IsFiniteSet(s.levels) /\ Cardinality(s.levels) \in Nat
  <2>1. \A l \in s.levels : l <= s.height
    BY <1>1
  <2>2. IsFiniteSet(s.levels)
    BY <1>1, <2>1, FS_BoundedSetOfNaturals
  <2>. QED
    BY <2>2, FS_CardinalityType
<1>3. /\ t.levels = ResolvedLevels(s, n) /\ t.count = n /\ n \in Nat
      /\ t.levels # {} => Cardinality(t.levels) = n
  BY <1>1, OutcomeFields, TargetCounts DEF ValidScene, ValidTower
<1>. HIDE DEF t, n
<1>4. ~s.profile /\ s.levels # {} => n <= s.count
  BY DEF Judged, PlatformsResolve, n
<1>5. CASE n = s.count
  BY <1>3, <1>5 DEF ResolvedLevels, LevelsKept, t
<1>6. CASE n # s.count /\ n < Cardinality(s.levels)
  <2>1. t.levels = Highest(n, s.levels)
    BY <1>3, <1>6 DEF ResolvedLevels
  <2>2. CASE t.levels # {}
    BY <1>3, <2>1, <2>2 DEF LevelsKept, t
  <2>3. CASE t.levels = {}
    <3>1. Cardinality(t.levels) = 0
      BY <2>3, FS_EmptySet
    <3>2. ASSUME NEW x \in s.levels PROVE ~(Cardinality({y \in s.levels : y > x}) < 0)
      <4>1. {y \in s.levels : y > x} \in SUBSET s.levels
        OBVIOUS
      <4>2. IsFiniteSet({y \in s.levels : y > x})
        BY <1>2, <4>1, FS_Subset
      <4>3. Cardinality({y \in s.levels : y > x}) \in Nat
        BY <4>2, FS_CardinalityType
      <4>. QED
        BY <4>3
    <3>3. Highest(0, s.levels) = {}
      BY <3>2 DEF Highest
    <3>. QED
      BY <2>3, <3>1, <3>3 DEF LevelsKept, t
  <2>. QED
    BY <2>2, <2>3
<1>7. CASE n # s.count /\ ~(n < Cardinality(s.levels)) /\ s.profile
  <2>1. s.levels \subseteq t.levels
    BY <1>3, <1>7 DEF ResolvedLevels
  <2>. QED
    BY <2>1 DEF LevelsKept, t
<1>8. CASE n # s.count /\ ~(n < Cardinality(s.levels)) /\ ~s.profile
  <2>1. s.levels = {}
    BY <1>1, <1>2, <1>3, <1>4, <1>8
  <2>. QED
    BY <2>1 DEF LevelsKept
<1>. QED
  BY <1>5, <1>6, <1>7, <1>8

\* What passed the checks is a certified scene again: with _rebind_revision_accessory, the
\* equipment belongs on the tower.
LEMMA OutcomeIsCertified ==
    ASSUME NEW s, Certified(s), NEW p, NEW ops, Judged(s, p, ops),
           ValidScene(Outcome(s, ops)), FoundationSuits(Outcome(s, ops)),
           ~SectorsOverlap(Outcome(s, ops)), Mounted(Outcome(s, ops))
    PROVE  Certified(Outcome(s, ops))
<1>. DEFINE t == Outcome(s, ops)
<1>1. s \in SceneSet
  BY DEF Certified
<1>2. t \in SceneSet
  BY <1>1, OutcomeIsScene
<1>3. /\ t.tower = t.structure
      /\ t.antenna = IF t.structure = "small_cell_pole" THEN "panel" ELSE s.antenna
      /\ t.gpsUsers = (t.gps = 1 /\ (s.gpsUsers \/ Values(ops, "gpsPosition") # {}))
      /\ t.gpsAt = IF t.gps = 0 THEN 0
                   ELSE IF s.gpsUsers \/ Values(ops, "gpsPosition") # {}
                   THEN Set(s, ops, "gpsPosition", s.gpsAt)
                   ELSE GpsPlace(t.height)
  BY <1>1, OutcomeFields
<1>. HIDE DEF t
<1>4. (t.gps = 1 => t.gps # 0) /\ (t.gps = 0 => t.gps # 1)
  OBVIOUS
<1>5. t.gps = 1 /\ ~t.gpsUsers => t.gpsAt = GpsPlace(t.height)
  BY <1>3, <1>4, Zenon
<1>6. Suited(t)
  BY <1>3, <1>5 DEF Suited, t
<1>7. t.gps = 0 => t.gpsAt = 0 /\ ~t.gpsUsers
  BY <1>3, <1>4, Zenon
<1>. QED
  BY <1>2, <1>6, <1>7 DEF Certified, t

\* A lowered tower: the edit of which LoweringIsAccepted speaks.
LEMMA LoweredIsMounted ==
    ASSUME NEW s, Certified(s), NEW p, NEW ops, Judged(s, p, ops),
           NEW o \in ops, \A u \in ops : u = o,
           o.field = "towerHeight", o.value < s.height
    PROVE  LET t == Outcome(s, ops)
           IN  /\ t.height = o.value /\ o.value \in Nat
               /\ t.structure = s.structure /\ t.legs = s.legs /\ t.profile = s.profile
               /\ t.foundation = s.foundation /\ t.count = s.count /\ t.levels = s.levels
               /\ t.ladder = s.ladder
               /\ \A x \in Sectors : t.azimuth[x] = s.azimuth[x]
               /\ Mounted(t)
<1>. DEFINE t == Outcome(s, ops)
            n == PlatformTarget(s, ops)
<1>1. s \in SceneSet /\ Mounted(s) /\ Distinct(ops) /\ s.height \in Nat
  BY DEF Certified, Suited, Judged, Planned, SceneSet
<1>2. o.value \in Nat /\ 300 <= o.value
  BY Ranges DEF Judged
<1>3. /\ t.legs = s.legs /\ t.profile = s.profile /\ t.foundation = s.foundation
      /\ t.height = Set(s, ops, "towerHeight", s.height)
      /\ t.structure = IF \E u \in ops : u.field = "structure"
                       THEN (CHOOSE u \in ops : u.field = "structure").at
                       ELSE s.structure
      /\ t.count = n /\ t.levels = ResolvedLevels(s, n)
      /\ t.ladder = Set(s, ops, "ladder", s.ladder)
      /\ t.azimuth = SetSectors(ops, "azimuth", s.azimuth)
  BY <1>1, OutcomeFields
<1>. HIDE DEF t
<1>4. t.height = o.value /\ t.ladder = s.ladder /\ t.structure = s.structure
  BY <1>1, <1>3, SetOf DEF SectorFields
<1>5. n = s.count
  <2>1. Values(ops, "platform") = {} /\ Values(ops, "platformCount") = {}
    BY DEF Values
  <2>. QED
    BY <2>1 DEF PlatformTarget
<1>6. t.count = s.count /\ t.levels = s.levels
  BY <1>3, <1>5 DEF ResolvedLevels
<1>7. \A x \in Sectors : t.azimuth[x] = s.azimuth[x]
  BY <1>1, <1>3, SetSectorsOf DEF SectorFields
<1>8. ASSUME NEW x \in Sectors
      PROVE  t.install[x] \in MinInstall(t.height) .. MaxInstall(t.height)
  <2>1. /\ MinInstall(o.value) \in Nat /\ MaxInstall(o.value) \in Nat
        /\ MinInstall(o.value) <= MinInstall(s.height)
    BY <1>1, <1>2, Reach
  <2>2. /\ s.install[x] \in Nat /\ MinInstall(s.height) <= s.install[x]
        /\ MinInstall(s.height) \in Nat
    <3>1. s.height >= 300
      BY <1>1, <1>2
    <3>2. MinInstall(s.height) \in Nat /\ MaxInstall(s.height) \in Nat
      BY <1>1, <3>1, Reach
    <3>. QED
      BY <1>1, <3>2 DEF Mounted, SceneSet
  <2>3. Unplaced(ops, x) /\ ~PlacedIn(ops, t, x)
    BY DEF Unplaced, PlacedIn
  <2>4. CASE LoweredIn(s, ops, t, x)
    BY <1>1, <1>2, <1>4, <2>4, HungWithin DEF LoweredIn
  <2>5. CASE LeftIn(s, ops, t, x)
    BY <1>4, <2>1, <2>2, <2>5 DEF LeftIn
  <2>. QED
    BY <1>1, <2>3, <2>4, <2>5, InstallsFollow DEF t
<1>. QED
  BY <1>2, <1>3, <1>4, <1>6, <1>7, <1>8 DEF Mounted, t

\* Such a tower passes every check, when its platforms are below the new top.
LEMMA LoweredIsValid ==
    ASSUME NEW s, Certified(s), NEW p, NEW ops, Judged(s, p, ops),
           NEW o \in ops, \A u \in ops : u = o,
           o.field = "towerHeight", o.value < s.height,
           \A l \in s.levels : l < o.value
    PROVE  LET t == Outcome(s, ops)
           IN  /\ ValidScene(t) /\ FoundationSuits(t) /\ ~SectorsOverlap(t) /\ Mounted(t)
               /\ Settled(s) => Settled(t)
<1>. DEFINE t == Outcome(s, ops)
<1>1. /\ s \in SceneSet /\ ValidScene(s) /\ FoundationSuits(s) /\ ~SectorsOverlap(s)
      /\ s.height \in Nat
  BY DEF Certified, SceneSet
<1>2. /\ t.height = o.value /\ o.value \in Nat
      /\ t.structure = s.structure /\ t.legs = s.legs /\ t.profile = s.profile
      /\ t.foundation = s.foundation /\ t.count = s.count /\ t.levels = s.levels
      /\ t.ladder = s.ladder
      /\ \A x \in Sectors : t.azimuth[x] = s.azimuth[x]
      /\ Mounted(t)
  BY LoweredIsMounted
<1>. HIDE DEF t
<1>3. \A x \in Sectors : t.install[x] <= t.height
  <2>1. 300 <= o.value
    BY Ranges DEF Judged
  <2>2. /\ MinInstall(o.value) \in Nat /\ MaxInstall(o.value) \in Nat
        /\ MaxInstall(o.value) <= o.value
    BY <1>2, <2>1, Reach
  <2>. QED
    BY <1>2, <2>2 DEF Mounted
<1>4. ValidScene(t)
  BY <1>1, <1>2, <1>3 DEF ValidScene, ValidTower, ValidPlacement
<1>5. FoundationSuits(t)
  BY <1>1, <1>2 DEF FoundationSuits
<1>6. ~SectorsOverlap(t)
  BY <1>1, <1>2 DEF SectorsOverlap
<1>7. Settled(s) => Settled(t)
  BY <1>1, <1>2 DEF Settled, Covers, Recommended, Required, WantsPlatform, WantsLadder
<1>. QED
  BY <1>2, <1>4, <1>5, <1>6, <1>7 DEF t

-----------------------------------------------------------------------------
(* The assembly plan.                                                      *)

Matches(q, s) ==
    /\ DOMAIN q.parts = Roles(s)
    /\ \A r \in Roles(s) : q.parts[r].asset = Asset(s, r)
    /\ q.height = s.height
    /\ q.connections = Connections(Roles(s))
    /\ q.operations = Compiled(q.connections, s)
Truthful(q) ==
    /\ q.authority \in {"llm", "rule"}
    /\ q.authority = "llm" => \A r \in DOMAIN q.parts : q.parts[r].by = "llm"

\* A new assembly plan is the plan of its scene.
LEMMA PlannedMatches ==
    ASSUME NEW s, NEW by \in {"llm", "rule"}
    PROVE  Matches(PlanOf(s, by), s) /\ Truthful(PlanOf(s, by))
BY DEF Matches, Truthful, PlanOf

\* reconcile_with_scene keeps what fits the new scene, and says so when it chose a component.
LEMMA ReconciledMatches ==
    ASSUME NEW q, NEW s, NEW t, Matches(q, s), Truthful(q)
    PROVE  Matches(Reconciled(q, t), t) /\ Truthful(Reconciled(q, t))
<1>. DEFINE kept == {r \in DOMAIN q.parts \cap Roles(t) : q.parts[r].asset = Asset(t, r)}
            joined == IF DOMAIN q.parts = Roles(t) THEN q.connections ELSE Connections(Roles(t))
            new == Reconciled(q, t)
<1>1. /\ new.parts = [r \in Roles(t) |-> IF r \in kept THEN q.parts[r]
                                         ELSE [asset |-> Asset(t, r), by |-> "rule"]]
      /\ new.height = t.height /\ new.connections = joined
      /\ new.operations = Compiled(joined, t)
      /\ new.authority = IF Roles(t) # kept THEN "rule" ELSE q.authority
  BY DEF Reconciled
<1>. HIDE DEF new
<1>2. joined = Connections(Roles(t))
  BY DEF Matches
<1>3. \A r \in Roles(t) : new.parts[r].asset = Asset(t, r)
  BY <1>1
<1>4. Matches(new, t)
  BY <1>1, <1>2, <1>3 DEF Matches
<1>5. Truthful(new)
  <2>1. CASE Roles(t) # kept
    BY <1>1, <2>1 DEF Truthful
  <2>2. CASE Roles(t) = kept
    <3>1. \A r \in Roles(t) : new.parts[r] = q.parts[r] /\ r \in DOMAIN q.parts
      BY <1>1, <2>2
    <3>2. DOMAIN new.parts = Roles(t) /\ new.authority = q.authority
      BY <1>1, <2>2
    <3>. HIDE DEF kept
    <3>. QED
      BY <3>1, <3>2 DEF Truthful
  <2>. QED
    BY <2>1, <2>2
<1>. QED
  BY <1>4, <1>5 DEF new

\* _connections joins roles of the scene, so that the compilation never fails.
LEMMA ConnectionsJoinRoles ==
    ASSUME NEW s, NEW c \in Connections(Roles(s))
    PROVE  {c[1], c[2]} \subseteq Roles(s)
<1>1. {"support_structure", "sector_antenna", "antenna_mount"} \subseteq Roles(s)
  BY DEF Roles
<1>. QED
  BY <1>1 DEF Connections

-----------------------------------------------------------------------------
(* The plan of an edit.                                                    *)

\* The fallback parser sets no field twice.
LEMMA FallbackIsPlan ==
    ASSUME NEW s, NEW p \in PromptSet
    PROVE  FallbackOps(s, p) \subseteq OperationSet /\ Distinct(FallbackOps(s, p))
<1>. DEFINE ops == FallbackOps(s, p)
            present == IF p.removal THEN 0 ELSE 1
            Drafted(o) ==
                \/ o = Op("towerHeight", "tower", p.amount * 100)
                \/ \E x \in Sectors : \/ o = Op("installHeight", x, p.amount * 100)
                                     \/ o = Op("azimuth", x, p.amount)
                                     \/ o = Op("cable", x, present)
                \/ o = Op("gps", "tower", present)
                \/ o = Op("cabinet", "tower", present)
<1>1. /\ p.amount \in Int /\ p.amount * 100 \in Int /\ present \in Int
      /\ p.sectors \subseteq Sectors
  <2>1. p.amount \in Int /\ p.sectors \in SUBSET Sectors
    BY DEF PromptSet
  <2>2. present \in Int
    OBVIOUS
  <2>. QED
    BY <2>1, <2>2
<1>2. ASSUME NEW o \in ops PROVE Drafted(o)
  BY <1>1 DEF FallbackOps
<1>3. ASSUME NEW o, Drafted(o) PROVE o \in OperationSet
  BY <1>1, <1>3 DEF OperationSet, Op, Fields, Switches, Lengths, SectorFields
<1>4. ASSUME NEW o, NEW u, Drafted(o), Drafted(u), Path(o) = Path(u) PROVE o = u
  BY <1>4 DEF Path, Op, SectorFields
<1>. HIDE DEF Drafted
<1>. QED
  BY <1>2, <1>3, <1>4 DEF Distinct

-----------------------------------------------------------------------------
(* The invariant.                                                          *)

Typed ==
    /\ edits \in 0 .. MaxEdits /\ edit.phase \in Phases /\ edit.reason \in Reasons
    /\ edit.prompt \in Prompts \cup {NoPrompt}
    /\ edit = [f \in {"phase", "reason", "prompt", "ops", "derived", "scene", "plan", "wanted"}
                 |-> edit[f]]

\* The design that is served.
Served == Certified(scene) /\ Matches(plan, scene) /\ Truthful(plan)

\* What is known of the edit that runs, from the step on that established it.
Phase(phases) == edit.phase \in phases
Early     == {"asked", "planned", "validated", "patched"}
Late      == {"prepared", "required", "checked"}
Beginning == Phase(Early \cup Late) => edit.prompt \in Prompts
Planning  == Phase((Early \ {"asked"}) \cup Late) => Planned(scene, edit.prompt, edit.ops)
Judging   ==
    Phase({"validated", "patched"} \cup Late) =>
        Judged(scene, edit.prompt, edit.ops) /\ edit.derived = Derived(scene, edit.ops)
Patching  ==
    /\ Phase(Early) => edit.plan = plan
    /\ Phase({"patched"}) => edit.scene = Made(scene, edit.ops) /\ ValidScene(edit.scene)
Preparing ==
    Phase(Late) => /\ edit.scene = Outcome(scene, edit.ops) /\ ValidScene(edit.scene)
                   /\ edit.plan = Reconciled(plan, edit.scene)
Checking  ==
    /\ Phase({"required", "checked"}) =>
           /\ FoundationSuits(edit.scene) /\ ~SectorsOverlap(edit.scene)
           /\ edit.wanted = Recommended(edit.scene)
    /\ Phase({"checked"}) => Mounted(edit.scene)

Running == Beginning /\ Planning /\ Judging /\ Patching /\ Preparing /\ Checking

IInv == Typed /\ Served /\ Running /\ LoweringIsAccepted

\* A design begins certified, with no edit.
LEMMA InitHolds == Init => IInv
<1>. SUFFICES ASSUME Init PROVE IInv
  OBVIOUS
<1>1. PICK by \in {"llm", "rule"} : plan = PlanOf(scene, by)
  BY DEF Init
<1>2. Certified(scene)
  BY RevisionAssumption DEF Init
<1>3. Served
  BY <1>1, <1>2, PlannedMatches DEF Served
<1>4. /\ edit.phase = "idle" /\ edit.reason = "none" /\ edit.prompt = NoPrompt /\ edits = 0
      /\ edit = [f \in {"phase", "reason", "prompt", "ops", "derived", "scene", "plan",
                        "wanted"} |-> edit[f]]
  BY DEF Init, Edit
<1>5. Typed
  BY <1>4, RevisionAssumption DEF Typed, Phases, Reasons
<1>6. Running
  BY <1>4 DEF Running, Beginning, Planning, Judging, Patching, Preparing, Checking, Phase,
              Early, Late
<1>7. LoweringIsAccepted
  BY <1>4 DEF LoweringIsAccepted
<1>. QED
  BY <1>3, <1>5, <1>6, <1>7 DEF IInv

\* An edit that is refused leaves the design.
LEMMA RefusalHolds ==
    ASSUME IInv, NEW r \in Reasons, Refuse(r), UNCHANGED <<scene, plan, edits>>,
           LoweringIsAccepted'
    PROVE  IInv'
<1>1. /\ edit' = [edit EXCEPT !.phase = "refused", !.reason = r]
      /\ scene' = scene /\ plan' = plan /\ edits' = edits
  BY DEF Refuse
<1>2. Typed
  BY DEF IInv
<1>3. edit'.phase = "refused" /\ edit'.reason = r /\ edit'.prompt = edit.prompt
  BY <1>1, <1>2 DEF Typed
<1>4. Typed'
  <2>1. edit' = [f \in {"phase", "reason", "prompt", "ops", "derived", "scene", "plan",
                        "wanted"} |-> edit'[f]]
    BY <1>1, <1>2 DEF Typed
  <2>. QED
    BY <1>1, <1>2, <1>3, <2>1 DEF Typed, Phases
<1>5. Served'
  BY <1>1 DEF Served, IInv
<1>6. Running'
  BY <1>3 DEF Running, Beginning, Planning, Judging, Patching, Preparing, Checking, Phase,
              Early, Late
<1>. QED
  BY <1>4, <1>5, <1>6 DEF IInv

\* _edit_design.
LEMMA AskHolds == ASSUME IInv, Ask PROVE IInv'
<1>1. PICK p \in Prompts : edit' = Edit("asked", p, scene, plan)
  BY DEF Ask
<1>2. scene' = scene /\ plan' = plan /\ edits' = edits + 1 /\ edits < MaxEdits
  BY DEF Ask
<1>3. /\ edit'.phase = "asked" /\ edit'.reason = "none" /\ edit'.prompt = p
      /\ edit'.plan = plan
      /\ edit' = [f \in {"phase", "reason", "prompt", "ops", "derived", "scene", "plan",
                        "wanted"} |-> edit'[f]]
  BY <1>1 DEF Edit
<1>4. Typed'
  BY <1>2, <1>3, RevisionAssumption DEF Typed, IInv, Phases, Reasons
<1>5. Served'
  BY <1>2 DEF Served, IInv
<1>6. Running'
  BY <1>2, <1>3 DEF Running, Beginning, Planning, Judging, Patching, Preparing, Checking,
                    Phase, Early, Late
<1>7. LoweringIsAccepted'
  BY <1>3 DEF LoweringIsAccepted
<1>. QED
  BY <1>4, <1>5, <1>6, <1>7 DEF IInv

\* A plan of an edit, whoever made it.
LEMMA PlannedHolds ==
    ASSUME IInv, Editing("asked"), NEW ops, Planned(scene, edit.prompt, ops),
           edit' = [edit EXCEPT !.phase = "planned", !.ops = ops],
           UNCHANGED <<scene, plan, edits>>
    PROVE  IInv'
<1>1. /\ edit.phase = "asked" /\ edit.prompt \in Prompts /\ edit.plan = plan
      /\ scene' = scene /\ plan' = plan /\ edits' = edits
  BY DEF Editing, IInv, Running, Beginning, Patching, Phase, Early
<1>2. /\ edit'.phase = "planned" /\ edit'.ops = ops /\ edit'.prompt = edit.prompt
      /\ edit'.reason = edit.reason /\ edit'.plan = edit.plan
      /\ edit' = [f \in {"phase", "reason", "prompt", "ops", "derived", "scene", "plan",
                        "wanted"} |-> edit'[f]]
  BY DEF IInv, Typed
<1>3. Typed'
  BY <1>1, <1>2 DEF Typed, IInv, Phases
<1>4. Served'
  BY <1>1 DEF Served, IInv
<1>5. Planning'
  BY <1>1, <1>2 DEF Planning
<1>6. Running'
  BY <1>1, <1>2, <1>5 DEF Running, Beginning, Judging, Patching, Preparing, Checking,
                         Phase, Early, Late
<1>7. LoweringIsAccepted'
  BY <1>2 DEF LoweringIsAccepted
<1>. QED
  BY <1>3, <1>4, <1>6, <1>7 DEF IInv

\* _plan_adaptation.
LEMMA PlanByModelHolds == ASSUME IInv, PlanByModel PROVE IInv'
<1>. DEFINE open == {o \in Operations : Capable(scene, edit.prompt, o)
                                          /\ Aligned(scene, edit.prompt, o)}
<1>1. PICK n \in 1 .. MaxOperations : \E ops \in kSubset(n, open) :
             /\ \A o, u \in ops : o # u => Path(o) # Path(u)
             /\ edit' = [edit EXCEPT !.phase = "planned", !.ops = ops]
  BY DEF PlanByModel
<1>2. PICK ops \in kSubset(n, open) :
             /\ \A o, u \in ops : o # u => Path(o) # Path(u)
             /\ edit' = [edit EXCEPT !.phase = "planned", !.ops = ops]
  BY <1>1
<1>3. ops \subseteq open
  BY <1>2 DEF kSubset
<1>4. Planned(scene, edit.prompt, ops)
  BY <1>2, <1>3, RevisionAssumption DEF Planned, Distinct
<1>. QED
  BY <1>2, <1>4, PlannedHolds DEF PlanByModel

\* _fallback_patch.
LEMMA PlanByFallbackHolds == ASSUME IInv, PlanByFallback PROVE IInv'
<1>. DEFINE ops == FallbackOps(scene, edit.prompt)
<1>1. edit.prompt \in PromptSet
  BY RevisionAssumption DEF PlanByFallback, Editing, IInv, Running, Beginning, Phase, Early
<1>2. ops \subseteq OperationSet /\ Distinct(ops)
  BY <1>1, FallbackIsPlan
<1>. HIDE DEF ops
<1>3. CASE /\ \A o \in ops : Capable(scene, edit.prompt, o)
           /\ edit' = [edit EXCEPT !.phase = "planned", !.ops = ops]
  BY <1>2, <1>3, PlannedHolds DEF PlanByFallback, Planned
<1>4. CASE Refuse("plan")
  <2>1. LoweringIsAccepted'
    BY <1>4 DEF Refuse, LoweringIsAccepted, IInv, Typed
  <2>. QED
    BY <1>4, <2>1, RefusalHolds DEF PlanByFallback, Reasons
<1>. QED
  BY <1>3, <1>4 DEF PlanByFallback, ops

\* The validation of a plan.
LEMMA ValidateHolds == ASSUME IInv, Validate PROVE IInv'
<1>1. CASE Refuse("plan")
  <2>1. LoweringIsAccepted'
    BY <1>1 DEF Refuse, LoweringIsAccepted, IInv, Typed
  <2>. QED
    BY <1>1, <2>1, RefusalHolds DEF Validate, Reasons
<1>2. CASE /\ \A o \in edit.ops : Aligned(scene, edit.prompt, o)
           /\ PlatformsResolve(scene, edit.ops)
           /\ edit' = [edit EXCEPT !.phase = "validated", !.derived = Derived(scene, edit.ops)]
  <2>1. /\ edit.phase = "planned" /\ edit.prompt \in Prompts /\ edit.plan = plan
        /\ scene' = scene /\ plan' = plan /\ edits' = edits
        /\ Planned(scene, edit.prompt, edit.ops)
    BY DEF Validate, Editing, IInv, Running, Beginning, Planning, Patching, Phase, Early
  <2>2. /\ edit'.phase = "validated" /\ edit'.ops = edit.ops /\ edit'.prompt = edit.prompt
        /\ edit'.reason = edit.reason /\ edit'.plan = edit.plan
        /\ edit'.derived = Derived(scene, edit.ops)
        /\ edit' = [f \in {"phase", "reason", "prompt", "ops", "derived", "scene", "plan",
                        "wanted"} |-> edit'[f]]
    BY <1>2 DEF IInv, Typed
  <2>3. Typed'
    BY <2>1, <2>2 DEF Typed, IInv, Phases
  <2>4. Served'
    BY <2>1 DEF Served, IInv
  <2>5. Planning' /\ Judging'
    BY <1>2, <2>1, <2>2 DEF Planning, Judging, Judged
  <2>6. Running'
    BY <2>1, <2>2, <2>5 DEF Running, Beginning, Patching, Preparing, Checking,
                           Phase, Early, Late
  <2>7. LoweringIsAccepted'
    BY <2>2 DEF LoweringIsAccepted
  <2>. QED
    BY <2>3, <2>4, <2>6, <2>7 DEF IInv
<1>. QED
  BY <1>1, <1>2 DEF Validate

\* What is refused although it was judged, is not a lowered tower that stands.
LEMMA LoweringRefused ==
    ASSUME IInv, Judged(scene, edit.prompt, edit.ops), NEW r \in Reasons, Refuse(r),
           UNCHANGED <<scene, plan, edits>>,
           LET t == Outcome(scene, edit.ops)
           IN  ~(/\ ValidScene(t) /\ FoundationSuits(t) /\ ~SectorsOverlap(t) /\ Mounted(t)
                 /\ Settled(scene) => Settled(t))
    PROVE  LoweringIsAccepted'
<1>1. edit'.ops = edit.ops /\ scene' = scene
  BY DEF Refuse, IInv, Typed
<1>2. SUFFICES ASSUME NEW o \in edit.ops, edit.ops = {o}, Lowers(o)
               PROVE  \E l \in scene.levels : l >= o.value
  BY <1>1 DEF LoweringIsAccepted, Lowers
<1>3. Certified(scene) /\ scene.levels \subseteq Nat
  BY DEF IInv, Served, Certified, SceneSet
<1>4. o.value \in Int
  BY Ranges DEF Judged
<1>5. \A u \in edit.ops : u = o
  BY <1>2
<1>6. o.field = "towerHeight" /\ o.value < scene.height
  BY <1>2 DEF Lowers
<1>7. ~ \A l \in scene.levels : l < o.value
  BY <1>3, <1>5, <1>6, LoweredIsValid
<1>. QED
  BY <1>3, <1>4, <1>7

\* PatchApplier.apply.
LEMMA ExecuteHolds == ASSUME IInv, Execute PROVE IInv'
<1>. DEFINE s == Patched(scene, edit.ops \cup edit.derived)
            t == Outcome(scene, edit.ops)
<1>1. /\ edit.phase = "validated" /\ edit.prompt \in Prompts /\ edit.plan = plan
      /\ scene' = scene /\ plan' = plan /\ edits' = edits
      /\ Planned(scene, edit.prompt, edit.ops) /\ Judged(scene, edit.prompt, edit.ops)
      /\ edit.derived = Derived(scene, edit.ops)
  BY DEF Execute, Editing, IInv, Running, Beginning, Planning, Judging, Patching,
           Preparing, Checking, Phase, Early, Late
<1>2. s = Made(scene, edit.ops)
  BY <1>1 DEF Made, WithDerived
<1>3. ValidScene(s) <=> ValidScene(t)
  <2>1. scene \in SceneSet
    BY DEF IInv, Served, Certified
  <2>. QED
    BY <1>2, <2>1, OutcomeFields, ZenonT(60)
<1>. HIDE DEF s, t
<1>4. CASE ~ValidScene(s) /\ Refuse("patch")
  <2>1. LoweringIsAccepted'
    BY <1>1, <1>3, <1>4, LoweringRefused DEF Reasons, t
  <2>. QED
    BY <1>1, <1>4, <2>1, RefusalHolds DEF Reasons
<1>5. CASE ValidScene(s) /\ edit' = [edit EXCEPT !.phase = "patched", !.scene = s]
  <2>1. /\ edit'.phase = "patched" /\ edit'.scene = s /\ edit'.plan = edit.plan
        /\ edit'.ops = edit.ops /\ edit'.prompt = edit.prompt /\ edit'.reason = edit.reason
        /\ edit'.derived = edit.derived
        /\ edit' = [f \in {"phase", "reason", "prompt", "ops", "derived", "scene", "plan",
                        "wanted"} |-> edit'[f]]
    BY <1>5 DEF IInv, Typed
  <2>2. Typed'
    BY <1>1, <2>1 DEF Typed, IInv, Phases
  <2>3. Served'
    BY <1>1 DEF Served, IInv
  <2>4. Planning' /\ Judging'
    BY <1>1, <2>1 DEF Planning, Judging
  <2>5. Running'
    BY <1>1, <1>2, <1>5, <2>1, <2>4
       DEF Running, Beginning, Patching, Preparing, Checking, Phase, Early, Late
  <2>6. LoweringIsAccepted'
    BY <2>1 DEF LoweringIsAccepted
  <2>. QED
    BY <2>2, <2>3, <2>5, <2>6 DEF IInv
<1>. QED
  BY <1>4, <1>5 DEF Execute, s

\* _prepare_scene_revision.
LEMMA PrepareHolds == ASSUME IInv, Prepare PROVE IInv'
<1>. DEFINE t == Outcome(scene, edit.ops)
            q == Reconciled(plan, t)
<1>1. /\ edit.phase = "patched" /\ edit.prompt \in Prompts /\ edit.plan = plan
      /\ scene' = scene /\ plan' = plan /\ edits' = edits
      /\ Planned(scene, edit.prompt, edit.ops) /\ Judged(scene, edit.prompt, edit.ops)
      /\ edit.derived = Derived(scene, edit.ops)
      /\ edit.scene = Made(scene, edit.ops) /\ ValidScene(edit.scene)
  BY DEF Prepare, Editing, IInv, Running, Beginning, Planning, Judging, Patching,
           Preparing, Checking, Phase, Early, Late
<1>2. Rebound(edit.scene) = t
  BY <1>1 DEF Outcome
<1>3. ValidScene(t)
  <2>1. scene \in SceneSet
    BY DEF IInv, Served, Certified
  <2>. QED
    BY <1>1, <2>1, OutcomeFields, ZenonT(60)
<1>4. \A c \in q.connections : {c[1], c[2]} \subseteq DOMAIN q.parts
  <2>1. Matches(q, t)
    BY ReconciledMatches DEF IInv, Served
  <2>. HIDE DEF q, t
  <2>. QED
    BY <2>1, ConnectionsJoinRoles DEF Matches
<1>5. edit' = [edit EXCEPT !.phase = "prepared", !.scene = t, !.plan = q]
  BY <1>1, <1>2, <1>4, Zenon DEF Prepare
<1>. HIDE DEF t, q
<1>6. /\ edit'.phase = "prepared" /\ edit'.scene = t /\ edit'.plan = q
      /\ edit'.ops = edit.ops /\ edit'.prompt = edit.prompt /\ edit'.reason = edit.reason
      /\ edit'.derived = edit.derived
      /\ edit' = [f \in {"phase", "reason", "prompt", "ops", "derived", "scene", "plan",
                        "wanted"} |-> edit'[f]]
  BY <1>5 DEF IInv, Typed
<1>7. Typed'
  BY <1>1, <1>6 DEF Typed, IInv, Phases
<1>8. Served'
  BY <1>1 DEF Served, IInv
<1>9. Planning' /\ Judging' /\ Preparing'
  BY <1>1, <1>3, <1>6 DEF Planning, Judging, Preparing, t, q
<1>10. Running'
  BY <1>1, <1>6, <1>9 DEF Running, Beginning, Patching, Checking, Phase, Early, Late
<1>11. LoweringIsAccepted'
  BY <1>6 DEF LoweringIsAccepted
<1>. QED
  BY <1>7, <1>8, <1>10, <1>11 DEF IInv

\* What is known of an edit that was prepared.
LEMMA LateKnown ==
    ASSUME IInv, edit.phase \in Late
    PROVE  /\ edit.prompt \in Prompts
           /\ Planned(scene, edit.prompt, edit.ops) /\ Judged(scene, edit.prompt, edit.ops)
           /\ edit.derived = Derived(scene, edit.ops)
           /\ edit.scene = Outcome(scene, edit.ops) /\ ValidScene(edit.scene)
           /\ edit.plan = Reconciled(plan, edit.scene)
BY DEF IInv, Running, Beginning, Planning, Judging, Patching,
           Preparing, Checking, Phase, Early, Late

\* _validate_requirements.
LEMMA CheckRequirementsHolds == ASSUME IInv, CheckRequirements PROVE IInv'
<1>1. /\ edit.phase = "prepared" /\ edit.phase \in Late
      /\ scene' = scene /\ plan' = plan /\ edits' = edits
  BY DEF CheckRequirements, Editing, Late
<1>2. CASE /\ ~(FoundationSuits(edit.scene) /\ ~SectorsOverlap(edit.scene))
           /\ Refuse("requirements")
  <2>1. LoweringIsAccepted'
    BY <1>1, <1>2, LateKnown, LoweringRefused DEF Reasons
  <2>. QED
    BY <1>1, <1>2, <2>1, RefusalHolds DEF Reasons
<1>3. CASE /\ FoundationSuits(edit.scene) /\ ~SectorsOverlap(edit.scene)
           /\ edit' = [edit EXCEPT !.phase = "required", !.wanted = Recommended(edit.scene)]
  <2>1. /\ edit'.phase = "required" /\ edit'.scene = edit.scene /\ edit'.plan = edit.plan
        /\ edit'.ops = edit.ops /\ edit'.prompt = edit.prompt /\ edit'.reason = edit.reason
        /\ edit'.derived = edit.derived /\ edit'.wanted = Recommended(edit.scene)
        /\ edit' = [f \in {"phase", "reason", "prompt", "ops", "derived", "scene", "plan",
                        "wanted"} |-> edit'[f]]
    BY <1>3 DEF IInv, Typed
  <2>2. Typed'
    BY <1>1, <2>1 DEF Typed, IInv, Phases
  <2>3. Served'
    BY <1>1 DEF Served, IInv
  <2>4. Planning' /\ Judging' /\ Preparing' /\ Checking'
    BY <1>1, <1>3, <2>1, LateKnown DEF Planning, Judging, Preparing, Checking, Phase
  <2>5. Running'
    BY <1>1, <2>1, <2>4, LateKnown DEF Running, Beginning, Patching, Phase, Early, Late
  <2>6. LoweringIsAccepted'
    BY <2>1 DEF LoweringIsAccepted
  <2>. QED
    BY <2>2, <2>3, <2>5, <2>6 DEF IInv
<1>. QED
  BY <1>2, <1>3 DEF CheckRequirements

\* _validate_scene.
LEMMA CheckSceneHolds == ASSUME IInv, CheckScene PROVE IInv'
<1>1. /\ edit.phase = "required" /\ edit.phase \in Late
      /\ scene' = scene /\ plan' = plan /\ edits' = edits
      /\ FoundationSuits(edit.scene) /\ ~SectorsOverlap(edit.scene)
      /\ edit.wanted = Recommended(edit.scene)
  BY DEF CheckScene, Editing, Late, IInv, Running, Checking, Phase
<1>2. CASE ~(Mounted(edit.scene) /\ Covers(edit.scene, edit.wanted)) /\ Refuse("scene")
  <2>1. LoweringIsAccepted'
    <3>1. CASE Settled(scene) => Settled(edit.scene)
      <4>1. CASE Settled(scene)
        BY <1>1, <1>2, <3>1, <4>1, LateKnown, LoweringRefused DEF Reasons, Settled
      <4>2. CASE ~Settled(scene)
        BY <1>1, <4>2 DEF LoweringIsAccepted, Settled
      <4>. QED
        BY <4>1, <4>2
    <3>2. CASE ~(Settled(scene) => Settled(edit.scene))
      BY <1>1, <1>2, <3>2, LateKnown, LoweringRefused DEF Reasons
    <3>. QED
      BY <3>1, <3>2
  <2>. QED
    BY <1>1, <1>2, <2>1, RefusalHolds DEF Reasons
<1>3. CASE Mounted(edit.scene) /\ Continue("checked")
  <2>1. /\ edit'.phase = "checked" /\ edit'.scene = edit.scene /\ edit'.plan = edit.plan
        /\ edit'.ops = edit.ops /\ edit'.prompt = edit.prompt /\ edit'.reason = edit.reason
        /\ edit'.derived = edit.derived /\ edit'.wanted = edit.wanted
        /\ edit' = [f \in {"phase", "reason", "prompt", "ops", "derived", "scene", "plan",
                        "wanted"} |-> edit'[f]]
    BY <1>3 DEF IInv, Typed, Continue
  <2>2. Typed'
    BY <1>1, <2>1 DEF Typed, IInv, Phases
  <2>3. Served'
    BY <1>1 DEF Served, IInv
  <2>4. Planning' /\ Judging' /\ Preparing' /\ Checking'
    BY <1>1, <1>3, <2>1, LateKnown DEF Planning, Judging, Preparing, Checking, Phase
  <2>5. Running'
    BY <1>1, <2>1, <2>4, LateKnown DEF Running, Beginning, Patching, Phase, Early, Late
  <2>6. LoweringIsAccepted'
    BY <2>1 DEF LoweringIsAccepted
  <2>. QED
    BY <2>2, <2>3, <2>5, <2>6 DEF IInv
<1>. QED
  BY <1>2, <1>3 DEF CheckScene

\* What is known of an edit that passed every check: it leaves a certified scene.
LEMMA CheckedKnown ==
    ASSUME IInv, edit.phase = "checked"
    PROVE  /\ Judged(scene, edit.prompt, edit.ops) /\ Certified(scene)
           /\ edit.scene = Outcome(scene, edit.ops)
           /\ ValidScene(edit.scene) /\ Certified(edit.scene)
           /\ edit.plan = Reconciled(plan, edit.scene)
<1>1. edit.phase \in Late
  BY DEF Late
<1>2. /\ FoundationSuits(edit.scene) /\ ~SectorsOverlap(edit.scene) /\ Mounted(edit.scene)
      /\ Certified(scene)
  BY DEF IInv, Running, Checking, Phase, Served
<1>3. Certified(edit.scene)
  BY <1>1, <1>2, LateKnown, OutcomeIsCertified
<1>. QED
  BY <1>1, <1>2, <1>3, LateKnown

\* The gates of Blender, and the commit.
LEMMA SettleHolds == ASSUME IInv, Settle PROVE IInv'
<1>1. edit.phase = "checked" /\ edits' = edits
  BY DEF Settle, Editing
<1>2. CASE Refuse("quality") /\ UNCHANGED <<scene, plan>>
  <2>1. LoweringIsAccepted'
    BY <1>2 DEF Refuse, LoweringIsAccepted, IInv, Typed
  <2>. QED
    BY <1>1, <1>2, <2>1, RefusalHolds DEF Reasons
<1>3. CASE Continue("applied") /\ scene' = edit.scene /\ plan' = edit.plan
  <2>1. /\ edit'.phase = "applied" /\ edit'.reason = edit.reason /\ edit'.prompt = edit.prompt
        /\ edit' = [f \in {"phase", "reason", "prompt", "ops", "derived", "scene", "plan",
                        "wanted"} |-> edit'[f]]
    BY <1>3 DEF IInv, Typed, Continue
  <2>2. Typed'
    BY <1>1, <2>1 DEF Typed, IInv, Phases
  <2>3. Matches(plan', scene') /\ Truthful(plan')
    BY <1>1, <1>3, CheckedKnown, ReconciledMatches DEF IInv, Served
  <2>4. Served'
    BY <1>1, <1>3, <2>3, CheckedKnown DEF Served
  <2>5. Running'
    BY <2>1 DEF Running, Beginning, Planning, Judging, Patching, Preparing, Checking, Phase,
                Early, Late
  <2>6. LoweringIsAccepted'
    BY <2>1 DEF LoweringIsAccepted
  <2>. QED
    BY <2>2, <2>4, <2>5, <2>6 DEF IInv
<1>. QED
  BY <1>2, <1>3 DEF Settle

\* A step of another component.
LEMMA StutterHolds == ASSUME IInv, UNCHANGED vars PROVE IInv'
BY DEF vars, IInv, Typed, Served, Running, Beginning, Planning, Judging, Patching,
           Preparing, Checking, Phase, Early, Late,
       LoweringIsAccepted, Lowers

\* Every step keeps the invariant.
LEMMA NextHolds == ASSUME IInv, [Next]_vars PROVE IInv'
BY AskHolds, PlanByModelHolds, PlanByFallbackHolds, ValidateHolds, ExecuteHolds, PrepareHolds,
   CheckRequirementsHolds, CheckSceneHolds, SettleHolds, StutterHolds DEF Next

\* So it always holds.
LEMMA AlwaysHolds == Spec => []IInv
BY InitHolds, NextHolds, PTL DEF Spec

\* Through any series of edits the assembly plan, its authority and the equipment stay those of
\* the scene that is served, which keeps the contract of SceneSpec (PlanFollowsScene).
THEOREM PlanStaysTrue == Spec => []PlanFollowsScene
<1>1. IInv => PlanFollowsScene
  BY DEF IInv, Typed, Served, Matches, Truthful, Certified, PlanFollowsScene, SceneTypeOK,
         PlanMatchesScene, AuthorityTruthful, EquipmentFollowsTower
<1>. QED
  BY <1>1, AlwaysHolds, PTL

\* No tower is refused for being lowered to a height its platforms are below: the antennas
\* follow, within the reach of what is left of it.
THEOREM LoweringStands == Spec => []LoweringIsAccepted
<1>1. IInv => LoweringIsAccepted
  BY DEF IInv
<1>. QED
  BY <1>1, AlwaysHolds, PTL

\* The one step that changes the design.
LEMMA DesignChanges ==
    ASSUME IInv, [Next]_vars
    PROVE  \/ scene' = scene /\ ~Applies
           \/ edit.phase = "checked" /\ scene' = Outcome(scene, edit.ops)
<1>1. Settle \/ (scene' = scene /\ edit.phase # "checked") \/ UNCHANGED vars
  BY DEF Next, Ask, PlanByModel, PlanByFallback, Validate, Execute, Prepare,
         CheckRequirements, CheckScene, Editing
<1>2. CASE scene' = scene /\ edit.phase # "checked"
  BY <1>2 DEF Applies
<1>3. CASE UNCHANGED vars
  BY <1>3 DEF vars, Applies
<1>4. CASE Settle
  <2>1. edit.phase = "checked" /\ edit.scene = Outcome(scene, edit.ops)
    BY <1>4, CheckedKnown DEF Settle, Editing
  <2>2. CASE scene' = edit.scene
    BY <2>1, <2>2
  <2>3. CASE Refuse("quality") /\ scene' = scene
    <3>1. edit'.phase = "refused"
      BY <2>3 DEF Refuse, IInv, Typed
    <3>. QED
      BY <2>3, <3>1 DEF Applies
  <2>. QED
    BY <1>4, <2>2, <2>3 DEF Settle
<1>. QED
  BY <1>1, <1>2, <1>3, <1>4

\* An edit that is answered "applied" left what each of its operations sets.
THEOREM AppliedIsDone == Spec => AppliedMeansDone
<1>1. ASSUME IInv, [Next]_vars
      PROVE  Applies => \A o \in edit.ops : Holds(scene', o)
  <2>1. SUFFICES ASSUME Applies, NEW o \in edit.ops PROVE Holds(scene', o)
    OBVIOUS
  <2>2. edit.phase = "checked" /\ scene' = Outcome(scene, edit.ops)
    BY <1>1, <2>1, DesignChanges
  <2>3. Judged(scene, edit.prompt, edit.ops) /\ scene \in SceneSet
    BY <1>1, <2>2, CheckedKnown DEF Certified
  <2>. QED
    BY <2>1, <2>2, <2>3, DoneByOutcome
<1>2. IInv /\ [Next]_vars => [Applies => \A o \in edit.ops : Holds(scene', o)]_vars
  BY <1>1
<1>. QED
  BY <1>2, AlwaysHolds, PTL DEF Spec, AppliedMeansDone

\* What an edit was not asked to change stays: other fields and sectors, the place a user gave
\* the receiver, the platforms there are.
THEOREM UntouchedStaysSo == Spec => UntouchedStays
<1>1. ASSUME IInv, [Next]_vars
      PROVE  /\ AskedOnly(scene, edit.prompt, scene')
             /\ PositionKept(scene, edit.ops, scene')
             /\ LevelsKept(scene, scene')
  <2>1. CASE scene' = scene
    BY <2>1 DEF AskedOnly, PositionKept, LevelsKept
  <2>2. CASE edit.phase = "checked" /\ scene' = Outcome(scene, edit.ops)
    <3>1. /\ Judged(scene, edit.prompt, edit.ops) /\ Certified(scene)
          /\ ValidScene(Outcome(scene, edit.ops))
      BY <1>1, <2>2, CheckedKnown
    <3>2. scene \in SceneSet
      BY <3>1 DEF Certified
    <3>. QED
      BY <2>2, <3>1, <3>2, OutcomeIsAsked, OutcomeKeepsPosition, OutcomeKeepsLevels
  <2>. QED
    BY <1>1, <2>1, <2>2, DesignChanges
<1>2. Spec => OnlyAskedChanges
  <2>1. IInv /\ [Next]_vars => AskedOnly(scene, edit.prompt, scene')
    BY <1>1
  <2>. QED
    BY <2>1, AlwaysHolds, PTL DEF Spec, OnlyAskedChanges, AskedOnly
<1>3. Spec => PositionsAreKept
  <2>1. IInv /\ [Next]_vars => PositionKept(scene, edit.ops, scene')
    BY <1>1
  <2>. QED
    BY <2>1, AlwaysHolds, PTL DEF Spec, PositionsAreKept, PositionKept
<1>4. Spec => PlatformsKept
  <2>1. IInv /\ [Next]_vars => LevelsKept(scene, scene')
    BY <1>1
  <2>. QED
    BY <2>1, AlwaysHolds, PTL DEF Spec, PlatformsKept, LevelsKept
<1>. QED
  BY <1>2, <1>3, <1>4 DEF UntouchedStays
-----------------------------------------------------------------------------
(* What was said of one field.                                             *)

\* A set of natural numbers has a least one.
LEMMA LeastIs ==
    ASSUME NEW S \in SUBSET Nat, S # {}
    PROVE  \E x \in S : \A y \in S : x <= y
<1>1. PICK x \in S : \A y \in S : ~(<<y, x>> \in OpToRel(<, Nat))
  BY NatLessThanWellFounded, WFMin
<1>2. \A y \in S : ~(y < x)
  BY <1>1 DEF OpToRel
<1> QED BY <1>2

\* The policy's first hint is the least place of a candidate (rag/planning.py).
LEMMA MinIs ==
    ASSUME NEW S \in SUBSET Nat, S # {}
    PROVE  Min(S) \in S /\ \A y \in S : Min(S) <= y
<1>1. \E x \in S : \A y \in S : x <= y
  BY LeastIs
<1> QED BY <1>1 DEF Min

\* The last correction among the statements of a field is one of them.
LEMMA MaxIs ==
    ASSUME NEW n \in Nat, NEW S \in SUBSET (1 .. n), S # {}
    PROVE  Max(S) \in S /\ \A y \in S : y <= Max(S)
<1> DEFINE T == {n - x : x \in S}
<1>0. \A x \in S : n - x \in Nat
  OBVIOUS
<1>1. T \in SUBSET Nat /\ T # {}
  <2>1. T \subseteq Nat
    BY <1>0
  <2>2. PICK x \in S : TRUE
    OBVIOUS
  <2>3. n - x \in T
    OBVIOUS
  <2> QED BY <2>1, <2>3
<1>2. PICK t \in T : \A y \in T : t <= y
  BY <1>1, LeastIs
<1>3. PICK x \in S : t = n - x
  OBVIOUS
<1>4. \A y \in S : x >= y
  <2>1. SUFFICES ASSUME NEW y \in S PROVE x >= y
    OBVIOUS
  <2>2. n - y \in T
    OBVIOUS
  <2> QED BY <1>2, <1>3, <2>2
<1> QED BY <1>4 DEF Max

\* A statement of a field of a whole text.
Told(text) ==
    /\ text.tower_height_m \in Statements(Nat) /\ text.sector_count \in Statements(Nat)
    /\ text.antenna_install_height_m \in Statements(Nat)
    /\ text.azimuths_deg \in Statements(Seq(Nat))
    /\ text.cables \in {"unsaid", "wanted", "declined"} /\ text.beamwidth_deg \in Nat

\* What the user wrote and what the pack adds to it are statements of the field
\* (prompt_context.py build_document_prompt_context).
Joined(all, facts, V) ==
    /\ all \in Statements(V)
    /\ \A i \in DOMAIN facts : \E k \in DOMAIN all : all[k].value = facts[i]

LEMMA AddedIsSaid ==
    ASSUME NEW V, NEW said \in Statements(V), NEW facts \in Seq(V)
    PROVE  Joined(said \o AsStatements(facts), facts, V)
<1> DEFINE R     == [value : V, late : BOOLEAN]
           added == AsStatements(facts)
           n     == Len(facts)
<1>1. n \in Nat /\ DOMAIN facts = 1 .. n /\ \A i \in 1 .. n : facts[i] \in V
  OBVIOUS
<1>2. added = [i \in 1 .. n |-> [value |-> facts[i], late |-> FALSE]]
  BY <1>1 DEF AsStatements
<1>3. \A i \in 1 .. n : added[i] \in R /\ added[i].value = facts[i]
  BY <1>1, <1>2
<1>4. added = [i \in 1 .. n |-> added[i]]
  BY <1>2
<1> HIDE DEF added, R, n
<1>5. added \in Seq(R) /\ Len(added) = n
  BY <1>1, <1>3, <1>4
<1>6. said \in Seq(R)
  BY DEF Statements, R
<1>7. /\ said \o added \in Seq(R)
      /\ Len(said \o added) = Len(said) + n /\ Len(said) \in Nat
      /\ \A i \in 1 .. n : (said \o added)[Len(said) + i] = added[i]
  <2>1. Len(said) \in Nat /\ n \in Nat
    BY <1>1, <1>6
  <2>2. /\ said \o added \in Seq(R)
        /\ Len(said \o added) = Len(said) + Len(added)
        /\ \A i \in 1 .. Len(said) + Len(added) : (said \o added)[i] =
              IF i <= Len(said) THEN said[i] ELSE added[i - Len(said)]
    BY <1>5, <1>6, ConcatProperties
  <2>3. ASSUME NEW i \in 1 .. n PROVE (said \o added)[Len(said) + i] = added[i]
    BY <1>5, <2>1, <2>2
  <2> QED BY <1>5, <2>1, <2>2, <2>3
<1>8. ASSUME NEW i \in DOMAIN facts
      PROVE  \E k \in DOMAIN (said \o added) : (said \o added)[k].value = facts[i]
  <2>1. Len(said) + i \in DOMAIN (said \o added)
    BY <1>1, <1>7
  <2>2. (said \o added)[Len(said) + i].value = facts[i]
    BY <1>1, <1>3, <1>7
  <2> QED BY <2>1, <2>2
<1> QED BY <1>7, <1>8 DEF added, R, Statements, Joined

\* A whole text is a text, and each fact of the pack is one of its statements (main.py
\* _document_aware_requirements_text).
LEMMA WholeIsTold ==
    ASSUME NEW text \in Texts, NEW revision \in 0 .. Len(Facts)
    PROVE  LET whole == WithFacts(text, revision) IN
           /\ Told(whole)
           /\ \A i \in DOMAIN FactsOf(revision, "tower_height_m") :
                 \E k \in DOMAIN whole.tower_height_m :
                    whole.tower_height_m[k].value = FactsOf(revision, "tower_height_m")[i]
<1> DEFINE whole == WithFacts(text, revision)
<1>1. IsText(text)
  BY TextsAssumption
<1>2. \A f \in Critical : f \in DOMAIN text
  BY <1>1 DEF IsText, Critical
<1>3. \A f \in Critical : whole[f] = text[f] \o AsStatements(FactsOf(revision, f))
  BY <1>2 DEF WithFacts
<1>4. whole.cables = text.cables /\ whole.beamwidth_deg = text.beamwidth_deg
  BY <1>1 DEF IsText, WithFacts, Critical
<1>5. /\ FactsOf(revision, "tower_height_m") \in Seq(Nat)
      /\ FactsOf(revision, "sector_count") \in Seq(Nat)
      /\ FactsOf(revision, "antenna_install_height_m") \in Seq(Nat)
      /\ FactsOf(revision, "azimuths_deg") \in Seq(Seq(Nat))
  <2>1. CASE revision = 0
    BY <2>1 DEF FactsOf
  <2>2. CASE revision # 0
    <3> DEFINE F == [tower_height_m : Seq(Nat), sector_count : Seq(Nat),
                     antenna_install_height_m : Seq(Nat), azimuths_deg : Seq(Seq(Nat))]
    <3>1. Facts \in Seq(F)
      BY FactsAssumption
    <3>2. Facts[revision] \in F
      <4> HIDE DEF F
      <4> QED BY <2>2, <3>1, ElementOfSeq
    <3> QED BY <2>2, <3>2 DEF FactsOf
  <2> QED BY <2>1, <2>2
<1>6. /\ text.tower_height_m \in Statements(Nat) /\ text.sector_count \in Statements(Nat)
      /\ text.antenna_install_height_m \in Statements(Nat)
      /\ text.azimuths_deg \in Statements(Seq(Nat))
      /\ text.cables \in {"unsaid", "wanted", "declined"} /\ text.beamwidth_deg \in Nat
  BY <1>1 DEF IsText
<1> HIDE DEF whole
<1>a. /\ whole.tower_height_m = text.tower_height_m \o
                                AsStatements(FactsOf(revision, "tower_height_m"))
      /\ whole.sector_count = text.sector_count \o
                              AsStatements(FactsOf(revision, "sector_count"))
      /\ whole.antenna_install_height_m = text.antenna_install_height_m \o
                              AsStatements(FactsOf(revision, "antenna_install_height_m"))
      /\ whole.azimuths_deg = text.azimuths_deg \o
                              AsStatements(FactsOf(revision, "azimuths_deg"))
  BY <1>3 DEF Critical
<1>7. Joined(whole.tower_height_m, FactsOf(revision, "tower_height_m"), Nat)
  BY <1>a, <1>5, <1>6, AddedIsSaid, Zenon
<1>8. Joined(whole.sector_count, FactsOf(revision, "sector_count"), Nat)
  BY <1>a, <1>5, <1>6, AddedIsSaid, Zenon
<1>9. Joined(whole.antenna_install_height_m, FactsOf(revision, "antenna_install_height_m"), Nat)
  BY <1>a, <1>5, <1>6, AddedIsSaid, Zenon
<1>10. Joined(whole.azimuths_deg, FactsOf(revision, "azimuths_deg"), Seq(Nat))
  BY <1>a, <1>5, <1>6, AddedIsSaid, Zenon
<1> QED BY <1>4, <1>6, <1>7, <1>8, <1>9, <1>10 DEF whole, Told, Joined

\* The evidence of a field is a record of six parts.
IsEvidence(e) ==
    DOMAIN e = {"value", "source", "explicit", "defaulted", "conflict", "confirm"}

\* A field that is said has the value that was meant, one that is not its default
\* (requirement_provenance.py _resolve_candidates).
Says(e, stated, default, V) ==
    /\ IsEvidence(e)
    /\ stated = <<>> => /\ e.value = default /\ e.source = "default" /\ e.defaulted
                       /\ ~e.explicit /\ ~e.conflict /\ ~e.confirm
    /\ stated # <<>> => /\ e.value = Meant(stated) /\ e.value \in V
                       /\ e.source = "user_text" /\ ~e.defaulted /\ e.explicit = TRUE
                       /\ e.confirm = Unresolved(stated)

LEMMA ResolveSays ==
    ASSUME NEW V, NEW stated \in Statements(V), NEW default
    PROVE  Says(Resolve(stated, default), stated, default, V)
<1> DEFINE e == Resolve(stated, default)
<1>1. CASE stated = <<>>
  BY <1>1 DEF Resolve, Evidence, IsEvidence, Says
<1>2. CASE stated # <<>>
  <2>1. /\ IsEvidence(e) /\ e.value = stated[Chosen(stated)].value
        /\ e.source = "user_text" /\ ~e.defaulted /\ e.explicit = TRUE
        /\ e.confirm = Unresolved(stated)
    BY <1>2 DEF Resolve, Evidence, IsEvidence
  <2>2. /\ Len(stated) \in Nat /\ DOMAIN stated = 1 .. Len(stated) /\ 1 \in DOMAIN stated
        /\ \A i \in DOMAIN stated : stated[i].value \in V
    <3> DEFINE R == [value : V, late : BOOLEAN]
    <3>1. stated \in Seq(R) /\ \A x \in R : x.value \in V
      BY DEF Statements
    <3> HIDE DEF R
    <3>2. /\ Len(stated) \in Nat /\ DOMAIN stated = 1 .. Len(stated) /\ 1 \in DOMAIN stated
          /\ \A i \in DOMAIN stated : stated[i] \in R
      BY <1>2, <3>1
    <3> QED BY <3>1, <3>2
  <2>3. Corrections(stated) # {} => Max(Corrections(stated)) \in DOMAIN stated
    BY <2>2, MaxIs DEF Corrections
  <2>4. stated[Chosen(stated)].value = Meant(stated)
    BY <2>2, <2>3 DEF Chosen, Meant, Conflicting, Corrections
  <2>5. Chosen(stated) \in DOMAIN stated
    BY <2>2, <2>3 DEF Chosen
  <2> QED BY <1>2, <2>1, <2>2, <2>4, <2>5 DEF Says
<1> QED BY <1>1, <1>2

\* A conflict between two fields is noted in the evidence, which keeps the rest.
Noted(m, e, value, source, when) ==
    /\ IsEvidence(m)
    /\ m.value = value /\ m.source = source /\ m.explicit = e.explicit
    /\ m.defaulted = e.defaulted /\ m.confirm = (e.confirm \/ when)

LEMMA MarkedIs ==
    ASSUME NEW e, IsEvidence(e), NEW when
    PROVE  Noted([e EXCEPT !.conflict = @ \/ when, !.confirm = @ \/ when],
                 e, e.value, e.source, when)
BY DEF Noted, IsEvidence

\* Azimuths that do not match the sectors are replaced by even ones.
LEMMA ReplacedIs ==
    ASSUME NEW e, IsEvidence(e), NEW value
    PROVE  LET m == [[e EXCEPT !.value = value, !.source = "repair"]
                        EXCEPT !.conflict = @ \/ TRUE, !.confirm = @ \/ TRUE]
           IN  Noted(m, e, value, "repair", TRUE)
<1> DEFINE r == [e EXCEPT !.value = value, !.source = "repair"]
           m == [r EXCEPT !.conflict = @ \/ TRUE, !.confirm = @ \/ TRUE]
<1>2. IsEvidence(r) /\ r.value = value /\ r.source = "repair" /\ r.explicit = e.explicit
      /\ r.defaulted = e.defaulted /\ r.confirm = e.confirm
  BY DEF IsEvidence
<1> HIDE DEF r
<1>3. Noted(m, r, r.value, r.source, TRUE)
  BY <1>2, MarkedIs
<1> HIDE DEF m
<1>4. Noted(m, e, value, "repair", TRUE)
  BY <1>2, <1>3 DEF Noted
<1> QED BY <1>4 DEF m, r

\* The critical fields of a text.
Clear(text) == \A f \in Critical : ~ResolveCritical(text)[f].confirm

\* What the four critical fields say of the text they come from
\* (requirement_provenance.py resolve_critical_requirements).
LEMMA CriticalSays ==
    ASSUME NEW text, Told(text)
    PROVE  LET c == ResolveCritical(text) IN
           /\ DOMAIN c = Critical
           /\ \A f \in Critical :
                 /\ IsEvidence(c[f])
                 /\ text[f] = <<>> => ~c[f].explicit /\ c[f].source # "user_text"
                 /\ text[f] # <<>> => c[f].explicit = TRUE /\ ~c[f].defaulted
           /\ Clear(text) =>
                 /\ \A f \in Critical : text[f] # <<>> =>
                       c[f].value = Meant(text[f]) /\ ~Unresolved(text[f])
                 /\ c.antenna_install_height_m.value <= c.tower_height_m.value
                 /\ c.antenna_install_height_m.value \in Nat /\ c.tower_height_m.value \in Nat
                 /\ Len(c.azimuths_deg.value) = c.sector_count.value
<1> DEFINE tower    == Resolve(text.tower_height_m, 30)
           count    == Resolve(text.sector_count, 3)
           install  == Resolve(text.antenna_install_height_m, Min({24, tower.value}))
           azimuths == Resolve(text.azimuths_deg, Uniform(count.value))
           uneven   == Len(azimuths.value) # count.value
           tooHigh  == install.value > tower.value
           c        == ResolveCritical(text)
           least    == Min({24, tower.value})
<1>1. Says(tower, text.tower_height_m, 30, Nat) /\ tower.value \in Nat
  <2>1. Says(tower, text.tower_height_m, 30, Nat)
    BY ResolveSays, Zenon DEF Told
  <2> QED BY <2>1 DEF Says
<1>2. Says(count, text.sector_count, 3, Nat) /\ count.value \in Nat
  <2>1. Says(count, text.sector_count, 3, Nat)
    BY ResolveSays, Zenon DEF Told
  <2> QED BY <2>1 DEF Says
<1>3. Says(install, text.antenna_install_height_m, least, Nat) /\ install.value \in Nat
  <2>1. {24, tower.value} \in SUBSET Nat
    BY <1>1
  <2>2. least \in Nat
    BY <2>1, MinIs
  <2>3. Says(install, text.antenna_install_height_m, least, Nat)
    BY ResolveSays, Zenon DEF Told
  <2> QED BY <2>2, <2>3 DEF Says
<1>4. Says(azimuths, text.azimuths_deg, Uniform(count.value), Seq(Nat))
  BY ResolveSays, Zenon DEF Told
<1> DEFINE C == [count EXCEPT !.conflict = @ \/ uneven, !.confirm = @ \/ uneven]
           I == [install EXCEPT !.conflict = @ \/ tooHigh, !.confirm = @ \/ tooHigh]
           A == [[azimuths EXCEPT !.value = Uniform(count.value), !.source = "repair"]
                   EXCEPT !.conflict = @ \/ TRUE, !.confirm = @ \/ TRUE]
<1>5. /\ DOMAIN c = Critical
      /\ c.tower_height_m = tower
      /\ c.sector_count = C
      /\ c.antenna_install_height_m = I
      /\ ~uneven => c.azimuths_deg = azimuths
      /\ uneven => c.azimuths_deg = A
  BY DEF ResolveCritical, Critical
<1>6. Noted(C, count, count.value, count.source, uneven)
  BY <1>2, MarkedIs DEF Says
<1>7. Noted(I, install, install.value, install.source, tooHigh)
  BY <1>3, MarkedIs DEF Says
<1>8. Noted(A, azimuths, Uniform(count.value), "repair", TRUE)
  BY <1>4, ReplacedIs DEF Says
<1> HIDE DEF tower, count, install, azimuths, uneven, tooHigh, c, C, I, A, least
<1>9. ASSUME NEW f \in Critical
      PROVE  /\ IsEvidence(c[f])
             /\ text[f] = <<>> => ~c[f].explicit /\ c[f].source # "user_text"
             /\ text[f] # <<>> => c[f].explicit = TRUE /\ ~c[f].defaulted
  <2>1. CASE f = "tower_height_m"
    BY <2>1, <1>1, <1>5 DEF Says
  <2>2. CASE f = "sector_count"
    BY <2>2, <1>2, <1>5, <1>6 DEF Says, Noted
  <2>3. CASE f = "antenna_install_height_m"
    BY <2>3, <1>3, <1>5, <1>7 DEF Says, Noted
  <2>4. CASE f = "azimuths_deg"
    BY <2>4, <1>4, <1>5, <1>8 DEF Says, Noted
  <2> QED BY <2>1, <2>2, <2>3, <2>4 DEF Critical
<1>10. ASSUME \A f \in Critical : ~c[f].confirm
       PROVE  /\ \A f \in Critical : text[f] # <<>> =>
                    c[f].value = Meant(text[f]) /\ ~Unresolved(text[f])
              /\ c.antenna_install_height_m.value <= c.tower_height_m.value
              /\ c.antenna_install_height_m.value \in Nat /\ c.tower_height_m.value \in Nat
              /\ Len(c.azimuths_deg.value) = c.sector_count.value
  <2>1. ~tower.confirm /\ ~uneven /\ ~tooHigh /\ ~count.confirm /\ ~install.confirm
        /\ ~azimuths.confirm /\ c.azimuths_deg = azimuths
    BY <1>5, <1>6, <1>7, <1>8, <1>10 DEF Noted, Critical
  <2>2. ASSUME NEW f \in Critical, text[f] # <<>>
        PROVE  c[f].value = Meant(text[f]) /\ ~Unresolved(text[f])
    <3>1. CASE f = "tower_height_m"
      BY <3>1, <2>1, <2>2, <1>1, <1>5 DEF Says
    <3>2. CASE f = "sector_count"
      BY <3>2, <2>1, <2>2, <1>2, <1>5, <1>6 DEF Says, Noted
    <3>3. CASE f = "antenna_install_height_m"
      BY <3>3, <2>1, <2>2, <1>3, <1>5, <1>7 DEF Says, Noted
    <3>4. CASE f = "azimuths_deg"
      BY <3>4, <2>1, <2>2, <1>4, <1>5 DEF Says
    <3> QED BY <3>1, <3>2, <3>3, <3>4 DEF Critical
  <2>3. /\ c.antenna_install_height_m.value <= c.tower_height_m.value
        /\ c.antenna_install_height_m.value \in Nat /\ c.tower_height_m.value \in Nat
    BY <2>1, <1>1, <1>3, <1>5, <1>7 DEF Noted, tooHigh
  <2>4. Len(c.azimuths_deg.value) = c.sector_count.value
    BY <2>1, <1>5, <1>6 DEF Noted, uneven
  <2> QED BY <2>2, <2>3, <2>4
<1> QED BY <1>5, <1>9, <1>10 DEF Clear, c

\* Evidence that is aligned is about the value it stands beside, and says no more of the
\* text than it did (requirement_provenance.py align_evidence_with_repaired_values).
LEMMA AlignIs ==
    ASSUME NEW e, IsEvidence(e), NEW value
    PROVE  LET m == Align(e, value) IN
           /\ IsEvidence(m) /\ m.value = value
           /\ m.source = "user_text" => e.source = "user_text"
           /\ m.explicit = e.explicit /\ m.defaulted = e.defaulted /\ m.confirm = e.confirm
BY DEF Align, IsEvidence

\* The deterministic reading of a text: values that satisfy the contract, each beside
\* evidence about it that blames the text only for what it says
\* (requirement_parser.py parse_requirements_text).
WellRead(text, b) ==
    /\ \A f \in BriefFields : b.evidence[f].value = b.values[f] /\ IsEvidence(b.evidence[f])
    /\ \A f \in Critical :
          /\ b.evidence[f].source = "user_text" => text[f] # <<>>
          /\ text[f] # <<>> => b.evidence[f].explicit = TRUE /\ ~b.evidence[f].defaulted
          /\ text[f] = <<>> => ~b.evidence[f].explicit
          /\ f \in b.defaults => text[f] = <<>>
          /\ b.evidence[f].confirm = ResolveCritical(text)[f].confirm
    /\ \A f \in BriefFields \ Critical :
          /\ b.evidence[f].explicit = (f \notin b.defaults) /\ ~b.evidence[f].confirm
          /\ b.evidence[f].defaulted = (f \in b.defaults)
    /\ b.confirmation_fields = {} => Clear(text)

LEMMA BaselineIs ==
    ASSUME NEW text, Told(text)
    PROVE  WellRead(text, Baseline(text))
<1> DEFINE c == ResolveCritical(text)
           b == Baseline(text)
           v == TextValues(text, c)
           d == Defaulted(text, c)
<1>1. /\ b.values = v /\ b.defaults = d
      /\ b.confirmation_fields = {f \in Critical : c[f].confirm}
      /\ \A f \in Critical : b.evidence[f] = Align(c[f], v[f])
      /\ \A f \in BriefFields \ Critical : b.evidence[f] =
            Evidence(v[f], IF f \in d THEN "default" ELSE "user_text", f \notin d, FALSE, FALSE)
  BY DEF Baseline, BriefFields, Critical
<1>2. \A f \in Critical :
        /\ IsEvidence(c[f])
        /\ text[f] = <<>> => ~c[f].explicit /\ c[f].source # "user_text"
        /\ text[f] # <<>> => c[f].explicit = TRUE /\ ~c[f].defaulted
  BY CriticalSays
<1>3. \A f \in Critical : f \in d => ~c[f].explicit
  BY DEF Defaulted, Critical
<1> HIDE DEF c, b, v, d
<1>4. ASSUME NEW f \in Critical
      PROVE  /\ IsEvidence(b.evidence[f]) /\ b.evidence[f].value = b.values[f]
             /\ b.evidence[f].source = "user_text" => text[f] # <<>>
             /\ text[f] # <<>> => b.evidence[f].explicit = TRUE /\ ~b.evidence[f].defaulted
             /\ text[f] = <<>> => ~b.evidence[f].explicit
             /\ f \in b.defaults => text[f] = <<>>
             /\ b.evidence[f].confirm = c[f].confirm
  <2> DEFINE e == c[f]
             m == Align(e, v[f])
  <2>1. IsEvidence(e) /\ b.evidence[f] = m
    BY <1>1, <1>2
  <2>2. /\ IsEvidence(m) /\ m.value = v[f]
        /\ m.source = "user_text" => e.source = "user_text"
        /\ m.explicit = e.explicit /\ m.defaulted = e.defaulted /\ m.confirm = e.confirm
    BY <2>1, AlignIs
  <2> HIDE DEF m
  <2> QED BY <1>1, <1>2, <1>3, <2>1, <2>2
<1>5. ASSUME NEW f \in BriefFields \ Critical
      PROVE  /\ IsEvidence(b.evidence[f]) /\ b.evidence[f].value = b.values[f]
             /\ b.evidence[f].explicit = (f \notin b.defaults) /\ ~b.evidence[f].confirm
             /\ b.evidence[f].defaulted = (f \in b.defaults)
  <2> DEFINE source == IF f \in d THEN "default" ELSE "user_text"
             e      == b.evidence[f]
  <2>1. e = Evidence(v[f], source, f \notin d, FALSE, FALSE)
    BY <1>1
  <2>2. source = "default" <=> f \in d
    OBVIOUS
  <2> HIDE DEF source, e
  <2>3. /\ IsEvidence(e) /\ e.value = v[f] /\ e.explicit = (f \notin d) /\ ~e.confirm
        /\ e.defaulted = (source = "default")
    BY <2>1 DEF Evidence, IsEvidence
  <2> QED BY <1>1, <2>2, <2>3 DEF e
<1>6. b.confirmation_fields = {} => Clear(text)
  BY <1>1 DEF Clear, c
<1>7. \A f \in BriefFields : b.evidence[f].value = b.values[f] /\ IsEvidence(b.evidence[f])
  BY <1>4, <1>5
<1>8. /\ \A f \in Critical :
          /\ b.evidence[f].source = "user_text" => text[f] # <<>>
          /\ text[f] # <<>> => b.evidence[f].explicit = TRUE /\ ~b.evidence[f].defaulted
          /\ text[f] = <<>> => ~b.evidence[f].explicit
          /\ f \in b.defaults => text[f] = <<>>
          /\ b.evidence[f].confirm = c[f].confirm
    /\ \A f \in BriefFields \ Critical :
          /\ b.evidence[f].explicit = (f \notin b.defaults) /\ ~b.evidence[f].confirm
          /\ b.evidence[f].defaulted = (f \in b.defaults)
  BY <1>4, <1>5
<1> QED BY <1>6, <1>7, <1>8 DEF WellRead, c, b

-----------------------------------------------------------------------------
(* The merge of a model's answer.                                          *)

\* What every requirement read from a text keeps of the deterministic reading b.
Faithful(text, b, r, answer) ==
    /\ Valid(r.values)
    /\ \A f \in Protected(text, b) : r.values[f] = b.values[f]
    /\ r.defaults \subseteq b.defaults
    /\ r.confirmation_fields = b.confirmation_fields
    /\ r.values.include_cables \in BOOLEAN
    /\ \A f \in BriefFields :
          \/ r.evidence[f].value = r.values[f]
          \/ f \in answer.written \cup {"tower_characteristics"} /\ ~r.evidence[f].explicit
    /\ \A f \in Critical : r.evidence[f].source = "user_text" => text[f] # <<>>

\* A value after the merge is the answer's or the one that was read, but for the material of
\* a tower, and the one that was read where the text protects it (groq.py
\* _repair_and_validate).
LEMMA MergedFrom ==
    ASSUME NEW text, NEW b, NEW answer
    PROVE  LET m == Merged(text, b, answer) IN
           \A f \in BriefFields :
              /\ f # "tower_characteristics" => m[f] \in {Candidate(b, answer)[f], b.values[f]}
              /\ f \in Protected(text, b) => m[f] = b.values[f]
<1> DEFINE said     == Candidate(b, answer)
           restored == Restored(text, b, said)
           level    == Leveled(b, restored, answer.written)
           tower    == "tower_characteristics"
           From(v)  == \A f \in BriefFields :
                          /\ f # tower => v[f] \in {said[f], b.values[f]}
                          /\ f \in Protected(text, b) => v[f] = b.values[f]
<1> HIDE DEF said
<1>1. From(restored) /\ DOMAIN restored = BriefFields
  BY DEF Restored
<1> HIDE DEF restored
<1>2. \A f \in BriefFields : f # tower => level[f] \in {restored[f], b.values[f]}
  <2>1. {"azimuths_deg", "sector_count", "antenna_install_height_m"} \subseteq BriefFields
    BY DEF BriefFields, Critical
  <2>2. level.azimuths_deg \in {restored.azimuths_deg, b.values.azimuths_deg}
    BY <1>1, <2>1 DEF Leveled
  <2>3. level.sector_count \in {restored.sector_count, b.values.sector_count}
    BY <1>1, <2>1 DEF Leveled
  <2>4. level.antenna_install_height_m \in
           {restored.antenna_install_height_m, b.values.antenna_install_height_m}
    BY <1>1, <2>1 DEF Leveled
  <2>5. ASSUME NEW f \in BriefFields, f # tower,
               f \notin {"azimuths_deg", "sector_count", "antenna_install_height_m"}
        PROVE  level[f] = restored[f]
    BY <1>1, <2>5 DEF Leveled
  <2> HIDE DEF level
  <2> QED BY <2>2, <2>3, <2>4, <2>5
<1>3. tower \in Protected(text, b) => level[tower] = b.values[tower]
  <2>1. tower \in BriefFields
    BY DEF BriefFields
  <2>2. ASSUME tower \in Protected(text, b) PROVE level[tower] = b.values[tower]
    <3>1. restored[tower] = b.values[tower]
      BY <1>1, <2>1, <2>2
    <3>2. level[tower] = restored[tower]
      BY <1>1, <2>1, <3>1 DEF Leveled
    <3> QED BY <3>1, <3>2
  <2> QED BY <2>2
<1> HIDE DEF level
<1>4. From(level)
  BY <1>1, <1>2, <1>3
<1>5. From(Repaired(b, restored, answer.written))
  BY <1>4 DEF Repaired, level
<1> QED BY <1>1, <1>5 DEF Merged, restored, said

\* What a text does not protect, it did not say (groq.py _protect_explicit_source_fields).
LEMMA UnprotectedIsUnsaid ==
    ASSUME NEW text, NEW b, WellRead(text, b), NEW f \in BriefFields, f \notin Protected(text, b)
    PROVE  ~b.evidence[f].explicit
<1>1. CASE f \in Critical
  <2>1. SUFFICES ASSUME text[f] # <<>> PROVE FALSE
    BY <1>1 DEF WellRead
  <2>2. f \notin b.defaults /\ ~b.evidence[f].defaulted
    BY <1>1, <2>1 DEF WellRead
  <2> QED BY <2>2 DEF Protected
<1>2. CASE f \notin Critical
  <2>1. ~b.evidence[f].confirm
    BY <1>2 DEF WellRead
  <2> QED BY <2>1 DEF Protected
<1> QED BY <1>1, <1>2

\* An answer that is merged leaves a requirement of the contract, with the protected values
\* and evidence that is true (groq.py extract_requirements, _merge_llm_provenance).
LEMMA ExtractedIsFaithful ==
    ASSUME NEW text, Told(text), ~Unreadable(text), NEW answer, IsAnswer(answer),
           ~Rejected(text, Baseline(text), answer)
    PROVE  Faithful(text, Baseline(text), Extracted(text, answer), answer)
<1> DEFINE b == Baseline(text)
           m == Merged(text, b, answer)
           r == Extracted(text, answer)
<1>1. WellRead(text, b)
  BY BaselineIs
<1>2. /\ r.values = m /\ r.defaults = {f \in b.defaults : m[f] = b.values[f]}
      /\ r.evidence = MergedEvidence(b, m, answer)
      /\ r.confirmation_fields = b.confirmation_fields
  BY DEF Extracted, Baseline
<1>3. Valid(m)
  BY DEF Rejected
<1>4. \A f \in BriefFields :
         /\ f # "tower_characteristics" => m[f] \in {Candidate(b, answer)[f], b.values[f]}
         /\ f \in Protected(text, b) => m[f] = b.values[f]
  BY MergedFrom
<1>5. m.include_cables \in BOOLEAN
  <2>1. b.values.include_cables \in BOOLEAN
    BY DEF Baseline, TextValues, Included
  <2>2. Candidate(b, answer).include_cables \in BOOLEAN
    BY <2>1 DEF Candidate, IsAnswer, BriefFields
  <2> QED BY <1>4, <2>1, <2>2 DEF BriefFields
<1> HIDE DEF b, m, r
<1>6. ASSUME NEW f \in BriefFields
      PROVE  /\ \/ r.evidence[f].value = m[f]
                \/ f \in answer.written \cup {"tower_characteristics"} /\ ~r.evidence[f].explicit
             /\ r.evidence[f].source \in {"llm", b.evidence[f].source}
  <2> DEFINE said    == Candidate(b, answer)[f]
             e       == b.evidence[f]
             l       == [e EXCEPT !.value = said, !.source = "llm",
                                  !.explicit = FALSE, !.defaulted = FALSE]
             follows == f \notin Reworded(b, answer) /\ said = m[f] /\ said # e.value
  <2>1. IsEvidence(e) /\ e.value = b.values[f]
    BY <1>1 DEF WellRead
  <2>2. l.value = said /\ l.source = "llm"
    BY <2>1 DEF IsEvidence
  <2>3. IF follows THEN r.evidence[f] = l ELSE r.evidence[f] = e
    BY <1>2 DEF MergedEvidence
  <2>4. f \in Reworded(b, answer) => f \in answer.written \cup {"tower_characteristics"}
    BY DEF Reworded
  <2>5. m[f] = b.values[f] \/ ~e.explicit
    BY <1>1, <1>4, UnprotectedIsUnsaid
  <2> HIDE DEF said, e, l
  <2>6. CASE follows
    BY <2>2, <2>3, <2>6
  <2>7. CASE ~follows /\ f \in answer.written \cup {"tower_characteristics"}
    BY <2>1, <2>3, <2>5, <2>7 DEF e
  <2>8. CASE ~follows /\ f \notin answer.written \cup {"tower_characteristics"}
    BY <1>4, <2>1, <2>3, <2>4, <2>8 DEF said, e
  <2> QED BY <2>6, <2>7, <2>8
<1>7. \A f \in Protected(text, b) : f \in BriefFields
  BY DEF Protected, BriefFields, Critical, Named
<1>8. \A f \in Critical :
         f \in BriefFields /\ (b.evidence[f].source = "user_text" => text[f] # <<>>)
  BY <1>1 DEF WellRead, BriefFields
<1> QED BY <1>2, <1>3, <1>4, <1>5, <1>6, <1>7, <1>8 DEF Faithful, b, m, r

\* The deterministic reading is faithful to itself.
LEMMA BaselineIsFaithful ==
    ASSUME NEW text, Told(text), ~Unreadable(text), NEW r \in {Fallback(text), Deterministic(text)}
    PROVE  Faithful(text, Baseline(text), r, NoAnswer)
<1> DEFINE b == Baseline(text)
<1>1. WellRead(text, b)
  BY BaselineIs
<1>2. /\ r.values = b.values /\ r.defaults = b.defaults /\ r.evidence = b.evidence
      /\ r.confirmation_fields = b.confirmation_fields
  BY DEF Fallback, Deterministic, Baseline
<1>3. Valid(b.values)
  BY DEF Unreadable
<1>4. b.values.include_cables \in BOOLEAN
  BY DEF Baseline, TextValues, Included
<1> HIDE DEF b
<1> QED BY <1>1, <1>2, <1>3, <1>4 DEF Faithful, WellRead, BriefFields, b

\* What a requirement with nothing left to confirm takes from its text: the values that
\* were meant, in fields no hint may touch, and no contradiction between them
\* (groq.py _protect_explicit_source_fields, requirement_provenance.py).
Intended(text, r) ==
    LET v == r.values IN
    /\ \A f \in Critical : text[f] # <<>> => ~Unresolved(text[f]) /\ f \notin r.defaults
    /\ text.tower_height_m # <<>> => v.tower_height_m = Meant(text.tower_height_m)
    /\ text.sector_count # <<>> => v.sector_count = Meant(text.sector_count)
    /\ text.antenna_install_height_m # <<>> =>
          v.antenna_install_height_m = Meant(text.antenna_install_height_m)
    /\ text.azimuths_deg # <<>> => v.azimuths_deg = RepairAzimuths(Meant(text.azimuths_deg))
    /\ text.sector_count # <<>> /\ text.azimuths_deg # <<>> =>
          Len(Meant(text.azimuths_deg)) = Meant(text.sector_count)
    /\ text.tower_height_m # <<>> /\ text.antenna_install_height_m # <<>> =>
          Meant(text.antenna_install_height_m) <= Meant(text.tower_height_m)
    /\ text.tower_type # "unsaid" =>
          v.tower_characteristics.structure = StructureFor(text.tower_type)
    /\ text.beamwidth_deg # 0 =>
          v.beamwidth_deg = text.beamwidth_deg /\ "beamwidth_deg" \notin r.defaults
    /\ text.cables # "unsaid" => v.include_cables = (text.cables = "wanted")
    /\ text.gps = "gps" => v.include_gps_antenna = TRUE
    /\ text.platform = "wanted" => v.tower_characteristics.platforms = 1
    /\ text.platform = "declined" => v.tower_characteristics.platforms = 0

LEMMA FaithfulIsIntended ==
    ASSUME NEW text, Told(text), NEW r, NEW answer,
           Faithful(text, Baseline(text), r, answer), r.confirmation_fields = {}
    PROVE  Intended(text, r)
<1> DEFINE b == Baseline(text)
           c == ResolveCritical(text)
           v == TextValues(text, c)
<1>1. WellRead(text, b) /\ Faithful(text, b, r, answer)
  BY BaselineIs
<1>2. b.values = v /\ b.defaults = Defaulted(text, c)
  BY DEF Baseline
<1>3. Clear(text)
  BY <1>1 DEF Faithful, WellRead
<1>4. /\ \A f \in Critical : text[f] # <<>> =>
            c[f].value = Meant(text[f]) /\ ~Unresolved(text[f])
      /\ c.antenna_install_height_m.value <= c.tower_height_m.value
      /\ c.antenna_install_height_m.value \in Nat /\ c.tower_height_m.value \in Nat
      /\ Len(c.azimuths_deg.value) = c.sector_count.value
      /\ \A f \in Critical : ~c[f].confirm
  BY <1>3, CriticalSays DEF Clear
<1>5. ASSUME NEW f \in Critical, text[f] # <<>>
      PROVE  r.values[f] = b.values[f] /\ f \notin r.defaults
  <2>1. b.evidence[f].explicit = TRUE /\ ~b.evidence[f].confirm /\ f \notin b.defaults
    BY <1>1, <1>4, <1>5 DEF WellRead
  <2>2. f \in Protected(text, b)
    BY <2>1 DEF Protected, BriefFields
  <2> QED BY <1>1, <2>1, <2>2 DEF Faithful
<1>6. ASSUME NEW f \in BriefFields \ Critical, f \notin b.defaults
      PROVE  r.values[f] = b.values[f] /\ f \notin r.defaults /\ f \in Protected(text, b)
  <2>1. b.evidence[f].explicit = TRUE /\ ~b.evidence[f].confirm
    BY <1>1, <1>6 DEF WellRead
  <2>2. f \in Protected(text, b)
    BY <2>1 DEF Protected
  <2> QED BY <1>1, <2>1, <2>2, <1>6 DEF Faithful
<1>7. /\ v.tower_height_m = c.tower_height_m.value /\ v.sector_count = c.sector_count.value
      /\ v.antenna_install_height_m = RepairHeight(c.antenna_install_height_m.value,
                                                   c.tower_height_m.value)
      /\ v.azimuths_deg = RepairAzimuths(c.azimuths_deg.value)
      /\ text.beamwidth_deg # 0 => v.beamwidth_deg = text.beamwidth_deg
      /\ v.include_cables = Included(text.cables)
      /\ v.include_gps_antenna = (text.gps = "gps")
      /\ text.tower_type # "unsaid" =>
            v.tower_characteristics.structure = StructureFor(text.tower_type)
      /\ v.tower_characteristics.platforms = IF text.platform = "wanted" THEN 1 ELSE 0
  BY DEF TextValues, Characteristics
<1>8. /\ text.beamwidth_deg # 0 => "beamwidth_deg" \notin b.defaults
      /\ text.cables # "unsaid" => "include_cables" \notin b.defaults
      /\ text.tower_type # "unsaid" => "tower_type" \notin b.defaults
      /\ text.platform # "unsaid" => "tower_characteristics" \notin b.defaults
      /\ "include_gps_antenna" \notin b.defaults
  BY <1>2 DEF Defaulted, Critical
<1>9. text.tower_type # "unsaid" =>
        r.values.tower_characteristics = b.values.tower_characteristics
  <2>1. SUFFICES ASSUME text.tower_type # "unsaid"
                 PROVE  "tower_characteristics" \in Protected(text, b)
    BY <1>1 DEF Faithful
  <2>2. "tower_type" \in BriefFields \ Critical
    BY DEF BriefFields, Critical
  <2>3. "tower_type" \notin b.defaults
    BY <1>8, <2>1
  <2>4. b.evidence["tower_type"].explicit = TRUE /\ ~b.evidence["tower_type"].confirm
    BY <1>1, <2>2, <2>3 DEF WellRead
  <2> QED BY <2>2, <2>4 DEF Protected
<1>10. /\ text.platform # "unsaid" =>
            r.values.tower_characteristics = b.values.tower_characteristics
       /\ text.beamwidth_deg # 0 =>
            r.values.beamwidth_deg = b.values.beamwidth_deg /\ "beamwidth_deg" \notin r.defaults
       /\ text.cables # "unsaid" => r.values.include_cables = b.values.include_cables
       /\ r.values.include_gps_antenna = b.values.include_gps_antenna
  <2>1. {"tower_characteristics", "beamwidth_deg", "include_cables", "include_gps_antenna"}
           \subseteq BriefFields \ Critical
    BY DEF BriefFields, Critical
  <2> QED BY <1>6, <1>8, <2>1
<1> HIDE DEF b, c, v
<1>11. /\ \A f \in Critical : text[f] # <<>> => ~Unresolved(text[f]) /\ f \notin r.defaults
       /\ text.tower_height_m # <<>> => r.values.tower_height_m = Meant(text.tower_height_m)
       /\ text.sector_count # <<>> => r.values.sector_count = Meant(text.sector_count)
       /\ text.azimuths_deg # <<>> =>
            r.values.azimuths_deg = RepairAzimuths(Meant(text.azimuths_deg))
  BY <1>2, <1>4, <1>5, <1>7 DEF Critical
<1>12. text.antenna_install_height_m # <<>> =>
          r.values.antenna_install_height_m = Meant(text.antenna_install_height_m)
  <2>1. ~(c.antenna_install_height_m.value > c.tower_height_m.value)
    BY <1>4
  <2> QED BY <2>1, <1>2, <1>4, <1>5, <1>7 DEF Critical, RepairHeight
<1>13. /\ text.sector_count # <<>> /\ text.azimuths_deg # <<>> =>
            Len(Meant(text.azimuths_deg)) = Meant(text.sector_count)
       /\ text.tower_height_m # <<>> /\ text.antenna_install_height_m # <<>> =>
            Meant(text.antenna_install_height_m) <= Meant(text.tower_height_m)
  BY <1>4 DEF Critical
<1>14. /\ text.tower_type # "unsaid" =>
            r.values.tower_characteristics.structure = StructureFor(text.tower_type)
       /\ text.beamwidth_deg # 0 =>
            r.values.beamwidth_deg = text.beamwidth_deg /\ "beamwidth_deg" \notin r.defaults
       /\ text.gps = "gps" => r.values.include_gps_antenna = TRUE
       /\ text.platform = "wanted" => r.values.tower_characteristics.platforms = 1
       /\ text.platform = "declined" => r.values.tower_characteristics.platforms = 0
  BY <1>2, <1>7, <1>9, <1>10
<1>15. text.cables # "unsaid" => r.values.include_cables = (text.cables = "wanted")
  BY <1>2, <1>7, <1>10 DEF Included, Told
<1> QED BY <1>11, <1>12, <1>13, <1>14, <1>15 DEF Intended

-----------------------------------------------------------------------------
(* Components inside one another.                                          *)

\* The list after each of its requests was looked at (groq.py
\* _compose_nested_geometry_requests): the recursion has a solution, by the least length
\* for which it would have none.
FirstState(requests) == [received |-> requests, composed |-> requests, consumed |-> {}]

StepOf(requests, f, n) ==
    IF n = 0 THEN FirstState(requests) ELSE Compose(f[n - 1], requests[n])

LEMMA ComposingUnfolds ==
    ASSUME NEW S, NEW requests \in Seq(S)
    PROVE  LET after == Composing(requests) IN
           /\ after[0] = FirstState(requests)
           /\ \A n \in 1 .. Len(requests) : after[n] = Compose(after[n - 1], requests[n])
<1> DEFINE N          == Len(requests)
           Solves(f, k) == f = [n \in 0 .. k |-> StepOf(requests, f, n)]
           Fails      == {k \in 0 .. N : ~(\E f : Solves(f, k))}
           after      == Composing(requests)
<1>1. after = CHOOSE f : f = [n \in 0 .. N |-> StepOf(requests, f, n)]
  BY DEF Composing, StepOf, FirstState
<1>2. N \in Nat
  OBVIOUS
<1> HIDE DEF N, after
<1>3. Fails = {}
  <2>1. SUFFICES ASSUME Fails # {} PROVE FALSE
    OBVIOUS
  <2>2. PICK k \in Fails : \A j \in Fails : k <= j
    <3>1. Fails \in SUBSET Nat
      BY <1>2
    <3> HIDE DEF Fails
    <3> QED BY <2>1, <3>1, LeastIs
  <2>3. k \in 0 .. N /\ ~(\E f : Solves(f, k))
    OBVIOUS
  <2>4. k # 0
    <3> DEFINE f == [n \in 0 .. 0 |-> FirstState(requests)]
    <3>1. f = [n \in 0 .. 0 |-> StepOf(requests, f, n)]
      BY DEF StepOf
    <3>2. Solves(f, 0)
      BY <3>1
    <3> QED BY <2>3, <3>2
  <2>5. PICK g : g = [n \in 0 .. k - 1 |-> StepOf(requests, g, n)]
    <3>1. k - 1 \in 0 .. N /\ k - 1 \notin Fails
      BY <1>2, <2>2, <2>3, <2>4
    <3> QED BY <3>1
  <2> DEFINE f == [n \in 0 .. k |-> IF n = k THEN Compose(g[k - 1], requests[k]) ELSE g[n]]
  <2>6. k - 1 \in 0 .. k /\ k - 1 # k /\ k \in Nat
    BY <1>2, <2>3, <2>4
  <2>7. \A n \in 0 .. k : n # k => n \in 0 .. k - 1 /\ f[n] = g[n]
    BY <2>6
  <2>8. ASSUME NEW n \in 0 .. k PROVE f[n] = StepOf(requests, f, n)
    <3>1. CASE n = k
      <4>1. f[k - 1] = g[k - 1]
        BY <2>6
      <4>2. f[n] = Compose(g[k - 1], requests[k])
        BY <3>1
      <4> HIDE DEF f
      <4> QED BY <3>1, <2>4, <4>1, <4>2 DEF StepOf
    <3>2. CASE n # k /\ n # 0
      <4>1. n \in 0 .. k - 1 /\ n - 1 \in 0 .. k /\ n - 1 # k
        BY <3>2, <2>6
      <4>2. f[n] = g[n] /\ f[n - 1] = g[n - 1]
        BY <2>7, <3>2, <4>1
      <4>3. g[n] = StepOf(requests, g, n)
        BY <2>5, <4>1
      <4> HIDE DEF f
      <4> QED BY <3>2, <4>2, <4>3 DEF StepOf
    <3>3. CASE n # k /\ n = 0
      <4>1. f[n] = g[n] /\ n \in 0 .. k - 1
        BY <2>7, <3>3
      <4>2. g[n] = StepOf(requests, g, n)
        BY <2>5, <4>1
      <4> HIDE DEF f
      <4> QED BY <3>3, <4>1, <4>2 DEF StepOf
    <3> QED BY <3>1, <3>2, <3>3
  <2>9. f = [n \in 0 .. k |-> f[n]]
    OBVIOUS
  <2> HIDE DEF f
  <2>10. Solves(f, k)
    BY <2>8, <2>9
  <2> QED BY <2>3, <2>10
<1>4. \E f : f = [n \in 0 .. N |-> StepOf(requests, f, n)]
  BY <1>2, <1>3
<1>5. after = [n \in 0 .. N |-> StepOf(requests, after, n)]
  BY <1>1, <1>4
<1>6. \A n \in 0 .. N : after[n] = StepOf(requests, after, n)
  BY <1>5
<1>7. /\ after[0] = FirstState(requests)
      /\ \A n \in 1 .. N : after[n] = Compose(after[n - 1], requests[n])
  BY <1>2, <1>6 DEF StepOf
<1> QED BY <1>7 DEF after, N

\* What is always so of the state of the composition: a request that was consumed named its
\* host, whose description now covers it.
Nesting(requests, st) ==
    /\ DOMAIN st = {"received", "composed", "consumed"} /\ st.received = requests
    /\ DOMAIN st.composed = DOMAIN requests
    /\ \A i \in DOMAIN requests :
          /\ "parts" \in DOMAIN st.composed[i]
          /\ requests[i].id \in st.composed[i].parts
          /\ requests[i].id \in st.consumed =>
                \E h \in DOMAIN requests :
                   /\ requests[h].id \in requests[i].inside
                   /\ requests[i].id \in st.composed[h].parts

\* Requests of which no two ask for the same component.
Asked(requests) ==
    /\ \A i \in DOMAIN requests :
          "parts" \in DOMAIN requests[i] /\ requests[i].id \in requests[i].parts
    /\ \A i, j \in DOMAIN requests : i # j => requests[i].id # requests[j].id

LEMMA ComposeKeepsNesting ==
    ASSUME NEW requests, Asked(requests), NEW st, Nesting(requests, st),
           NEW n \in DOMAIN requests
    PROVE  Nesting(requests, Compose(st, requests[n]))
<1> DEFINE child == requests[n]
           hosts == HostsOf(child, st.received, st.consumed)
           host  == CHOOSE i \in hosts : TRUE
           t     == [st EXCEPT !.composed[host].parts = @ \cup child.parts,
                               !.consumed = @ \cup {child.id}]
<1>1. CASE Cardinality(hosts) # 1
  BY <1>1 DEF Compose
<1>2. CASE Cardinality(hosts) = 1
  <2>1. hosts # {}
    BY <1>2, FS_EmptySet
  <2>2. host \in hosts
    BY <2>1, SMTT(30)
  <2>3. host \in DOMAIN requests /\ requests[host].id \in child.inside
    BY <2>2 DEF HostsOf, Nesting
  <2>4. Compose(st, child) = t
    BY <1>2 DEF Compose
  <2> HIDE DEF host, hosts
  <2>5. /\ DOMAIN t = DOMAIN st /\ t.received = st.received
        /\ t.consumed = st.consumed \cup {child.id}
        /\ t.composed = [st.composed EXCEPT ![host].parts = @ \cup child.parts]
    BY DEF Nesting
  <2> HIDE DEF t
  <2>6. /\ DOMAIN t.composed = DOMAIN requests
        /\ \A i \in DOMAIN requests : i # host => t.composed[i] = st.composed[i]
        /\ DOMAIN t.composed[host] = DOMAIN st.composed[host]
        /\ t.composed[host].parts = st.composed[host].parts \cup child.parts
    BY <2>3, <2>5 DEF Nesting
  <2>7. \A i \in DOMAIN requests :
          /\ "parts" \in DOMAIN t.composed[i]
          /\ st.composed[i].parts \subseteq t.composed[i].parts
    BY <2>6 DEF Nesting
  <2>8. ASSUME NEW i \in DOMAIN requests, requests[i].id \in t.consumed
        PROVE  \E h \in DOMAIN requests :
                  /\ requests[h].id \in requests[i].inside
                  /\ requests[i].id \in t.composed[h].parts
    <3>1. CASE requests[i].id \in st.consumed
      BY <3>1, <2>7 DEF Nesting
    <3>2. CASE requests[i].id = child.id
      <4>1. i = n
        BY <3>2 DEF Asked
      <4>2. requests[i].id \in t.composed[host].parts
        BY <4>1, <2>6 DEF Asked
      <4> QED BY <4>1, <4>2, <2>3
    <3> QED BY <3>1, <3>2, <2>5, <2>8
  <2> QED BY <2>4, <2>5, <2>6, <2>7, <2>8 DEF Nesting
<1> QED BY <1>1, <1>2

\* Every component asked for is left in the list, by itself or in the description of its
\* host, unless that host is itself inside another.
Surviving(asked, kept) ==
    \A i \in DOMAIN asked :
       \/ \E j \in DOMAIN asked : asked[j].id \in asked[i].inside /\ asked[j].inside # {}
       \/ \E k \in DOMAIN kept : asked[i].id \in kept[k].parts

LEMMA ComposedSurvive ==
    ASSUME NEW S, NEW requests \in Seq(S), Asked(requests)
    PROVE  Surviving(requests, ComposeNested(requests))
<1> DEFINE N     == Len(requests)
           after == Composing(requests)
           Fails == {n \in 0 .. N : ~Nesting(requests, after[n])}
           end   == after[N]
<1>1. N \in Nat /\ DOMAIN requests = 1 .. N
  OBVIOUS
<1>2. /\ after[0] = FirstState(requests)
      /\ \A n \in 1 .. N : after[n] = Compose(after[n - 1], requests[n])
  BY ComposingUnfolds
<1>3. ComposeNested(requests) =
        [i \in {j \in DOMAIN requests : requests[j].id \notin end.consumed} |-> end.composed[i]]
  BY DEF ComposeNested
<1> HIDE DEF after, N
<1>4. Fails = {}
  <2>1. SUFFICES ASSUME Fails # {} PROVE FALSE
    OBVIOUS
  <2>2. PICK k \in Fails : \A j \in Fails : k <= j
    <3>1. Fails \in SUBSET Nat
      BY <1>1
    <3> HIDE DEF Fails
    <3> QED BY <2>1, <3>1, LeastIs
  <2>3. k # 0
    BY <1>2, <2>2 DEF Nesting, FirstState, Asked
  <2>4. k \in 1 .. N /\ k - 1 \in 0 .. N /\ k - 1 \notin Fails
    BY <1>1, <2>2, <2>3
  <2>5. Nesting(requests, after[k - 1])
    BY <2>4
  <2>6. Nesting(requests, Compose(after[k - 1], requests[k]))
    BY <1>1, <2>4, <2>5, ComposeKeepsNesting
  <2> QED BY <1>2, <2>2, <2>4, <2>6
<1>5. Nesting(requests, end)
  BY <1>1, <1>4
<1> HIDE DEF end
<1>6. ASSUME NEW i \in DOMAIN requests,
             \A j \in DOMAIN requests :
                requests[j].id \in requests[i].inside => requests[j].inside = {}
      PROVE  \E k \in DOMAIN requests :
                requests[k].id \notin end.consumed /\ requests[i].id \in end.composed[k].parts
  <2>1. CASE requests[i].id \notin end.consumed
    BY <2>1, <1>5 DEF Nesting
  <2>2. CASE requests[i].id \in end.consumed
    <3>1. PICK h \in DOMAIN requests :
             requests[h].id \in requests[i].inside /\ requests[i].id \in end.composed[h].parts
      BY <2>2, <1>5 DEF Nesting
    <3>2. requests[h].inside = {}
      BY <1>6, <3>1
    <3>3. requests[h].id \notin end.consumed
      BY <3>2, <1>5 DEF Nesting
    <3> QED BY <3>1, <3>3
  <2> QED BY <2>1, <2>2
<1> QED BY <1>3, <1>6 DEF Surviving

-----------------------------------------------------------------------------
(* What is read, what a hint decides, what is chosen.                      *)

\* The contract of a requirement, where the proofs need it (contracts/requirements.py).
LEMMA ValidSays ==
    ASSUME NEW v, Valid(v)
    PROVE  /\ v.tower_height_m \in 1 .. 150 /\ v.antenna_install_height_m \in 1 .. 150
           /\ v.sector_count \in 1 .. 12 /\ Len(v.azimuths_deg) = v.sector_count
           /\ v.antenna_install_height_m <= v.tower_height_m
           /\ v.tower_characteristics.platforms \in 0 .. 12
<1>1. /\ FieldValid("tower_height_m", v) /\ FieldValid("antenna_install_height_m", v)
      /\ FieldValid("sector_count", v) /\ FieldValid("tower_characteristics", v)
      /\ Consistent(v)
  BY DEF Valid, BriefFields, Critical
<1> QED BY <1>1 DEF FieldValid, Consistent

\* A requirement and the answer it was read with, for a text: the components asked for are
\* left, or were given up with a warning.
Sound(text, r, answer) ==
    /\ Faithful(text, Baseline(text), r, answer)
    /\ \/ Surviving(answer.requests, r.requests)
       \/ ~RequestsValid(answer.requests) /\ "LLM_FIELD_REPAIRED" \in r.warnings

\* Whatever the extractor returns for a text is sound (requirement_extractor.py).
LEMMA ReadIsSound ==
    ASSUME NEW text, Told(text), NEW read \in Readings(text)
    PROVE  Sound(text, read.requirement, read.answer)
<1>1. ~Unreadable(text)
  BY DEF Readings
<1>2. \/ \E a \in Answers : /\ ~Rejected(text, Baseline(text), a)
                            /\ read = [requirement |-> Extracted(text, a), answer |-> a]
      \/ \E r \in {Fallback(text), Deterministic(text)} :
            read = [requirement |-> r, answer |-> NoAnswer]
  BY <1>1 DEF Readings
<1>3. CASE \E a \in Answers : /\ ~Rejected(text, Baseline(text), a)
                             /\ read = [requirement |-> Extracted(text, a), answer |-> a]
  <2>1. PICK a \in Answers : /\ ~Rejected(text, Baseline(text), a)
                             /\ read = [requirement |-> Extracted(text, a), answer |-> a]
    BY <1>3
  <2>2. IsAnswer(a) /\ read.requirement = Extracted(text, a) /\ read.answer = a
    BY <2>1, AnswersAssumption
  <2>3. Faithful(text, Baseline(text), Extracted(text, a), a)
    BY <1>1, <2>1, <2>2, ExtractedIsFaithful
  <2>4. CASE RequestsValid(a.requests)
    <3>0. RequestsKept(a) = a.requests
      BY <2>4 DEF RequestsKept
    <3>1. Asked(a.requests)
      <4> DEFINE R == [id : STRING, inside : SUBSET STRING, quantity : Nat, sound : BOOLEAN,
                       parts : SUBSET STRING]
      <4>1. a.requests \in Seq(R) /\ \A x \in R : "parts" \in DOMAIN x
        BY <2>2 DEF IsAnswer
      <4> HIDE DEF R
      <4>2. \A i \in DOMAIN a.requests : a.requests[i] \in R
        BY <4>1
      <4>3. \A i \in DOMAIN a.requests : "parts" \in DOMAIN a.requests[i]
        BY <4>1, <4>2
      <4> QED BY <2>1, <2>2, <3>0, <4>3 DEF Asked, IsAnswer, Rejected
    <3>2. Surviving(a.requests, ComposeNested(a.requests))
      BY <2>2, <3>1, ComposedSurvive DEF IsAnswer
    <3>3. Extracted(text, a).requests = ComposeNested(a.requests)
      BY <3>0 DEF Extracted, Baseline
    <3> QED BY <2>2, <2>3, <3>2, <3>3 DEF Sound
  <2>5. CASE ~RequestsValid(a.requests)
    <3>1. "LLM_FIELD_REPAIRED" \in Extracted(text, a).warnings
      BY <2>5 DEF Extracted, Baseline, Repairing
    <3> QED BY <2>2, <2>3, <2>5, <3>1 DEF Sound
  <2> QED BY <2>4, <2>5
<1>4. CASE \E r \in {Fallback(text), Deterministic(text)} :
             read = [requirement |-> r, answer |-> NoAnswer]
  <2>1. PICK r \in {Fallback(text), Deterministic(text)} :
           read = [requirement |-> r, answer |-> NoAnswer]
    BY <1>4
  <2>2. Faithful(text, Baseline(text), r, NoAnswer)
    BY <1>1, BaselineIsFaithful
  <2>3. Surviving(NoAnswer.requests, r.requests)
    BY DEF Surviving, NoAnswer
  <2> QED BY <2>1, <2>2, <2>3 DEF Sound
<1> QED BY <1>2, <1>3, <1>4

\* What planning may change: a field that was inferred, to the value of a hint that may
\* speak of it (rag/planning.py, llm/planning_decision.py).
Authorised(r, hints, chosen) ==
    \A f \in PlanningFields :
       \/ chosen[f] = r.values[f]
       \/ /\ f \in r.defaults
          /\ \E i \in Candidates(hints, r) : hints[i].field = f /\ hints[i].value = chosen[f]

LEMMA PicksAreAuthorised ==
    ASSUME NEW hints \in Knowledge \cup {<<>>}, NEW r, NEW asked \in BOOLEAN,
           NEW pick \in Picks(hints, r, asked)
    PROVE  Authorised(r, hints, Resolution(pick, hints, r))
<1>1. Len(hints) \in Nat /\ DOMAIN hints = 1 .. Len(hints)
  BY KnowledgeAssumption
<1>2. Candidates(hints, r) \in SUBSET Nat /\ 0 \notin Candidates(hints, r)
  BY <1>1 DEF Candidates
<1>3. \A f \in PlanningFields : pick[f] \in Selectable(f, hints, r)
  <2>1. CASE pick = KeepCurrent
    BY <2>1 DEF KeepCurrent, Selectable
  <2>2. CASE pick = RankedPick(hints, r)
    <3>1. SUFFICES ASSUME NEW f \in PlanningFields PROVE pick[f] \in Selectable(f, hints, r)
      OBVIOUS
    <3> DEFINE mine == {i \in Candidates(hints, r) : hints[i].field = f}
    <3>2. CASE mine = {} \/ f \notin Inferred(r)
      BY <2>2, <3>2 DEF RankedPick, Selectable
    <3>3. CASE mine # {} /\ f \in Inferred(r)
      <4>1. mine \in SUBSET Nat
        BY <1>2
      <4>2. pick[f] = Min(mine)
        BY <2>2, <3>3 DEF RankedPick
      <4> HIDE DEF mine
      <4>3. Min(mine) \in mine
        BY <3>3, <4>1, MinIs
      <4> QED BY <3>3, <4>2, <4>3 DEF Selectable, mine
    <3> QED BY <3>2, <3>3
  <2>3. CASE Bounded(pick, hints, r)
    BY <2>3 DEF Bounded
  <2> QED BY <2>1, <2>2, <2>3 DEF Picks
<1>4. ASSUME NEW f \in PlanningFields
      PROVE  \/ Resolution(pick, hints, r)[f] = r.values[f]
             \/ /\ f \in r.defaults
                /\ \E i \in Candidates(hints, r) :
                      hints[i].field = f /\ hints[i].value = Resolution(pick, hints, r)[f]
  <2>1. pick[f] = 0 \/ /\ pick[f] \in Candidates(hints, r) /\ hints[pick[f]].field = f
                       /\ f \in r.defaults
    BY <1>3 DEF Selectable, Inferred
  <2> QED BY <1>2, <2>1 DEF Resolution
<1> QED BY <1>4 DEF Authorised

\* A finite set of natural numbers has a greatest one.
LEMMA GreatestIs ==
    ASSUME NEW S \in SUBSET Nat, S # {}, IsFiniteSet(S)
    PROVE  \E x \in S : \A y \in S : y <= x
<1> DEFINE Has(T)  == \E x \in T : \A y \in T : y <= x
           Bad(k)  == \E T \in SUBSET Nat :
                         T # {} /\ IsFiniteSet(T) /\ Cardinality(T) = k /\ ~Has(T)
           Fails   == {k \in Nat : Bad(k)}
<1>1. Fails = {}
  <2>1. SUFFICES ASSUME Fails # {} PROVE FALSE
    OBVIOUS
  <2>2. PICK k \in Fails : \A j \in Fails : k <= j
    <3>1. Fails \in SUBSET Nat
      OBVIOUS
    <3> HIDE DEF Fails
    <3> QED BY <2>1, <3>1, LeastIs
  <2>3. PICK T \in SUBSET Nat :
           T # {} /\ IsFiniteSet(T) /\ Cardinality(T) = k /\ ~Has(T)
    BY <2>2
  <2>4. PICK x \in T : TRUE
    BY <2>3
  <2> DEFINE U == T \ {x}
  <2>5. IsFiniteSet(U) /\ Cardinality(U) = k - 1 /\ k - 1 \in Nat /\ U \in SUBSET Nat
    <3>1. IsFiniteSet(U) /\ Cardinality(U) = k - 1
      BY <2>3, <2>4, FS_RemoveElement
    <3>2. Cardinality(U) \in Nat
      BY <3>1, FS_CardinalityType
    <3> QED BY <3>1, <3>2
  <2>6. CASE U = {}
    <3>1. \A y \in T : y = x
      BY <2>6
    <3> QED BY <2>3, <2>4, <3>1
  <2>7. CASE U # {}
    <3>1. ~Bad(k - 1)
      <4>1. k \in Nat /\ ~(k <= k - 1)
        OBVIOUS
      <4>2. k - 1 \notin Fails
        BY <2>2, <4>1
      <4> HIDE DEF Bad
      <4> QED BY <2>5, <4>2
    <3>2. Has(U)
      BY <2>5, <2>7, <3>1
    <3>3. PICK m \in U : \A y \in U : y <= m
      BY <3>2
    <3>4. m \in Nat /\ x \in Nat /\ m \in T
      BY <2>3, <2>4, <3>3
    <3>5. CASE m <= x
      <4>1. \A y \in T : y <= x
        BY <2>3, <3>3, <3>4, <3>5
      <4> QED BY <2>3, <4>1
    <3>6. CASE x <= m
      <4>1. \A y \in T : y <= m
        BY <2>3, <3>3, <3>4, <3>6
      <4> QED BY <2>3, <3>4, <4>1
    <3> QED BY <3>4, <3>5, <3>6
  <2> QED BY <2>6, <2>7
<1>2. Cardinality(S) \in Nat
  BY FS_CardinalityType
<1>3. ~Bad(Cardinality(S))
  BY <1>1, <1>2
<1> QED BY <1>3

\* The support and the antenna that are chosen: of the type asked for, or fitting it, when
\* the catalogue has one (asset_registry.py select_*_fallback).
Near(catalogue, r, assets) ==
    LET type  == r.values.tower_type
        tower == assets["tower"]
    IN  /\ OfTowerType(catalogue, "tower", type) # {} => Fits(tower, type)
        /\ \E t \in IF tower.towers = {} THEN {type} ELSE tower.towers :
              OfTowerType(catalogue, "antenna", t) # {} => Fits(assets["antenna"], t)

\* An assembly is chosen among what fits.
LEMMA AssembledIsNear ==
    ASSUME NEW catalogue, NEW r, NEW assets \in Assemblies(catalogue, r)
    PROVE  Near(catalogue, r, assets)
<1> DEFINE type == r.values.tower_type
<1>1. {"tower", "antenna"} \subseteq RequiredSlots(r)
  BY DEF RequiredSlots
<1>2. Fits(assets["tower"], type) /\ Fits(assets["antenna"], type)
  BY <1>1 DEF Assemblies, Compatible
<1>3. type \in IF assets["tower"].towers = {} THEN {type} ELSE assets["tower"].towers
  BY <1>2 DEF Fits
<1> QED BY <1>2, <1>3 DEF Near

\* The closest tower is of the type asked for when there is one.
LEMMA FallbackTowerIs ==
    ASSUME NEW catalogue \in Catalogues, NEW r, \E a \in catalogue : a.type = "tower"
    PROVE  OfTowerType(catalogue, "tower", r.values.tower_type) # {} =>
              r.values.tower_type \in FallbackTower(catalogue, r).towers
<1> DEFINE type   == r.values.tower_type
           towers == {a \in catalogue : a.type = "tower"}
           tall   == {a \in towers : TypeDistance(a, type) = 0
                                       /\ a.height >= r.values.tower_height_m}
           Closer(a, b) == \/ TypeDistance(a, type) < TypeDistance(b, type)
                           \/ /\ TypeDistance(a, type) = TypeDistance(b, type)
                              /\ a.height >= b.height
           exact  == {a \in towers : TypeDistance(a, type) = 0}
           chosen == FallbackTower(catalogue, r)
<1>1. SUFFICES ASSUME OfTowerType(catalogue, "tower", type) # {}
               PROVE  TypeDistance(chosen, type) = 0
  BY DEF TypeDistance
<1>2. exact # {}
  BY <1>1 DEF OfTowerType, TypeDistance
<1>3. IsFiniteSet(exact) /\ \A a \in exact : a.height \in Nat
  BY CataloguesAssumption, FS_Subset
<1>4. \A a \in towers : TypeDistance(a, type) \in {0, 2}
  BY DEF TypeDistance
<1>5. CASE tall # {}
  <2>1. \E a \in tall : \A b \in tall : a.height <= b.height
    <3> DEFINE H == {a.height : a \in tall}
    <3>1. H \in SUBSET Nat /\ H # {}
      BY <1>3, <1>5
    <3>2. PICK h \in H : \A k \in H : h <= k
      <4> HIDE DEF H
      <4> QED BY <3>1, LeastIs
    <3> QED BY <3>2
  <2>2. chosen = CHOOSE a \in tall : \A b \in tall : a.height <= b.height
    BY <1>5 DEF FallbackTower
  <2>3. chosen \in tall
    <3> HIDE DEF tall, chosen
    <3> QED BY <2>1, <2>2
  <2> QED BY <2>3
<1>6. CASE tall = {}
  <2>1. \E a \in towers : \A b \in towers : Closer(a, b)
    <3> DEFINE H == {a.height : a \in exact}
    <3>1. H \in SUBSET Nat /\ H # {} /\ IsFiniteSet(H)
      <4> DEFINE height == [a \in exact |-> a.height]
      <4>1. H = {height[a] : a \in exact}
        OBVIOUS
      <4>2. height \in Surjection(exact, H)
        BY <4>1 DEF Surjection
      <4>3. IsFiniteSet(H)
        BY <1>3, <4>2, FS_Surjection
      <4> QED BY <1>2, <1>3, <4>3
    <3>2. PICK h \in H : \A k \in H : k <= h
      <4> HIDE DEF H
      <4> QED BY <3>1, GreatestIs
    <3>3. PICK a \in exact : a.height = h
      OBVIOUS
    <3>4. ASSUME NEW b \in towers PROVE Closer(a, b)
      <4>1. CASE b \in exact
        <5>1. b.height \in H
          BY <4>1
        <5>2. b.height <= h /\ b.height \in Nat /\ a.height \in Nat
          BY <1>3, <3>2, <4>1, <5>1
        <5> QED BY <3>3, <4>1, <5>2
      <4>2. CASE b \notin exact
        <5>1. TypeDistance(b, type) = 2 /\ TypeDistance(a, type) = 0
          BY <1>4, <4>2
        <5> QED BY <5>1
      <4> QED BY <4>1, <4>2
    <3> QED BY <3>4
  <2>2. chosen = CHOOSE a \in towers : \A b \in towers : Closer(a, b)
    BY <1>6 DEF FallbackTower
  <2>3. chosen \in towers /\ \A b \in towers : Closer(chosen, b)
    <3> HIDE DEF towers, chosen, Closer
    <3> QED BY <2>1, <2>2
  <2>4. PICK b \in exact : TRUE
    BY <1>2
  <2>5. Closer(chosen, b) /\ TypeDistance(b, type) = 0 /\ TypeDistance(chosen, type) \in {0, 2}
    BY <1>4, <2>3, <2>4
  <2> QED BY <2>5
<1> QED BY <1>5, <1>6

\* The fallback takes the closest tower, and an antenna that fits it when there is one
\* (langgraph_orchestrator.py _asset_fallback_handler).
LEMMA FallbackIsNear ==
    ASSUME NEW catalogue \in Catalogues, NEW r, FallbackPossible(catalogue, r)
    PROVE  Near(catalogue, r, FallbackAssembly(catalogue, r))
<1> DEFINE type   == r.values.tower_type
           tower  == FallbackTower(catalogue, r)
           t      == IF tower.towers = {} THEN type ELSE CHOOSE x \in tower.towers : TRUE
           assets == FallbackAssembly(catalogue, r)
<1>1. "tower" \in FallbackSlots(r) /\ "antenna" \in FallbackSlots(r)
  BY DEF FallbackSlots, RequiredSlots
<1>2. \E a \in catalogue : a.type = "tower"
  BY <1>1 DEF FallbackPossible
<1>3. assets["tower"] = tower /\ assets["antenna"] = FallbackAsset(catalogue, "antenna", t)
  BY <1>1 DEF FallbackAssembly
<1>4. OfTowerType(catalogue, "tower", type) # {} => type \in tower.towers
  BY <1>2, FallbackTowerIs
<1>5. t \in IF tower.towers = {} THEN {type} ELSE tower.towers
  OBVIOUS
<1>6. OfTowerType(catalogue, "antenna", t) # {} => Fits(FallbackAsset(catalogue, "antenna", t), t)
  <2> HIDE DEF t
  <2>1. OfTowerType(catalogue, "antenna", t) # {} => Compatible(catalogue, "antenna", t) # {}
    BY DEF OfTowerType, Compatible, Fits
  <2>2. Compatible(catalogue, "antenna", t) # {} =>
          FallbackAsset(catalogue, "antenna", t) \in Compatible(catalogue, "antenna", t)
    BY DEF FallbackAsset
  <2> QED BY <2>1, <2>2 DEF Compatible
<1> HIDE DEF t, tower, assets
<1> QED BY <1>3, <1>4, <1>5, <1>6 DEF Near, Fits, assets

-----------------------------------------------------------------------------
(* The planned scene.                                                      *)

\* Cables are wanted or not.
Wiring(r) == r.values.include_cables \in BOOLEAN

\* What a scene that was let through has, for a requirement of the contract planned within
\* its authority (langgraph_orchestrator.py _validate_scene).
Built(r, chosen, assets, deck, s) ==
    /\ s.tower_height_m = r.values.tower_height_m
    /\ s.azimuths_deg = r.values.azimuths_deg /\ Len(s.azimuths_deg) = r.values.sector_count
    /\ s.structure = r.values.tower_characteristics.structure
    /\ s.platforms = IF deck = 0 THEN r.values.tower_characteristics.platforms ELSE 1
    /\ s.gps = r.values.include_gps_antenna
    /\ s.antenna_install_height_m = chosen.antenna_install_height_m
    /\ s.beamwidth_deg = chosen.beamwidth_deg
    /\ s.tower = assets["tower"] /\ s.antenna = assets["antenna"]
    /\ (s.cables > 0) = r.values.include_cables
    /\ s.antenna_install_height_m <= s.tower_height_m

LEMMA AcceptedScene ==
    ASSUME NEW r, NEW chosen, NEW assets, NEW deck, NEW hints,
           Valid(r.values), Wiring(r), Authorised(r, hints, chosen),
           NEW s, s = Scene(r, chosen, assets, deck), SceneAccepted(r, chosen, s, deck)
    PROVE  Built(r, chosen, assets, deck, s)
<1>1. /\ s.tower_height_m = r.values.tower_height_m
      /\ s.azimuths_deg = r.values.azimuths_deg
      /\ s.structure = r.values.tower_characteristics.structure
      /\ s.platforms = IF deck = 0 THEN r.values.tower_characteristics.platforms ELSE 1
      /\ s.antenna_install_height_m = chosen.antenna_install_height_m
      /\ s.beamwidth_deg = chosen.beamwidth_deg
      /\ s.tower = assets["tower"] /\ s.antenna = assets["antenna"]
  BY DEF Scene
<1>2. /\ MountZoneValid(s) /\ CompilesBlueprint(Blueprint(r, chosen), s)
      /\ s.gps = r.values.include_gps_antenna
  BY DEF SceneAccepted, CoversRequirement
<1>3. /\ r.values.tower_height_m \in 1 .. 150 /\ r.values.antenna_install_height_m \in 1 .. 150
      /\ r.values.sector_count \in 1 .. 12 /\ Len(r.values.azimuths_deg) = r.values.sector_count
  BY ValidSays
<1>4. s.cables = IF r.values.include_cables THEN r.values.sector_count ELSE 0
  BY <1>2 DEF CompilesBlueprint, Blueprint, Intents
<1>5. (s.cables > 0) = r.values.include_cables
  <2>1. CASE r.values.include_cables = TRUE
    <3>1. s.cables = r.values.sector_count
      BY <2>1, <1>4, Zenon
    <3>2. s.cables > 0
      BY <3>1, <1>3
    <3> QED BY <2>1, <3>2, Zenon
  <2>2. CASE r.values.include_cables = FALSE
    <3>1. s.cables = 0
      BY <2>2, <1>4, Zenon
    <3>2. (s.cables > 0) = FALSE
      BY <3>1
    <3> QED BY <2>2, <3>2, Zenon
  <2> QED BY <2>1, <2>2 DEF Wiring
<1>6. /\ chosen.antenna_install_height_m \in Nat
      /\ chosen.antenna_install_height_m <= r.values.tower_height_m
  <2>1. "antenna_install_height_m" \in PlanningFields
    BY DEF PlanningFields
  <2>2. CASE chosen.antenna_install_height_m = r.values.antenna_install_height_m
    <3>1. \A h \in 1 .. 150 : h \in Nat
      OBVIOUS
    <3>2. r.values.antenna_install_height_m <= r.values.tower_height_m
      BY ValidSays
    <3> QED BY <2>2, <1>3, <3>1, <3>2, Zenon
  <2>3. CASE \E i \in Candidates(hints, r) :
               /\ hints[i].field = "antenna_install_height_m"
               /\ hints[i].value = chosen.antenna_install_height_m
    <3>1. PICK i \in Candidates(hints, r) :
             /\ hints[i].field = "antenna_install_height_m"
             /\ hints[i].value = chosen.antenna_install_height_m
      BY <2>3
    <3>2. Validated(hints[i], r)
      BY DEF Candidates
    <3>3. hints[i].value \in 1 .. r.values.tower_height_m
      BY <3>1, <3>2 DEF Validated
    <3>4. \A t \in 1 .. 150 : \A h \in 1 .. t : h \in Nat /\ h <= t
      OBVIOUS
    <3> QED BY <1>3, <3>1, <3>3, <3>4, Zenon
  <2>4. \/ chosen["antenna_install_height_m"] = r.values["antenna_install_height_m"]
        \/ \E i \in Candidates(hints, r) :
              /\ hints[i].field = "antenna_install_height_m"
              /\ hints[i].value = chosen["antenna_install_height_m"]
    BY <2>1, Zenon DEF Authorised
  <2> QED BY <2>2, <2>3, <2>4, Zenon
<1>7. s.antenna_install_height_m <= s.tower_height_m
  BY <1>1, <1>6, Zenon
<1> QED BY <1>1, <1>2, <1>3, <1>5, <1>7, Zenon DEF Built

\* The stages of a run, and those at which it has been retrieved, decided, equipped,
\* validated and composed.
Reads     == {"context", "decide", "assets", "validate", "plan", "check", "planned"}
Retrieved == Reads \ {"context"}
Decided   == Retrieved \ {"decide"}
Equipped  == Decided \ {"assets"}
Approved  == Equipped \ {"validate"}
Composed  == Approved \ {"plan"}

RunFields == {"stage", "reason", "route", "text", "pack", "answer", "requirement", "hints",
              "plan", "assets", "catalogue", "deck", "scene"}

DeclinedBy(d) == d.route = "text" /\ d.text.platform = "declined"

DeckOf(d) == IF DeckWanted(d.requirement, DeclinedBy(d)) THEN DeckLevel(d.requirement) ELSE 0

WholeWith(text, revision) ==
    revision \in 0 .. Len(Facts) /\ \E t \in Texts : text = WithFacts(t, revision)

\* What a run is made of, stage by stage.
RunOK(d) ==
    /\ DOMAIN d = RunFields
    /\ d.stage \in Reads \cup {"none", "extract", "failed"}
    /\ d.stage \in Reads \cup {"extract"} => WholeWith(d.text, d.pack)
    /\ d.stage \in Reads => /\ Sound(d.text, d.requirement, d.answer)
                            /\ d.requirement.confirmation_fields = {}
    /\ d.stage \in Retrieved => d.hints \in Knowledge \cup {<<>>}
    /\ d.stage \in Decided => Authorised(d.requirement, d.hints, d.plan)
    /\ d.stage \in Equipped => Near(d.catalogue, d.requirement, d.assets)
    /\ d.stage \in Approved => d.deck = DeckOf(d)
    /\ d.stage \in Composed => d.scene = Scene(d.requirement, d.plan, d.assets, d.deck)
    /\ d.stage = "planned" => SceneAccepted(d.requirement, d.plan, d.scene, d.deck)

HeldOK ==
    analysis # None => /\ WholeWith(analysis.text, analysis.pack)
                       /\ Sound(analysis.text, analysis.requirement, analysis.answer)

BriefInv ==
    /\ process \in 1 .. MaxRestarts + 1 /\ pack \in 0 .. Len(Facts)
    /\ HeldOK /\ RunOK(design)

\* A whole text is what was said, the facts of its pack among it.
FactsSaid(text, revision) ==
    \A i \in DOMAIN FactsOf(revision, "tower_height_m") :
       \E k \in DOMAIN text.tower_height_m :
          text.tower_height_m[k].value = FactsOf(revision, "tower_height_m")[i]

LEMMA WholeIsWith ==
    ASSUME NEW text, NEW revision, WholeWith(text, revision)
    PROVE  Told(text) /\ FactsSaid(text, revision)
BY WholeIsTold DEF WholeWith, FactsSaid

\* A run that has none of its parts yet is in order.
LEMMA BareRunsAreOK ==
    ASSUME NEW reason
    PROVE  RunOK(NoDesign) /\ RunOK(Failed(reason)) /\ Failed(reason).stage = "failed"
<1>1. DOMAIN NoDesign = RunFields /\ NoDesign.stage = "none"
  BY DEF NoDesign, RunFields
<1>2. DOMAIN Failed(reason) = RunFields /\ Failed(reason).stage = "failed"
  BY <1>1 DEF Failed, RunFields
<1> QED BY <1>1, <1>2 DEF RunOK, Reads, Retrieved, Decided, Equipped, Approved, Composed

\* Reading a text, and being accepted, give a run its requirement (langgraph_orchestrator.py
\* _extract_requirements, main.py _create_design).
LEMMA ReadingIsOK ==
    ASSUME NEW d, RunOK(d), d.stage = "extract", NEW read \in Reading[d.text],
           read.requirement.confirmation_fields = {}
    PROVE  RunOK([d EXCEPT !.stage = "context", !.answer = read.answer,
                           !.requirement = read.requirement])
<1> DEFINE e == [d EXCEPT !.stage = "context", !.answer = read.answer,
                          !.requirement = read.requirement]
<1>1. /\ DOMAIN e = RunFields /\ e.stage = "context" /\ e.text = d.text /\ e.pack = d.pack
      /\ e.answer = read.answer /\ e.requirement = read.requirement
  BY DEF RunOK, RunFields
<1>2. WholeWith(d.text, d.pack)
  BY DEF RunOK
<1>3. d.text \in Whole
  BY <1>2 DEF WholeWith, Whole
<1>4. read \in Readings(d.text)
  BY <1>3 DEF Reading
<1>5. Sound(d.text, read.requirement, read.answer)
  BY <1>2, <1>4, WholeIsWith, ReadIsSound
<1> HIDE DEF e
<1>9. RunOK(e)
  BY <1>1, <1>2, <1>5 DEF RunOK, Reads, Retrieved, Decided, Equipped, Approved, Composed
<1> QED BY <1>9 DEF e

\* A search gives a run its hints (langgraph_orchestrator.py _retrieve_rag_context).
LEMMA RetrievingIsOK ==
    ASSUME NEW d, RunOK(d), d.stage = "context", NEW hints \in Knowledge \cup {<<>>}
    PROVE  RunOK([d EXCEPT !.stage = "decide", !.hints = hints])
<1> DEFINE e == [d EXCEPT !.stage = "decide", !.hints = hints]
<1>1. /\ DOMAIN e = RunFields /\ e.stage = "decide" /\ e.text = d.text /\ e.pack = d.pack
      /\ e.answer = d.answer /\ e.requirement = d.requirement /\ e.hints = hints
  BY DEF RunOK, RunFields
<1> HIDE DEF e
<1>9. RunOK(e)
  BY <1>1 DEF RunOK, Reads, Retrieved, Decided, Equipped, Approved, Composed
<1> QED BY <1>9 DEF e

\* A decision gives it its plan (langgraph_orchestrator.py _decide_planning_context).
LEMMA DecidingIsOK ==
    ASSUME NEW d, RunOK(d), d.stage = "decide", NEW chosen,
           Authorised(d.requirement, d.hints, chosen)
    PROVE  RunOK([d EXCEPT !.stage = "assets", !.plan = chosen])
<1> DEFINE e == [d EXCEPT !.stage = "assets", !.plan = chosen]
<1>1. /\ DOMAIN e = RunFields /\ e.stage = "assets" /\ e.text = d.text /\ e.pack = d.pack
      /\ e.answer = d.answer /\ e.requirement = d.requirement /\ e.hints = d.hints
      /\ e.plan = chosen
  BY DEF RunOK, RunFields
<1> HIDE DEF e
<1>9. RunOK(e)
  BY <1>1 DEF RunOK, Reads, Retrieved, Decided, Equipped, Approved, Composed
<1> QED BY <1>9 DEF e

\* A choice gives it its equipment (langgraph_orchestrator.py _select_assets).
LEMMA EquippingIsOK ==
    ASSUME NEW d, RunOK(d), d.stage = "assets", NEW kit, NEW catalogue,
           Near(catalogue, d.requirement, kit)
    PROVE  RunOK([d EXCEPT !.stage = "validate", !.assets = kit, !.catalogue = catalogue])
<1> DEFINE e == [d EXCEPT !.stage = "validate", !.assets = kit, !.catalogue = catalogue]
<1>1. /\ DOMAIN e = RunFields /\ e.stage = "validate" /\ e.text = d.text /\ e.pack = d.pack
      /\ e.answer = d.answer /\ e.requirement = d.requirement /\ e.hints = d.hints
      /\ e.plan = d.plan /\ e.assets = kit /\ e.catalogue = catalogue
  BY DEF RunOK, RunFields
<1> HIDE DEF e
<1>9. RunOK(e)
  BY <1>1 DEF RunOK, Reads, Retrieved, Decided, Equipped, Approved, Composed
<1> QED BY <1>9 DEF e

\* The specialists give it its deck (langgraph_orchestrator.py _validate_requirements).
LEMMA JudgingIsOK ==
    ASSUME NEW d, RunOK(d), d.stage = "validate"
    PROVE  RunOK([d EXCEPT !.stage = "plan", !.deck = DeckOf(d)])
<1> DEFINE e == [d EXCEPT !.stage = "plan", !.deck = DeckOf(d)]
<1>1. /\ DOMAIN e = RunFields /\ e.stage = "plan" /\ e.text = d.text /\ e.pack = d.pack
      /\ e.answer = d.answer /\ e.requirement = d.requirement /\ e.hints = d.hints
      /\ e.plan = d.plan /\ e.assets = d.assets /\ e.catalogue = d.catalogue
      /\ e.route = d.route /\ e.deck = DeckOf(d)
  BY DEF RunOK, RunFields
<1>2. DeckOf(e) = DeckOf(d)
  BY <1>1 DEF DeckOf, DeclinedBy
<1> HIDE DEF e
<1>3. /\ WholeWith(d.text, d.pack)
      /\ Sound(d.text, d.requirement, d.answer)
      /\ d.requirement.confirmation_fields = {}
      /\ d.hints \in Knowledge \cup {<<>>}
      /\ Authorised(d.requirement, d.hints, d.plan)
      /\ Near(d.catalogue, d.requirement, d.assets)
  BY DEF RunOK, Reads, Retrieved, Decided, Equipped, Approved, Composed
<1>4. /\ e.stage # "none" /\ e.stage # "extract" /\ e.stage # "planned"
      /\ e.stage \in Reads /\ e.stage \notin Composed
  BY <1>1 DEF Reads, Retrieved, Decided, Equipped, Approved, Composed
<1>5. /\ WholeWith(e.text, e.pack)
      /\ Sound(e.text, e.requirement, e.answer)
      /\ e.requirement.confirmation_fields = {}
      /\ e.hints \in Knowledge \cup {<<>>}
      /\ Authorised(e.requirement, e.hints, e.plan)
      /\ Near(e.catalogue, e.requirement, e.assets)
      /\ e.deck = DeckOf(e)
  BY <1>1, <1>2, <1>3
<1>6. RunOK(e)
  BY <1>1, <1>4, <1>5, Zenon DEF RunOK
<1> QED BY <1>6 DEF e

\* The planner gives it its scene (langgraph_orchestrator.py _plan_scene).
LEMMA ComposingIsOK ==
    ASSUME NEW d, RunOK(d), d.stage = "plan"
    PROVE  RunOK([d EXCEPT !.stage = "check",
                           !.scene = Scene(d.requirement, d.plan, d.assets, d.deck)])
<1> DEFINE e == [d EXCEPT !.stage = "check",
                          !.scene = Scene(d.requirement, d.plan, d.assets, d.deck)]
<1>1. /\ DOMAIN e = RunFields /\ e.stage = "check" /\ e.text = d.text /\ e.pack = d.pack
      /\ e.answer = d.answer /\ e.requirement = d.requirement /\ e.hints = d.hints
      /\ e.plan = d.plan /\ e.assets = d.assets /\ e.catalogue = d.catalogue
      /\ e.route = d.route /\ e.deck = d.deck
      /\ e.scene = Scene(d.requirement, d.plan, d.assets, d.deck)
  BY DEF RunOK, RunFields
<1>2. DeckOf(e) = DeckOf(d)
  BY <1>1 DEF DeckOf, DeclinedBy
<1> HIDE DEF e
<1>3. /\ WholeWith(d.text, d.pack)
      /\ Sound(d.text, d.requirement, d.answer)
      /\ d.requirement.confirmation_fields = {}
      /\ d.hints \in Knowledge \cup {<<>>}
      /\ Authorised(d.requirement, d.hints, d.plan)
      /\ Near(d.catalogue, d.requirement, d.assets)
      /\ d.deck = DeckOf(d)
  BY DEF RunOK, Reads, Retrieved, Decided, Equipped, Approved, Composed
<1>4. e.stage # "none" /\ e.stage # "extract" /\ e.stage \in Reads /\ e.stage # "planned"
  BY <1>1 DEF Reads, Retrieved, Decided, Equipped, Approved, Composed
<1>5. /\ WholeWith(e.text, e.pack)
      /\ Sound(e.text, e.requirement, e.answer)
      /\ e.requirement.confirmation_fields = {}
      /\ e.hints \in Knowledge \cup {<<>>}
      /\ Authorised(e.requirement, e.hints, e.plan)
      /\ Near(e.catalogue, e.requirement, e.assets)
      /\ e.deck = DeckOf(e)
      /\ e.scene = Scene(e.requirement, e.plan, e.assets, e.deck)
  BY <1>1, <1>2, <1>3
<1>6. RunOK(e)
  BY <1>1, <1>4, <1>5, Zenon DEF RunOK
<1> QED BY <1>6 DEF e

\* A scene that is accepted is the one that was composed (langgraph_orchestrator.py
\* _validate_scene).
LEMMA AcceptingIsOK ==
    ASSUME NEW d, RunOK(d), d.stage = "check",
           SceneAccepted(d.requirement, d.plan, d.scene, d.deck)
    PROVE  RunOK([d EXCEPT !.stage = "planned"])
<1> DEFINE e == [d EXCEPT !.stage = "planned"]
<1>1. /\ DOMAIN e = RunFields /\ e.stage = "planned" /\ e.text = d.text /\ e.pack = d.pack
      /\ e.answer = d.answer /\ e.requirement = d.requirement /\ e.hints = d.hints
      /\ e.plan = d.plan /\ e.assets = d.assets /\ e.catalogue = d.catalogue
      /\ e.route = d.route /\ e.deck = d.deck /\ e.scene = d.scene
  BY DEF RunOK, RunFields
<1>2. DeckOf(e) = DeckOf(d)
  BY <1>1 DEF DeckOf, DeclinedBy
<1> HIDE DEF e
<1>3. /\ WholeWith(d.text, d.pack)
      /\ Sound(d.text, d.requirement, d.answer)
      /\ d.requirement.confirmation_fields = {}
      /\ d.hints \in Knowledge \cup {<<>>}
      /\ Authorised(d.requirement, d.hints, d.plan)
      /\ Near(d.catalogue, d.requirement, d.assets)
      /\ d.deck = DeckOf(d)
      /\ d.scene = Scene(d.requirement, d.plan, d.assets, d.deck)
  BY DEF RunOK, Reads, Retrieved, Decided, Equipped, Approved, Composed
<1>4. e.stage # "none" /\ e.stage # "extract" /\ e.stage \in Reads
  BY <1>1 DEF Reads, Retrieved, Decided, Equipped, Approved, Composed
<1>5. /\ WholeWith(e.text, e.pack)
      /\ Sound(e.text, e.requirement, e.answer)
      /\ e.requirement.confirmation_fields = {}
      /\ e.hints \in Knowledge \cup {<<>>}
      /\ Authorised(e.requirement, e.hints, e.plan)
      /\ Near(e.catalogue, e.requirement, e.assets)
      /\ e.deck = DeckOf(e)
      /\ e.scene = Scene(e.requirement, e.plan, e.assets, e.deck)
      /\ SceneAccepted(e.requirement, e.plan, e.scene, e.deck)
  BY <1>1, <1>2, <1>3
<1>6. RunOK(e)
  BY <1>1, <1>4, <1>5, Zenon DEF RunOK
<1> QED BY <1>6 DEF e

\* A run starts from the words it was sent, or from the analysis that was confirmed for
\* them (main.py _create_design).
LEMMA StartingIsOK ==
    ASSUME NEW text \in Texts, pack \in 0 .. Len(Facts)
    PROVE  /\ RunOK(Started("extract", "text", WithFacts(text, pack)))
           /\ \A answer, r :
                 Sound(WithFacts(text, pack), r, answer) /\ r.confirmation_fields = {} =>
                    RunOK([Started("context", "confirmed", WithFacts(text, pack)) EXCEPT
                             !.answer = answer, !.requirement = r])
<1> DEFINE whole == WithFacts(text, pack)
<1>1. WholeWith(whole, pack)
  BY DEF WholeWith
<1> HIDE DEF whole
<1>2. RunOK(Started("extract", "text", whole))
  <2> DEFINE e == Started("extract", "text", whole)
  <2>1. DOMAIN e = RunFields /\ e.stage = "extract" /\ e.text = whole /\ e.pack = pack
    BY DEF Started, NoDesign, RunFields
  <2> HIDE DEF e
  <2>2. RunOK(e)
    BY <1>1, <2>1 DEF RunOK, Reads, Retrieved, Decided, Equipped, Approved, Composed
  <2> QED BY <2>2 DEF e
<1>3. ASSUME NEW answer, NEW r, Sound(whole, r, answer), r.confirmation_fields = {}
      PROVE  RunOK([Started("context", "confirmed", whole) EXCEPT
                      !.answer = answer, !.requirement = r])
  <2> DEFINE e == [Started("context", "confirmed", whole) EXCEPT
                      !.answer = answer, !.requirement = r]
  <2>1. /\ DOMAIN e = RunFields /\ e.stage = "context" /\ e.text = whole /\ e.pack = pack
        /\ e.answer = answer /\ e.requirement = r
    BY DEF Started, NoDesign, RunFields
  <2> HIDE DEF e
  <2>2. RunOK(e)
    BY <1>1, <1>3, <2>1 DEF RunOK, Reads, Retrieved, Decided, Equipped, Approved, Composed
  <2> QED BY <2>2 DEF e
<1> QED BY <1>2, <1>3 DEF whole

\* What an analysis or a run was read from is a text with the facts of a pack, and what was
\* read satisfies it: initially nothing is read.
LEMMA BriefInitially == ASSUME BriefInit PROVE BriefInv
<1>1. process \in 1 .. MaxRestarts + 1
  BY FactsAssumption DEF BriefInit
<1>2. pack \in 0 .. Len(Facts)
  <2>1. pack = 0 \/ (pack = 1 /\ Facts # <<>>)
    BY DEF BriefInit
  <2>2. Len(Facts) \in Nat /\ (Facts # <<>> => Len(Facts) >= 1)
    BY FactsAssumption, EmptySeq
  <2> QED BY <2>1, <2>2
<1>3. HeldOK
  BY DEF BriefInit, HeldOK
<1>4. RunOK(design)
  BY BareRunsAreOK DEF BriefInit
<1> QED BY <1>1, <1>2, <1>3, <1>4 DEF BriefInv

\* An analysis is held with the text, the facts and the answer it was read with
\* (main.py parse_requirements).
LEMMA AnalysingKeeps ==
    ASSUME BriefInv, NEW text \in Texts, Analyse(text)
    PROVE  BriefInv'
<1> DEFINE whole == WithFacts(text, pack)
<1>1. PICK read \in Reading[whole] :
        analysis' = IF SiteEvidence(read.requirement) THEN Receipt(whole, read) ELSE None
  BY DEF Analyse
<1>2. process' = process /\ pack' = pack /\ design' = design
  BY DEF Analyse
<1>3. WholeWith(whole, pack)
  BY DEF WholeWith, BriefInv
<1> HIDE DEF whole
<1>4. whole \in Whole
  BY <1>3 DEF WholeWith, Whole
<1>5. read \in Readings(whole)
  BY <1>4 DEF Reading
<1>6. Sound(whole, read.requirement, read.answer)
  BY <1>3, <1>5, WholeIsWith, ReadIsSound
<1>7. HeldOK'
  <2>1. CASE analysis' = None
    BY <2>1 DEF HeldOK
  <2>2. CASE analysis' = Receipt(whole, read)
    BY <2>2, <1>3, <1>6 DEF HeldOK, Receipt
  <2> QED BY <1>1, <2>1, <2>2
<1> QED BY <1>2, <1>7 DEF BriefInv

\* A run that is confirmed takes the requirement that was analysed (main.py _create_design).
LEMMA ConfirmingKeeps ==
    ASSUME BriefInv, NEW text \in Texts, Confirm(text)
    PROVE  BriefInv'
<1> DEFINE whole == WithFacts(text, pack)
<1>1. PICK sent : /\ Admitted(whole, sent)
                  /\ design' = [Started("context", "confirmed", whole) EXCEPT
                                  !.answer = analysis.answer, !.requirement = sent]
  BY DEF Confirm
<1>2. process' = process /\ pack' = pack /\ analysis' = None
  BY DEF Confirm
<1>3. analysis # None /\ analysis.text = whole /\ analysis.requirement = sent
  BY <1>1 DEF Admitted
<1>4. sent.confirmation_fields = {}
  BY <1>1 DEF Admitted, UnresolvedState
<1>5. Sound(whole, sent, analysis.answer)
  BY <1>3 DEF BriefInv, HeldOK
<1>6. pack \in 0 .. Len(Facts)
  BY DEF BriefInv
<1>7. RunOK(design')
  BY <1>1, <1>4, <1>5, <1>6, StartingIsOK
<1> QED BY <1>2, <1>7 DEF BriefInv, HeldOK

\* Every other step of a client or of the process (main.py, prompt_context.py).
LEMMA OthersKeep ==
    ASSUME BriefInv,
           CorrectPack \/ RestartApi \/ \E text \in Texts : CreateFromText(text)
    PROVE  BriefInv'
<1>1. CASE CorrectPack
  <2>1. pack' \in 0 .. Len(Facts)
    BY <1>1, FactsAssumption DEF CorrectPack, BriefInv
  <2>2. process' = process /\ analysis' = analysis /\ design' = design
    BY <1>1 DEF CorrectPack
  <2> QED BY <2>1, <2>2 DEF BriefInv, HeldOK
<1>2. CASE RestartApi
  <2>1. process' \in 1 .. MaxRestarts + 1
    BY <1>2, FactsAssumption DEF RestartApi, BriefInv
  <2>2. pack' = pack /\ analysis' = analysis
    BY <1>2 DEF RestartApi
  <2>3. RunOK(design')
    BY <1>2, BareRunsAreOK DEF RestartApi, BriefInv
  <2> QED BY <2>1, <2>2, <2>3 DEF BriefInv, HeldOK
<1>3. CASE \E text \in Texts : CreateFromText(text)
  <2>1. PICK text \in Texts : CreateFromText(text)
    BY <1>3
  <2>2. process' = process /\ pack' = pack /\ analysis' = None
    BY <2>1 DEF CreateFromText
  <2>3. RunOK(design')
    BY <2>1, StartingIsOK DEF CreateFromText, BriefInv
  <2> QED BY <2>2, <2>3 DEF BriefInv, HeldOK
<1> QED BY <1>1, <1>2, <1>3

\* A step of the run leaves a run that is in order (langgraph_orchestrator.py).
LEMMA StepsAreOK == ASSUME RunOK(design), Steps PROVE RunOK(design')
<1>1. CASE Extract
  <2>1. CASE design' = Failed("EXTRACTION_FAILED")
    BY <2>1, BareRunsAreOK
  <2>2. CASE \E read \in Reading[design.text] :
               design' = IF read.requirement.confirmation_fields # {}
                         THEN Failed("INPUT_CONFIRMATION_REQUIRED")
                         ELSE [design EXCEPT !.stage = "context", !.answer = read.answer,
                                             !.requirement = read.requirement]
    <3>1. PICK read \in Reading[design.text] :
            design' = IF read.requirement.confirmation_fields # {}
                      THEN Failed("INPUT_CONFIRMATION_REQUIRED")
                      ELSE [design EXCEPT !.stage = "context", !.answer = read.answer,
                                          !.requirement = read.requirement]
      BY <2>2
    <3>2. CASE read.requirement.confirmation_fields # {}
      <4>1. design' = Failed("INPUT_CONFIRMATION_REQUIRED")
        BY <3>1, <3>2, Zenon
      <4> QED BY <4>1, BareRunsAreOK, Zenon
    <3>3. CASE read.requirement.confirmation_fields = {}
      <4>1. design' = [design EXCEPT !.stage = "context", !.answer = read.answer,
                                     !.requirement = read.requirement]
        BY <3>1, <3>3, Zenon
      <4>2. design.stage = "extract"
        BY <1>1, Zenon DEF Extract
      <4>3. RunOK([design EXCEPT !.stage = "context", !.answer = read.answer,
                                 !.requirement = read.requirement])
        BY <3>3, <4>2, ReadingIsOK, Zenon
      <4> QED BY <4>1, <4>3, Zenon
    <3> QED BY <3>2, <3>3, Zenon
  <2> QED BY <1>1, <2>1, <2>2, Zenon DEF Extract
<1>2. CASE RetrieveContext
  <2>1. PICK hints \in Knowledge \cup {<<>>} :
          design' = [design EXCEPT !.stage = "decide", !.hints = hints]
    BY <1>2, Zenon DEF RetrieveContext
  <2>2. design.stage = "context"
    BY <1>2, Zenon DEF RetrieveContext
  <2>3. RunOK([design EXCEPT !.stage = "decide", !.hints = hints])
    BY <2>2, RetrievingIsOK, Zenon
  <2> QED BY <2>1, <2>3, Zenon
<1>3. CASE Decide
  <2>1. PICK asked \in BOOLEAN : \E pick \in Picks(design.hints, design.requirement, asked) :
          design' = [design EXCEPT !.stage = "assets",
                       !.plan = Resolution(pick, design.hints, design.requirement)]
    BY <1>3, Zenon DEF Decide
  <2>2. PICK pick \in Picks(design.hints, design.requirement, asked) :
          design' = [design EXCEPT !.stage = "assets",
                       !.plan = Resolution(pick, design.hints, design.requirement)]
    BY <2>1, Zenon
  <2>3. design.stage = "decide"
    BY <1>3, Zenon DEF Decide
  <2>4. design.hints \in Knowledge \cup {<<>>}
    BY <2>3 DEF RunOK, Reads, Retrieved
  <2> DEFINE chosen == Resolution(pick, design.hints, design.requirement)
  <2>5. Authorised(design.requirement, design.hints, chosen)
    BY <2>4, PicksAreAuthorised, Zenon
  <2>6. design' = [design EXCEPT !.stage = "assets", !.plan = chosen]
    BY <2>2, Zenon
  <2> HIDE DEF chosen
  <2> QED BY <2>3, <2>5, <2>6, DecidingIsOK, Zenon
<1>4. CASE SelectAssets
  <2>1. PICK catalogue \in Catalogues :
          \/ \E kit : /\ \/ kit \in Assemblies(catalogue, design.requirement)
                         \/ /\ FallbackPossible(catalogue, design.requirement)
                            /\ kit = FallbackAssembly(catalogue, design.requirement)
                      /\ design' = [design EXCEPT !.stage = "validate", !.assets = kit,
                                                  !.catalogue = catalogue]
          \/ design' = Failed("ASSET_FALLBACK_FAILED")
    BY <1>4, Zenon DEF SelectAssets
  <2>2. CASE design' = Failed("ASSET_FALLBACK_FAILED")
    BY <2>2, BareRunsAreOK
  <2>3. ASSUME NEW kit, Near(catalogue, design.requirement, kit),
               design' = [design EXCEPT !.stage = "validate", !.assets = kit,
                                        !.catalogue = catalogue]
        PROVE  RunOK(design')
    BY <1>4, <2>3, EquippingIsOK DEF SelectAssets
  <2> QED BY <2>1, <2>2, <2>3, AssembledIsNear, FallbackIsNear
<1>5. CASE ValidateRequirements
  <2>1. \/ design' = Failed("RULE_VIOLATION")
        \/ design' = [design EXCEPT !.stage = "plan", !.deck = DeckOf(design)]
    BY <1>5 DEF ValidateRequirements, DeckOf, DeclinedBy, Declined
  <2> QED BY <1>5, <2>1, BareRunsAreOK, JudgingIsOK DEF ValidateRequirements
<1>6. CASE PlanScene
  BY <1>6, BareRunsAreOK, ComposingIsOK, Zenon DEF PlanScene
<1>7. CASE ValidateScene
  BY <1>7, BareRunsAreOK, AcceptingIsOK, Zenon DEF ValidateScene
<1> QED BY <1>1, <1>2, <1>3, <1>4, <1>5, <1>6, <1>7 DEF Steps

\* The record of a run, and of the analysis a client holds, is always in order.
THEOREM BriefsAreRead == BriefSpec => []BriefInv
<1>1. BriefInit => BriefInv
  BY BriefInitially
<1>2. BriefInv /\ [BriefNext]_briefVars => BriefInv'
  <2> SUFFICES ASSUME BriefInv, [BriefNext]_briefVars PROVE BriefInv'
    OBVIOUS
  <2>1. CASE \E text \in Texts : Analyse(text)
    BY <2>1, AnalysingKeeps
  <2>2. CASE \E text \in Texts : Confirm(text)
    BY <2>2, ConfirmingKeeps
  <2>3. CASE CorrectPack \/ RestartApi \/ \E text \in Texts : CreateFromText(text)
    BY <2>3, OthersKeep
  <2>4. CASE Steps
    <3>1. RunOK(design')
      BY <2>4, StepsAreOK, SMTT(30) DEF BriefInv
    <3>2. process' = process /\ pack' = pack /\ analysis' = analysis
      BY <2>4 DEF Steps, Extract, RetrieveContext, Decide, SelectAssets,
                  ValidateRequirements, PlanScene, ValidateScene, Untouched
    <3> QED BY <3>1, <3>2 DEF BriefInv, HeldOK
  <2>5. CASE UNCHANGED briefVars
    BY <2>5 DEF briefVars, BriefInv, HeldOK
  <2> QED BY <2>1, <2>2, <2>3, <2>4, <2>5 DEF BriefNext
<1> QED BY <1>1, <1>2, PTL DEF BriefSpec

-----------------------------------------------------------------------------
(* What the runs check.                                                    *)

\* A planned run has the scene its requirement, its plan and its equipment make, and its
\* requirement means what its text says.
PlannedAs(d) ==
    /\ WholeWith(d.text, d.pack) /\ Told(d.text) /\ Intended(d.text, d.requirement)
    /\ Valid(d.requirement.values) /\ Wiring(d.requirement)
    /\ Authorised(d.requirement, d.hints, d.plan)
    /\ Near(d.catalogue, d.requirement, d.assets) /\ d.deck = DeckOf(d)
    /\ Built(d.requirement, d.plan, d.assets, d.deck, d.scene)

LEMMA PlannedIs ==
    ASSUME NEW d, RunOK(d), d.stage = "planned"
    PROVE  PlannedAs(d)
<1>1. /\ WholeWith(d.text, d.pack) /\ Sound(d.text, d.requirement, d.answer)
      /\ d.requirement.confirmation_fields = {}
      /\ Authorised(d.requirement, d.hints, d.plan)
      /\ Near(d.catalogue, d.requirement, d.assets) /\ d.deck = DeckOf(d)
      /\ d.scene = Scene(d.requirement, d.plan, d.assets, d.deck)
      /\ SceneAccepted(d.requirement, d.plan, d.scene, d.deck)
  BY DEF RunOK, Reads, Retrieved, Decided, Equipped, Approved, Composed
<1>2. Told(d.text)
  BY <1>1, WholeIsWith, Zenon
<1>3. Faithful(d.text, Baseline(d.text), d.requirement, d.answer)
  BY <1>1, Zenon DEF Sound
<1>4. Intended(d.text, d.requirement)
  BY <1>1, <1>2, <1>3, FaithfulIsIntended, Zenon
<1>5. Valid(d.requirement.values) /\ Wiring(d.requirement)
  BY <1>3, Zenon DEF Faithful, Wiring
<1>6. Built(d.requirement, d.plan, d.assets, d.deck, d.scene)
  BY <1>1, <1>5, AcceptedScene, Zenon
<1> QED BY <1>1, <1>2, <1>4, <1>5, <1>6, Zenon DEF PlannedAs

\* What a plan changes was inferred, and is a hint that may speak of it.
HintedFor(r, hints, f, v) ==
    /\ f \in r.defaults
    /\ \E i \in DOMAIN hints :
          /\ hints[i].field = f /\ hints[i].value = v
          /\ hints[i].typed
          /\ hints[i].scope = {} \/ r.values.tower_type \in hints[i].scope

LEMMA ChangedIsHinted ==
    ASSUME NEW r, NEW hints, NEW chosen, Authorised(r, hints, chosen), NEW f \in PlanningFields,
           chosen[f] # r.values[f]
    PROVE  f \in r.defaults /\ HintedFor(r, hints, f, chosen[f])
<1>1. PICK i \in Candidates(hints, r) : hints[i].field = f /\ hints[i].value = chosen[f]
  BY Zenon DEF Authorised
<1>2. f \in r.defaults
  BY Zenon DEF Authorised
<1>3. /\ i \in DOMAIN hints /\ hints[i].typed
      /\ hints[i].scope = {} \/ r.values.tower_type \in hints[i].scope
  BY Zenon DEF Candidates, InScope, Validated
<1> QED BY <1>1, <1>2, <1>3, Zenon DEF HintedFor

\* What was said is in the planned scene: the requirement means it, no hint may change it
\* and the scene has what the requirement says (groq.py, rag/planning.py, planner).
LEMMA PlannedKeepsTheText ==
    ASSUME BriefInv PROVE StatedIsKept
<1> SUFFICES ASSUME design.stage = "planned" PROVE StatedIsKept
  BY DEF StatedIsKept, ScenePlanned
<1> DEFINE t == design.text
           r == design.requirement
           s == design.scene
<1>1. PlannedAs(design)
  BY PlannedIs DEF BriefInv
<1>2. /\ Intended(t, r) /\ Told(t) /\ Authorised(r, design.hints, design.plan)
      /\ s.tower_height_m = r.values.tower_height_m
      /\ s.azimuths_deg = r.values.azimuths_deg /\ Len(s.azimuths_deg) = r.values.sector_count
      /\ s.structure = r.values.tower_characteristics.structure
      /\ s.platforms = IF design.deck = 0 THEN r.values.tower_characteristics.platforms ELSE 1
      /\ s.gps = r.values.include_gps_antenna
      /\ s.antenna_install_height_m = design.plan.antenna_install_height_m
      /\ s.beamwidth_deg = design.plan.beamwidth_deg
      /\ (s.cables > 0) = r.values.include_cables
      /\ design.deck = DeckOf(design)
  BY <1>1, Zenon DEF PlannedAs, Built
<1>3. t.tower_height_m # <<>> => s.tower_height_m = Meant(t.tower_height_m)
  BY <1>2, Zenon DEF Intended
<1>4. t.sector_count # <<>> => Len(s.azimuths_deg) = Meant(t.sector_count)
  BY <1>2, Zenon DEF Intended
<1>5. t.antenna_install_height_m # <<>> =>
         s.antenna_install_height_m = Meant(t.antenna_install_height_m)
  <2> SUFFICES ASSUME t.antenna_install_height_m # <<>>
               PROVE  s.antenna_install_height_m = Meant(t.antenna_install_height_m)
    OBVIOUS
  <2>1. /\ "antenna_install_height_m" \notin r.defaults
        /\ r.values.antenna_install_height_m = Meant(t.antenna_install_height_m)
    BY <1>2 DEF Intended, Critical
  <2>2. design.plan["antenna_install_height_m"] = r.values["antenna_install_height_m"]
    BY <1>2, <2>1, ChangedIsHinted DEF PlanningFields
  <2> QED BY <1>2, <2>1, <2>2, Zenon
<1>6. t.azimuths_deg # <<>> =>
         \A i \in DOMAIN s.azimuths_deg : s.azimuths_deg[i] = Meant(t.azimuths_deg)[i] % 360
  BY <1>2 DEF Intended, RepairAzimuths
<1>7. t.tower_type # "unsaid" => s.structure = StructureFor(t.tower_type)
  BY <1>2, Zenon DEF Intended
<1>8. t.beamwidth_deg # 0 => s.beamwidth_deg = t.beamwidth_deg
  <2> SUFFICES ASSUME t.beamwidth_deg # 0 PROVE s.beamwidth_deg = t.beamwidth_deg
    OBVIOUS
  <2>1. "beamwidth_deg" \notin r.defaults /\ r.values.beamwidth_deg = t.beamwidth_deg
    BY <1>2, Zenon DEF Intended
  <2>2. design.plan["beamwidth_deg"] = r.values["beamwidth_deg"]
    BY <1>2, <2>1, ChangedIsHinted DEF PlanningFields
  <2> QED BY <1>2, <2>1, <2>2, Zenon
<1>9. t.cables # "unsaid" => (s.cables > 0) = (t.cables = "wanted")
  BY <1>2, Zenon DEF Intended
<1>10. t.gps = "gps" => s.gps
  BY <1>2, Zenon DEF Intended
<1>11. t.platform = "wanted" => s.platforms > 0
  BY <1>2 DEF Intended
<1>12. t.platform = "declined" /\ design.route = "text" => s.platforms = 0
  <2> SUFFICES ASSUME t.platform = "declined", design.route = "text" PROVE s.platforms = 0
    OBVIOUS
  <2>1. DeclinedBy(design)
    BY Zenon DEF DeclinedBy
  <2>2. design.deck = 0
    BY <1>2, <2>1, Zenon DEF DeckOf, DeckWanted
  <2> QED BY <1>2, <2>2, Zenon DEF Intended
<1> QED BY <1>3, <1>4, <1>5, <1>6, <1>7, <1>8, <1>9, <1>10, <1>11, <1>12, Zenon
        DEF StatedIsKept

\* A text that contradicts itself leaves something to confirm, so nothing is planned of it
\* (requirement_provenance.py resolve_critical_requirements).
LEMMA PlannedIsConsistent ==
    ASSUME BriefInv PROVE ContradictionNeverPlanned
<1> SUFFICES ASSUME design.stage = "planned" PROVE ContradictionNeverPlanned
  BY DEF ContradictionNeverPlanned, ScenePlanned
<1> DEFINE t == design.text
<1>1. Intended(t, design.requirement)
  BY PlannedIs, Zenon DEF BriefInv, PlannedAs
<1>2. ASSUME NEW f \in Critical, NEW i \in DOMAIN t[f], NEW j \in DOMAIN t[f],
             t[f][i].value # t[f][j].value
      PROVE  \E k \in DOMAIN t[f] : t[f][k].late
  <2>1. Conflicting(t[f]) /\ ~Unresolved(t[f])
    <3>1. DOMAIN << >> = {}
      OBVIOUS
    <3> QED BY <1>1, <1>2, <3>1, Zenon DEF Conflicting, Intended
  <2> QED BY <2>1, Zenon DEF Unresolved, Corrections
<1>3. t["sector_count"] # <<>> /\ t["azimuths_deg"] # <<>> =>
         Len(Meant(t.azimuths_deg)) = Meant(t.sector_count)
  BY <1>1, Zenon DEF Intended
<1>4. t["tower_height_m"] # <<>> /\ t["antenna_install_height_m"] # <<>> =>
         Meant(t.antenna_install_height_m) <= Meant(t.tower_height_m)
  BY <1>1, Zenon DEF Intended
<1> QED BY <1>2, <1>3, <1>4, Zenon DEF ContradictionNeverPlanned

\* A fact of the pack is one of the statements of the text, so it is the value that was meant
\* unless the user corrects it (main.py _document_aware_requirements_text).
LEMMA PlannedHasTheFacts ==
    ASSUME BriefInv PROVE FactsReachTheScene
<1> SUFFICES ASSUME design.stage = "planned" PROVE FactsReachTheScene
  BY DEF FactsReachTheScene, ScenePlanned
<1> DEFINE told == FactsOf(design.pack, "tower_height_m")
           said == design.text.tower_height_m
<1>1. PlannedAs(design)
  BY PlannedIs DEF BriefInv
<1>2. WholeWith(design.text, design.pack) /\ Intended(design.text, design.requirement)
      /\ design.scene.tower_height_m = design.requirement.values.tower_height_m
  BY <1>1, Zenon DEF PlannedAs, Built
<1>3. SUFFICES ASSUME NEW i \in DOMAIN told, \A k \in DOMAIN said : ~said[k].late
               PROVE  design.scene.tower_height_m = told[i]
  BY Zenon DEF FactsReachTheScene
<1>4. PICK k \in DOMAIN said : said[k].value = told[i]
  <2>1. FactsSaid(design.text, design.pack)
    BY <1>2, WholeIsWith, Zenon
  <2> QED BY <2>1, Zenon DEF FactsSaid
<1>5. said \in Statements(Nat)
  BY <1>2, WholeIsWith, Zenon DEF Told
<1>6. said # <<>> /\ 1 \in DOMAIN said
  BY <1>4, <1>5 DEF Statements
<1>7. "tower_height_m" \in Critical
  BY DEF Critical
<1>8. ~Unresolved(design.text["tower_height_m"])
  BY <1>2, <1>6, <1>7, Zenon DEF Intended
<1>9. {l \in DOMAIN said : said[l].late} = {}
  BY <1>3
<1>10. ~Conflicting(said)
  BY <1>8, <1>9, Zenon DEF Unresolved, Corrections
<1>11. Meant(said) = said[1].value
  BY <1>9, Zenon DEF Meant
<1>12. said[1].value = told[i]
  BY <1>4, <1>6, <1>10, Zenon DEF Conflicting
<1>13. design.scene.tower_height_m = Meant(said)
  BY <1>2, <1>6, Zenon DEF Intended
<1> QED BY <1>11, <1>12, <1>13, Zenon

\* What the text and the facts say is in every planned scene, what is asked for in every
\* requirement, and a contradiction in none.
THEOREM WhatIsSaidIsPlanned == BriefSpec => []SaidIsPlanned
<1>1. BriefInv => SaidIsPlanned
  <2> SUFFICES ASSUME BriefInv PROVE SaidIsPlanned
    OBVIOUS
  <2>1. design.stage \in Reads => Sound(design.text, design.requirement, design.answer)
    BY DEF BriefInv, RunOK
  <2>2. design.stage \in Reads => Valid(design.requirement.values)
    BY <2>1, Zenon DEF Sound, Faithful
  <2>3. analysis # None => Valid(analysis.requirement.values)
    BY Zenon DEF BriefInv, HeldOK, Sound, Faithful
  <2>4. design.stage \in Reads \cup {"none", "extract", "failed"}
    BY DEF BriefInv, RunOK
  <2>5. Read <=> design.stage \in Reads
    BY Zenon DEF Read, Reads
  <2>6. BriefTypeOK
    BY <2>2, <2>3, <2>4, <2>5 DEF BriefTypeOK, BriefInv, Reads
  <2>7. RequestsSurvive
    <3>1. Read => \/ Surviving(design.answer.requests, design.requirement.requests)
                  \/ /\ ~RequestsValid(design.answer.requests)
                     /\ "LLM_FIELD_REPAIRED" \in design.requirement.warnings
      BY <2>1, <2>5, Zenon DEF Sound
    <3> QED BY <3>1, Zenon DEF RequestsSurvive, Surviving
  <2> QED BY <2>6, <2>7, PlannedKeepsTheText, PlannedHasTheFacts, PlannedIsConsistent, Zenon
          DEF SaidIsPlanned
<1> QED BY <1>1, BriefsAreRead, PTL

\* Nothing is blamed on the text that it does not say, a hint decides only what it may, and
\* the equipment is the nearest there is.
THEOREM NothingIsInvented == BriefSpec => []NothingInvented
<1>1. BriefInv => NothingInvented
  <2> SUFFICES ASSUME BriefInv PROVE NothingInvented
    OBVIOUS
  <2>1. SourcesAreTrue
    <3>1. Read => design.stage \in Reads
      BY Zenon DEF Read, Reads
    <3>2. Read => Sound(design.text, design.requirement, design.answer)
      BY <3>1, Zenon DEF BriefInv, RunOK
    <3>3. analysis # None => Sound(analysis.text, analysis.requirement, analysis.answer)
      BY Zenon DEF BriefInv, HeldOK
    <3> QED BY <3>2, <3>3, Zenon DEF SourcesAreTrue, Sound, Faithful
  <2>2. ASSUME design.stage = "planned"
        PROVE  PlannedAs(design)
    BY <2>2, PlannedIs DEF BriefInv
  <2>3. WithinAuthority
    <3> SUFFICES ASSUME design.stage = "planned" PROVE WithinAuthority
      BY DEF WithinAuthority, ScenePlanned
    <3> DEFINE r == design.requirement
               s == design.scene
    <3>1. /\ Authorised(r, design.hints, design.plan)
          /\ (s.cables > 0) = r.values.include_cables
          /\ s.antenna_install_height_m <= s.tower_height_m
          /\ s.beamwidth_deg = design.plan.beamwidth_deg
          /\ s.antenna_install_height_m = design.plan.antenna_install_height_m
      BY <2>2, Zenon DEF PlannedAs, Built
    <3>2. "beamwidth_deg" \in PlanningFields /\ "antenna_install_height_m" \in PlanningFields
      BY DEF PlanningFields
    <3>3. s.beamwidth_deg # r.values.beamwidth_deg =>
            HintedFor(r, design.hints, "beamwidth_deg", s.beamwidth_deg)
      BY <3>1, <3>2, ChangedIsHinted, Zenon
    <3>4. s.antenna_install_height_m # r.values.antenna_install_height_m =>
            HintedFor(r, design.hints, "antenna_install_height_m", s.antenna_install_height_m)
      BY <3>1, <3>2, ChangedIsHinted, Zenon
    <3> QED BY <3>1, <3>3, <3>4, Zenon DEF WithinAuthority, HintedFor
  <2>4. NearestEquipment
    <3> SUFFICES ASSUME design.stage = "planned" PROVE NearestEquipment
      BY DEF NearestEquipment, ScenePlanned
    <3>1. /\ Near(design.catalogue, design.requirement, design.assets)
          /\ design.scene.tower = design.assets["tower"]
          /\ design.scene.antenna = design.assets["antenna"]
      BY <2>2, Zenon DEF PlannedAs, Built
    <3> QED BY <3>1, Zenon DEF NearestEquipment, Near
  <2> QED BY <2>1, <2>3, <2>4, Zenon DEF NothingInvented
<1> QED BY <1>1, BriefsAreRead, PTL

\* A confirmed run works on what the running process analysed, for the same text and facts.
THEOREM ConfirmationIsBound == BriefSpec => ConfirmedIsAnalysed
<1> DEFINE Bound == design.stage = "none" /\ design'.stage = "context" =>
                      /\ analysis.process = process
                      /\ design'.requirement = analysis.requirement
                      /\ design'.text = analysis.text /\ analysis.pack = design'.pack
                      /\ design'.requirement.confirmation_fields = {}
<1>1. [BriefNext]_briefVars => Bound
  <2> SUFFICES ASSUME [BriefNext]_briefVars, design.stage = "none", design'.stage = "context"
               PROVE  Bound
    OBVIOUS
  <2>1. CASE \E text \in Texts : Confirm(text)
    <3>1. PICK text \in Texts : Confirm(text)
      BY <2>1
    <3> DEFINE whole == WithFacts(text, pack)
    <3>2. PICK sent : /\ Admitted(whole, sent)
                      /\ design' = [Started("context", "confirmed", whole) EXCEPT
                                      !.answer = analysis.answer, !.requirement = sent]
      BY <3>1 DEF Confirm
    <3> HIDE DEF whole
    <3>3. design'.text = whole /\ design'.pack = pack /\ design'.requirement = sent
      BY <3>2 DEF Started, NoDesign
    <3>4. /\ analysis.process = process /\ analysis.text = whole /\ analysis.pack = pack
          /\ analysis.requirement = sent /\ sent.confirmation_fields = {}
      BY <3>2, Zenon DEF Admitted, UnresolvedState
    <3> QED BY <3>3, <3>4
  <2>2. CASE \E text \in Texts : CreateFromText(text)
    <3>1. PICK text \in Texts : CreateFromText(text)
      BY <2>2
    <3>2. design'.stage = "extract"
      BY <3>1 DEF CreateFromText, Started, NoDesign
    <3> QED BY <3>2
  <2>3. CASE (\E text \in Texts : Analyse(text)) \/ CorrectPack
    BY <2>3 DEF Analyse, CorrectPack
  <2>4. CASE RestartApi
    BY <2>4 DEF RestartApi
  <2>5. CASE Steps
    BY <2>5 DEF Steps, Extract, RetrieveContext, Decide, SelectAssets, ValidateRequirements,
                PlanScene, ValidateScene
  <2>6. CASE UNCHANGED briefVars
    BY <2>6 DEF briefVars
  <2> QED BY <2>1, <2>2, <2>3, <2>4, <2>5, <2>6 DEF BriefNext
<1> QED BY <1>1, PTL DEF BriefSpec, ConfirmedIsAnalysed
=============================================================================
