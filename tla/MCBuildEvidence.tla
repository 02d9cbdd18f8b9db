--------------------------- MODULE MCBuildEvidence ---------------------------
(* Scenes of every kind the worker tells apart, and versions published     *)
(* under each earlier schema, for TLC.                                     *)
EXTENDS BuildEvidence, TLC

Site == [domain |-> "telecom", plan |-> TRUE, programs |-> {}, access |-> FALSE,
         adapter |-> FALSE, fallback |-> FALSE, hashed |-> FALSE, marks |-> {},
         strategy |-> [role \in Roles |->
             IF role \in {"support_structure", "sector_antenna", "antenna_mount"}
             THEN "generated" ELSE "absent"]]
With(d, strategies) == [d EXCEPT !.strategy = strategies @@ d.strategy]
Adapted(d) == [d EXCEPT !.adapter = TRUE]
Full == Adapted(With(Site, [role \in {"remote_radio", "sector_cable_route", "ground_equipment",
                                      "timing_antenna"} |-> "generated"]))
Climbed(d, marks) == [d EXCEPT !.access = TRUE, !.marks = {"tower_access"} \cup marks]
Timing(kind) == "timing_antenna" :> kind
Legacy(d) == [d EXCEPT !.plan = FALSE]
Generic == [Site EXCEPT !.domain = "generic", !.plan = FALSE]

MCDesigns == {
    Climbed(Full, Marks),
    With(Full, ("sector_antenna" :> "exact") @@ Timing("exact")),
    With(Site, ("support_structure" :> "exact") @@ ("ground_equipment" :> "exact")),
    With(Site, ("antenna_mount" :> "exact") @@ ("remote_radio" :> "exact")),
    Adapted(With(Site, ("antenna_mount" :> "exact") @@ ("remote_radio" :> "generated"))),
    With(Site, "remote_radio" :> "generated"),
    [With(Site, Timing("stored")) EXCEPT !.fallback = TRUE, !.hashed = TRUE],
    With(Site, Timing("stored")),
    [Site EXCEPT !.programs = {"typed"}],
    [Site EXCEPT !.programs = {"exact"}],
    Legacy(Full), Legacy(With(Site, ("ground_equipment" :> "unlisted") @@ Timing("unlisted"))),
    Climbed(Legacy(Site), {"foundation"}),
    [Climbed(Legacy(Site), {}) EXCEPT !.programs = {"typed"}],
    Legacy(With(Site, "sector_antenna" :> "exact")),
    Legacy(With(Site, "antenna_mount" :> "exact")),
    [Generic EXCEPT !.programs = {"typed"}], [Generic EXCEPT !.programs = {"typed", "exact"}]}

Version(d, schema, held, declares) ==
    [design |-> d, schema |-> schema, lock |-> held, declares |-> declares]
MCPublished == {
    Version(Legacy(Site), "1.0.0", "1.0.0", {}),
    Version(Legacy(Site), "1.1.0", "1.1.0", {}),
    Version(Site, "1.2.0", "1.2.0", {}),
    Version(Site, "1.4.0", "1.3.0", {}),
    Version(Climbed(Site, {}), "1.4.0", "1.3.0", {"sector_previews"}),
    Version(Climbed(Site, {}), "1.5.0", "1.3.0", Profiles)}
MCSectors == <<"alpha", "beta">>
=============================================================================
