---------------------------- MODULE MCBriefIntake ----------------------------
EXTENDS BriefIntake

Quiet == [tower_height_m |-> <<>>, sector_count |-> <<>>, antenna_install_height_m |-> <<>>,
          azimuths_deg |-> <<>>, tower_type |-> "unsaid", platform |-> "unsaid",
          material |-> "galvanized_steel", described |-> FALSE, beamwidth_deg |-> 0,
          cables |-> "unsaid", gps |-> "unsaid"]

Plain(v) == <<[value |-> v, late |-> FALSE]>>

Late(v) == <<[value |-> v, late |-> TRUE]>>

MCTexts == {
  [Quiet EXCEPT !.cables = "declined"],
  [Quiet EXCEPT !.tower_height_m = Plain(30), !.platform = "declined", !.gps = "gps"],
  [Quiet EXCEPT !.tower_height_m = Plain(30) \o Plain(24)],
  [Quiet EXCEPT !.tower_height_m = Plain(36) \o Late(28), !.tower_type = "monopole",
                !.beamwidth_deg = 90],
  [Quiet EXCEPT !.sector_count = Plain(3), !.azimuths_deg = Plain(<<0, 180>>)],
  [Quiet EXCEPT !.sector_count = Plain(2), !.azimuths_deg = Plain(<<0, 400>>),
                !.antenna_install_height_m = Plain(20), !.platform = "wanted"],
  [Quiet EXCEPT !.tower_height_m = Plain(20), !.antenna_install_height_m = Plain(26)],
  [Quiet EXCEPT !.sector_count = Plain(0)]}

Saying(over) == [over |-> over, written |-> {}, requests |-> <<>>, objectMode |-> FALSE]

Ask(id, inside) == [id |-> id, inside |-> inside, quantity |-> 1, sound |-> TRUE, parts |-> {id}]

Tower(platforms, material) ==
  [structure |-> "lattice", platforms |-> platforms, material |-> material]

MCAnswers == {
  Saying([tower_height_m |-> 10, beamwidth_deg |-> 33]),
  [Saying([antenna_install_height_m |-> 60, include_cables |-> FALSE]) EXCEPT
     !.requests = <<Ask("fence", {}), [Ask("shelter", {}) EXCEPT !.quantity = 40]>>,
     !.objectMode = TRUE],
  Saying([tower_type |-> "monopole", azimuths_deg |-> <<0, 5>>, sector_count |-> 2]),
  [Saying([sector_count |-> 2]) EXCEPT !.requests = <<Ask("dish", {}), Ask("dish", {})>>],
  Saying([sector_count |-> 2, include_gps_antenna |-> TRUE]),
  Saying([azimuths_deg |-> <<>>, tower_characteristics |-> Tower(-1, "galvanized_steel")]),
  Saying([azimuths_deg |-> <<>>, tower_characteristics |-> Tower(2, "painted_steel")]),
  Saying([tower_characteristics |-> Tower(0, "concrete")]),
  [Saying([beamwidth_deg |-> 120]) EXCEPT !.written = {"beamwidth_deg"}],
  [Saying([beamwidth_deg |-> 65]) EXCEPT
     !.requests = <<Ask("ring", {"dish"}), Ask("dish", {})>>, !.objectMode = TRUE]}

Hint(field, value, scope) == [field |-> field, value |-> value, typed |-> TRUE, scope |-> scope]

MCKnowledge == {
  <<Hint("antenna_install_height_m", 12, {}), Hint("beamwidth_deg", 200, {})>>,
  <<Hint("beamwidth_deg", 33, {"monopole"}), Hint("include_cables", FALSE, {})>>,
  <<Hint("antenna_install_height_m", 90, {}), Hint("antenna_install_height_m", 18, {})>>}

Zone(low, high) == [low |-> low, high |-> high]

Asset(id, type, towers, height) ==
  [id |-> id, type |-> type, towers |-> towers, height |-> height,
   parametric |-> id # "mast",
   zones |-> IF type = "tower" THEN {Zone((2 * height) \div 3, height - 1)} ELSE {}]

Kit == {Asset("panel", "antenna", {"lattice_tower", "monopole"}, 2),
        Asset("cable", "cable", {}, 0), Asset("gps", "gps", {}, 0)}

MCCatalogues == {
  Kit \cup {Asset("lattice", "tower", {"lattice_tower"}, 30),
            Asset("pole", "tower", {"monopole"}, 30), Asset("mast", "tower", {}, 50)},
  Kit \cup {Asset("pole", "tower", {"monopole"}, 40)},
  {Asset("lattice", "tower", {"lattice_tower"}, 30), Asset("pole", "tower", {"monopole"}, 40),
   Asset("dish", "antenna", {"lattice_tower"}, 1)}}

Fact(height) == [tower_height_m |-> <<height>>, sector_count |-> <<>>,
                    antenna_install_height_m |-> <<>>, azimuths_deg |-> <<>>]

MCFacts == <<Fact(30), Fact(36)>>
==============================================================================
