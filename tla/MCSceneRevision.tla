--------------------------- MODULE MCSceneRevision ---------------------------
(* A lattice tower of 30 m with an access profile, one of 12 m without, and a      *)
(* monopole; two sectors.                                                          *)
EXTENDS SceneRevision

MCSectors == {"S1", "S2"}

Lattice ==
    [structure |-> "lattice", legs |-> 4, foundation |-> "concrete_pad", profile |-> TRUE,
     height |-> 3000, count |-> 1, levels |-> {2450}, ladder |-> 1,
     install |-> [x \in MCSectors |-> IF x = "S1" THEN 2700 ELSE 1000],
     azimuth |-> [x \in MCSectors |-> IF x = "S1" THEN 0 ELSE 180],
     cable |-> [x \in MCSectors |-> 1], radio |-> TRUE, antenna |-> "dualband",
     tower |-> "lattice", cabinet |-> 1, gps |-> 1, gpsAt |-> 2950, gpsUsers |-> FALSE]

Short == [Lattice EXCEPT !.height = 1200, !.profile = FALSE, !.count = 0, !.levels = {},
                         !.install = [x \in MCSectors |-> 1000], !.gps = 0, !.gpsAt = 0]

Pole == [Lattice EXCEPT !.structure = "monopole", !.tower = "monopole", !.profile = FALSE,
                        !.legs = 1, !.radio = FALSE, !.ladder = 0, !.count = 2, !.levels = {},
                        !.cable = [x \in MCSectors |-> 0]]

MCScenes == {Lattice, Short, Pole}

Says(names, parser) == [NoPrompt EXCEPT !.names = names, !.parser = parser]
To(p, n, u) == [p EXCEPT !.amount = n, !.unit = u]
By(p, n, u, d) == [p EXCEPT !.amount = n, !.unit = u, !.mode = "delta", !.direction = d]
Without(p) == [p EXCEPT !.removal = TRUE]
Of(p, sectors) == [p EXCEPT !.sectors = sectors]

Platforms == {"platform", "platformCount"}

MCPrompts ==
    {To(Says({"towerHeight"}, {"tower"}), 8, "m"),
     To(Says({"towerHeight"}, {"tower"}), 20, "m"),
     By(Says({"towerHeight"}, {"tower"}), 5, "m", -1),
     By(Says({"installHeight"}, {"antenna"}), 2, "m", -1),
     Of(To(Says({"installHeight"}, {"antenna"}), 24, "m"), {"S2"}),
     [Of(To(Says({"installHeight", "azimuth"}, {"antenna", "azimuth"}), 9, "deg"), {"S2"})
        EXCEPT !.selected = {"S2"}],
     Of(To(Says({"azimuth"}, {"azimuth"}), 90, "deg"), {"S1"}),
     To(Says({"azimuth"}, {"azimuth"}), 5, "deg"),
     Says({"structure"}, {}),
     [Says(Platforms, {}) EXCEPT !.direction = 1],
     By(Says(Platforms, {}), 2, "", 1),
     Without(Says(Platforms, {})),
     [Without(Says(Platforms, {})) EXCEPT !.every = TRUE],
     Says({"ladder"}, {}), Without(Says({"ladder"}, {})),
     Without(Says({"cable"}, {"cable"})), Says({"cable"}, {"cable"}),
     Of(Without(Says({"cable"}, {"cable"})), {"S1"}),
     Without(Says({"gps", "cabinet"}, {"gps", "cabinet"})),
     Says({"gps", "cabinet"}, {"gps", "cabinet"}),
     To(Says({"gps", "gpsPosition"}, {"gps", "move"}), 15, "m"),
     To(Without(Says({"gps", "gpsPosition"}, {"gps", "move"})), 15, "m")}

MCOperations ==
    {Op("towerHeight", "tower", v) : v \in {800, 700, 2000, 2500, 2995}}
      \cup {Op("installHeight", x, v) : x \in MCSectors, v \in {2500, 2400, 800}}
      \cup {Op("azimuth", x, v) : x \in MCSectors, v \in {9, 90, 5}}
      \cup {Op("structure", v, 0) : v \in Structures}
      \cup {Op("platformCount", "tower", v) : v \in 0 .. 4}
      \cup {Op(f, "tower", v) : f \in {"platform", "ladder", "cabinet", "gps"}, v \in 0 .. 1}
      \cup {Op("cable", x, v) : x \in MCSectors, v \in 0 .. 1}
      \cup {Op("gpsPosition", "tower", 1500)}
=============================================================================
