--------------------------- MODULE MCCognitiveDesign ---------------------------
(***************************************************************************)
(* Small plans and replies for CognitiveDesign: one plan per decision of   *)
(* the contract, the composition and the scene compiler, and one reply per *)
(* operation of the geometry language and per adjustment of a reply.       *)
(***************************************************************************)
EXTENDS CognitiveDesign

CONSTANTS none, mast, panel

\* Nodes.
Plain(id, kind) ==
  [id |-> id, kind |-> kind, parent |-> none, uses |-> <<>>, role |-> FALSE, at |-> 0,
   scale |-> <<1, 1>>, turned |-> FALSE, low |-> 0, high |-> 2, closed |-> TRUE, gaps |-> 0,
   enough |-> TRUE, count |-> 3, step |-> 1, op |-> "union", clad |-> FALSE, points |-> 3,
   loop |-> FALSE]
Box(id, low, high)  == [Plain(id, "primitive") EXCEPT !.low = low, !.high = high]
From(id, kind, src) == [Plain(id, kind) EXCEPT !.uses = src]
Main(x)             == [x EXCEPT !.role = TRUE]
Under(x, parent)    == [x EXCEPT !.parent = parent]
Raised(x, z)        == [x EXCEPT !.at = z]
Flipped(x)          == [x EXCEPT !.turned = TRUE]
Wire                == Plain("w", "curve")
Outline             == Plain("p", "profile")

Program(nodes, construction) ==
  [nodes |-> nodes, construction |-> construction, anchors |-> <<>>, connectors |-> <<>>,
   groups |-> {}, materials |-> TRUE, role |-> none, quantity |-> 1, limit |-> none,
   ground |-> FALSE, exact |-> FALSE, text |-> TRUE, notes |-> <<>>]

\* Replies the contract admits as they are.
Swept3 == Program(<<Outline, Main(From("e", "extrude", <<"p">>)),
                    [From("r", "revolve", <<"p">>) EXCEPT !.loop = TRUE]>>, {"p"})
Linked == [Program(<<[Outline EXCEPT !.points = 4], Main(From("s", "sweep", <<"p">>)),
                     From("a", "array", <<"s">>)>>, {"p"})
           EXCEPT !.anchors = <<[id |-> "x", node |-> "s"]>>,
                  !.connectors = <<[id |-> "y", anchor |-> "x"]>>, !.groups = {{"s", "a"}}]
Turned == Program(<<[Outline EXCEPT !.closed = FALSE],
                    Main([From("r", "revolve", <<"p">>) EXCEPT !.loop = TRUE]),
                    [From("m", "modifier", <<"r">>) EXCEPT !.op = "mirror"]>>, {"p"})
Cut    == Program(<<Box("l", 0, 4), Flipped(Raised(Box("k", 0, 2), 3)),
                    Main([From("b", "boolean", <<"l", "k">>) EXCEPT !.op = "difference"]),
                    Under([From("c", "boolean", <<"b", "l">>) EXCEPT !.op = "intersection"], "b")>>,
                  {"l", "k"})
Copied == Program(<<Box("l", 0, 2), Main(Raised(From("i", "instance", <<"l">>), 2)),
                    Under(Plain("t", "terrain"), "l")>>, {"l"})
Carved == Program(<<Box("l", 0, 4), Plain("t", "terrain"), From("i", "instance", <<"t">>),
                    Main([From("b", "boolean", <<"l", "i">>) EXCEPT !.op = "difference"])>>,
                  {"l", "t", "i"})
Traced == Program(<<[Outline EXCEPT !.low = 1], Main(From("e", "extrude", <<"p">>)),
                    From("i", "instance", <<"p">>)>>, {"p"})
\* Replies that an adjustment saves.
Sunken == Program(<<Main(Flipped(Raised(Box("l", 0, 2), 1))), Raised(Wire, 1),
                    Under([Plain("t", "terrain") EXCEPT !.high = 1], "l")>>, {})
Facing == Program(<<Raised(Box("l", 0, 2), -1), Box("k", 0, 1), From("b", "boolean", <<"l", "k">>),
                    Main([From("m", "modifier", <<"b">>) EXCEPT !.op = "mirror"])>>, {"k", "b"})
Upside == Program(<<Raised(Box("l", 0, 2), -1), Box("k", 0, 1),
                    Main(Flipped(Raised(From("b", "boolean", <<"l", "k">>), 1)))>>, {"k"})
Undermined ==
  Program(<<Raised(Box("l", 0, 2), -1), Box("k", 0, 1),
            Flipped(Raised(From("b", "boolean", <<"l", "k">>), 1)),
            Main(From("c", "boolean", <<"b", "k">>))>>, {"k", "b"})
Tall   == Program(<<Main(Box("l", 0, 4)), Raised(Wire, 6), Under(Plain("t", "terrain"), "l")>>, {})
Gappy  == Program(<<[Outline EXCEPT !.gaps = 1, !.role = TRUE, !.clad = TRUE],
                    Main(From("e", "extrude", <<"p">>)), [Wire EXCEPT !.gaps = 1]>>, {})
Posed  == Program(<<Flipped(Raised([Outline EXCEPT !.scale = <<1, 2>>], 1)),
                    Main(From("e", "extrude", <<"p">>)), Wire>>, {"p"})
\* Replies the contract refuses.
Looped == Program(<<Main(Under(Box("l", 0, 2), "i")), From("i", "instance", <<"l">>), Wire>>, {})
NoMesh == Program(<<Wire, From("i", "instance", <<"w">>), Main(From("a", "array", <<"i">>))>>, {})
Sparse == Program(<<Main(Box("l", 0, 2))>>, {})
Hidden == Program(<<Main(Box("l", 0, 2)), Wire, Plain("t", "terrain")>>, {"l"})
\* A reply whose measure fails: the operands of an intersection are apart.
Apart  == Program(<<Box("l", 0, 1), Raised(Box("k", 0, 1), 3),
                    Main([From("b", "boolean", <<"l", "k">>) EXCEPT !.op = "intersection"])>>,
                  {"l", "k"})
\* Replies the contract admits and the inspection refuses.
Bare   == [Swept3 EXCEPT !.materials = FALSE]
Boxes  == Program(<<Main(Box("l", 0, 2)), Box("k", 0, 1), From("i", "instance", <<"k">>)>>, {})

MCReplies == {Swept3, Linked, Turned, Cut, Copied, Carved, Traced, Sunken, Facing, Upside,
              Undermined, Tall, Gappy, Posed, Looped, NoMesh, Sparse, Hidden, Apart, Bare, Boxes}

---------------------------------------------------------------------------
MCSources ==
  [a \in {mast, panel} |->
     [version |-> 1, admitted |-> TRUE, roles |-> {"r1", "r2", "r3"}, height |-> 2, reach |-> 4,
      tunable |-> IF a = panel THEN {"tilt"} ELSE {}]]

Piece(id, role) ==
  [id |-> id, role |-> role, parent |-> none, quantity |-> 1, limit |-> none, ground |-> FALSE]
Make == [strategy |-> "procedural_generate", chosen |-> {}, tuned |-> {}, placement |-> none,
         tools |-> {"primitive"}]
Reuse(place) == [Make EXCEPT !.strategy = "reuse", !.chosen = {mast}, !.placement = place]
Composed == [Make EXCEPT !.strategy = "compose", !.chosen = {panel}]
Align(id, source, target, offset) ==
  [id |-> id, kind |-> "aligned_with", source |-> source, target |-> target, required |-> TRUE,
   port |-> none, offset |-> offset]
Team(ids) ==
  <<[specialist |-> "author", inputs |-> ids, needs |-> {}, wave |-> 0],
    [specialist |-> "compiler", inputs |-> ids, needs |-> {"author"}, wave |-> 1],
    [specialist |-> "qa", inputs |-> ids, needs |-> {"compiler"}, wave |-> 2]>>
Design(components, relations, decisions) ==
  [missing |-> FALSE, clarify |-> FALSE, components |-> components, relations |-> relations,
   decisions |-> decisions, route |-> Team({})]

One   == Design(<<[Piece("c1", "r1") EXCEPT !.limit = 4, !.ground = TRUE]>>, <<>>, <<Make>>)
Mixed == Design(<<Piece("c1", "r1"), Piece("c2", "r2")>>, <<>>, <<Make, Reuse(1)>>)
Chain == Design(<<Piece("c1", "r1"), Piece("c2", "r2"), Piece("c3", "r3")>>,
                <<Align("x", "c2", "c1", 1), Align("y", "c3", "c2", 2)>>,
                <<Reuse(1), Composed, Composed>>)
Ring3 == [Chain EXCEPT !.relations = <<Align("x", "c2", "c3", 1), Align("y", "c3", "c2", 2)>>]

MCPlans ==
  {One, Mixed, Chain, Ring3,
   [One EXCEPT !.missing = TRUE, !.clarify = TRUE],
   [One EXCEPT !.missing = TRUE],
   [One EXCEPT !.decisions = <<[Make EXCEPT !.strategy = "unsupported"]>>],
   [One EXCEPT !.route = SubSeq(@, 1, 2)],
   [One EXCEPT !.components = <<[Piece("c1", "r1") EXCEPT !.parent = "c1"]>>],
   [Mixed EXCEPT !.components[2].role = "r1", !.decisions = <<Make, Make>>],
   [Mixed EXCEPT !.decisions[2].tuned = {"tilt"}, !.decisions[2].chosen = {panel}],
   [Mixed EXCEPT !.decisions[2].strategy = "adapt"],
   [Mixed EXCEPT !.decisions[2].placement = none],
   [Chain EXCEPT !.relations = Append(@, Align("z", "c3", "c1", 2))],
   [Chain EXCEPT !.relations = <<Align("x", "c2", "c1", 1)>>],
   [Chain EXCEPT !.relations[2].port = "declared"],
   [Chain EXCEPT !.relations[2].required = FALSE]}
================================================================================
