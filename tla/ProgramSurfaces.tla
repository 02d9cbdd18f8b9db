---------------------------- MODULE ProgramSurfaces ----------------------------
(***************************************************************************)
(* The faces the geometry compiler writes for the solids it sweeps itself  *)
(* (apps/blender_worker/geometry_program_compiler.py): tuples of vertex    *)
(* numbers, ring after ring of the profile's points.                       *)
(***************************************************************************)
EXTENDS Integers, Sequences, FiniteSets, SequencesExt

\* The numbers first, first + 1, ..., of one ring of n points.
Ring(first, n) == [i \in 1 .. n |-> first + i - 1]

\* The bands between ring a and ring b of n points, one face per edge.
Band(a, b, n, edges) ==
  {<<a * n + j, b * n + j, b * n + ((j + 1) % n), a * n + ((j + 1) % n)>> : j \in 0 .. edges - 1}

Bands(rings, bands, n, edges) ==
  UNION {Band(i, (i + 1) % rings, n, edges) : i \in 0 .. bands - 1}

Caps(rings, n) == {Reverse(Ring(0, n)), Ring((rings - 1) * n, n)}

ExtrudeFaces(n) ==
  Caps(2, n) \cup {<<j, (j + 1) % n, n + ((j + 1) % n), n + j>> : j \in 0 .. n - 1}

\* A whole turn comes back to the first ring, a part of one has two ends.
RevolveFaces(n, closed, segments, full) ==
  LET rings == IF full THEN segments ELSE segments + 1
  IN  Bands(rings, IF full THEN rings ELSE rings - 1, n, IF closed THEN n ELSE n - 1)
        \cup (IF ~full /\ closed THEN Caps(rings, n) ELSE {})

SweepFaces(n, rings, cyclic) ==
  Bands(rings, IF cyclic THEN rings ELSE rings - 1, n, n)
    \cup (IF cyclic THEN {} ELSE Caps(rings, n))

TerrainFaces(columns, rows) ==
  {<<r * columns + c, r * columns + c + 1, (r + 1) * columns + c + 1, (r + 1) * columns + c>> :
     r \in 0 .. rows - 2, c \in 0 .. columns - 2}

---------------------------------------------------------------------------
\* The directed edges of a face, and the faces that have an edge either way.
Edges(f)     == {<<f[i], f[(i % Len(f)) + 1]>> : i \in DOMAIN f}
Sharing(F, e) == {f \in F : e \in Edges(f) \/ <<e[2], e[1]>> \in Edges(f)}

\* Every edge belongs to exactly two faces: the surface has no border.
Watertight(F) == \A f \in F : \A e \in Edges(f) : Cardinality(Sharing(F, e)) = 2
================================================================================
