--------------------------- MODULE MCDesignGraph ---------------------------
(* Two runs, the second after whatever the first left behind. *)
EXTENDS DesignGraph
=============================================================================
