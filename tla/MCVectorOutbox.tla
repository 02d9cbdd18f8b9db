--------------------------- MODULE MCVectorOutbox ---------------------------
(* Instance of VectorOutbox for TLC.                                       *)
EXTENDS VectorOutbox
=============================================================================
