---------------------------- MODULE MCWorkspace ----------------------------
(* Two threads, two conversations, and a pack they may share. *)
EXTENDS Workspace, TLC
CONSTANTS t1, t2, c1, c2
MCThreads == {t1, t2}
MCChats   == {c1, c2}
MCPacks   == {1}
MCDesigns == {1, 2}
Symmetry  == Permutations(MCThreads) \cup Permutations(MCChats)
=============================================================================
