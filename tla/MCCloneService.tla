--------------------------- MODULE MCCloneService ---------------------------
(* Two runs and one import, with crashes and one passing of twelve hours.  *)
EXTENDS CloneService, TLC

CONSTANTS r1, r2, i1
MCRuns == {r1, r2}
MCImporters == {i1}
Symmetry == Permutations(MCRuns)
=============================================================================
