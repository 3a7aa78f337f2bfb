--------------------------- MODULE MCCanvasProject ---------------------------
(***************************************************************************)
(* Two projects, one image (images do not interact: a sweep treats each by *)
(* itself), three revisions and an undo history of two entries.            *)
(***************************************************************************)
EXTENDS CanvasProject, TLC

CONSTANTS p, q, k
MCProjects == {p, q}
MCKeys     == {k}
Symmetric  == Permutations(MCProjects)
=============================================================================
