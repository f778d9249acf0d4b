--------------------------- MODULE MCReusedViews ---------------------------
(* ReusedViews for TLC: two views and two pictures of any kinds and media. *)
EXTENDS ReusedViews, TLC

CONSTANTS v1, v2, p1, p2, n1, n2

MCView == {v1, v2}
MCPicture == {p1, p2}
MCRequestId == {n1, n2}
Symmetry ==
  Permutations(MCView) \union Permutations(MCPicture)
    \union Permutations(MCRequestId)
=============================================================================
