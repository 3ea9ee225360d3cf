--------------------------------- MODULE MCFov ---------------------------------
(***************************************************************************)
(* Where the player stands when TLC checks Fov: in a corner, with the      *)
(* largest quadrant before it, and in the middle, with all four quadrants  *)
(* about it; and what is opaque: at most three tiles, at most one, or a    *)
(* ring around the corner.                                                 *)
(***************************************************************************)
EXTENDS Fov

MCPlayers == {<<0, 0>>, <<2, 1>>}

MCAtMostOne == {{}} \cup {{a} : a \in Tiles}

MCRing == {<<0, 2>>, <<1, 2>>, <<2, 2>>, <<2, 1>>, <<2, 0>>}

MCLayouts == {{}} \cup {{a, b, c} : a, b, c \in Tiles} \cup {MCRing \ {a} : a \in Tiles}
=============================================================================
