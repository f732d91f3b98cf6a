--------------------------- MODULE MCGraphicsTree ---------------------------
(* A screen of three by two points and three graphics. *)
EXTENDS GraphicsTree, TLC

MCSpots == {<<0, 0>>, <<1, 0>>}
MCExtents == {<<1, 1>>, <<2, 2>>}
MCTargets == {<<-1, 0>>, <<1, 0>>, <<2, 1>>}
MCBrushes == {<<0, 0, 1, 1>>}
MCRegions == {<<1, 0, 1, 2>>, <<0, 1, 2, 1>>, <<1, 1, 2, 1>>}

Alike == Permutations(Graphics)

\* One graphic has a key or pixels in its colour.
Small == Cardinality({g \in Live : tree[g].keyed \/ tree[g].holes # {}}) <= 1
=============================================================================
