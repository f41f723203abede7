-------------------------- MODULE MCWaybackTiles ---------------------------
(* WaybackTiles with two zooms: three tiles at the upper, two in the area.   *)
EXTENDS WaybackTiles

MCCount == [z \in 17 .. 18 |-> IF z = 18 THEN 3 ELSE 1]
MCAoi   == {<<18, 1>>, <<18, 3>>, <<17, 1>>}
=============================================================================
