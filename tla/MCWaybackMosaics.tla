------------------------- MODULE MCWaybackMosaics --------------------------
(* WaybackMosaics with two requests, of one area or of two, or prefetches, and *)
(* two lists of tiles.                                                       *)
EXTENDS WaybackMosaics

\* The names of requests, areas and lists are interchangeable: the request that
\* starts first is called r1, its area a1 and its list l1.
CONSTANTS r1, a1, l1

NamedInOrder ==
  /\ (\E r \in Requests : req[r].at # "idle") => req[r1].at # "idle"
  /\ req[r1].area \in {a1, Nobody} /\ req[r1].list \in {l1, AnyList}
=============================================================================
