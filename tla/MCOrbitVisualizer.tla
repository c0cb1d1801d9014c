------------------------- MODULE MCOrbitVisualizer -------------------------
(***************************************************************************)
(* Passes of six and of eight units, an update every two.  Calls of work   *)
(* at a distance of one bring an update into the first and into the last   *)
(* part of a pass, by which the next one is noticed; one at a distance of  *)
(* three need not.                                                         *)
(***************************************************************************)
EXTENDS OrbitVisualizer

=============================================================================
