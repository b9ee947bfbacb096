----------------------------- MODULE MCGeometry -----------------------------
(***************************************************************************)
(* Small cores for TLC: the centre, an inner cell and a cell on the lower  *)
(* symmetry line.                                                          *)
(***************************************************************************)
EXTENDS GeometryProperties

Inner == <<1, 0>>
Edge  == <<2, -1>>
MCFilled   == {Centre, Inner, Edge, <<4, -2>>}
MCMeasured == {Centre, Edge}
=============================================================================
