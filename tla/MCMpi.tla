------------------------------- MODULE MCMpi -------------------------------
(***************************************************************************)
(* Small instances of the parallel operator for TLC.                       *)
(***************************************************************************)
EXTENDS MpiProperties

MCStack == <<"main", "xsGroups", "database", "fuelHandler">>

MCDistributable ==
  [i \in Interfaces |-> CASE i = "database" -> "SKIP"
                          [] i = "xsGroups" -> "NEW"
                          [] OTHER          -> "DUPLICATE"]
=============================================================================
