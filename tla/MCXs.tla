-------------------------------- MODULE MCXs --------------------------------
(***************************************************************************)
(* Instances for TLC: two places with fuel and one with structure of the   *)
(* same type, one with a shield whose cross sections are given, and a      *)
(* blanket in the blueprints only.                                         *)
(***************************************************************************)
EXTENDS XsProperties

MCDesigns == {"fuel", "duct", "shield", "blanket"}
MCXsType  == [d \in MCDesigns |->
  CASE d = "fuel" -> "A" [] d = "duct" -> "A" [] d = "blanket" -> "B" [] d = "shield" -> "P"]
MCCandidates  == {"fuel", "blanket"}
MCPregenerated == {"P"}
MCLoaded  == <<"fuel", "fuel", "duct", "shield">>
MCBounds  == <<1>>
MCWideBounds == <<9>>
MCFrequencies == BOL..all
=============================================================================
