------------------------------ MODULE MCRetainer ------------------------------
(***************************************************************************)
(* Small instances of retained states for TLC.                             *)
(***************************************************************************)
EXTENDS RetainerProperties, TLC

CONSTANTS core, b1, b2, v1, v2, unset
AnyValue == Permutations(Values)
MCMeasured == {<<0, b1>>}
=============================================================================
