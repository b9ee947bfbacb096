---------------------------- MODULE MCStatepoints ----------------------------
(* Two cells of the core, one of which is also a cell of the pool.           *)
EXTENDS StatepointProperties

MCCells    == {<<0, 0>>, <<1, 0>>}
(* Without tracking the pool is empty: an exchange with it may give a number again. *)
MCSettings == {<<TRUE, 1>>, <<FALSE, 0>>}
MCMaxMoves  == [tracked \in BOOLEAN |-> IF tracked THEN 3 ELSE 5]
MCQValues  == <<None, Array(<<5>>), Array(<<6, 7>>)>>
=============================================================================
