------------------------------ MODULE MCShuffle ------------------------------
(***************************************************************************)
(* A core of three locations, and a spent fuel pool with one assembly that *)
(* never ran.                                                              *)
(***************************************************************************)
EXTENDS ShuffleProperties

MCCore == [l \in Locs |-> CASE l = "A" -> 0 [] l = "B" -> 1 [] l = "C" -> 2]

Feed(locs)         == [do |-> "cascade", assemType |-> "feed", locs |-> locs]
Return(hist, locs) == [do |-> "cascade", ringPosCycle |-> hist, locs |-> <<"SFP">> \o locs]
Swap(k, l)         == [do |-> "swap", locs |-> <<k, l>>]
Rotate(l)          == [do |-> "extraRotations", loc |-> l]

(* Cascades of every length, to the pool or not, two at once, swaps listed *)
(* before and after the cascades they follow, and returns of assemblies    *)
(* that are, or are not, in the pool.                                      *)
Plans ==
  { <<>>,
    <<Feed(<<"A", "B", "SFP">>), Swap("A", "B"), Rotate("A")>>,
    <<Swap("C", "A"), Feed(<<"B", "C", "A">>), Swap("A", "B"), Rotate("C"), Rotate("B")>>,
    <<Feed(<<"A">>), Feed(<<"C", "B", "Delete">>)>>,
    <<Feed(<<"C", "SFP">>), Swap("A", "B"), Swap("B", "C")>>,
    <<Rotate("A"), Swap("B", "C")>>,
    <<Rotate("B"), Feed(<<"A", "B", "C">>)>>,
    <<Feed(<<"A", "SFP">>), Return(<<"A", 0>>, <<"B">>)>>,
    <<Return(<<"B", 0>>, <<"B", "SFP">>)>>,
    <<Return(<<"A", 0>>, <<"C", "A", "SFP">>), Feed(<<"B", "SFP">>)>>,
    <<Return(<<"C", 1>>, <<"A", "B">>), Swap("A", "C")>> }

MCSequences == [1 .. NCycles - 1 -> Plans]
=============================================================================
