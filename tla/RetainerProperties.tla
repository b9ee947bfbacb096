-------------------------- MODULE RetainerProperties --------------------------
(***************************************************************************)
(* What retained states and synchronized parameters promise.               *)
(***************************************************************************)
EXTENDS StateRetainer, FiniteSets

(* Leaving a retained state gives every parameter back the value it had on *)
(* entry, except that those in paramsToApply have the value they have now, *)
(* whatever was retained, kept or synchronized within; nothing outside of  *)
(* the tree is touched.                                                    *)
RestoresValues ==
  [][Exit => \A r \in Ranks, b \in Blocks, p \in Params :
       param'[r][b][p] =
         IF b \in Subtree(Head(retainers).on) /\ p \notin Head(retainers).keep
         THEN Head(entered).param[r][b][p] ELSE param[r][b][p]]_vars

(* A cached area is the area of the dimensions the block has.              *)
AreaIsCurrent ==
  \A r \in Ranks, b \in Blocks : cached[r][b] \in {Unset, Area(r, b)}

(* Ranks that have not assigned a parameter since it was synchronized have *)
(* the same value of it.                                                   *)
RanksAgree ==
  \A r, s \in Ranks, b \in Blocks, p \in Params :
    \/ <<b, p>> \in changed[r] \cup changed[s]
    \/ failed
    \/ param[r][b][p] = param[s][b][p]

(* A synchronization that succeeds gives every rank what a rank has        *)
(* assigned, and leaves alone what none has.                               *)
NoUpdateIsLost ==
  [][Sync /\ ~failed' => \A r \in Ranks, b \in Blocks, p \in Params :
       /\ \A s \in Ranks : <<b, p>> \in changed[r] => param'[s][b][p] = param[r][b][p]
       /\ param'[r][b][p] # param[r][b][p] => \E s \in Ranks : <<b, p>> \in changed[s]]_vars

=============================================================================
