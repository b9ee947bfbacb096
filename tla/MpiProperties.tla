--------------------------- MODULE MpiProperties ---------------------------
(***************************************************************************)
(* What the primary and the workers of a parallel run promise.             *)
(***************************************************************************)
EXTENDS MpiOperator

Acts == {"memory", "macros", "batch"}

(* Worker w is about to take part in a call. *)
BeginsTo(w, call) == at[w] = "loop" /\ inbox[w] # <<>> /\ Message(w).is = call

(* No state is carried from one hook to the next: a worker that takes part *)
(* in a call has either no distributed reactor or one that the same hook   *)
(* distributed (_finalizeInteract: "clear their reactor data so that it    *)
(* isn't carried around to the next interact").                            *)
NoStateIsCarriedOver ==
  \A w \in Workers, call \in Acts :
    BeginsTo(w, call) /\ reactor[w] # NotDistributed => reactor[w].hook = Message(w).hook

(* No half-distributed state is used: a worker that takes part in a call   *)
(* with a distributed reactor has its copies of all the interfaces from    *)
(* the same distribution, however that distribution may have failed.       *)
StateIsWhole ==
  \A w \in Workers, call \in Acts :
    BeginsTo(w, call) /\ reactor[w] # NotDistributed =>
      \A i \in Interfaces : Distributable[i] = "DUPLICATE" => copy[w][i] = reactor[w].dist

(* The ranks agree on the order of their collectives: without a fault,     *)
(* what a worker takes from the primary is always what its code waits for, *)
(* no worker fails, and each one ends by the command to quit.              *)
RanksAgree ==
  faults = 0 =>
    \A w \in Workers :
      /\ at[w] # "raised"
      /\ ~BeginsTo(w, "finished")
      /\ at[w] = "quitting" /\ inbox[w] # <<>> => Message(w).is = "finished"

(* Every process of a run ends, whatever fails where: no rank waits for    *)
(* ever for one that failed, or in a collective that others left out.      *)
AllRanksEnd == <>(\A i \in Ranks : at[i] = "ended")
=============================================================================
