------------------------------ MODULE Timeline ------------------------------
(***************************************************************************)
(* What the sequence of runs of a case promises about the history that its *)
(* database holds: the nodes saved are the first nodes of the plan, each   *)
(* at its exact simulated time and with the fuel shuffled once for every   *)
(* cycle begun, whatever interruptions and restarts it took to get there.  *)
(* History may be lost, its end first, but is never skipped, repeated or   *)
(* rewritten.                                                              *)
(***************************************************************************)
EXTENDS Schedule

CONSTANT Plan   \* the plan of every run of the case
VARIABLE hist   \* the saved nodes, each with its time and its shuffles

Init == hist = [node \in {} |-> 0]

Earlier(node) == {a \in Nodes(Plan) : Before(a, node)}

(* Simulated time that elapses on the way into node n of cycle c: a burn   *)
(* step inside a cycle, the previous cycle's outage at its boundary.       *)
TimeInto(c, n) ==
  IF n > 0 THEN StepLengths[Plan][c][n] ELSE IF c > 0 THEN Outage[Plan][c - 1] ELSE 0

TimeOf(node) ==
  IF node = <<0, 0>>
  THEN 0
  ELSE hist[PreviousNode(Plan, node[1], node[2])].time + TimeInto(node[1], node[2])

(* The next node of the plan is saved. *)
SaveNext(node) ==
  /\ DOMAIN hist = Earlier(node)
  /\ hist' = [a \in DOMAIN hist \cup {node} |->
                IF a = node
                THEN [time |-> TimeOf(node), shuffles |-> node[1] + 1]
                ELSE hist[a]]

(* What is saved of some node and of all the later ones is lost. *)
Cut(node) == hist' = [a \in DOMAIN hist \cap Earlier(node) |-> hist[a]]

Next == \E node \in Nodes(Plan) : SaveNext(node) \/ Cut(node)

Spec == Init /\ [][Next]_hist
=============================================================================
