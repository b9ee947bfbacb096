----------------------------- MODULE MCOperator -----------------------------
(***************************************************************************)
(* Small instances of the operator for TLC.                                *)
(***************************************************************************)
EXTENDS OperatorProperties

(* Two plans that agree on the first step; "longer" adds another one to    *)
(* the first cycle and changes the second cycle.                           *)
Histories == [nominal |-> << <<2>>, <<3, 5>> >>, longer |-> << <<2, 4>>, <<3, 7>> >>]

MCOnePlan   == {"nominal"}
MCTwoPlans  == {"nominal", "longer"}
MCNCycles   == [p \in Plans |-> Len(Histories[p])]
MCStepLengths == [p \in Plans |-> [c \in 0 .. Len(Histories[p]) - 1 |-> Histories[p][c + 1]]]
MCOutage      == [p \in Plans |-> [c \in 0 .. Len(Histories[p]) - 1 |-> 10 * (c + 1)]]

Stack == <<"main", "fuelHandler", "globalFlux", "thermal", "database">>
MCInterfaces == {Stack[i] : i \in 1 .. Len(Stack)}
MCPosition   == [i \in MCInterfaces |-> CHOOSE n \in 1 .. Len(Stack) : Stack[n] = i]

MCRestarts == {<<0, 1>>, <<1, 0>>, <<1, 1>>, <<1, 2>>}
MCReplannedRestarts == {<<0, 2>>, <<1, 0>>, <<1, 2>>}
=============================================================================
