---------------------------- MODULE MCScheduler ----------------------------
(***************************************************************************)
(* Small instances of Scheduler for TLC.                                   *)
(***************************************************************************)
EXTENDS Scheduler

\* a request as the orcm_alloc_t constructor leaves it: no node list
Ask(k) == [min_nodes |-> k, nodes |-> NULL]

AskOne == {Ask(1)}
AskOneOrTwo == {Ask(1), Ask(2)}
AskUpToTwo == {Ask(0), Ask(1), Ask(2)}
AskAny == {Ask(k) : k \in 0..(NumNodes + 1)}

\* requests that carry a node regex of their own
AskGiven == {[min_nodes |-> 1, nodes |-> nl] : nl \in {NULL, ERROR, BAD, <<1>>, <<1, 2>>}}
            \cup {[min_nodes |-> 2, nodes |-> <<2>>]}

\* the form of the nodes' names: node1, rack1node1, 1node
Plain == [n \in 1..NumNodes |-> "plain"]
TwoFields == [n \in 1..NumNodes |-> "fields"]
OneDigitLed == [n \in 1..NumNodes |-> IF n = 2 THEN "digits" ELSE "plain"]

\* a node-down report covers one node, or the two nodes below a controller
NodeOrRack == {{n} : n \in 1..NumNodes} \cup {1..NumNodes}
=============================================================================
