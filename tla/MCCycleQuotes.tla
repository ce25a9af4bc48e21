--------------------------- MODULE MCCycleQuotes ---------------------------
(* Instances of CycleQuotes for model checking. *)
EXTENDS CycleQuotes

CONSTANTS q1, m1

(* The outcall gets dearer with the nodes and with the length of the key. *)
MCCost == [n \in Nodes |-> [k \in Key |-> n + k]]
=============================================================================
