---------------------------- MODULE RecencyList ----------------------------
(***************************************************************************)
(* What the block cache of GDAL relies on from its linked list: the blocks *)
(* in it, each one once, from the one touched last to the one touched      *)
(* least recently.                                                         *)
(***************************************************************************)
EXTENDS SequencesExt

CONSTANT Blocks

VARIABLE order

Init == order = << >>

\* A block that comes, or comes back, to the front.
Insert(b) == b \notin ToSet(order) /\ order' = <<b>> \o order

Touch(b) == \E k \in DOMAIN order : order[k] = b /\ order' = <<b>> \o RemoveAt(order, k)

\* A block that leaves, wherever it is.
Detach(b) == \E k \in DOMAIN order : order[k] = b /\ order' = RemoveAt(order, k)

Next == \E b \in Blocks : Insert(b) \/ Touch(b) \/ Detach(b)

Spec == Init /\ [][Next]_order

=============================================================================
