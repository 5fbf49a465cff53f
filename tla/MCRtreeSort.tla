----------------------------- MODULE MCRtreeSort -----------------------------
(***************************************************************************)
(* The pure computations of rtree.c in one check: the two sorts of        *)
(* RtreeSort and the planning of RtreeIndex.  An initial state is either  *)
(* a sort input (no constraints) or a constraint array (no cells).        *)
(* Sort inputs use one-dimensional boxes [1,1], [1,2], [2,2], so that     *)
(* some cells tie on lo and are told apart by hi, and others tie on both. *)
(***************************************************************************)
EXTENDS RtreeSort, RtreeIndex

LoHiBoxes == {<<<<1, 1>>>>, <<<<1, 2>>>>, <<<<2, 2>>>>}

pureVars == <<aCell, aDistance, aConstraint>>

PureInit ==
    \/ SortInit /\ aConstraint = <<>>
    \/ aCell = <<>> /\ aDistance = <<>> /\ IndexInit

PureSpec == PureInit /\ [][UNCHANGED pureVars]_pureVars
=============================================================================
