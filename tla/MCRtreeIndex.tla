----------------------------- MODULE MCRtreeIndex -----------------------------
(***************************************************************************)
(* rtreeBestIndex at the code's own zIdxStr size: a query with n-1 usable *)
(* constraints on a coordinate column, followed by a rowid equality or a  *)
(* MATCH.                                                                  *)
(***************************************************************************)
EXTENDS RtreeIndex

CoordLe  == [usable |-> TRUE, iColumn |-> 1, op |-> "LE"]
RowidEq  == [usable |-> TRUE, iColumn |-> 0, op |-> "EQ"]
MatchCol == [usable |-> TRUE, iColumn |-> 1, op |-> "MATCH"]

LongInit ==
    \E n \in 1..MaxCons, last \in {RowidEq, MatchCol} :
        aConstraint = [i \in 1..n |-> IF i = n THEN last ELSE CoordLe]

LongSpec == LongInit /\ [][UNCHANGED aConstraint]_aConstraint
=============================================================================
