------------------------------ MODULE RtreeSort ------------------------------
(***************************************************************************)
(* The two merge sorts of rtree.c, SortByDimension (splitNodeStartree) and *)
(* SortByDistance (Reinsert), checked against what a sort is: the result  *)
(* is a permutation of the index array it was given, in non-decreasing   *)
(* order of the key.  Every input of up to MaxSortLen cells over the      *)
(* given boxes and distances is an initial state; the state never changes.*)
(***************************************************************************)
EXTENDS RtreeGeom, FiniteSets

CONSTANTS
    MaxSortLen,   \* the most cells sorted at once (M+1 in the code)
    SortBoxes,    \* the one-dimensional boxes a cell may have
    Distances     \* the values aDistance[i] may take

VARIABLES
    aCell,        \* the cells handed to splitNodeStartree, as [box]
    aDistance     \* the distances Reinsert computes, one per cell

sortVars == <<aCell, aDistance>>

SortInit ==
    \E n \in 1..MaxSortLen :
        /\ aCell \in [1..n -> [box : SortBoxes]]
        /\ aDistance \in [1..n -> Distances]

\* Both sorts are pure functions of their input: nothing changes.
SortNext == UNCHANGED sortVars

SortSpec == SortInit /\ [][SortNext]_sortVars

\* The identity index array both callers start from (aIdx[ii] = ii).
Identity == [i \in 1..Len(aCell) |-> i]

\* The order the code's own (disabled) post-condition checks after each
\* sort: left <= right, and for (lo, hi) keys x1 <= y1 and (x1 < y1 or
\* x2 <= y2).
KeyLeq(x, y) == x[1] <= y[1] /\ (x[1] < y[1] \/ x[2] <= y[2])

\* A sorted permutation of aIdx: every index once, keys in KeyLeq order.
SortedPermutationOf(out, aIdx, key) ==
    /\ Len(out) = Len(aIdx)
    /\ ToSet(out) = ToSet(aIdx)
    /\ IsSorted(out, LAMBDA i, j : KeyLeq(key[i], key[j]))

\* The merge of SortByDimension and SortByDistance, with its left-first
\* rule on strictly smaller keys and the in-place split at nIdx/2, orders
\* every input: splitNodeStartree's margins and split positions, and the
\* choice of which cells Reinsert takes out, are only right on a sorted
\* order of all the cells.  SortByDimension reads one slot past a used-up
\* half before it tests for it: whatever stale cell index lies there, the
\* result must not depend on it.
SortsAreSortedPermutations ==
    /\ \A junk \in 1..Len(aCell) :
         SortedPermutationOf(SortByDimension(Identity, 1, aCell, junk), Identity,
                             [i \in 1..Len(aCell) |-> aCell[i].box[1]])
    /\ SortedPermutationOf(SortByDistance(Identity, aDistance), Identity,
                           [i \in 1..Len(aCell) |-> <<aDistance[i], 0>>])

=============================================================================
