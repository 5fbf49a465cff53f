----------------------------- MODULE RtreeGeom -----------------------------
(***************************************************************************)
(* Geometry primitives and the two merge sorts of src/ext/rtree/rtree.c.   *)
(*                                                                         *)
(* A box is a sequence with one <<lo, hi>> pair per dimension (the 2N      *)
(* coordinates of an RtreeCell, dimension d being aCoord[2d], aCoord[2d+1])*)
(* and a cell is a record [id |-> rowid-or-node-number, box |-> box].      *)
(* Coordinates are the integers of an rtree_i32 table (RTREE_COORD_INT32), *)
(* so DCOORD is exact and no rounding happens.                             *)
(***************************************************************************)
EXTENDS Integers, Sequences, SequencesExt

Dims(b) == DOMAIN b

\* cellArea: product of the extents hi - lo over the dimensions.
cellArea(b) == FoldLeft(LAMBDA acc, d : acc * (b[d][2] - b[d][1]), 1,
                        [i \in 1..Len(b) |-> i])

\* cellMargin: sum of the extents.
cellMargin(b) == FoldLeft(LAMBDA acc, d : acc + (b[d][2] - b[d][1]), 0,
                          [i \in 1..Len(b) |-> i])

\* cellUnion(p1, p2): the smallest box covering both.
cellUnion(b1, b2) ==
    [d \in Dims(b1) |-> <<IF b1[d][1] > b2[d][1] THEN b2[d][1] ELSE b1[d][1],
                          IF b1[d][2] < b2[d][2] THEN b2[d][2] ELSE b1[d][2]>>]

\* cellContains(p1, p2): p2 lies inside p1 in every dimension.
cellContains(b1, b2) ==
    \A d \in Dims(b1) : ~(b2[d][1] < b1[d][1] \/ b2[d][2] > b1[d][2])

\* cellGrowth(p, pCell): how much the area of p grows when unioned with pCell.
cellGrowth(b, b2) == cellArea(cellUnion(b, b2)) - cellArea(b)

\* cellOverlap(p, aCell, 1, -1): volume of the intersection of two boxes,
\* 0 as soon as one dimension does not intersect (x2 < x1).
cellOverlap(b1, b2) ==
    IF \E d \in Dims(b1) :
          (IF b1[d][2] < b2[d][2] THEN b1[d][2] ELSE b2[d][2])
        < (IF b1[d][1] > b2[d][1] THEN b1[d][1] ELSE b2[d][1])
    THEN 0
    ELSE FoldLeft(LAMBDA acc, d :
                    acc * ((IF b1[d][2] < b2[d][2] THEN b1[d][2] ELSE b2[d][2])
                         - (IF b1[d][1] > b2[d][1] THEN b1[d][1] ELSE b2[d][1])),
                  1, [i \in 1..Len(b1) |-> i])

\* Union of the boxes of a non-empty sequence of cells, taken from the
\* first cell onwards as fixBoundingBox and splitNodeStartree do.
BoxOfCells(cells) ==
    FoldLeft(LAMBDA acc, c : cellUnion(acc, c.box), cells[1].box, Tail(cells))

(***************************************************************************)
(* The merge sort shared by SortByDistance and SortByDimension: both split *)
(* aIdx at nIdx/2, sort the halves and merge, taking the left element only *)
(* when its key is strictly smaller, the right one otherwise (so equal     *)
(* keys take the right element first).  A key is a pair compared          *)
(* lexicographically: <<distance, 0>> or <<lo, hi>> of one dimension.      *)
(***************************************************************************)
\* Mutant: only the first component is compared (xleft1 < xright1).
KeyLess_loOnly(k1, k2) == k1[1] < k2[1]

KeyLess(k1, k2) == k1[1] < k2[1] \/ (k1[1] = k2[1] /\ k1[2] < k2[2])

RECURSIVE MergeByKey(_, _, _)
MergeByKey(l, r, key) ==
    IF l = <<>> THEN r
    ELSE IF r = <<>> THEN l
    ELSE IF KeyLess(key[Head(l)], key[Head(r)])
         THEN <<Head(l)>> \o MergeByKey(Tail(l), r, key)
         ELSE <<Head(r)>> \o MergeByKey(l, Tail(r), key)

RECURSIVE MergeSortByKey(_, _)
MergeSortByKey(aIdx, key) ==
    IF Len(aIdx) <= 1 THEN aIdx
    ELSE LET nLeft == Len(aIdx) \div 2
         IN MergeByKey(MergeSortByKey(SubSeq(aIdx, 1, nLeft), key),
                       MergeSortByKey(SubSeq(aIdx, nLeft + 1, Len(aIdx)), key),
                       key)

\* SortByDistance: order the indices by aDistance[i].
SortByDistance(aIdx, aDistance) ==
    MergeSortByKey(aIdx, [i \in DOMAIN aDistance |-> <<aDistance[i], 0>>])

(***************************************************************************)
(* SortByDimension has a merge loop of its own: it reads the keys of       *)
(* aLeft[iLeft] and aRight[iRight] before it tests whether either half is  *)
(* used up, and so reads one slot past the end of a half.  That slot lies  *)
(* inside the block splitNodeStartree allocates (the next sorted array,    *)
(* aSpare, or its zeroed tail) and holds a stale cell index, junk.         *)
(***************************************************************************)
\* aLeft[iLeft] or aRight[iRight] as the loop reads it (iLeft 0-based).
ReadAt(a, i, junk) == IF i < Len(a) THEN a[i + 1] ELSE junk

\* A write of aIdx[iLeft+iRight] past nIdx: the merge has gone wrong.
OutOfBounds == 0

\* Mutant: the take-left test without iLeft!=nLeft.
DimTakesLeft_noLeftBound(iLeft, nLeft, iRight, nRight, xl, xr) ==
    iRight = nRight \/ KeyLess(xl, xr)

\* The test of the loop: (iLeft!=nLeft) && ((iRight==nRight) || less).
DimTakesLeft(iLeft, nLeft, iRight, nRight, xl, xr) ==
    iLeft # nLeft /\ (iRight = nRight \/ KeyLess(xl, xr))

RECURSIVE MergeByDimension(_, _, _, _, _, _)
MergeByDimension(aLeft, aRight, iLeft, iRight, key, junk) ==
    IF ~(iLeft < Len(aLeft) \/ iRight < Len(aRight)) THEN <<>>
    ELSE IF iLeft + iRight >= Len(aLeft) + Len(aRight) THEN <<OutOfBounds>>
    ELSE IF DimTakesLeft(iLeft, Len(aLeft), iRight, Len(aRight),
                         key[ReadAt(aLeft, iLeft, junk)],
                         key[ReadAt(aRight, iRight, junk)])
         THEN <<ReadAt(aLeft, iLeft, junk)>>
                \o MergeByDimension(aLeft, aRight, iLeft + 1, iRight, key, junk)
         ELSE <<ReadAt(aRight, iRight, junk)>>
                \o MergeByDimension(aLeft, aRight, iLeft, iRight + 1, key, junk)

\* SortByDimension: order the indices by (lo, hi) of dimension iDim; junk is
\* the stale index its merges read past a used-up half.
RECURSIVE MergeSortByDimension(_, _, _)
MergeSortByDimension(aIdx, key, junk) ==
    IF Len(aIdx) <= 1 THEN aIdx
    ELSE MergeByDimension(
           MergeSortByDimension(SubSeq(aIdx, 1, Len(aIdx) \div 2), key, junk),
           MergeSortByDimension(SubSeq(aIdx, Len(aIdx) \div 2 + 1, Len(aIdx)), key, junk),
           0, 0, key, junk)

SortByDimension(aIdx, iDim, aCell, junk) ==
    MergeSortByDimension(aIdx, [i \in DOMAIN aCell |-> aCell[i].box[iDim]], junk)


=============================================================================
