------------------------------- MODULE Rtree -------------------------------
(***************************************************************************)
(* The R*-tree engine of src/ext/rtree/rtree.c: the three backing tables   *)
(* (%_node, %_parent, %_rowid), the root depth, Rtree.iReinsertHeight and  *)
(* the xUpdate handler rtreeUpdate with everything it calls: ChooseLeaf,   *)
(* rtreeInsertCell, AdjustTree, SplitNode/splitNodeStartree, Reinsert,     *)
(* rtreeDeleteRowid, deleteCell, removeNode, fixBoundingBox and the        *)
(* re-insertion of condensed nodes.                                        *)
(*                                                                         *)
(* The host serialises virtual-table calls and none of these functions     *)
(* blocks, so one xUpdate call is one atomic step.  Inside the step the    *)
(* algorithm is a recursive function from a record t to a record t, the    *)
(* record holding the node contents, the two maps, the depth, the          *)
(* reinsert height, the pDeleted list and the return code.  Between calls *)
(* every node reference is released, so every dirty node has been written *)
(* by nodeRelease and the node cache holds the same contents as %_node:    *)
(* the model keeps one copy.  A node's pParent pointer is read from its    *)
(* %_parent row (see README: where the two can differ).                    *)
(***************************************************************************)
EXTENDS Integers, Sequences, FiniteSets, SequencesExt, TLC, RtreeGeom

CONSTANTS
    MaxCells,     \* M = (iNodeSize-4)/nBytesPerCell, nodeInsertCell's nMaxCell
    Rowids,       \* the rowids the model's rows may have
    Boxes,        \* the boxes an INSERT or UPDATE may write (lo <= hi or not)
    MaxNode,      \* node numbers handed out by %_node stay within 1..MaxNode
    NULL          \* an SQL NULL argument of xUpdate

ASSUME MaxCells \in Nat /\ MaxCells >= 3
ASSUME MaxNode \in Nat \ {0}

MinCells == MaxCells \div 3          \* RTREE_MINCELLS, also RTREE_REINSERT

VARIABLES
    node,           \* %_node: node number -> sequence of cells (NCELL = Len)
    parentTab,      \* %_parent: non-root node number -> parent node number
    rowidTab,       \* %_rowid: rowid -> leaf node number
    depth,          \* bytes [0..2) of node 1, read into Rtree.iDepth
    reinsertHeight, \* Rtree.iReinsertHeight (kept across calls)
    corrupted       \* some xUpdate has returned SQLITE_CORRUPT_VTAB

vars == <<node, parentTab, rowidTab, depth, reinsertHeight, corrupted>>

(***************************************************************************)
(* Node access and the two maps.                                           *)
(***************************************************************************)
NCELL(t, n) == Len(t.nd[n])
HasParent(t, n) == n \in DOMAIN t.par          \* pNode->pParent != 0
OK(t) == t.rc = "ok"
Fail(t) == [t EXCEPT !.rc = "corrupt"]         \* SQLITE_CORRUPT_VTAB
Seq1(a, b) == [i \in 1..(b - a + 1) |-> a + i - 1]

\* nodeRowidIndex: index of the cell of node n whose id is x, 0 if none.
nodeRowidIndex(t, n, x) ==
    LET I == {i \in 1..NCELL(t, n) : t.nd[n][i].id = x}
    IN IF I = {} THEN 0 ELSE Min(I)

\* nodeWrite of a node without a number: INSERT OR REPLACE with a NULL key,
\* so the row is given max(nodeno)+1.
NewNodeNo(t) == Max(DOMAIN t.nd) + 1

\* updateMapping (and the rowidWrite/parentWrite tail of rtreeInsertCell):
\* a leaf cell maps its rowid, an internal cell maps its child node.
\* Mutant: a plain INSERT that keeps an existing mapping row.
updateMapping_keepOld(t, x, n, h) ==
    IF h = 0 THEN [t EXCEPT !.rid = @ @@ (x :> n)]
    ELSE [t EXCEPT !.par = @ @@ (x :> n)]

updateMapping(t, x, n, h) ==
    IF h = 0 THEN [t EXCEPT !.rid = (x :> n) @@ @]
    ELSE [t EXCEPT !.par = (x :> n) @@ @]

\* updateMapping of every cell of node x, the loops at the end of SplitNode.
MapAll(t, x, h) == FoldLeft(LAMBDA acc, e : updateMapping(acc, e.id, x, h), t, t.nd[x])

\* The mapping write that follows a successful step.
MapIfOK(t, x, n, h) == IF OK(t) THEN updateMapping(t, x, n, h) ELSE t

(***************************************************************************)
(* ChooseLeaf with VARIANT_RSTARTREE_CHOOSESUBTREE = 0: at every level the *)
(* cell needing least growth, ties to least area, earliest first; a node  *)
(* with no cell leaves iBest = 0 and nodeAcquire(0) fails.  Result: the   *)
(* node at height h, or 0 on error.                                        *)
(***************************************************************************)
BestChild(cells, c) ==
    FoldLeft(LAMBDA acc, i :
               LET g == cellGrowth(cells[i].box, c.box)
                   a == cellArea(cells[i].box)
               IN IF i = 1 \/ g < acc.g \/ (g = acc.g /\ a < acc.a)
                  THEN [best |-> i, g |-> g, a |-> a] ELSE acc,
             [best |-> 0, g |-> 0, a |-> 0], Seq1(1, Len(cells))).best

RECURSIVE Descend(_, _, _, _)
Descend(t, n, c, k) ==
    IF k = 0 THEN n
    ELSE LET i == BestChild(t.nd[n], c)
         IN IF i = 0 \/ t.nd[n][i].id \notin DOMAIN t.nd THEN 0
            ELSE Descend(t, t.nd[n][i].id, c, k - 1)

\* Mutant: one level too many.
ChooseLeaf_oneTooDeep(t, c, h) == Descend(t, 1, c, t.dep - h + 1)

ChooseLeaf(t, c, h) == Descend(t, 1, c, t.dep - h)

\* AdjustTree: grow every ancestor's cell for the path to cover cell c.
RECURSIVE AdjustTree(_, _, _)
AdjustTree(t, p, c) ==
    IF ~HasParent(t, p) THEN t
    ELSE LET q == t.par[p]
             i == nodeRowidIndex(t, q, p)
         IN IF i = 0 THEN Fail(t)
            ELSE AdjustTree(IF cellContains(t.nd[q][i].box, c.box) THEN t
                            ELSE [t EXCEPT !.nd[q][i].box = cellUnion(@, c.box)],
                            q, c)

\* fixBoundingBox: set the parent's cell for n to the union of n's cells,
\* and so on up to the root.
RECURSIVE fixBoundingBox(_, _)
fixBoundingBox(t, n) ==
    IF ~HasParent(t, n) THEN t
    ELSE LET p == t.par[n]
             i == nodeRowidIndex(t, p, n)
         IN IF i = 0 THEN Fail(t)
            ELSE fixBoundingBox(
                   [t EXCEPT !.nd[p][i] = [id |-> n, box |-> BoxOfCells(t.nd[n])]], p)

(***************************************************************************)
(* splitNodeStartree: for every dimension sort the M+1 cells by (lo, hi),  *)
(* sum the margins of every split k in [m, nCell-m] and keep the k of      *)
(* least overlap, ties to least area, earliest first; take the dimension   *)
(* of least margin sum, earliest first.  Returns the two halves and boxes. *)
(***************************************************************************)
\* The cells of positions a..b of the order, and the union of the first k
\* (left) or of the rest (right): the left and right cells of the loop.
Half(aCell, order, a, b) == [i \in 1..(b - a + 1) |-> aCell[order[a + i - 1]]]
LBox(aCell, order, k) == BoxOfCells(Half(aCell, order, 1, k))
RBox(aCell, order, k) == BoxOfCells(Half(aCell, order, k + 1, Len(aCell)))

\* The split positions nLeft = m .. nCell-m.
SplitPositions(aCell) == Seq1(MinCells, Len(aCell) - MinCells)

\* The sum of the margins of both halves over every split position.
Margin(aCell, order) ==
    FoldLeft(LAMBDA acc, k : acc + cellMargin(LBox(aCell, order, k))
                                 + cellMargin(RBox(aCell, order, k)),
             0, SplitPositions(aCell))

\* The split position of least overlap, ties to least area, earliest first.
BestLeft(aCell, order) ==
    FoldLeft(LAMBDA acc, k :
               LET o == cellOverlap(LBox(aCell, order, k), RBox(aCell, order, k))
                   a == cellArea(LBox(aCell, order, k)) + cellArea(RBox(aCell, order, k))
               IN IF k = MinCells \/ o < acc.o \/ (o = acc.o /\ a < acc.a)
                  THEN [k |-> k, o |-> o, a |-> a] ELSE acc,
             [k |-> 0, o |-> 0, a |-> 0], SplitPositions(aCell)).k

SplitHalves(aCell, order, k) ==
    [left |-> Half(aCell, order, 1, k), right |-> Half(aCell, order, k + 1, Len(aCell)),
     lbox |-> LBox(aCell, order, k), rbox |-> RBox(aCell, order, k)]

\* The dimension of least margin sum, earliest first, split at its best k.
SplitSorted(aCell, sorted) ==
    LET dim == FoldLeft(LAMBDA acc, d :
                          IF d = 1 \/ Margin(aCell, sorted[d]) < acc.m
                          THEN [d |-> d, m |-> Margin(aCell, sorted[d])] ELSE acc,
                        [d |-> 0, m |-> 0], Seq1(1, Len(sorted))).d
    IN SplitHalves(aCell, sorted[dim], BestLeft(aCell, sorted[dim]))

splitNodeStartree(aCell) ==
    SplitSorted(aCell, [d \in 1..Len(aCell[1].box) |->
                          SortByDimension(Seq1(1, Len(aCell)), d, aCell, 1)])

\* The mapping loops: every cell of R is mapped to R; then every cell of L
\* to L after a root split, or else the new cell to L unless it went to R.
SplitRemapLeft(t, isRoot, c, h, L, newCellIsRight) ==
    IF ~OK(t) THEN t
    ELSE IF isRoot THEN MapAll(t, L, h)
    ELSE IF ~newCellIsRight THEN updateMapping(t, c.id, L, h)
    ELSE t

SplitRemap(t, isRoot, c, h, L, R) ==
    IF ~OK(t) THEN t
    ELSE SplitRemapLeft(MapAll(t, R, h), isRoot, c, h, L,
                        \E i \in 1..NCELL(t, R) : t.nd[R][i].id = c.id)

(***************************************************************************)
(* The insert recursion.  rtreeInsertCell appends cell c to node n (at     *)
(* height h) and maps it, or, when n is full, splits n (root, or a height *)
(* already reinserted during this call) or forces a reinsert at h.         *)
(***************************************************************************)
RECURSIVE rtreeInsertCell(_, _, _, _), SplitNode(_, _, _, _),
          InstallLeft(_, _, _, _, _), InstallLeft_append(_, _, _, _, _),
          SplitAssign(_, _, _, _, _), InsertIfOK(_, _, _, _),
          ReinsertAt(_, _, _, _),
          Reinsert(_, _, _, _), ReinsertCells(_, _, _),
          rtreeInsertCell_fullAtMPlus1(_, _, _, _)

\* Mutant: nodeInsertCell's full test off by one.
rtreeInsertCell_fullAtMPlus1(t, n, c, h) ==
    IF NCELL(t, n) <= MaxCells
    THEN MapIfOK(AdjustTree([t EXCEPT !.nd[n] = Append(@, c)], n, c), c.id, n, h)
    ELSE IF h <= t.rh \/ n = 1 THEN SplitNode(t, n, c, h)
    ELSE Reinsert([t EXCEPT !.rh = h], n, c, h)

rtreeInsertCell(t, n, c, h) ==
    IF NCELL(t, n) < MaxCells
    THEN MapIfOK(AdjustTree([t EXCEPT !.nd[n] = Append(@, c)], n, c), c.id, n, h)
    ELSE IF h <= t.rh \/ n = 1 THEN SplitNode(t, n, c, h)
    ELSE Reinsert([t EXCEPT !.rh = h], n, c, h)

\* SplitNode: n's cells and c are shared out by splitNodeStartree.  A root
\* split moves both halves into two new nodes (pRight written first, so it
\* gets the lower number) and deepens the tree; otherwise n keeps the left
\* half, its parent cell is overwritten and AdjustTree'd, and the new right
\* node is inserted into n's parent.  Then the cells of the new nodes are
\* re-mapped to them.
\* Mutant: the left half's cell is added to the parent beside the old one.
InstallLeft_append(t, isRoot, P, lcell, h) ==
    IF isRoot THEN rtreeInsertCell(t, 1, lcell, h + 1)
    ELSE rtreeInsertCell(t, P, lcell, h + 1)

\* The left half's cell goes into the parent: inserted into the emptied
\* root, or written over the cell that pointed at the split node
\* (nodeParentIndex, nodeOverwriteCell) and propagated up by AdjustTree.
InstallLeft(t, isRoot, P, lcell, h) ==
    LET iCell == nodeRowidIndex(t, P, lcell.id)
    IN IF isRoot THEN rtreeInsertCell(t, 1, lcell, h + 1)
       ELSE IF iCell = 0 THEN Fail(t)
       ELSE AdjustTree([t EXCEPT !.nd[P][iCell] = lcell], P, lcell)

SplitNode(t, n, c, h) == SplitAssign(t, n, c, h, splitNodeStartree(t.nd[n] \o <<c>>))

\* The halves s go into pLeft = L and pRight = R, both cells go into the
\* parent P (left first), then the cells of the halves are re-mapped.
SplitAssign(t, n, c, h, s) ==
    LET isRoot == n = 1
        R == NewNodeNo(t)
        L == IF isRoot THEN R + 1 ELSE n
        P == IF isRoot THEN 1 ELSE t.par[n]
        t1 == [t EXCEPT !.nd = (R :> s.right) @@ (L :> s.left)
                                @@ (IF isRoot THEN [t.nd EXCEPT ![1] = <<>>] ELSE t.nd),
                        !.dep = IF isRoot THEN @ + 1 ELSE @]
    IN SplitRemap(InsertIfOK(InstallLeft(t1, isRoot, P, [id |-> L, box |-> s.lbox], h),
                             P, [id |-> R, box |-> s.rbox], h + 1),
                  isRoot, c, h, L, R)

\* rtreeInsertCell of the right half's cell, unless a step before failed.
InsertIfOK(t, P, rcell, h) == IF OK(t) THEN rtreeInsertCell(t, P, rcell, h) ELSE t

\* Reinsert: order the M+1 cells by their distance to the centre, keep the
\* first nCell-(m+1) in n (mapping c if it is kept), fix n's bounding box,
\* and insert the other m+1 again from the root at the same height.  The
\* distance of the code, sum over d of ((hi-lo) - centre_d)^2 with
\* centre_d = S_d/(2 nCell), is scaled by (2 nCell)^2 to stay integral.
Reinsert(t, n, c, h) ==
    LET aCell == t.nd[n] \o <<c>>
        nCell == Len(aCell)
        D == Seq1(1, Len(c.box))
        S(d) == FoldLeft(LAMBDA acc, e : acc + e.box[d][1] + e.box[d][2], 0, aCell)
        aDistance == [i \in 1..nCell |->
                        FoldLeft(LAMBDA acc, d :
                                   LET x == 2 * nCell * (aCell[i].box[d][2] - aCell[i].box[d][1])
                                            - S(d)
                                   IN acc + x * x, 0, D)]
        aOrder == SortByDistance(Seq1(1, nCell), aDistance)
        nKeep == nCell - (MinCells + 1)
        keep == [i \in 1..nKeep |-> aCell[aOrder[i]]]
        rest == [i \in 1..(nCell - nKeep) |-> aCell[aOrder[nKeep + i]]]
        kept == \E i \in 1..nKeep : keep[i].id = c.id
    IN ReinsertCells(fixBoundingBox(IF kept THEN updateMapping([t EXCEPT !.nd[n] = keep], c.id, n, h)
                                    ELSE [t EXCEPT !.nd[n] = keep], n),
                     rest, h)

\* The loop of Reinsert and reinsertNodeContent: ChooseLeaf then
\* rtreeInsertCell for every cell in turn, stopping at the first error.
ReinsertCells(t, cells, h) ==
    IF cells = <<>> \/ ~OK(t) THEN t
    ELSE ReinsertAt(t, cells, h, ChooseLeaf(t, Head(cells), h))

ReinsertAt(t, cells, h, n) ==
    IF n = 0 THEN Fail(t)
    ELSE ReinsertCells(rtreeInsertCell(t, n, Head(cells), h), Tail(cells), h)

(***************************************************************************)
(* The delete recursion.                                                   *)
(***************************************************************************)
\* fixLeafParent: the %_parent chain from n reaches the root without a
\* missing row, a missing node or a loop back onto the chain.
RECURSIVE fixLeafParent(_, _, _)
fixLeafParent(t, n, seen) ==
    \/ n = 1
    \/ /\ HasParent(t, n)
       /\ t.par[n] \notin seen \cup {n}
       /\ t.par[n] \in DOMAIN t.nd
       /\ fixLeafParent(t, t.par[n], seen \cup {n})

RECURSIVE deleteCell(_, _, _, _), removeNode(_, _, _),
          deleteCell_noFixBox(_, _, _, _), deleteCell_underfullOffByOne(_, _, _, _),
          removeNode_keepNodeRow(_, _, _), removeNode_keepParentRow(_, _, _)

\* Mutant: the bounding boxes above are not recomputed.
deleteCell_noFixBox(t, n, i, h) ==
    IF ~fixLeafParent(t, n, {}) THEN Fail(t)
    ELSE LET t1 == [t EXCEPT !.nd[n] = RemoveAt(@, i)]
         IN IF ~HasParent(t1, n) THEN t1
            ELSE IF NCELL(t1, n) < MinCells THEN removeNode(t1, n, h)
            ELSE t1

\* Mutant: a node is removed only below m-1 cells.
deleteCell_underfullOffByOne(t, n, i, h) ==
    IF ~fixLeafParent(t, n, {}) THEN Fail(t)
    ELSE LET t1 == [t EXCEPT !.nd[n] = RemoveAt(@, i)]
         IN IF ~HasParent(t1, n) THEN t1
            ELSE IF NCELL(t1, n) < MinCells - 1 THEN removeNode(t1, n, h)
            ELSE fixBoundingBox(t1, n)

\* deleteCell: remove cell i of node n (height h); an underfull non-root node
\* is removed, otherwise the bounding boxes above it are recomputed.
deleteCell(t, n, i, h) ==
    IF ~fixLeafParent(t, n, {}) THEN Fail(t)
    ELSE LET t1 == [t EXCEPT !.nd[n] = RemoveAt(@, i)]
         IN IF ~HasParent(t1, n) THEN t1
            ELSE IF NCELL(t1, n) < MinCells THEN removeNode(t1, n, h)
            ELSE fixBoundingBox(t1, n)

\* removeNode: delete n's cell from its parent, then n's %_node and %_parent
\* rows, and push n (its cells and height) on the head of pDeleted.
\* Mutant: the %_node row of the removed node is left behind.
removeNode_keepNodeRow(t, n, h) ==
    LET iCell == IF HasParent(t, n) THEN nodeRowidIndex(t, t.par[n], n) ELSE 0
        t1 == deleteCell(t, t.par[n], iCell, h + 1)
    IN IF iCell = 0 THEN Fail(t)
       ELSE IF ~OK(t1) THEN t1
       ELSE [t1 EXCEPT !.par = Restrict(@, DOMAIN @ \ {n}),
                       !.del = <<[no |-> n, cells |-> t1.nd[n], h |-> h]>> \o @]

\* Mutant: the %_parent row of the removed node is left behind.
removeNode_keepParentRow(t, n, h) ==
    LET iCell == IF HasParent(t, n) THEN nodeRowidIndex(t, t.par[n], n) ELSE 0
        t1 == deleteCell(t, t.par[n], iCell, h + 1)
    IN IF iCell = 0 THEN Fail(t)
       ELSE IF ~OK(t1) THEN t1
       ELSE [t1 EXCEPT !.nd = Restrict(@, DOMAIN @ \ {n}),
                       !.del = <<[no |-> n, cells |-> t1.nd[n], h |-> h]>> \o @]

removeNode(t, n, h) ==
    LET iCell == IF HasParent(t, n) THEN nodeRowidIndex(t, t.par[n], n) ELSE 0
        t1 == deleteCell(t, t.par[n], iCell, h + 1)
    IN IF iCell = 0 THEN Fail(t)
       ELSE IF ~OK(t1) THEN t1
       ELSE [t1 EXCEPT !.nd = Restrict(@, DOMAIN @ \ {n}),
                       !.par = Restrict(@, DOMAIN @ \ {n}),
                       !.del = <<[no |-> n, cells |-> t1.nd[n], h |-> h]>> \o @]

\* iDepth-- and writeInt16 of the new depth into the root, after success.
LowerDepth(t) == IF OK(t) THEN [t EXCEPT !.dep = @ - 1] ELSE t

\* The tail of rtreeDeleteRowid: a root of depth > 0 left with one cell
\* loses its only child, whose cells come back into the root.
CollapseRoot(t) ==
    LET ch == t.nd[1][1].id
    IN IF ~(OK(t) /\ t.dep > 0 /\ NCELL(t, 1) = 1) THEN t
       ELSE LowerDepth(IF ch \in DOMAIN t.nd THEN removeNode(t, ch, t.dep - 1) ELSE Fail(t))

\* The pDeleted loop: every removed node, newest first, has its cells
\* inserted again at its height (reinsertNodeContent); after an error the
\* remaining nodes are freed without it.  Every node of the list is then
\* freed (sqlite3_free), whatever its reference count: fr collects them.
RECURSIVE DrainDeleted(_)
DrainDeleted(t) ==
    IF t.del = <<>> THEN t
    ELSE LET e == Head(t.del)
             t1 == IF OK(t) THEN ReinsertCells(t, e.cells, e.h) ELSE t
         IN DrainDeleted([t1 EXCEPT !.del = Tail(t.del), !.fr = @ \cup {e.no}])

\* The DELETE from %_rowid, after a successful deleteCell.
DropRowid(t, r) == IF OK(t) THEN [t EXCEPT !.rid = Restrict(@, DOMAIN @ \ {r})] ELSE t

\* rtreeDeleteRowid: the host only deletes rowids it has read from the table.
rtreeDeleteRowid(t, r) ==
    LET leaf == t.rid[r]
        iCell == IF leaf \in DOMAIN t.nd THEN nodeRowidIndex(t, leaf, r) ELSE 0
    IN DrainDeleted(CollapseRoot(DropRowid(
           IF iCell = 0 THEN Fail(t) ELSE deleteCell(t, leaf, iCell, 0), r)))

(***************************************************************************)
(* rtreeUpdate, the xUpdate method.  old is azData[0], new azData[2], b    *)
(* the coordinates (NULL when nData = 1, a DELETE) and replace the result *)
(* of sqlite3_vtab_on_conflict() = SQLITE_REPLACE.  The return code of the *)
(* REPLACE delete is overwritten by that of the delete of old.             *)
(***************************************************************************)
\* The coordinate loop: every dimension has lo <= hi.
ValidBox_noCheck(b) == TRUE          \* Mutant: the check is dropped.
ValidBox(b) == \A d \in DOMAIN b : b[d][1] <= b[d][2]

\* The new rowid names a row other than the one updated.
RowidConflict_updateOnly(t, old, new) ==   \* Mutant: INSERTs are not checked.
    new # NULL /\ old # NULL /\ old # new /\ new \in DOMAIN t.rid
RowidConflict(t, old, new) ==
    new # NULL /\ (old = NULL \/ old # new) /\ new \in DOMAIN t.rid

\* The delete of azData[0]; its return code replaces the REPLACE delete's.
DeleteOld(t, old) == IF old # NULL THEN rtreeDeleteRowid([t EXCEPT !.rc = "ok"], old) ELSE t

\* ChooseLeaf found leaf (0 on error): reset iReinsertHeight and insert.
InsertLeaf(t, cell, leaf) ==
    IF leaf = 0 THEN Fail(t) ELSE rtreeInsertCell([t EXCEPT !.rh = -1], leaf, cell, 0)

\* The insert of the new row; newRowid is INSERT INTO %_rowid with a NULL
\* key, i.e. max(rowid)+1.
InsertNew(t, new, b) ==
    LET cell == [id |-> IF new # NULL THEN new ELSE Max(DOMAIN t.rid \cup {0}) + 1, box |-> b]
    IN IF b = NULL \/ ~OK(t) THEN t ELSE InsertLeaf(t, cell, ChooseLeaf(t, cell, 0))

rtreeUpdate(t, old, new, b, replace) ==
    LET conflict == b # NULL /\ RowidConflict(t, old, new)
    IN IF b # NULL /\ ~ValidBox(b) THEN [t EXCEPT !.rc = "constraint"]
       ELSE IF conflict /\ ~replace THEN [t EXCEPT !.rc = "constraint"]
       ELSE InsertNew(DeleteOld(IF conflict THEN rtreeDeleteRowid(t, new) ELSE t, old),
                      new, b)

(***************************************************************************)
(* The specification.  A call runs in the statement's transaction: the    *)
(* tables keep its writes on SQLITE_OK and are rolled back otherwise, while *)
(* iReinsertHeight, in memory, keeps what the call left in it.             *)
(***************************************************************************)
Tree == [nd |-> node, par |-> parentTab, rid |-> rowidTab, dep |-> depth,
         rh |-> reinsertHeight, del |-> <<>>, fr |-> {}, rc |-> "ok"]

\* The bounds of the model: node numbers up to MaxNode, rowids in Rowids.
Within(t) == DOMAIN t.nd \subseteq 1..MaxNode /\ DOMAIN t.rid \subseteq Rowids

Finish(result) ==
    \E t \in {result} :
    /\ OK(t) => Within(t)
    /\ IF OK(t)
       THEN /\ node' = t.nd /\ parentTab' = t.par
            /\ rowidTab' = t.rid /\ depth' = t.dep
       ELSE UNCHANGED <<node, parentTab, rowidTab, depth>>
    /\ reinsertHeight' = t.rh
    /\ corrupted' = (corrupted \/ t.rc = "corrupt")

\* rtreeInit (xCreate): node 1 is a zero blob, a leaf root with no cells.
Init ==
    /\ node = (1 :> <<>>)
    /\ parentTab = <<>> /\ rowidTab = <<>>
    /\ depth = 0 /\ reinsertHeight = 0 /\ corrupted = FALSE

\* INSERT, with an explicit rowid or with NULL for a new one.
Insert(new, b, replace) == Finish(rtreeUpdate(Tree, NULL, new, b, replace))

\* DELETE of a row the host has found.
Delete(r) == Finish(rtreeUpdate(Tree, r, NULL, NULL, FALSE))

\* UPDATE of a row found by the host: new coordinates and rowid.
Update(old, new, b, replace) == Finish(rtreeUpdate(Tree, old, new, b, replace))

\* xDisconnect then xConnect: rtreeInit zeroes the new Rtree struct.
Reconnect ==
    /\ reinsertHeight' = 0
    /\ UNCHANGED <<node, parentTab, rowidTab, depth, corrupted>>

\* sqlite3_vtab_on_conflict() is only consulted when new names another row.
OnConflict(old, new) ==
    IF new # NULL /\ new # old /\ new \in DOMAIN rowidTab THEN BOOLEAN ELSE {FALSE}

Next ==
    \/ \E new \in Rowids \cup {NULL}, b \in Boxes :
          \E rp \in OnConflict(NULL, new) : Insert(new, b, rp)
    \/ \E r \in DOMAIN rowidTab : Delete(r)
    \/ \E old \in DOMAIN rowidTab, new \in Rowids \cup {NULL}, b \in Boxes :
          \E rp \in OnConflict(old, new) : Update(old, new, b, rp)
    \/ Reconnect

Spec == Init /\ [][Next]_vars

(***************************************************************************)
(* Properties.                                                             *)
(***************************************************************************)
\* The nodes k levels below the root, following the child numbers of cells.
RECURSIVE Level(_)
Level(k) ==
    IF k = 0 THEN {1}
    ELSE UNION {{node[n][i].id : i \in 1..Len(node[n])} : n \in Level(k - 1) \cap DOMAIN node}

Leaves == Level(depth)
Internal == UNION {Level(k) : k \in 0..(depth - 1)}
CellsOf(S) == UNION {{node[n][i] : i \in 1..Len(node[n])} : n \in S \cap DOMAIN node}

\* How many cells of the nodes S carry id x.
Refs(x, S) == Cardinality({<<n, i>> \in (S \cap DOMAIN node) \X (1..MaxCells) :
                             i <= Len(node[n]) /\ node[n][i].id = x})

\* The rows of the table: rowid -> box, read from the leaves.
LeafTable == LET C == CellsOf(Leaves)
             IN [r \in {c.id : c \in C} |-> (CHOOSE c \in C : c.id = r).box]

Coord == UNION {UNION {{b[d][1], b[d][2]} : d \in DOMAIN b} : b \in Boxes}
TypeOK ==
    /\ 1 \in DOMAIN node /\ DOMAIN node \subseteq 1..MaxNode
    /\ \A n \in DOMAIN node :
          \A i \in 1..Len(node[n]) :
             /\ node[n][i].id \in Rowids \cup 1..MaxNode
             /\ node[n][i].box \in [1..Len(node[n][i].box) -> Coord \X Coord]
             /\ \A d \in 1..Len(node[n][i].box) :
                   node[n][i].box[d][1] <= node[n][i].box[d][2]
    /\ parentTab \in [DOMAIN parentTab -> 1..MaxNode]
    /\ rowidTab \in [DOMAIN rowidTab -> 1..MaxNode]
    /\ DOMAIN rowidTab \subseteq Rowids /\ DOMAIN parentTab \subseteq 1..MaxNode
    /\ depth \in 0..MaxNode /\ reinsertHeight \in -1..MaxNode
    /\ corrupted \in BOOLEAN

\* Whatever sequence of inserts, deletes, updates and reconnects the host
\* runs, the nodes of %_node form one tree whose leaves all lie at depth
\* iDepth: every node is reached from the root exactly once and no cell
\* points back at the root (SplitNode, removeNode, the root collapse).
TreeShape ==
    /\ \A k \in 0..depth : Level(k) \subseteq DOMAIN node
    /\ DOMAIN node = UNION {Level(k) : k \in 0..depth}
    /\ \A n \in DOMAIN node : Refs(n, Internal) = IF n = 1 THEN 0 ELSE 1

\* The box of every internal cell is exactly the union of its child's cells
\* (AdjustTree, fixBoundingBox, SplitNode's leftbbox/rightbbox, Reinsert).
BoundingBoxTight ==
    \A c \in CellsOf(Internal) :
        c.id \in DOMAIN node /\ node[c.id] # <<>> /\ c.box = BoxOfCells(node[c.id])

\* No node holds more than M cells, and every node but the root at least m
\* (nodeInsertCell's overflow path, deleteCell's removeNode of underfull nodes).
CellCountBounds ==
    \A n \in DOMAIN node :
        Len(node[n]) <= MaxCells /\ (n # 1 => Len(node[n]) >= MinCells)

\* %_rowid names, for every row, the one leaf that holds it, and each row is
\* held once (rowidWrite, updateMapping, the pDeleted reinsertion).
RowidMapConsistent ==
    /\ DOMAIN rowidTab = DOMAIN LeafTable
    /\ \A r \in DOMAIN rowidTab :
          rowidTab[r] \in Leaves /\ Refs(r, Leaves) = 1 /\ Refs(r, {rowidTab[r]}) = 1

\* %_parent names, for every non-root node, the node whose cell points at
\* it (parentWrite, updateMapping after a split, removeNode's row deletes).
ParentMapConsistent ==
    /\ DOMAIN parentTab = DOMAIN node \ {1}
    /\ \A n \in DOMAIN parentTab :
          parentTab[n] \in DOMAIN node /\ Refs(n, {parentTab[n]}) = 1

\* No xUpdate call on a table it built itself returns SQLITE_CORRUPT_VTAB:
\* ChooseLeaf always finds a cell, nodeParentIndex/nodeRowidIndex always
\* find the cell and fixLeafParent always reaches the root.
NoCorruption == ~corrupted

=============================================================================
