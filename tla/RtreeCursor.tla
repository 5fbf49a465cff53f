----------------------------- MODULE RtreeCursor -----------------------------
(***************************************************************************)
(* The query engine of src/ext/rtree/rtree.c composed with the xUpdate     *)
(* handler of Rtree: one RtreeCursor driven by the host through xOpen,    *)
(* xFilter (rtreeFilter, strategies 1 and 2), xNext (rtreeNext) and       *)
(* xClose, with descendToCell, testRtreeCell and testRtreeEntry.          *)
(*                                                                         *)
(* Every cursor method is one atomic step, like an xUpdate call.  Between *)
(* two steps of a scan the host may run xUpdate on the same connection    *)
(* (a second statement while a SELECT is pending).  The cursor holds a   *)
(* reference on its node pNode, and that node holds one on its pParent,  *)
(* and so on to the root, so those nodes stay in the node cache: an       *)
(* xUpdate reads and changes the very objects the cursor holds, and the   *)
(* model's single copy of each node is what both see.  A node the         *)
(* cursor holds that removeNode takes out of the tree is freed by the     *)
(* pDeleted loop of rtreeDeleteRowid (t.fr); what the cursor would do     *)
(* with it afterwards is undefined, so its steps stop there.              *)
(***************************************************************************)
EXTENDS Rtree

CONSTANTS
    Constraints   \* the aConstraint lists xFilter may be given (strategy 2)

\* A constraint: op (RTREE_EQ..RTREE_GT), col = iCoord (0-based index into
\* the 2N coordinates, lo then hi of each dimension) and val = rValue.
Ops == {"EQ", "LE", "LT", "GE", "GT"}

VARIABLES
    cur,       \* the RtreeCursor
    out,       \* the rows (xRowid, xColumn) the scan has returned so far
    twice,     \* the scan has returned some row a second time
    quiet,     \* no xUpdate has changed anything since xFilter
    freedPin   \* the node the cursor holds has been freed by an xUpdate

allVars == <<node, parentTab, rowidTab, depth, reinsertHeight, corrupted,
             cur, out, twice, quiet, freedPin>>

\* rtreeOpen: a zeroed cursor (pNode = 0, no constraints).
ClosedCursor == [open |-> FALSE, strat |-> 0, con |-> <<>>, key |-> NULL,
                 pNode |-> 0, iCell |-> 0, rc |-> "ok"]

(***************************************************************************)
(* The constraint tests.                                                   *)
(***************************************************************************)
\* aCoord[iCoord] of a box.
CoordOf(box, k) == box[(k \div 2) + 1][(k % 2) + 1]

\* testRtreeCell: the subtree under an internal cell is excluded (bRes) as
\* soon as one constraint cannot hold anywhere in the cell's range of the
\* constrained dimension.
\* Mutant: an upper bound equal to the cell's lo is taken to exclude it.
CellExcludes_boundInclusive(box, p) ==
    LET lo == box[p.col \div 2 + 1][1]
        hi == box[p.col \div 2 + 1][2]
    IN CASE p.op \in {"LE", "LT"} -> p.val <= lo
         [] p.op \in {"GE", "GT"} -> p.val > hi
         [] p.op = "EQ"           -> p.val > hi \/ p.val < lo

CellExcludes(box, p) ==
    LET lo == box[p.col \div 2 + 1][1]
        hi == box[p.col \div 2 + 1][2]
    IN CASE p.op \in {"LE", "LT"} -> p.val < lo
         [] p.op \in {"GE", "GT"} -> p.val > hi
         [] p.op = "EQ"           -> p.val > hi \/ p.val < lo

testRtreeCell(box, con) == \E k \in DOMAIN con : CellExcludes(box, con[k])

\* testRtreeEntry: a leaf cell is returned when every constraint holds of
\* its coordinate.
EntryHolds(box, p) ==
    LET x == CoordOf(box, p.col)
    IN CASE p.op = "LE" -> x <= p.val
         [] p.op = "LT" -> x < p.val
         [] p.op = "GE" -> x >= p.val
         [] p.op = "GT" -> x > p.val
         [] p.op = "EQ" -> x = p.val

testRtreeEntry(box, con) == \A k \in DOMAIN con : EntryHolds(box, con[k])

(***************************************************************************)
(* The descent.  A result is the cursor position a method leaves: a cell  *)
(* (rc "ok"), nothing found (rc "eof": the cursor is restored, or at the  *)
(* top pNode = 0), or SQLITE_CORRUPT_VTAB at the cell being read.         *)
(***************************************************************************)
Found(n, i) == [rc |-> "ok", node |-> n, cell |-> i]
NotFound == [rc |-> "eof", node |-> 0, cell |-> 0]
Corrupt(n, i) == [rc |-> "corrupt", node |-> n, cell |-> i]

\* descendToCell: cell i of node n heads a subtree of height h.  A leaf cell
\* is tested with testRtreeEntry; an internal cell not excluded by
\* testRtreeCell has its child acquired and the child's cells tried in
\* order; when none matches the cursor goes back to (n, i).
RECURSIVE descendToCell(_, _, _, _, _), ScanCells(_, _, _, _, _),
          FirstOf(_, _, _, _, _, _)
descendToCell(t, con, n, i, h) ==
    IF h = 0 THEN IF testRtreeEntry(t.nd[n][i].box, con) THEN Found(n, i) ELSE NotFound
    ELSE IF testRtreeCell(t.nd[n][i].box, con) THEN NotFound
    ELSE IF t.nd[n][i].id \notin DOMAIN t.nd THEN Corrupt(n, i)
    ELSE ScanCells(t, con, t.nd[n][i].id, 1, h - 1)

\* The cell loops of descendToCell, rtreeNext and rtreeFilter: descend into
\* cells i, i+1, ... of node n until one finds a row or fails.
ScanCells(t, con, n, i, h) ==
    IF i > NCELL(t, n) THEN NotFound
    ELSE FirstOf(t, con, n, i, h, descendToCell(t, con, n, i, h))

FirstOf(t, con, n, i, h, r) == IF r.rc = "eof" THEN ScanCells(t, con, n, i + 1, h) ELSE r

\* rtreeNext (strategy 2): from cell i of node n, taken to be at height h
\* (0 where the cursor rests), try the later cells; when they are used up
\* move to pParent at the index of n's cell there (nodeParentIndex), one
\* level up, until the root's parent, NULL, ends the scan.
RECURSIVE NextFrom(_, _, _, _, _), Ascend(_, _, _, _, _)
\* Mutant: the cell the cursor is on is tried again.
NextFrom_noIncrement(t, con, n, i, h) == Ascend(t, con, n, h, ScanCells(t, con, n, i, h))

NextFrom(t, con, n, i, h) == Ascend(t, con, n, h, ScanCells(t, con, n, i + 1, h))

Ascend(t, con, n, h, r) ==
    IF r.rc # "eof" THEN r
    ELSE IF ~HasParent(t, n) THEN NotFound
    ELSE IF nodeRowidIndex(t, t.par[n], n) = 0 THEN Corrupt(t.par[n], NCELL(t, n) + 1)
    ELSE NextFrom(t, con, t.par[n], nodeRowidIndex(t, t.par[n], n), h + 1)

\* findLeafNode and nodeRowidIndex of rtreeFilter's strategy 1: no %_rowid
\* row is EOF; a missing leaf is CORRUPT with pNode = 0; a leaf without
\* the cell is CORRUPT on that leaf.
LookupRowid(t, key) ==
    IF key \notin DOMAIN t.rid THEN NotFound
    ELSE IF t.rid[key] \notin DOMAIN t.nd THEN Corrupt(0, 0)
    ELSE IF nodeRowidIndex(t, t.rid[key], key) = 0 THEN Corrupt(t.rid[key], 0)
    ELSE Found(t.rid[key], nodeRowidIndex(t, t.rid[key], key))

(***************************************************************************)
(* The host's calls.                                                       *)
(***************************************************************************)
\* The cursor after a method returned r; on a row the host reads it with
\* xRowid and xColumn (the cell's rowid and coordinates).
\* Mutant: the method's "not found" is kept as the cursor's state.
Land_keepRc(r) == [cur EXCEPT !.pNode = r.node, !.iCell = r.cell, !.rc = r.rc]

Land(r) == [cur EXCEPT !.pNode = r.node, !.iCell = r.cell,
                       !.rc = IF r.rc = "corrupt" THEN "corrupt" ELSE "ok"]
ReadRow(r) == IF r.rc = "ok" THEN {node[r.node][r.cell]} ELSE {}

Open ==
    /\ ~cur.open
    /\ cur' = [ClosedCursor EXCEPT !.open = TRUE]
    /\ UNCHANGED <<vars, out, twice, quiet, freedPin>>

\* rtreeFilter, strategy 2: the root's cells are tried with the depth read
\* from node 1; nothing found releases the root (pNode = 0).  Whatever
\* node the cursor held before is not released (see RtreeCache).
FilterScan(con) ==
    /\ cur.open /\ cur.rc = "ok"
    /\ \E r \in {ScanCells(Tree, con, 1, 1, depth)} :
          /\ cur' = [Land(r) EXCEPT !.strat = 2, !.con = con, !.key = NULL]
          /\ out' = ReadRow(r)
    /\ twice' = FALSE
    /\ quiet' = TRUE
    /\ UNCHANGED <<vars, freedPin>>

\* rtreeFilter, strategy 1: the lookup of one rowid.
FilterRowid(key) ==
    /\ cur.open /\ cur.pNode = 0 /\ cur.rc = "ok"
    /\ \E r \in {LookupRowid(Tree, key)} :
          /\ cur' = [Land(r) EXCEPT !.strat = 1, !.con = <<>>, !.key = key]
          /\ out' = ReadRow(r)
    /\ twice' = FALSE
    /\ quiet' = TRUE
    /\ UNCHANGED <<vars, freedPin>>

\* rtreeNext: a rowid lookup has no next row; a scan moves on from the
\* cell it rests on, which it takes to be a leaf cell (iHeight = 0).
CursorNext ==
    /\ cur.open /\ cur.pNode # 0 /\ cur.rc = "ok" /\ ~freedPin
    /\ IF cur.strat = 1
       THEN /\ cur' = [cur EXCEPT !.pNode = 0]
            /\ UNCHANGED <<out, twice>>
       ELSE \E r \in {NextFrom(Tree, cur.con, cur.pNode, cur.iCell, 0)} :
               /\ cur' = Land(r)
               /\ out' = out \cup ReadRow(r)
               /\ twice' = (twice \/ ReadRow(r) \cap out # {})
    /\ UNCHANGED <<vars, quiet, freedPin>>

\* rtreeClose: the constraints are freed and pNode released.
Close ==
    /\ cur.open /\ ~freedPin
    /\ cur' = ClosedCursor
    /\ out' = {} /\ twice' = FALSE
    /\ quiet' = FALSE
    /\ UNCHANGED <<vars, freedPin>>

\* An xUpdate call of Rtree, made while the cursor may hold a node: the
\* tables change as in Rtree, the cursor is left alone, and the node it
\* holds is freed if the call's pDeleted loop freed it.
WithCursor(t) ==
    /\ Finish(t)
    /\ quiet' = (quiet /\ t.rc = "constraint")
    /\ freedPin' = (freedPin \/ cur.pNode \in t.fr)
    /\ UNCHANGED <<cur, out, twice>>

\* The arguments <<old, new, box, replace>> of the INSERT, DELETE and
\* UPDATE calls of xUpdate (NULL where the call has no rowid or box).
UpdateArgs ==
    UNION {{<<NULL, new, b, rp>> : rp \in OnConflict(NULL, new)} :
              <<new, b>> \in (Rowids \cup {NULL}) \X Boxes}
    \cup {<<r, NULL, NULL, FALSE>> : r \in DOMAIN rowidTab}
    \cup UNION {{<<old, new, b, rp>> : rp \in OnConflict(old, new)} :
                 <<old, new, b>> \in (DOMAIN rowidTab) \X (Rowids \cup {NULL}) \X Boxes}

Write == \E a \in UpdateArgs : WithCursor(rtreeUpdate(Tree, a[1], a[2], a[3], a[4]))

\* A reconnect is taken only while the cursor holds no node.
CursorReconnect == cur.pNode = 0 /\ Reconnect /\ UNCHANGED <<cur, out, twice, quiet, freedPin>>

CursorInit ==
    /\ Init
    /\ cur = ClosedCursor /\ out = {} /\ twice = FALSE /\ quiet = FALSE /\ freedPin = FALSE

\* The host filters a cursor again only once it is at EOF.
Query ==
    \/ Open
    \/ \E con \in Constraints : cur.pNode = 0 /\ FilterScan(con)
    \/ \E key \in Rowids : FilterRowid(key)
    \/ CursorNext
    \/ Close

\* A host that writes between any two cursor steps.
InterleavedNext == Query \/ Write \/ CursorReconnect

InterleavedSpec == CursorInit /\ [][InterleavedNext]_allVars

(***************************************************************************)
(* Properties.                                                             *)
(***************************************************************************)
Constraint == [op : Ops, col : {0, 1}, val : Coord]
CursorTypeOK ==
    /\ cur.open \in BOOLEAN /\ cur.strat \in 0..2
    /\ cur.con \in Constraints \cup {<<>>} /\ cur.key \in Rowids \cup {NULL}
    /\ cur.pNode \in 0..MaxNode /\ cur.iCell \in 0..(MaxCells + 1)
    /\ cur.rc \in {"ok", "corrupt"}
    /\ \A c \in out : c.id \in Rowids \cup 1..MaxNode
    /\ twice \in BOOLEAN /\ quiet \in BOOLEAN /\ freedPin \in BOOLEAN

\* What a WHERE term "column op value" means of a row, written from SQL.
SqlHolds(x, op, v) ==
    CASE op = "EQ" -> x = v [] op = "LE" -> x <= v [] op = "LT" -> x < v
      [] op = "GE" -> x >= v [] op = "GT" -> x > v

\* The rows, [id, box], that the cursor's query selects from the table.
Selected ==
    IF cur.strat = 1
    THEN {[id |-> r, box |-> LeafTable[r]] : r \in DOMAIN LeafTable \cap {cur.key}}
    ELSE {[id |-> r, box |-> LeafTable[r]] :
            r \in {q \in DOMAIN LeafTable :
                     \A k \in DOMAIN cur.con :
                        SqlHolds(CoordOf(LeafTable[q], cur.con[k].col),
                                 cur.con[k].op, cur.con[k].val)}}

\* A scan or rowid lookup that no xUpdate disturbed returns, by the time it
\* reaches EOF, every row of the table its constraints select, each exactly
\* once and with its own box, and no other: testRtreeCell never prunes a
\* subtree holding a selected row, descendToCell restores the cursor after
\* a dead end, and rtreeNext's climb through nodeParentIndex resumes at the
\* right cell of every ancestor.
ScanExact ==
    (cur.open /\ cur.strat # 0 /\ cur.pNode = 0 /\ cur.rc = "ok" /\ quiet) =>
        /\ out = Selected
        /\ ~twice

\* A scan the host keeps stepping with xNext comes to EOF: every rtreeNext
\* moves strictly on in the depth-first order of the tree.
ScanTerminates ==
    (cur.pNode # 0 /\ cur.rc = "ok") ~> (cur.pNode = 0 \/ ~cur.open \/ cur.rc # "ok")

\* The node an open cursor holds stays allocated while it holds it: "all
\* nodes reachable from live cursors are pinned via reference counts" and
\* a node removed by condense is "still ref-counted, and freed after its
\* cells are re-inserted" (spec sections 5 and 3).  rtreeDeleteRowid frees
\* every node of pDeleted with sqlite3_free whatever its nRef.
PinnedNodeLive == ~freedPin

\* The cursor is on a cell that is a row of the table, with that row's box.
OnTableRow ==
    /\ cur.pNode \in DOMAIN node /\ cur.iCell \in 1..Len(node[cur.pNode])
    /\ node[cur.pNode][cur.iCell].id \in DOMAIN LeafTable
    /\ LeafTable[node[cur.pNode][cur.iCell].id] = node[cur.pNode][cur.iCell].box

\* Every row xFilter or xNext hands to xRowid and xColumn is, at that
\* moment, a row of the table: rtreeNext takes the node the cursor rests on
\* to be a leaf (iHeight = 0), and a cell of an internal node would be
\* returned as a row whose rowid is a node number.
ReportedRowExists ==
    [][(cur' # cur /\ cur'.pNode # 0 /\ cur'.rc = "ok") => OnTableRow']_allVars

=============================================================================
