\* M = 3 (m = 1), integer rowids 1..4: every kind of xUpdate call, INSERT
\* with a NULL rowid, REPLACE and ABORT conflicts, a box with lo > hi, and
\* reconnects.  Four rows give root splits, leaf reinserts and collapses.
\* The rows read off the leaves after every call form a behaviour of the
\* abstract table RtreeTable.
CONSTANTS
    MaxCells = 3
    MaxNode = 7
    Rowids <- IntRowids
    Boxes <- IntBoxes
    NULL = NULL
    r1 = r1  r2 = r2  r3 = r3  r4 = r4  r5 = r5  r6 = r6
SPECIFICATION HistSpec
VIEW HistView
INVARIANTS
    TypeOK
    TreeShape
    BoundingBoxTight
    CellCountBounds
    RowidMapConsistent
    ParentMapConsistent
PROPERTY
    TableRefinement
