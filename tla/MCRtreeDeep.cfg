\* M = 3 (m = 1), six interchangeable rowids, one box: the tree reaches
\* depth 2, so splits and reinserts of internal nodes, condensing at two
\* levels and the root collapse from depth 2 all happen.
CONSTANTS
    MaxCells = 3
    MaxNode = 10
    Rowids <- SymRowids6
    Boxes <- OneBox
    NULL = NULL
    r1 = r1  r2 = r2  r3 = r3  r4 = r4  r5 = r5  r6 = r6
SYMMETRY RowidSym
SPECIFICATION InsertDeleteSpec
INVARIANTS
    TreeShape
    CellCountBounds
    RowidMapConsistent
    ParentMapConsistent
