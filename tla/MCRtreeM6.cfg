\* M = 6 (m = 2), the node size of the split scenario in the specification:
\* rows get their rowid from newRowid; up to nine rows give root splits,
\* condensing of an underfull leaf and the root collapse.
CONSTANTS
    MaxCells = 6
    MaxNode = 8
    Rowids <- IntRowids9
    Boxes <- OneBox
    NULL = NULL
    r1 = r1  r2 = r2  r3 = r3  r4 = r4  r5 = r5  r6 = r6
SPECIFICATION AutoRowidSpec
INVARIANTS
    NoCorruption
    CellCountBounds
