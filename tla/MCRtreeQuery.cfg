\* M = 3 (m = 1), rowids 1..4, three boxes, four constraint lists.  The
\* host writes only while no scan is positioned and keeps calling xNext.
CONSTANTS
    MaxCells = 3
    MaxNode = 7
    Rowids <- IntRowids4
    Boxes <- QueryBoxes
    Constraints <- QueryConstraints
    NULL = NULL
SPECIFICATION QuerySpec
INVARIANTS
    CursorTypeOK
    ScanExact
PROPERTIES
    ScanTerminates
