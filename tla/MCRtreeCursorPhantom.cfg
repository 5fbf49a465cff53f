\* M = 3 (m = 1), rowids 1..4, one box: the host runs xUpdate between the
\* steps of an open scan.  An INSERT that splits the root while the cursor
\* rests on a cell of the root leaf leaves it on an internal node.
CONSTANTS
    MaxCells = 3
    MaxNode = 7
    Rowids <- IntRowids4
    Boxes <- OneBox
    Constraints <- FullScan
    NULL = NULL
SPECIFICATION InterleavedSpec
PROPERTIES
    ReportedRowExists
