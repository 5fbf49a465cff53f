\* M = 3 (m = 1), rowids 1..4, one box, full scans; the host may filter
\* a scan again before EOF, with any xUpdate between steps.
CONSTANTS
    MaxCells = 3
    MaxNode = 7
    Rowids <- IntRowids4
    Boxes <- OneBox
    Constraints <- FullScan
    NULL = NULL
SPECIFICATION RefilterSpec
PROPERTIES
    ReconnectKeepsTable
