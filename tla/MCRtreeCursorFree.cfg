\* M = 3 (m = 1), rowids 1..4, one box: the host runs xUpdate between the
\* steps of an open scan.  A DELETE that empties the leaf the cursor rests
\* on removes that leaf, and the pDeleted loop frees it.
CONSTANTS
    MaxCells = 3
    MaxNode = 7
    Rowids <- IntRowids4
    Boxes <- OneBox
    Constraints <- FullScan
    NULL = NULL
SPECIFICATION InterleavedSpec
INVARIANTS
    PinnedNodeLive
