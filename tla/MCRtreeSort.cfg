\* Every cell sequence of 1..5 cells over three boxes and three distances:
\* 5 cells is M+1 for M = 4 and splits unevenly (5 = 2 + 3, 3 = 1 + 2).
\* Every array of up to 3 constraints on a one-dimensional table (rowid and
\* two coordinate columns); a 5-byte zIdxStr holds two constraints, so the
\* third reaches the full buffer.
CONSTANTS
    MaxSortLen = 5
    SortBoxes <- LoHiBoxes
    Distances = {0, 1, 2}
    NCol = 2
    IdxStrSize = 5
    MaxCons = 3
SPECIFICATION PureSpec
INVARIANTS
    SortsAreSortedPermutations
    IndexPlanSound
