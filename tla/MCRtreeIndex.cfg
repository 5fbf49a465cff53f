\* zIdxStr is RTREE_MAX_DIMENSIONS*8+1 = 41 bytes; queries of up to 21
\* constraints on a five-dimensional table.
CONSTANTS
    NCol = 10
    IdxStrSize = 41
    MaxCons = 21
SPECIFICATION LongSpec
INVARIANT
    PlanAsSpecified
