----------------------------- MODULE RtreeIndex -----------------------------
(***************************************************************************)
(* Query planning in src/ext/rtree/rtree.c: rtreeBestIndex turns the       *)
(* WHERE-clause constraints the host offers into a plan (idxNum, idxStr    *)
(* and aConstraintUsage), and rtreeFilter decodes idxStr and the argv the  *)
(* host assembles from that plan back into the cursor's constraint list.   *)
(*                                                                         *)
(* aConstraint is the host's sqlite3_index_info.aConstraint array: usable, *)
(* iColumn (0 the rowid, 1..NCol the coordinates) and op.  The right-hand  *)
(* value of constraint i is i, so that every value is told apart.  Bytes   *)
(* are numbers: 0x41..0x46 for the operators and 'a' = 97.                 *)
(***************************************************************************)
EXTENDS Integers, Sequences, FiniteSets

CONSTANTS
    NCol,        \* the coordinate columns, 2 * nDim
    IdxStrSize,  \* sizeof(zIdxStr), RTREE_MAX_DIMENSIONS*8+1 in the code
    MaxCons      \* the most constraints the host offers at once

HostOps == {"EQ", "LE", "LT", "GE", "GT", "MATCH"}

VARIABLE aConstraint

\* The switch on p->op: RTREE_EQ .. RTREE_MATCH.
OpByte == [EQ |-> 65, LE |-> 66, LT |-> 67, GE |-> 68, GT |-> 69, MATCH |-> 70]

\* Mutant: the column byte without the rowid column's offset.
ColByte_noOffset(iColumn) == iColumn + 97

\* The column byte: the leftmost coordinate column is 'a'.
ColByte(iColumn) == iColumn - 1 + 97

\* aConstraintUsage as the host hands it over: all zero.
NoUsage(n) == [i \in 1..n |-> [argvIndex |-> 0, omit |-> 0]]

\* Mutant: strategy 1 without resetting the constraints encoded before it.
RowidUsage_noReset(usage, ii) ==
    [usage EXCEPT ![ii] = [argvIndex |-> 1, omit |-> 1]]

\* Strategy 1: every constraint before ii loses its argvIndex and omit, and
\* the rowid equality becomes argv[0], omitted.
RowidUsage(usage, ii) ==
    [j \in DOMAIN usage |->
        IF j < ii THEN [argvIndex |-> 0, omit |-> 0]
        ELSE IF j = ii THEN [argvIndex |-> 1, omit |-> 1]
        ELSE usage[j]]

\* The loop of rtreeBestIndex from constraint ii with iIdx bytes of zIdxStr
\* written; it stops when zIdxStr is full.  estimatedCost is left out.
RECURSIVE BestIndexLoop(_, _, _, _, _)
BestIndexLoop(aCons, ii, iIdx, zIdxStr, usage) ==
    IF ii > Len(aCons) \/ iIdx >= IdxStrSize - 1
    THEN [idxNum |-> 2, idxStr |-> zIdxStr, usage |-> usage]
    ELSE IF aCons[ii].usable /\ aCons[ii].iColumn = 0 /\ aCons[ii].op = "EQ"
    THEN [idxNum |-> 1, idxStr |-> <<>>, usage |-> RowidUsage(usage, ii)]
    ELSE IF aCons[ii].usable /\ (aCons[ii].iColumn > 0 \/ aCons[ii].op = "MATCH")
    THEN BestIndexLoop(aCons, ii + 1, iIdx + 2,
                       zIdxStr \o <<OpByte[aCons[ii].op], ColByte(aCons[ii].iColumn)>>,
                       [usage EXCEPT ![ii] = [argvIndex |-> (iIdx + 2) \div 2,
                                              omit |-> 1]])
    ELSE BestIndexLoop(aCons, ii + 1, iIdx, zIdxStr, usage)

rtreeBestIndex(aCons) == BestIndexLoop(aCons, 1, 0, <<>>, NoUsage(Len(aCons)))

\* rtreeFilter: strategy 1 looks up argv[0] as a rowid; strategy 2 decodes
\* one constraint per argument, op from idxStr[ii*2], iCoord from
\* idxStr[ii*2+1]-'a' and rValue from argv[ii].
rtreeFilter(idxNum, idxStr, argv) ==
    IF idxNum = 1 THEN [rowid |-> argv[1], cons |-> <<>>]
    ELSE [rowid |-> 0,
          cons |-> [ii \in 1..Len(argv) |->
                      [op |-> idxStr[2 * ii - 1], iCoord |-> idxStr[2 * ii] - 97,
                       rValue |-> argv[ii]]]]

\* Every array of up to MaxCons constraints the host may offer.
IndexInit ==
    \E n \in 0..MaxCons :
        aConstraint \in [1..n -> [usable : BOOLEAN, iColumn : 0..NCol, op : HostOps]]

-----------------------------------------------------------------------------
\* The host's side of the contract: argv[k] is the value of the constraint
\* whose argvIndex is k (the value of constraint i is i).
Plan == rtreeBestIndex(aConstraint)
ArgvIndices == {Plan.usage[i].argvIndex : i \in DOMAIN aConstraint} \ {0}
Argv == [k \in 1..Cardinality(ArgvIndices) |->
           CHOOSE i \in DOMAIN aConstraint : Plan.usage[i].argvIndex = k]
Filtered == rtreeFilter(Plan.idxNum, Plan.idxStr, Argv)

\* What the cursor should hold for constraint i.
Decoded(i) ==
    [op |-> OpByte[aConstraint[i].op], iCoord |-> aConstraint[i].iColumn - 1,
     rValue |-> i]

\* The plan rtreeBestIndex returns is one the host accepts and the cursor
\* carries out: the argvIndex values are 1..argc, each once; idxStr holds
\* two bytes per argument (rtreeFilter's assert); every constraint marked
\* omit, which the host then no longer checks, is usable and reaches the
\* cursor unchanged (as argv[0] of a rowid lookup, or as a decoded
\* constraint with its own operator, coordinate and value); and the cursor
\* tests no constraint the query did not ask for.  This must hold through
\* strategy 1 undoing the constraints encoded before the rowid equality,
\* and when zIdxStr fills up and the loop leaves the rest to the host.
IndexPlanSound ==
    /\ \E n \in 0..Len(aConstraint) : ArgvIndices = 1..n
    /\ \A i, j \in DOMAIN aConstraint :
           Plan.usage[i].argvIndex # 0 /\ Plan.usage[i].argvIndex = Plan.usage[j].argvIndex
             => i = j
    /\ Plan.idxNum = 2 => Len(Plan.idxStr) = 2 * Len(Argv)
    /\ \A i \in DOMAIN aConstraint :
           Plan.usage[i].omit = 1 =>
             /\ aConstraint[i].usable
             /\ IF Plan.idxNum = 1
                THEN aConstraint[i].iColumn = 0 /\ aConstraint[i].op = "EQ"
                     /\ Filtered.rowid = i
                ELSE \E k \in DOMAIN Filtered.cons : Filtered.cons[k] = Decoded(i)
    /\ \A k \in DOMAIN Filtered.cons :
           \E i \in DOMAIN aConstraint :
               Plan.usage[i].omit = 1 /\ Filtered.cons[k] = Decoded(i)
\* Spec 4.E: a usable equality on the rowid selects strategy 1, and
\* otherwise strategy 2 encodes every usable constraint on a coordinate
\* column or MATCH, so the host never evaluates a MATCH itself.  The loop
\* of rtreeBestIndex stops once zIdxStr is full.
PlanAsSpecified ==
    /\ (\E i \in DOMAIN aConstraint :
           aConstraint[i].usable /\ aConstraint[i].iColumn = 0 /\ aConstraint[i].op = "EQ")
         => Plan.idxNum = 1
    /\ Plan.idxNum = 2 =>
         \A i \in DOMAIN aConstraint :
             aConstraint[i].usable /\ (aConstraint[i].iColumn > 0 \/ aConstraint[i].op = "MATCH")
               => Plan.usage[i].omit = 1
====
