------------------------------ MODULE MCRtree ------------------------------
(***************************************************************************)
(* Instances of Rtree for TLC.  Boxes are one-dimensional.                 *)
(***************************************************************************)
EXTENDS Rtree, TLC

CONSTANTS r1, r2, r3, r4, r5, r6

\* Integer rowids, so that INSERT with a NULL rowid (newRowid) is enabled;
\* two point boxes and one box with lo > hi.
IntRowids == 1..4
IntRowids9 == 1..9
IntBoxes == {<<<<1, 1>>>>, <<<<2, 2>>>>, <<<<2, 1>>>>}

\* Rowids as model values: the code only compares rowids for equality once
\* newRowid is out of play, so permuting them is a symmetry.
SymRowids6 == {r1, r2, r3, r4, r5, r6}
OneBox == {<<<<1, 1>>>>}
RowidSym == Permutations(Rowids)

\* INSERT and DELETE only.
InsertDeleteNext ==
    \/ \E new \in Rowids, b \in Boxes :
          \E rp \in OnConflict(NULL, new) : Insert(new, b, rp)
    \/ \E r \in DOMAIN rowidTab : Delete(r)

\* INSERT with a NULL rowid (newRowid) and DELETE.
AutoRowidNext ==
    \/ \E b \in Boxes : Insert(NULL, b, FALSE)
    \/ \E r \in DOMAIN rowidTab : Delete(r)

(***************************************************************************)
(* The xUpdate calls of Spec with a history variable: lastCall records the *)
(* arguments of each call and the return code rtreeUpdate gave it.        *)
(***************************************************************************)
VARIABLE lastCall

histVars == <<vars, lastCall>>

\* The abstract table, seen through the rows on the leaves and the last call.
Table == INSTANCE RtreeTable WITH table <- LeafTable, call <- lastCall

Recorded(old, new, b, rp) ==
    LET t == rtreeUpdate(Tree, old, new, b, rp)
    IN /\ Finish(t)
       /\ lastCall' = [old |-> old, new |-> new, b |-> b, replace |-> rp,
                       rc |-> t.rc, tick |-> 1 - lastCall.tick]

HistInit == Init /\ lastCall = Table!NoCall

\* Next of Rtree, each call recorded.
HistNext ==
    \/ \E new \in Rowids \cup {NULL}, b \in Boxes :
          \E rp \in OnConflict(NULL, new) : Recorded(NULL, new, b, rp)
    \/ \E r \in DOMAIN rowidTab : Recorded(r, NULL, NULL, FALSE)
    \/ \E old \in DOMAIN rowidTab, new \in Rowids \cup {NULL}, b \in Boxes :
          \E rp \in OnConflict(old, new) : Recorded(old, new, b, rp)
    \/ Reconnect /\ UNCHANGED lastCall

HistSpec == HistInit /\ [][HistNext]_histVars

\* The restricted hosts record no call: lastCall stays NoCall.
InsertDeleteSpec == HistInit /\ [][InsertDeleteNext /\ UNCHANGED lastCall]_histVars
AutoRowidSpec == HistInit /\ [][AutoRowidNext /\ UNCHANGED lastCall]_histVars

\* lastCall is read by no step: states that differ only in it have the same
\* successors, so TLC tells states apart by the tables alone.  Each step is
\* still checked against its own recorded call.
HistView == vars

\* The tree implements the table the host sees: the rows read off the
\* leaves after every xUpdate are those the abstract table gives for the
\* very call made, with its arguments and return code.  An INSERT, UPDATE
\* or DELETE that succeeds leaves exactly the rows it asked for, each with
\* its own box, through REPLACE deletes, splits, reinsertion and
\* condensing; one the abstract table refuses returns SQLITE_CONSTRAINT and
\* changes nothing, and no other call is refused; a failing call changes
\* nothing.
TableRefinement == Table!Spec
=============================================================================
