---------------------------- MODULE MCRtreeCursor ----------------------------
(***************************************************************************)
(* Instances of RtreeCursor for TLC.  Boxes are one-dimensional, so a     *)
(* constraint's col is 0 (lo, column 'a') or 1 (hi, column 'b').         *)
(***************************************************************************)
EXTENDS RtreeCursor

\* The boxes [1,1], [2,2] and [1,2]: two points and a box covering both.
QueryBoxes == {<<<<1, 1>>>>, <<<<2, 2>>>>, <<<<1, 2>>>>}

\* No constraint (a full scan), one on each column, and a pair.
QueryConstraints ==
    { <<>>,
      <<[op |-> "LE", col |-> 0, val |-> 1]>>,
      <<[op |-> "GT", col |-> 1, val |-> 1]>>,
      <<[op |-> "EQ", col |-> 0, val |-> 2], [op |-> "LT", col |-> 1, val |-> 3]>> }

IntRowids4 == 1..4
OneBox == {<<<<1, 1>>>>}
FullScan == {<<>>}

\* INSERT with an explicit rowid and DELETE, made while the cursor is
\* closed: every tree of up to four rows and these boxes is reached.
InsertDeleteArgs ==
    UNION {{<<NULL, new, b, rp>> : rp \in OnConflict(NULL, new)} : <<new, b>> \in Rowids \X Boxes}
    \cup {<<r, NULL, NULL, FALSE>> : r \in DOMAIN rowidTab}

InsertDeleteWrite ==
    \E a \in InsertDeleteArgs : WithCursor(rtreeUpdate(Tree, a[1], a[2], a[3], a[4]))

\* A host that runs one statement at a time, writing only while the cursor
\* is closed, and keeps stepping a scan it has started: xNext is taken
\* while it stays enabled.
QueryNext == Query \/ (~cur.open /\ InsertDeleteWrite)
QuerySpec == CursorInit /\ [][QueryNext]_allVars /\ WF_allVars(CursorNext)
=============================================================================
