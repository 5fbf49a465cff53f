---------------------------- MODULE RtreeTable ----------------------------
(***************************************************************************)
(* What an R-tree virtual table promises the SQL host, with no tree: a    *)
(* table from rowid to box, and the xUpdate call last made with its       *)
(* return code.  Every step is one call: an INSERT (old = NULL), UPDATE or *)
(* DELETE (b = NULL).  A call is refused with SQLITE_CONSTRAINT exactly   *)
(* when its box has lo > hi or its new rowid names another row and the    *)
(* conflict mode is not REPLACE.  Any other call either succeeds and      *)
(* leaves exactly the rows it asked for, or fails and changes nothing.    *)
(***************************************************************************)
EXTENDS Integers, Functions, TLC

CONSTANTS Rowids, Boxes, NULL

VARIABLES
    table,  \* rowid -> box
    call    \* the last xUpdate: [old, new, b, replace, rc], tick flipped per call

\* A box is accepted when lo <= hi in every dimension.
Valid(b) == \A d \in DOMAIN b : b[d][1] <= b[d][2]

Calls == [old : Rowids \cup {NULL}, new : Rowids \cup {NULL},
          b : Boxes \cup {NULL}, replace : BOOLEAN,
          rc : {"ok", "constraint", "corrupt"}, tick : {0, 1}]

NoCall == [old |-> NULL, new |-> NULL, b |-> NULL, replace |-> FALSE, rc |-> "ok", tick |-> 0]

\* The new rowid names a row other than the one being updated.
Conflict(c) == c.b # NULL /\ c.new # NULL /\ c.new # c.old /\ c.new \in DOMAIN table

Refused(c) == c.b # NULL /\ (~Valid(c.b) \/ (Conflict(c) /\ ~c.replace))

\* The rows after a successful call: the old row and, under REPLACE, the
\* row holding the new rowid are gone; a write adds its box under the new
\* rowid, or under some rowid no remaining row has when it is NULL.
Done(c) ==
    LET kept == Restrict(table, DOMAIN table \ {c.old, IF c.b # NULL THEN c.new ELSE NULL})
    IN IF c.b = NULL THEN table' = kept
       ELSE \E id \in IF c.new = NULL THEN Rowids \ DOMAIN kept ELSE {c.new} :
               table' = (id :> c.b) @@ kept

Step(c) ==
    /\ (c.rc = "constraint") = Refused(c)
    /\ IF c.rc = "ok" THEN Done(c) ELSE table' = table

Init == table = <<>> /\ call = NoCall

Next == call' \in Calls /\ call'.tick # call.tick /\ Step(call')

Spec == Init /\ [][Next]_<<table, call>>
=============================================================================
