------------------------------ MODULE RtreeCache ------------------------------
(***************************************************************************)
(* The node cache of src/ext/rtree/rtree.c beside the %_node table it      *)
(* writes back to, composed with RtreeCursor.                              *)
(*                                                                         *)
(* node is the connection's view of every node: a node in the hash is     *)
(* read from there (nodeAcquire), any other from %_node.  disk is %_node   *)
(* itself, with diskDepth the depth stored in node 1.  A node is written   *)
(* (nodeWrite) when its reference count drops to zero (nodeRelease), and   *)
(* removeNode deletes a removed node's row at once; %_rowid and %_parent   *)
(* are written at once and need no second copy.  Between host calls a      *)
(* node keeps a reference only while a cursor holds it or it is on the    *)
(* pParent chain of a node held (each child holds one on its parent), or   *)
(* when a reference was lost: leaked.  Every other node has been written:  *)
(* disk differs from node only on the pinned nodes.                        *)
(*                                                                         *)
(* The cursor here runs scans (strategy 2), whose descent acquires every  *)
(* child with its parent, so the nodes it pins are the %_parent chain of   *)
(* pNode.                                                                  *)
(***************************************************************************)
EXTENDS RtreeCursor

VARIABLES
    disk,        \* %_node: node number -> cells
    diskDepth,   \* the depth stored in bytes [0..2) of node 1 in %_node
    leaked       \* nodes a cursor's reference to was overwritten, not released

cacheVars == <<allVars, disk, diskDepth, leaked>>

\* n and the nodes reached from it through pParent.
RECURSIVE Chain(_, _)
Chain(par, n) == IF n \in DOMAIN par THEN {n} \cup Chain(par, par[n]) ELSE {n}

\* The nodes whose nRef stays above zero after a call: the node the cursor
\* holds unless it was freed, and the leaked ones, with their chains.
Pinned(pNode, isFreed, lk, par) ==
    UNION {Chain(par, n) : n \in (IF isFreed THEN {} ELSE {pNode} \ {0}) \cup lk}

\* nodeRelease / nodeWrite after a step: every node not pinned any more has
\* been released and, if dirty, written; the pinned ones keep the %_node row
\* they had; a removed node's row is gone.
WriteBack ==
    LET P == Pinned(cur'.pNode, freedPin', leaked', parentTab')
    IN /\ disk' = [n \in DOMAIN node' |->
                     IF n \in P /\ n \in DOMAIN disk THEN disk[n] ELSE node'[n]]
       /\ diskDepth' = IF 1 \in P THEN diskDepth ELSE depth'

CacheOpen == Open /\ UNCHANGED <<disk, diskDepth, leaked>>

\* rtreeFilter sets pCsr->pNode without releasing the node it held.
CacheFilter(con) ==
    /\ ~freedPin
    /\ FilterScan(con)
    /\ leaked' = leaked \cup ({cur.pNode} \ {0})
    /\ WriteBack

CacheNext == CursorNext /\ UNCHANGED leaked /\ WriteBack

\* rtreeClose: nodeRelease(pCsr->pNode).
CacheClose == Close /\ UNCHANGED leaked /\ WriteBack

\* An xUpdate call: a leaked node that removeNode takes out is freed too.
CacheWithCursor(t) ==
    /\ WithCursor(t)
    /\ leaked' = leaked \ t.fr
    /\ WriteBack

CacheWrite == \E a \in UpdateArgs : CacheWithCursor(rtreeUpdate(Tree, a[1], a[2], a[3], a[4]))

\* xDisconnect then xConnect, with no cursor open: rtreeRelease frees the
\* Rtree and its hash without writing anything; the new connection reads
\* every node, and the depth, from %_node.
CacheReconnect ==
    /\ ~cur.open
    /\ node' = disk /\ depth' = diskDepth /\ reinsertHeight' = 0
    /\ leaked' = {}
    /\ UNCHANGED <<parentTab, rowidTab, corrupted, cur, out, twice, quiet,
                   freedPin, disk, diskDepth>>

CacheInit == CursorInit /\ disk = node /\ diskDepth = depth /\ leaked = {}

\* A host that filters a scan only at EOF (the VDBE loop of a statement
\* that runs every scan to its end) and writes between any two steps.
CacheQuery ==
    \/ CacheOpen
    \/ \E con \in Constraints : cur.pNode = 0 /\ CacheFilter(con)
    \/ CacheNext
    \/ CacheClose

CacheSpecNext == CacheQuery \/ CacheWrite \/ CacheReconnect
CacheSpec == CacheInit /\ [][CacheSpecNext]_cacheVars

\* A host that may filter a scan again before EOF: the inner loop of a
\* join or a correlated subquery stopped early by LIMIT or EXISTS.
RefilterNext ==
    \/ CacheSpecNext
    \/ \E con \in Constraints : cur.pNode # 0 /\ CacheFilter(con)
RefilterSpec == CacheInit /\ [][RefilterNext]_cacheVars

(***************************************************************************)
(* Properties.                                                             *)
(***************************************************************************)
\* A new connection finds the table the old one left: every change an
\* xUpdate made to a node is in %_node by the time no cursor is open, so a
\* reconnect (xDisconnect frees the hash unwritten) reads back the same
\* rows and depth.  This relies on every reference a cursor takes being
\* released by xNext, xFilter or xClose.
ReconnectKeepsTable ==
    [][CacheReconnect => LeafTable' = LeafTable /\ depth' = depth]_cacheVars

=============================================================================
