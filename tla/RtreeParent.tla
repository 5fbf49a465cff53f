----------------------------- MODULE RtreeParent -----------------------------
(***************************************************************************)
(* The in-memory pParent links of src/ext/rtree/rtree.c on a damaged       *)
(* %_parent table: how rtreeDeleteRowid's fixLeafParent loads the ancestry *)
(* of a leaf read with no parent, and how nodeAcquire / nodeRelease count  *)
(* the references the links and the cursors hold.                          *)
(*                                                                         *)
(* cache is the connection's node hash: node number -> [parent, nRef],     *)
(* parent 0 for a NULL pParent.  The tables are damaged in any way the     *)
(* file may be: parentRow gives the parentnode column of %_parent for      *)
(* every node but the root, or NoRow when the row is missing, and nodeRows *)
(* is the set of nodes %_node has a row for.  Neither changes: only the    *)
(* loading of ancestry is modelled, not what a delete does to the cells.   *)
(* pin is the node a rowid-lookup cursor (strategy 1) holds, 0 for none.   *)
(***************************************************************************)
EXTENDS Naturals, FiniteSets, Graphs

CONSTANTS
    Nodes,   \* the node numbers, 1 the root
    NoRow    \* the parentnode of a node %_parent has no row for

ASSUME 1 \in Nodes /\ 0 \notin Nodes /\ NoRow \notin Nodes

VARIABLES
    parentRow,  \* %_parent: node -> parentnode or NoRow
    nodeRows,   \* the nodes %_node has a row for
    cache,      \* the node hash: node -> [parent |-> node or 0, nRef |-> Nat]
    pin         \* the node a rowid-lookup cursor holds, or 0

vars == <<parentRow, nodeRows, cache, pin>>

\* nodeAcquire finds n in the hash or reads it from %_node.
Loadable(c, n) == n \in DOMAIN c \/ n \in nodeRows

\* nodeAcquire(n, 0): a node in the hash gets one more reference and keeps
\* its pParent; another is loaded with nRef 1 and no parent.
Acquire(c, n) ==
    IF n \in DOMAIN c THEN [c EXCEPT ![n].nRef = @ + 1]
    ELSE [m \in DOMAIN c \cup {n} |->
            IF m = n THEN [parent |-> 0, nRef |-> 1] ELSE c[m]]

\* The loop test: is iNode on the pParent chain from pTest?
RECURSIVE OnChain(_, _, _)
OnChain(c, pTest, iNode) ==
    /\ pTest # 0
    /\ pTest = iNode \/ OnChain(c, c[pTest].parent, iNode)

\* fixLeafParent: while pChild is not the root and has no pParent, read its
\* %_parent row; refuse a parent already on the chain from pLeaf, acquire
\* it otherwise and link it, and go on from it.  A missing row, a refused
\* parent or a missing %_node row leave pParent NULL: SQLITE_CORRUPT_VTAB.
\* The loop ends with SQLITE_OK at the root or at a node already linked.
RECURSIVE fixLeafParent(_, _, _)
fixLeafParent(c, pLeaf, pChild) ==
    IF pChild = 1 \/ c[pChild].parent # 0 THEN [cache |-> c, rc |-> "ok"]
    ELSE IF \/ parentRow[pChild] = NoRow
            \/ OnChain(c, pLeaf, parentRow[pChild])
            \/ ~Loadable(c, parentRow[pChild])
         THEN [cache |-> c, rc |-> "corrupt"]
         ELSE fixLeafParent([Acquire(c, parentRow[pChild])
                               EXCEPT ![pChild].parent = parentRow[pChild]],
                            pLeaf, parentRow[pChild])

\* Mutant: a freed node does not release its parent.
nodeRelease_keepParent(c, n) ==
    IF n = 0 THEN c
    ELSE IF c[n].nRef > 1 THEN [c EXCEPT ![n].nRef = @ - 1]
    ELSE [m \in DOMAIN c \ {n} |-> c[m]]

\* nodeRelease: one reference less; at zero the node releases its parent
\* and leaves the hash.
RECURSIVE nodeRelease(_, _)
nodeRelease(c, n) ==
    IF n = 0 THEN c
    ELSE IF c[n].nRef > 1 THEN [c EXCEPT ![n].nRef = @ - 1]
    ELSE nodeRelease([m \in DOMAIN c \ {n} |-> c[m]], c[n].parent)

\* rtreeDeleteRowid of a row %_rowid places on leaf: acquire the root, then
\* the leaf (findLeafNode, no parent); deleteCell first fixes the leaf's
\* ancestry; then the leaf and the root are released.  A leaf with no
\* %_node row fails in findLeafNode and only the root is taken and let go.
rtreeDeleteRowid(leaf) ==
    /\ cache' =
         IF ~Loadable(Acquire(cache, 1), leaf) THEN cache
         ELSE nodeRelease(
                nodeRelease(
                  fixLeafParent(Acquire(Acquire(cache, 1), leaf), leaf, leaf).cache,
                  leaf),
                1)
    /\ UNCHANGED <<parentRow, nodeRows, pin>>

\* rtreeFilter, strategy 1: findLeafNode loads the leaf %_rowid names with
\* no parent and the cursor keeps it as pNode.
RowidFilter(leaf) ==
    /\ pin = 0
    /\ Loadable(cache, leaf)
    /\ cache' = Acquire(cache, leaf)
    /\ pin' = leaf
    /\ UNCHANGED <<parentRow, nodeRows>>

\* rtreeClose releases pNode.
rtreeClose ==
    /\ pin # 0
    /\ cache' = nodeRelease(cache, pin)
    /\ pin' = 0
    /\ UNCHANGED <<parentRow, nodeRows>>

\* Any damaged pair of tables with a root row; nothing loaded yet.
Init ==
    /\ parentRow \in [Nodes \ {1} -> Nodes \cup {NoRow}]
    /\ nodeRows \in {S \in SUBSET Nodes : 1 \in S}
    /\ cache = [n \in {} |-> [parent |-> 0, nRef |-> 0]]
    /\ pin = 0

\* A delete, one xUpdate call.
DeleteNext == \E leaf \in Nodes : rtreeDeleteRowid(leaf)

\* Deletes while a rowid-lookup cursor may hold a leaf.
CursorNext ==
    \/ DeleteNext
    \/ \E leaf \in Nodes : RowidFilter(leaf)
    \/ rtreeClose

CursorSpec == Init /\ [][CursorNext]_vars

-----------------------------------------------------------------------------
\* The pParent links of the hash as a directed graph.
ParentGraph ==
    [node |-> DOMAIN cache,
     edge |-> {<<n, cache[n].parent>> :
                 n \in {m \in DOMAIN cache : cache[m].parent # 0}}]

\* fixLeafParent's loop test exists so that a damaged %_parent never links
\* nodes into a loop of pParent references, which could never be released
\* (its comment) and which fixBoundingBox and AdjustTree would climb for
\* ever: the links always form a forest of nodes in the hash.
NoParentCycle == IsDag(ParentGraph)

\* nodeAcquire and nodeRelease keep every nRef equal to the references
\* that exist: the cursor's pNode and the pParent of each child in the
\* hash.  Between calls no other holder exists, so a node whose count is
\* off is freed under a holder or never freed.
RefCountExact ==
    \A n \in DOMAIN cache :
        cache[n].nRef =
            (IF pin = n THEN 1 ELSE 0)
            + Cardinality({m \in DOMAIN cache : cache[m].parent = n})


====
