# TLA+ models of the SQLite R*-tree (src/ext/rtree/rtree.c)

## The system

`rtree.c` implements the `rtree` virtual table. Its parts are these:

| Part | Code | Role |
|---|---|---|
| Codec | `readInt16` … `nodeGetCell`, `nodeOverwriteCell` | Encodes a node as a page: depth, cell count, then cells of a rowid and 2N coordinates. |
| Node cache | `nodeAcquire`, `nodeRelease`, the hash | Reference-counted in-memory nodes with `pParent` pointers. A node is written back to `%_node` when its last reference goes. |
| Backing store | `nodeWrite`, `rowidWrite`, `parentWrite`, `newRowid`, `rtreeSqlInit` | Three tables. `%_node(nodeno, data)` holds the nodes. `%_rowid(rowid, nodeno)` gives the leaf of each row. `%_parent(nodeno, parentnode)` gives the parent of each non-root node. |
| Geometry | `cellArea` … `cellOverlap` | Box arithmetic. |
| Insert path | `ChooseLeaf`, `rtreeInsertCell`, `AdjustTree`, `SplitNode`/`splitNodeStartree`, `Reinsert`, `updateMapping` | The R* insert with forced reinsertion, guarded by `Rtree.iReinsertHeight`. |
| Delete path | `rtreeDeleteRowid`, `fixLeafParent`, `deleteCell`, `removeNode`, `fixBoundingBox`, `reinsertNodeContent` | The delete with condensing: an underfull node is removed and its cells are inserted again. |
| xUpdate | `rtreeUpdate` | INSERT, DELETE and UPDATE. It checks lo ≤ hi and handles rowid conflicts under REPLACE or abort. |
| Queries | `rtreeFilter`, `rtreeNext`, `descendToCell`, `testRtreeCell`, `rtreeBestIndex`, geometry callbacks | Cursors walk the tree. |
| Lifecycle | `rtreeInit`, `getNodeSize`, `rtreeRelease`, `rtreeRename`, `rtreeDestroy` | Create, connect, tear down. |

The compile-time variants in force are these:
- `VARIANT_RSTARTREE_CHOOSESUBTREE = 0`: ChooseLeaf ranks children by growth, then area.
- `VARIANT_RSTARTREE_REINSERT = 1`.
- `VARIANT_RSTARTREE_SPLIT = 1`.

The host serialises all virtual-table calls on a connection, and none of these functions blocks. An xUpdate is therefore one atomic step of the system. Its effects interleave with other xUpdate calls, reconnects and the steps of open cursors (RtreeCursor). On an error the host's statement transaction rolls the three tables back. In-memory fields such as `iReinsertHeight` keep what the call left in them.

## Modules

- **RtreeGeom**: the geometry primitives and the two merge sorts (`SortByDistance`, `SortByDimension`).
  - A box is a sequence of `<<lo, hi>>` pairs. Coordinates are those of an `rtree_i32` table, so they are integers and exact.
  - Both sorts split at n/2 and take the left element only when its key is strictly smaller, exactly as the code does. This matters: the order decides which cells a split or reinsert moves.
  - `SortByDistance` tests for a used-up half before it reads a key (`MergeByKey`). `SortByDimension` has a merge loop of its own (`MergeByDimension`). It reads the keys of `aLeft[iLeft]` and `aRight[iRight]` before it tests `iLeft!=nLeft`, so once a half is used up it reads one slot past it. That slot lies inside the block splitNodeStartree allocates and zeroes (rtree.c:2153-2160): aSpare's stale tail, the next dimension's array or the zeroed slack. The word there is a valid cell index, `junk`. `ReadAt` returns it for a read past the end, and `DimTakesLeft` is the loop's test. A write past `nIdx` would yield `OutOfBounds`. Rtree passes junk index 1. RtreeSort shows that no junk value changes the result.
- **Rtree**: the engine. Its state variables are these:
  - `node`: `%_node`, a map from node number to a sequence of cells `[id, box]`;
  - `parentTab`: `%_parent`;
  - `rowidTab`: `%_rowid`;
  - `depth`: bytes 0..2 of node 1;
  - `reinsertHeight`: `iReinsertHeight`;
  - `corrupted`: set once any call has returned `SQLITE_CORRUPT_VTAB`.

  Within one call the algorithm is a set of recursive operators over a record `t` with these fields:
  - the three tables, the depth and the reinsert height;
  - `del`, the `pDeleted` list, newest first;
  - `rc`, the return code.

  Each C function is an operator of the same name, and the recursion follows the C recursion. In the insert path, `rtreeInsertCell` calls `SplitNode` or `Reinsert`, and both call `rtreeInsertCell` on the parent. In the delete path, `deleteCell` calls `removeNode`, which calls `deleteCell` on the parent. Every early return on an error is a `Fail` that stops the remaining steps, exactly where the C code's `goto`s and `if (rc==SQLITE_OK)` chains stop. Steps that follow one another inside a function are operators applied to the record the previous step returned. For example, `SplitNode` runs `SplitAssign` (rtree.c:2329-2386), then `InstallLeft` (the left half's cell into the parent, rtree.c:2389-2405), then `InsertIfOK` (the right half's cell) and `SplitRemap` (the mapping loops). Every step after a failure passes the record through unchanged.

  The actions are these:
  - `Insert(new, b, replace)`: new is a rowid or NULL;
  - `Delete(r)`;
  - `Update(old, new, b, replace)`;
  - `Reconnect`: xDisconnect followed by xConnect, where the new `Rtree` struct has `iReinsertHeight = 0`.

  `Finish` commits the tables when the call returns OK and leaves them unchanged otherwise. This is the host transaction, modelled from the specification (section 5).
- **RtreeTable**: the abstract specification: `table`, a map from rowid to box, and `call`, the last xUpdate with its arguments and return code. A step is one call. It is refused with SQLITE_CONSTRAINT exactly when the box has lo > hi, or when its new rowid names another row and the conflict mode is not REPLACE. Any other call either returns OK and leaves exactly the rows it asked for (`Done`), or fails and changes nothing. `tick` flips on every call, so two equal calls in a row are still two steps.
- **MCRtree**: the constants for TLC. These are integer or model-value rowid sets, box sets, and three restricted next-state relations:
  - `Spec`: all calls;
  - `InsertDeleteSpec`: INSERT and DELETE;
  - `AutoRowidSpec`: INSERT with a NULL rowid, and DELETE.

  It also holds the refinement. `HistSpec` is Rtree's `Next` with a history variable `lastCall`, set by each xUpdate to its arguments and the return code `rtreeUpdate` produced (`Recorded`). `Table` instantiates RtreeTable with the rows read off the leaves (`LeafTable`) and `lastCall`. `TableRefinement` (== `Table!Spec`) then says that every call changes the rows exactly as its own arguments and conflict mode ask, and returns the code the abstract table gives. No step reads `lastCall`, so the cfg's `VIEW HistView` leaves it out of the state TLC stores.

- **RtreeSort**: the two merge sorts run on every input of up to `MaxSortLen` cells (and, for SortByDimension, every junk index). They are checked against the order asserted by the code's own disabled post-condition (`#if 0 … Check that the sort worked`, rtree.c:2049, 2117).
- **RtreeIndex**: query planning. `aConstraint` is the host's `sqlite3_index_info.aConstraint` array (`usable`, `iColumn`, `op`). The right-hand value of constraint i is i, so that argv positions are told apart.
  - `rtreeBestIndex` is the C loop as the recursion `BestIndexLoop`. It stops when `zIdxStr` is full (`IdxStrSize`). A usable rowid equality selects strategy 1 and undoes the argvIndex and omit of the constraints before it (`RowidUsage`). Otherwise a usable constraint on a coordinate column, or a MATCH, is encoded: `OpByte` gives 0x41..0x46 and `ColByte` gives `iColumn-1+'a'`. Its argvIndex is `iIdx/2` and its omit is 1.
  - `rtreeFilter` is the decoding at the top of rtreeFilter: argv[0] as the rowid, or one `[op, iCoord, rValue]` per argument.
  - The host's part is `Argv`, where argv[k] is the value of the constraint with argvIndex k. It is stated in the property section and comes from the virtual-table interface, not from this file.
  - `estimatedCost` and the SQLITE_NOMEM of `sqlite3_mprintf` are left out.
- **MCRtreeIndex**: constraint arrays of the real size. These are n−1 usable `a <= ?` constraints followed by a rowid equality or a MATCH, for n up to 21, with the code's 41-byte `zIdxStr`.
- **MCRtreeSort**: the pure check. An initial state is either a sort input with no constraints or a constraint array with no cells (`PureInit`), and nothing changes.
- **RtreeCursor**: the query engine composed with Rtree. It adds one `RtreeCursor` (`cur`: open, strategy, constraints, rowid key, `pNode`, `iCell`, return code). Its actions are `Open` (rtreeOpen), `FilterScan` and `FilterRowid` (the two strategies of rtreeFilter), `CursorNext` (rtreeNext) and `Close`. Each is one atomic step. `descendToCell`, `testRtreeCell`, `testRtreeEntry`, the cell loops and rtreeNext's climb through `nodeParentIndex` are recursive operators over the same record `t` as Rtree. `Write` is any xUpdate of Rtree, taken between two cursor steps (`InterleavedSpec`); `WithCursor` records in `freedPin` whether the call's pDeleted loop freed the node the cursor holds (`t.fr`, filled by `DrainDeleted`). The other history variables are `out` (rows returned so far, a set), `twice` (a row returned again) and `quiet` (no write changed the table since xFilter).
  - The nodes a cursor holds stay in the node cache, and an xUpdate on the same connection reads and changes those objects; in-memory `pParent` stays equal to `%_parent` because `updateMapping` and `rtreeInsertCell` repoint cached children. So the single copy of each node is what both see.
- **RtreeCache** and **MCRtreeCache**: the node cache beside `%_node`, composed with RtreeCursor. They are checked by the rtree_cache_refilter_leak run. `node` stays the connection's view; `disk` is `%_node` and `diskDepth` the depth stored in node 1; `leaked` holds nodes whose reference a cursor lost.
  - After every step, `WriteBack` writes each node that is no longer pinned (nodeRelease → nodeWrite) and keeps the old row of each pinned one. Pinned means held by the cursor, leaked, or on the `pParent` chain of either (each child holds a reference on its parent, nodeAcquire rtree.c:540-545).
  - `CacheFilter` is rtreeFilter, which overwrites `pNode` without releasing it. `CacheReconnect` is xDisconnect + xConnect: rtreeRelease frees the hash unwritten, and the new connection reads `%_node`.
  - Only scans run here: a scan's descent acquires every child with its parent, so its pins are exactly the `%_parent` chain. A rowid lookup loads its leaf with no parent (findLeafNode), which is not modelled.
- **RtreeParent**: the node hash itself, on damaged tables. `cache` maps each cached node to its `pParent` (0 for NULL) and `nRef`. `parentRow` (`%_parent`, `NoRow` for a missing row) and `nodeRows` (the nodes `%_node` has) are any damaged pair the file may hold, chosen in Init, and never change. `pin` is the node of one rowid-lookup cursor.
  - `Acquire` is nodeAcquire with no parent. A cached node gets one more reference. Any other node is loaded with `nRef` 1.
  - `nodeRelease` decrements the count. At zero it releases the parent, recursively, and removes the node from the hash.
  - `fixLeafParent` is the C loop as a recursion. `OnChain` is its loop test, the `pTest` walk from `pLeaf`.
  - The actions are `rtreeDeleteRowid(leaf)` (root, findLeafNode, fixLeafParent, then the releases), `RowidFilter(leaf)` (rtreeFilter strategy 1) and `rtreeClose`.
  - What a delete does to the cells after fixLeafParent is left out here. Rtree models it on intact tables.
- **MCRtreeCursor**: box and constraint sets, and `QuerySpec`, a host that writes (INSERT with a rowid, DELETE) only while the cursor is closed and keeps stepping a scan it started.

### Abstractions

- **Node cache.** Between xUpdate calls with no cursor open every reference is released (rtree.c:3044, 2885), so every dirty node has been written and the cache agrees with `%_node`. The model therefore keeps one copy of each node. It reads a node's `pParent` from `%_parent`.
- **Data.** Boxes are one-dimensional and rowids come from small sets. Every box comparison the code makes, over growth, area, margin, overlap and distance, is still computed. The distance in `Reinsert` is scaled by (2·nCell)² so that it stays an integer and keeps its order.
- **Memory failures.** `SQLITE_NOMEM` is not modelled.
- **Node numbers.** `nodeWrite` and `newRowid` insert with a NULL key, so the number is max+1. They are modelled that way, including the reuse of a number freed by `removeNode`.

## Runs

| Run | cfg | Bounds | Checks | What it shows |
|---|---|---|---|---|
| rtree_small | MCRtree.cfg | M=3 (m=1), rowids 1..4, boxes [1,1], [2,2] and the invalid [2,1], ≤7 nodes | TypeOK, TreeShape, BoundingBoxTight, CellCountBounds, RowidMapConsistent, ParentMapConsistent, TableRefinement | Every kind of call keeps the tree well formed: INSERT with and without rowid, REPLACE and abort conflicts, lo > hi, DELETE, UPDATE, reconnect. Every call, recorded with its arguments and return code, also changes the rows exactly as the abstract table says for those arguments: the right box under the right rowid, REPLACE honoured and abort refused, nothing else deleted. About 1 900 states. |
| rtree_deep | MCRtreeDeep.cfg | M=3, six model-value rowids under symmetry, one box, ≤10 nodes | TreeShape, CellCountBounds, RowidMapConsistent, ParentMapConsistent | The tree reaches depth 2. This exercises internal-node splits, a root collapse from depth 2, and internal cells inserted again at height 1. About 6 700 states. |
| rtree_m6 | MCRtreeM6.cfg | M=6 (m=2, the node size of spec scenario 2), rowids from newRowid up to 9, ≤8 nodes | NoCorruption, CellCountBounds | With m ≥ 2, no call on a tree the module built returns CORRUPT. Root splits, leaf reinserts, condensing and collapses all happen. |
| rtree_query | MCRtreeQuery.cfg | M=3, rowids 1..4, boxes [1,1], [2,2], [1,2], four constraint lists (none, a<=1, b>1, a=2 and b<3) | CursorTypeOK, ScanExact, ScanTerminates | On every tree of up to four rows (depth 0 and 1) a rowid lookup or scan returns exactly the rows SQL selects, each once, and a scan that is stepped reaches EOF. About 97 000 states. |
| rtree_sort | MCRtreeSort.cfg | 1..5 cells, boxes [1,1], [1,2], [2,2], distances 0..2; 0..3 constraints on a rowid and two coordinate columns, every op, usable or not; a 5-byte zIdxStr | SortsAreSortedPermutations, IndexPlanSound | Both sorts return a permutation of the indices in non-decreasing key order. This includes ties on lo broken by hi and full ties, and for SortByDimension holds whatever stale index its merge reads past a used-up half. rtreeBestIndex's plan is one the host accepts: its argvIndex values are 1..argc, and idxStr holds two bytes per argument. rtreeFilter decodes every omitted constraint with its own operator, coordinate and value, and nothing else. This holds through the strategy-1 undo and a full zIdxStr. 114 418 inputs. |
| rtree_cache_refilter_leak | MCRtreeCacheLeak.cfg | as rtree_cursor_freed, any xUpdate between scan steps, xFilter before EOF, reconnects | ReconnectKeepsTable (expected violated) | A scan on the root leaf; an INSERT into it; the scan is filtered again, leaking its reference on node 1; xClose; reconnect: row 2 is gone from node 1 while `%_rowid` still maps it there. |
| rtree_parent_refs | MCRtreeParent.cfg | nodes 1..4, every `%_parent` (with missing rows, self-loops and cycles) and `%_node` subset with a root; deletes, a rowid lookup, xClose | RefCountExact | Between calls, each cached node's `nRef` is exactly the cursor's hold plus the `pParent` links of its cached children, on every damaged table. About 4 300 states. |
| rtree_parent_cycle | MCRtreeParentCursor.cfg | as rtree_parent_refs | NoParentCycle (expected violated) | `%_parent` has 3 → 4 and 4 → 3. A cursor holds node 4. One delete links 4 → 3 and fails. A second delete, on node 3, links 3 → 4 and returns OK with a `pParent` cycle. |
| rtree_cursor_freed | MCRtreeCursorFree.cfg | M=3, rowids 1..4, one box, full scan; any xUpdate between cursor steps | PinnedNodeLive (expected violated) | Four inserts build a depth-1 tree; the scan rests on a one-row leaf; deleting that row removes the leaf, and rtreeDeleteRowid frees it under the cursor. |
| rtree_cursor_phantom | MCRtreeCursorPhantom.cfg | as rtree_cursor_freed | ReportedRowExists (expected violated) | The scan rests on the root leaf; an insert splits it; the next xNext returns the root's second cell, a child node number, as rowid 2 (deleted just before). |
| rtree_index_long | MCRtreeIndex.cfg | five dimensions (NCol=10), the code's 41-byte zIdxStr, up to 21 constraints | PlanAsSpecified (expected violated) | Twenty `a <= ?` constraints followed by `rowid = ?`: rtreeBestIndex returns strategy 2 and leaves the rowid equality to the host. |

Notes on the runs:
- **Symmetry.** Symmetry over the rowids is sound only when rowids are model values. There `newRowid` (max+1) is out of play, and the code only compares rowids for equality.
- **Integer rowids.** The runs that use `INSERT` with NULL use integers.
- **Bounds.** `MaxNode` bounds the node numbers. A call whose result would use a node number above it is not taken, and the bound is named in `Within`.

### Why these bounds

- M=3 is the smallest fan-out with which a split puts at least m cells on each side. With four rows the tree splits its root and reinserts leaf cells. With six rows it reaches depth 2.
- M=6 gives m=2, the value of spec scenario 2.
- Both are below what xCreate builds. A cell is at most 48 bytes (rtree.c:3302) and the node size at least 448 bytes (rtree.c:3234-3236), so a created table has M ≥ 9 and m ≥ 3. Only xConnect on a file written with a smaller node size gives a smaller M. The structural properties (TreeShape, BoundingBoxTight, the map consistency and the refinement) do not depend on M: the small fan-out is what lets splits, reinserts, condensing and collapses all happen with a handful of rows. CellCountBounds excludes the root, and NoCorruption is checked only at m=2.
- One box is enough for the shape properties. All ties are then broken by position, and the position-dependent code paths (the merge sort, the earliest-first rule of ChooseLeaf and the split) are the ones that decide.
- In rtree_sort a 5-byte `zIdxStr` (41 bytes in the code) holds two constraints. With three constraints the loop reaches the full buffer, which the 41 bytes reach only at 21. Three constraints also place a rowid equality after one or two encoded constraints, which is the strategy-1 undo. One dimension is enough, because the column byte is the same arithmetic for every column, including the MATCH on the rowid column that encodes as '`'.
- Two distinct boxes and an invalid one in rtree_small exercise growth, union, the tightening done by `fixBoundingBox`, and the constraint path.

### Fairness and liveness

The Rtree runs assume none. Every call terminates: the recursion is bounded by the depth, and each overflow per height is reinserted at most once per insert. Nothing in the code waits for anything, and deadlock is checked in every run. Delete is always enabled while a row exists, and Insert while rowids remain.

`rtree_query` assumes weak fairness of `CursorNext` only: a host that has started a statement keeps calling xNext until xEof says it is done (the VDBE loop of a SELECT), while when, or whether, it opens, filters, closes or writes is left free. Under that, `ScanTerminates` says that a cursor resting on a row reaches EOF. The RtreeParent runs check safety properties only and assume no fairness.

### Mutants

Each property is shown to depend on the code by a mutant: a plausible bug in a mapped definition that TLC then catches. The mutants are these:
- a dropped lo ≤ hi check;
- a removed node whose `%_node` or `%_parent` row is left behind;
- a missing `fixBoundingBox`;
- an off-by-one in the full test of `nodeInsertCell`;
- an `INSERT` into `%_rowid` that keeps the old mapping;
- a conflict check made only for UPDATE, so that an INSERT under REPLACE leaves the conflicting row in place (TableRefinement);
- the left half's cell appended to the parent instead of overwriting the old cell;
- ChooseLeaf going one level too deep;
- an off-by-one in the underfull test;
- a cell test that excludes a subtree whose lo equals an upper bound (ScanExact);
- an rtreeNext that retries the cell it rests on (ScanTerminates);
- a cursor that keeps "not found" as its state (CursorTypeOK);
- a (lo, hi) comparison that ignores hi (SortsAreSortedPermutations);
- SortByDimension's merge without its `iLeft!=nLeft` test, so that it takes the stale index read past a used-up left half (SortsAreSortedPermutations);
- a column byte without the rowid column's offset, and a strategy 1 that does not undo the constraints encoded before it (IndexPlanSound);
- a nodeRelease that frees a node without releasing its parent (RefCountExact).

## Small node sizes

The runs at M=3 use m=1, which xCreate never builds (M ≥ 9, see the bounds). With m=1 the model can reach an empty root at depth 1 after a root collapse and a delete, and an INSERT then returns CORRUPT (rtree.c:2855, 1767). That needs an `%_node` row for node 1 written with a node size of at most 5 cells by some other program, read back by xConnect (rtree.c:3240). It is not reported as a finding of this code.

## Findings with open cursors

- **A node held by a cursor is freed** (rtree_cursor_freed). `removeNode` takes an underfull node out of the tree whatever its reference count (its `assert( nRef==1 )`, rtree.c:2503, fails in debug builds), and the pDeleted loop of `rtreeDeleteRowid` (rtree.c:2874-2880) frees it with `sqlite3_free`. When it is the leaf a scan rests on, the cursor's `pNode` dangles. The specification says removed nodes stay ref-counted and nodes reachable from live cursors are pinned (sections 3 and 5).
- **Internal cells returned as rows** (rtree_cursor_phantom). `rtreeNext` starts at `iHeight = 0` (rtree.c:1202). After a root split the root leaf the cursor rests on is an internal node, and the next xNext returns its cell: a node number as rowid.

- **A rowid equality after a full zIdxStr is not seen** (rtree_index_long). Spec 4.E says any usable rowid equality selects strategy 1. The loop of rtreeBestIndex stops after 20 encoded constraints (rtree.c:1484), so a later rowid equality gets strategy 2. The later constraints are left to the host. A MATCH among them keeps omit=0, and the host's `match()` then fails the query. IndexPlanSound (rtree_sort) shows that the truncated plan is still sound.

- **A re-filtered scan leaks its node, and the node's later changes are lost** (rtree_cache_refilter_leak). rtreeFilter sets `pCsr->pNode = 0` (rtree.c:1411; for a rowid lookup `= pLeaf`, 1367) without releasing the node the cursor holds. A host filters a cursor again before EOF whenever an inner loop is cut short (a correlated subquery with LIMIT or EXISTS). That node and its ancestors keep a reference for the connection's life, so `nodeRelease` never writes them. `rtreeRelease` frees the Rtree without walking the hash. Every later change to those nodes is therefore lost at disconnect, while `%_rowid` and `%_parent`, written at once, describe it. The specification has the cursor's node "held ref'd" (4.E) and makes "flush on final release … the only path to persistence" (5).

- **fixLeafParent returns OK with a `pParent` cycle** (rtree_parent_cycle). The loop test (rtree.c:2482) refuses only a parent already on the chain from `pLeaf`. The loop stops with SQLITE_OK at the first node whose `pParent` is already set, without looking at that node's own chain. A partial chain left by an earlier failed delete survives in the hash while a rowid-lookup cursor holds its first node. A later delete then closes the loop through it. Neither node can be freed again. `fixBoundingBox` follows `pParent` with no end unless `nodeParentIndex` fails. The specification (failure list, scenario 7) says a reference cycle during the fix-up is a Corruption error.

The first two need a write on the connection while a scan is open; this code has no guard against such writes. The third only needs the write to touch a node the leaked reference pins, at any later time on that connection.

## Divergences from the specification noted while modelling (not run)

- **Reinsert keeps nCell−(m+1) cells.** That is, `Reinsert` reinserts m+1 cells (rtree.c:2676), while the specification says RTREE_REINSERT = m.
- **Reinsert's distance ignores the cell centre.** The distance is taken from the cell's extent hi−lo, not from its centre (rtree.c:2667).
- **Cursors do not hold `nBusy`.** Spec 5 says nBusy counts outstanding cursors and defers teardown until they close. rtreeOpen takes no reference, and rtreeFilter and rtreeUpdate release theirs before returning (rtree.c:1357/1434, 2938/3052). The host finalizes every statement on a table before it disconnects it, so this differs from the specification's wording only: no sequence of calls the host makes reaches a teardown with a cursor open.
- **`SQLITE_RTREE_INT_ONLY` truncates omitted constraint values.** rtreeFilter reads a constraint's value with `sqlite3_value_int64` in that build (rtree.c:1400), while rtreeBestIndex has marked it omit=1. So `x <= 1.5` is tested as `x <= 1`. The model's values are integers, where the two agree.
- **Spec scenario 3 is not reachable as written.** It expects a Reinsert on the 7th insert. At depth 0 that leaf is the root, and the code splits a root instead of reinserting it (rtree.c:2734).

## Not modelled

- **Codec and the debug SQL functions.** These are pure conversions of node blobs.
- **estimatedCost and a failed `sqlite3_mprintf` in xBestIndex.** No property concerns the planner's choice between plans. A failed xBestIndex fails the statement before any state changes.
- **REAL32 rounding.** A unit-test property.
- **The node-cache reference counts within a call, on intact tables.** RtreeParent counts references on damaged tables for the ancestry fix-up only. The counts during splits, reinsertion and removal are not modelled.
- **MATCH constraints and geometry callbacks** in the cursor. RtreeIndex encodes and decodes MATCH like any other operator. RtreeCursor tests only the five comparisons, and it takes the choice of strategy and the constraint list as free inputs. RtreeIndex shows that rtreeBestIndex and rtreeFilter hand those inputs over faithfully.
- **Several cursors, and counts.** One cursor is modelled. RtreeCache tracks which nodes keep a reference between calls, not the counts themselves, nor the references a call takes and releases inside itself.
- **A held node keeping a rolled-back change.** When an xUpdate fails, the host rolls the tables back, but the cached copy of a node a cursor holds keeps the change. Failing calls here are only CORRUPT ones, which need m=1 (above), and `Finish` rolls `node` back with the tables.
- **Commit timing.** When the host commits a transaction while a scan still holds a changed node, that is the host's business, so crash consistency in that window is not modelled.
- **xRename, xDestroy and nBusy.** xRename and xDestroy are SQL statements on the three tables. nBusy outlives a call only as the connection's own reference, so it changes nothing the model tracks. Its divergence from spec 5 is listed above.
- **Damaged tables beyond `%_parent` and missing `%_node` rows.** RtreeParent covers those two. Damaged node contents (cell counts above M, a depth above 40, a child pointer to the root) and damaged `%_rowid` rows are not modelled. Rtree's Init is always a freshly created table.

## Plan for later sittings

1. **Rowid lookups in the cache model**, with the parentless leaf of findLeafNode, and per-call reference counts.
2. **Spec divergences as violation runs.** The Reinsert count and the scenario 3 divergence.
3. **Node sizes from xCreate.** A run at M=9 with enough rows to reach depth 1, if TLC's budget allows.
