\* fixLeafParent on every damaged %_parent / %_node pair over four nodes,
\* with a rowid-lookup cursor holding a leaf across deletes.
CONSTANTS
    Nodes = {1, 2, 3, 4}
    NoRow = NoRow
SPECIFICATION CursorSpec
INVARIANT
    NoParentCycle
