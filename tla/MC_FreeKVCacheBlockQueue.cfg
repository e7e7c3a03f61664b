SPECIFICATION Spec
CONSTANT NumBlocks = 5
INVARIANT ListConsistent
INVARIANT DetachedBlocksUnlinked
PROPERTY RefinesBlockQueue
