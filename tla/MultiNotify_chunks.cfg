SPECIFICATION Spec
CONSTANTS
 Transfers = {1, 2}
 ChunkSize = 2
 Chunks = {k1, k2}
 NoChunk = NoChunk
INVARIANT ChunkHasNext
CHECK_DEADLOCK FALSE
