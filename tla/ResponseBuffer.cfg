SPECIFICATION Spec
CONSTANTS
  ChunkSizes <- MCChunkSizes
  MaxChunks = 4
INVARIANTS
  TypeOK
  WritesInBounds
