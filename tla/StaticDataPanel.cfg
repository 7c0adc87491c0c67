SPECIFICATION PanelLiveSpec

CONSTANTS
  Blocks = {1, 2, 3, 4}
  EmptyBlocks = {2}
  Inputs = {{1, 3}, {1, 2, 3}, {1, 2, 3, 4}}
  ChunkSizes = {1, 3}
  Workers = {1, 2}
  max_retries = 2

INVARIANTS CheckpointsHoldTheirBlocks CheckpointsAreDisjoint PublishedInOrder
PROPERTIES CheckpointsAreFinal WholeBatchesOnly RunsEnd
