SPECIFICATION PanelSpec

CONSTANTS
  Blocks = {1, 2}
  EmptyBlocks = {2}
  Inputs = {{1, 2}}
  ChunkSizes = {1}
  Workers = {1}
  max_retries = 1

INVARIANTS CompletePanelsAreCombined
