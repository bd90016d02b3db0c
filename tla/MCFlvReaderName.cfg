\* Both passes end, and the reader is not called again.
CONSTANTS
  Tag <- MCTag
  Cuts = {0}
  Chunks = {2}
  MaxTags = 2
SPECIFICATION Spec
INVARIANT SkipsInvalidMetadata
CHECK_DEADLOCK FALSE
