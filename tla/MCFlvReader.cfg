\* Both passes end, and the reader is not called again.
CONSTANTS
  Tag <- MCTag
  Cuts = {0, 2, 6, 12}
  Chunks = {1, 2}
  MaxTags = 2
SPECIFICATION FairSpec
INVARIANTS TypeOK BodyAccounted InSync RangeExact
PROPERTIES Advances Terminates
CHECK_DEADLOCK FALSE
