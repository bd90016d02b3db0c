\* A file has as many metadata tags as it has.
CONSTANTS
  Document <- MCDocument
  CutShort <- MCCutShort
  MaxTags = 2
SPECIFICATION Spec
INVARIANTS SizeIsRead WrittenReadsBack IndexRight
CHECK_DEADLOCK FALSE
