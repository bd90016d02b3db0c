\* A run that has ended does nothing more.
CONSTANTS
  AudioBufferSize = 400
  VideoBufferSize = 400
  MaxAudioDelay = 300
  Sync = 2
  SampleRate = 22050
  U32 = 1048576
  Tag <- MCBadTag
  Options <- AllOptions
  SegmentNums = {0, 1, 2}
  Refusals <- MCRefusals
  MaxTags = 4
SPECIFICATION Spec
INVARIANTS PublishedAllOrNothing CrashesExplained
CHECK_DEADLOCK FALSE
