\* Runs that have ended do nothing more.
CONSTANTS
  AudioBufferSize = 400
  VideoBufferSize = 400
  MaxAudioDelay = 300
  Sync = 2
  SampleRate = 22050
  U32 = 1048576
  Tag <- MCTag
  Options <- MCOptions
  SegmentNums = {1, 2}
  Refusals = {{}}
  MaxTags = 6
SPECIFICATION ReplaySpec
INVARIANTS SeekReplays
CHECK_DEADLOCK FALSE
