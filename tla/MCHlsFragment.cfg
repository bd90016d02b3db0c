\* The writer runs only when called; the bound on the calls ends a behaviour.
CONSTANTS
  AudioBufferSize = 400
  VideoBufferSize = 400
  MaxAudioDelay = 300
  Sync = 2
  SampleRate = 22050
  AudioFrame <- MCAudio
  VideoFrame <- MCVideo
  InitialCc = {0, 14}
  InitialPts = {0}
  MaxCalls = 5
SPECIFICATION Spec
INVARIANTS TypeOK AudioBufferBounded AudioAligned AudioDelayBounded AudioDelivered CountersContinue
PROPERTY ClosedFragmentsFinal
CHECK_DEADLOCK FALSE
