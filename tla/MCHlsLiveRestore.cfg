\* The writer runs only when called; the bound on the calls ends a behaviour.
CONSTANTS
  AudioBufferSize = 400
  VideoBufferSize = 200
  BufSize = 200
  MaxAudioDelay = 300
  Sync = 2
  SampleRate = 22050
  U64 = 1073741824
  Configuration <- MCConfiguration
  AudioMessage <- MCAudio
  VideoMessage <- MCVideo
  AvcHeader <- MCHeader
  Failure = {"file", "key", "bak"}
  Bound <- MCBound
SPECIFICATION Spec
INVARIANT NumberingContinues
CHECK_DEADLOCK FALSE
