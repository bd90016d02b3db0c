\* The packetiser runs only when called; the bound on the counter ends the calls.
CONSTANTS
  Frame <- MCFrame
  MaxCc = 3
  Byte = 4
  Word = 8
  Turns = 2
  Delay = 20
SPECIFICATION Spec
INVARIANTS TypeOK PacketsDemux PacketsTile CountersContinue ClockSteady
CHECK_DEADLOCK FALSE
