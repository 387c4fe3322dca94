SPECIFICATION FairSpec
CONSTANTS
  Half = 4
  InitialRto = 1
  MaxRto = 3
  MaxRetransmissions = 2
  MaxPayload = 2
INVARIANTS
  TypeOK
  Tiled
  AckNeverThrows
  TimerArmed
PROPERTIES
  NoPrematureGiveUp
  ProbesOnlySlowDown
  AckLoopCorrect
  ImplementsSendWindow
  GivesUpOnSilence
