SPECIFICATION Spec
CONSTANTS
  HeaderSize = 3
  Header1Size = 2
  LengthWrap = 4
  SizeWrap = 20
  SerialWrap = 4
  Messages <- MessagesMC
  OldMessages <- OldMessagesMC
  MaxMessages = 2
CHECK_DEADLOCK FALSE
INVARIANTS
  FramingKept
  RoundTrip
  Forwarded
