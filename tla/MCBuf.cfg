SPECIFICATION IntSpec
CONSTANTS
  ByteBits = 2
  IntBytes = 2
  UsizeMax = 7
  VecMax = 4
  VecGrowth = 2
  MaxOp = 2
  MaxSent = 2
  Ints = {1, 6, 11, 12}
  Sources <- MCSources
  Sinks <- MCSinks
  Literals <- MCLiterals
INVARIANTS
  StreamIntact
  SinkIntact
  NoMidwayPanic
  IntegersArrive
PROPERTIES
  RoomAccounted
  Terminates
CHECK_DEADLOCK FALSE
