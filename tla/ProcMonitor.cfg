SPECIFICATION FairSpec
CONSTANTS
  SocketLimit = 2
  ChannelLimit = 2
  MaxEvents = 6
INVARIANT TypeOK
PROPERTIES ImplementsStream AllDelivered OverrunStops
CHECK_DEADLOCK FALSE
