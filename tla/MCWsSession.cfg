\* A mono and a stereo session, and two channels: either fits, not both.
CONSTANTS
  mono = mono
  stereo = stereo
  Sessions <- MCSessions
  Channels <- MCChannels
  WithConfig <- MCWithConfig
  MaxWs = 2
SPECIFICATION FairSpec
CHECK_DEADLOCK FALSE
INVARIANTS
  ProtocolOrder
  SessionIsAccounted
  ChannelsStayReserved
PROPERTIES
  DrainEndsSession
