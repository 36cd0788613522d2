CONSTANTS
  f1 = f1
  f2 = f2
  NoFd = NoFd
  None <- NoFd
  FDs <- MCFDs
  Backlog <- MCBacklog
  PeerBytes <- MCPeerBytes
  RecvLen <- MCRecvLen
  SendLen <- MCSendLen

SPECIFICATION TransportSpec
INVARIANT TypeOK
INVARIANT StreamInOrder
PROPERTY DataDelivered
