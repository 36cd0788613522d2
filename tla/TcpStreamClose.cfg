CONSTANTS
  PeerBytes <- MCPeerBytes
  RecvLen <- MCRecvLen
  SendLen <- MCSendLen

SPECIFICATION Spec
PROPERTY PeerCloseReported
