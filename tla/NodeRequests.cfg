CONSTANTS
  c1 = c1
  c2 = c2
  NilConn = NilConn
  Nil <- NilConn
  Conns <- MCOneConn
  InitList <- MCInitList
  Preambles <- MCRequests
  MaxSends = 1
  MaxRecvs = 2
  MaxListOps = 0
  Readd = FALSE

SPECIFICATION NodeSpec
INVARIANT NodeTypeOK
INVARIANT ReceivedIsWellFramed
PROPERTY ImplementsChannel
