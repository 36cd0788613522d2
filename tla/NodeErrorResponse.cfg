CONSTANTS
  c1 = c1
  c2 = c2
  NilConn = NilConn
  Nil <- NilConn
  Conns <- MCOneConn
  InitList <- MCInitList
  Preambles <- MCAnsweredRequests
  MaxSends = 0
  MaxRecvs = 1
  MaxListOps = 0
  Readd = FALSE

SPECIFICATION NodeSpec
PROPERTY RequestsAnswered
