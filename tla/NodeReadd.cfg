CONSTANTS
  c1 = c1
  c2 = c2
  NilConn = NilConn
  Nil <- NilConn
  Conns <- MCConns
  InitList <- MCInitList
  Preambles <- MCUserMessages
  MaxSends = 0
  MaxRecvs = 1
  MaxListOps = 3
  Readd = TRUE

SPECIFICATION NodeSpec
INVARIANT ListWellFormed
