CONSTANTS
  Layouts <- MCLayouts
  Positions <- MCPositions
  Counts <- MCCounts
  ElemSizes <- MCElemSizes
  Bytes <- MCBytes
  MaxStrLen <- MCMaxStrLen
SPECIFICATION Spec
INVARIANT TypeOK
INVARIANT CopyMeetsReference
INVARIANT SpanIndicesValid
PROPERTY StringCmpMeetsOrder
PROPERTY CopyThenCmpEqual
PROPERTY HeaderStringMeetsContract
PROPERTY CopyTerminates
\* A call returns: behaviours end in "done".
CHECK_DEADLOCK FALSE
