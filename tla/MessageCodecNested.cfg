CONSTANTS
  BufLen <- MCBufLen
  Names <- MCNames
  RawTypes <- MCRawTypes
  CompositeType <- MCCompositeType
  DataLens <- MCDataLens
  EntryType <- MCEntryType
  NodeName <- MCNodeName
  MemberName <- MCMemberName
  MaxEntries <- MCMaxEntries
  MaxElements <- MCMaxElements
  MaxDepth <- MCMaxDepth
SPECIFICATION Spec
INVARIANT NestedRoundTrip
\* A message ends when end_message returns or a call fails; the caller
\* then hands the buffer to the connection or abandons it.
CHECK_DEADLOCK FALSE
