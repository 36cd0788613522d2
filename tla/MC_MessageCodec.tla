--------------------------- MODULE MC_MessageCodec ---------------------------
(* Bounds for the message codec: up to two entries and three elements per *)
(* message, one level of nesting, a one-byte name and two 17-byte names   *)
(* equal in their first 16 bytes (so find_element needs its second chunk),*)
(* uint8 and uint16 data of length 0 or 1.  A send buffer of 199 bytes is *)
(* filled exactly by some of these messages and is too small for others, *)
(* so writes ending at the last byte and writes running out of room both *)
(* happen.                                                                *)
EXTENDS MessageCodec

Long(last) == [k \in 1 .. 17 |-> IF k = 17 THEN last ELSE 97]

MCBufLen == 199
MCNames == { <<120>>, Long(98), Long(99) }
MCRawTypes == { [code |-> 4, size |-> 1], [code |-> 6, size |-> 2] }
MCCompositeType == 101
MCDataLens == {0, 1}
MCEntryType == 101
MCNodeName == <<110>>
MCMemberName == <<109>>
MCMaxEntries == 2
MCMaxElements == 3
MCMaxDepth == 2
=============================================================================
