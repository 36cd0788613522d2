----------------------------- MODULE MessageCodec -----------------------------
(***************************************************************************)
(* The message codec of src/src/message.c, wire format version 2.         *)
(*                                                                         *)
(* Writer: the caller drives the writer API of message.c one call per     *)
(* step (begin_message, begin_entry, write_raw, begin_nested_element,     *)
(* end_nested_element, end_entry, end_message) into a send buffer of      *)
(* BufLen bytes, in the nesting order the API asks of its callers.  Each  *)
(* call is a sequence of field writes through array.c; the first write    *)
(* that does not fit ends the call with OUT_OF_RANGE, keeping the bytes   *)
(* already written, and the caller abandons the message as node.c does.  *)
(*                                                                         *)
(* Reader: the reader API (reader_init, read_header_ex, begin_read_entries,*)
(* move_next, read_header_ex, begin_read_elements, begin_read_nested_     *)
(* elements, find_element, get_data_info) is pure over the bytes; it is   *)
(* modelled as operators returning a status and the reader's cursor, and  *)
(* evaluated on each finished message, which the receiver gets as a      *)
(* buffer of exactly message_size bytes.                                   *)
(*                                                                         *)
(* Data abstraction: bytes are numbers 0..255 and multi-byte fields are    *)
(* little endian (the copies are memcpy of host integers).  Node ids are   *)
(* zero; strings are byte sequences from small constant sets.             *)
(***************************************************************************)
EXTENDS Integers, Sequences, SequencesExt

CONSTANTS
  BufLen,         \* send_buffer_len: bytes the writer may fill
  Names,          \* element names the caller writes, as byte sequences
  RawTypes,       \* [code, size] of the scalar types written by write_raw
  CompositeType,  \* type code of the nested elements the caller writes
  DataLens,       \* data_len values write_raw is called with
  EntryType,      \* entry_type of the entries written
  NodeName,       \* sender_nodename of the message header
  MemberName,     \* member_name of the entries
  MaxEntries,     \* bound: entries per message
  MaxElements,    \* bound: elements per message, all levels
  MaxDepth        \* bound: element writers open at once (1 = no nesting)

ASSUME MaxDepth >= 1

VARIABLES
  buf,      \* the send buffer, byte index -> byte
  phase,    \* "idle", "message" (begin_message done), "ended", "failed"
  mw,       \* message writer: the offsets begin_message saved
  ew,       \* entry writer
  elw,      \* stack of element writers: elw[1] the entry's, elw[k+1] nested in elw[k]
  status,   \* status of the last writer call
  gEntries, \* ghost: the entries the caller finished, as trees
  gOpen,    \* ghost: one [hdr, elems] per open writer level
  nElems    \* elements written so far, for the bound MaxElements

vars == <<buf, phase, mw, ew, elw, status, gEntries, gOpen, nElems>>

UINT16_MAX == 65535
(* The checks against UINT32_MAX in write_raw and begin_nested_element   *)
(* (element count, element size) are out of TLC's integer range; with   *)
(* MaxElements and BufLen far below 2^32 they never fail and are left   *)
(* out.                                                                  *)

Magic == <<82, 82, 65, 67>>            \* "RRAC"
NodeIdZero == [k \in 1 .. 16 |-> 0]

(* Little-endian encoding of v in w bytes, and its decoding. *)
LE(v, w) == [k \in 1 .. w |-> (v \div (2 ^ (8 * (k - 1)))) % 256]

FromLE(mem, o, w) == FoldLeft(LAMBDA acc, k : acc * 256 + mem[o + k], 0,
                              [k \in 1 .. w |-> w - k])

(* Mutant: the end of the copy may lie one byte past the buffer. *)
FitsOffByOne(o, n, len) == n = 0 \/ (o < len /\ o + n <= len + 1)

(* The bounds check of buffer_copy_ex for a single-span buffer of len     *)
(* bytes: a copy of n bytes at o succeeds iff n is zero or it lies inside. *)
Fits(o, n, len) == n = 0 \/ (o < len /\ o + n <= len)

Put(mem, o, bytes) ==
  [b \in DOMAIN mem |-> IF b >= o /\ b < o + Len(bytes) THEN bytes[b - o + 1] ELSE mem[b]]

(* A field write: an integer of w bytes or raw bytes. *)
U32(v) == LE(v, 4)
U16(v) == LE(v % 65536, 2)

(* write_header_string_with_len_prefix: the uint16 length, then the bytes. *)
Str(s) == << U16(Len(s)), s >>

(* A run of field writes from offset o, each through a buffer_vec copy.   *)
(* Stops at the first that does not fit; the bytes written so far stay.   *)
(* at[i] is the offset field i was written at.                            *)
RECURSIVE WriteFields(_, _, _, _)
WriteFields(mem, o, fields, at) ==
  IF fields = << >> THEN [ok |-> TRUE, mem |-> mem, o |-> o, at |-> at]
  ELSE IF ~Fits(o, Len(Head(fields)), BufLen)
    THEN [ok |-> FALSE, mem |-> mem, o |-> o, at |-> at]
  ELSE WriteFields(Put(mem, o, Head(fields)), o + Len(Head(fields)),
                   Tail(fields), Append(at, o))

(* write_padded_count*_val: rewrite a field at an offset saved earlier. *)
Patch(mem, o, bytes) ==
  IF Fits(o, Len(bytes), BufLen) THEN [ok |-> TRUE, mem |-> Put(mem, o, bytes)]
                                 ELSE [ok |-> FALSE, mem |-> mem]

(* The calls' field lists, with the payload the caller passes: node ids, *)
(* endpoints, ids and error codes zero, the other strings empty.         *)
MessageHeaderFields ==
  << Magic, U32(0), U16(2), U16(0), NodeIdZero, NodeIdZero, U32(0), U32(0) >>
  \o Str(NodeName) \o Str(<< >>) \o Str(<< >>) \o << U16(0), U16(0), U16(0) >>

EntryHeaderFields ==
  << U32(0), U16(EntryType), U16(0) >> \o Str(<< >>) \o Str(MemberName)
  \o << U32(0), U16(0) >> \o Str(<< >>) \o << U16(0) >>

RawFields(name, t, dl, data) ==
  << U32(16 + Len(name) + dl * t.size) >> \o Str(name)
  \o << U16(t.code), U16(0), U16(0), U32(dl), data >>

NestedHeaderFields(name) ==
  << U32(0) >> \o Str(name) \o << U16(CompositeType) >> \o Str(<< >>) \o Str(<< >>)
  \o << U32(0) >>

NoWriter == [off |-> 0, count |-> 0, size |-> 0, sizeOff |-> 0, countOff |-> 0, hdr |-> 0]

Init ==
  /\ buf = [b \in 0 .. BufLen - 1 |-> 0]
  /\ phase = "idle"
  /\ mw = [sizeOff |-> 0, countOff |-> 0, hdr |-> 0]
  /\ ew = NoWriter
  /\ elw = << >>
  /\ status = "SUCCESS"
  /\ gEntries = << >>
  /\ gOpen = << >>
  /\ nElems = 0

(* A call that failed: the caller returns the status and abandons the   *)
(* message (node_abort_send_messageentry does nothing more).            *)
Fail(mem, st) ==
  /\ buf' = mem /\ phase' = "failed" /\ status' = st
  /\ UNCHANGED <<mw, ew, elw, gEntries, gOpen, nElems>>

Top == elw[Len(elw)]

(* robotraconteurlite_message_writer_begin_message, at buffer offset 0 as *)
(* connection_begin_send_message initialises the writer.                *)
BeginMessage ==
  /\ phase = "idle"
  /\ LET r == WriteFields(buf, 0, MessageHeaderFields, << >>)
         p == Patch(r.mem, r.at[4], U16(r.o))
     IN CASE ~r.ok -> Fail(r.mem, "OUT_OF_RANGE")
          [] ~p.ok -> Fail(p.mem, "OUT_OF_RANGE")
          [] OTHER ->
               /\ buf' = p.mem /\ phase' = "message" /\ status' = "SUCCESS"
               /\ mw' = [sizeOff |-> r.at[2], countOff |-> r.at[15], hdr |-> r.o]
               /\ ew' = [NoWriter EXCEPT !.off = r.o]
               /\ UNCHANGED <<elw, gEntries, gOpen, nElems>>

(* robotraconteurlite_messageentry_writer_begin_entry. *)
BeginEntry ==
  /\ phase = "message" /\ elw = << >> /\ ew.count < MaxEntries
  /\ LET r == WriteFields(buf, ew.off, EntryHeaderFields, << >>)
         hs == r.o - ew.off
     IN CASE ~(ew.count < UINT16_MAX) -> Fail(buf, "PROTOCOL")
          [] ~r.ok -> Fail(r.mem, "OUT_OF_RANGE")
          [] OTHER ->
               /\ buf' = r.mem /\ status' = "SUCCESS"
               /\ ew' = [ew EXCEPT !.sizeOff = r.at[1], !.countOff = r.at[12], !.hdr = hs]
               /\ elw' = << [NoWriter EXCEPT !.off = ew.off + hs] >>
               /\ gOpen' = << [hdr |-> EntryType, elems |-> << >>] >>
               /\ UNCHANGED <<phase, mw, gEntries, nElems>>

Advanced(w, elemSize) ==
  [w EXCEPT !.count = @ + 1, !.size = @ + elemSize, !.off = @ + elemSize]

(* The ghost tree after an element was added at the innermost open level. *)
AddElem(open, e) ==
  [open EXCEPT ![Len(open)].elems = Append(@, e)]

(* The data_buf the application passes: n bytes, distinct for every      *)
(* element of the message, so that a read shows whose bytes it returned. *)
Payload(n) == [k \in 1 .. n |-> 16 * (nElems + 1) + k]

(* robotraconteurlite_messageelement_writer_write_raw on the innermost   *)
(* open element writer.                                                  *)
WriteRaw ==
  /\ phase = "message" /\ elw # << >> /\ nElems < MaxElements
  /\ \E name \in Names, t \in RawTypes, dl \in DataLens :
       LET elemSize == 16 + Len(name) + dl * t.size
           data == Payload(dl * t.size)
           r == WriteFields(buf, Top.off, RawFields(name, t, dl, data), << >>)
       IN CASE Len(name) > UINT16_MAX -> Fail(buf, "OUT_OF_RANGE")
            [] ~r.ok -> Fail(r.mem, "OUT_OF_RANGE")
            [] OTHER ->
                 /\ buf' = r.mem /\ status' = "SUCCESS"
                 /\ elw' = [elw EXCEPT ![Len(elw)] = Advanced(@, elemSize)]
                 /\ gOpen' = AddElem(gOpen, [name |-> name, type |-> t.code,
                                             count |-> dl, data |-> data, kids |-> << >>])
                 /\ nElems' = nElems + 1
                 /\ UNCHANGED <<phase, mw, ew, gEntries>>

(* robotraconteurlite_messageelement_writer_begin_nested_element: the   *)
(* offsets to patch are saved in the parent writer, and a child writer  *)
(* is opened after the header.                                          *)
BeginNested ==
  /\ phase = "message" /\ elw # << >> /\ nElems < MaxElements
  /\ Len(elw) < MaxDepth
  /\ \E name \in Names :
       LET r == WriteFields(buf, Top.off, NestedHeaderFields(name), << >>)
           hs == r.o - Top.off
       IN IF ~r.ok THEN Fail(r.mem, "OUT_OF_RANGE")
          ELSE /\ buf' = r.mem /\ status' = "SUCCESS"
               /\ elw' = Append([elw EXCEPT ![Len(elw)].sizeOff = r.at[1],
                                            ![Len(elw)].countOff = r.at[9],
                                            ![Len(elw)].hdr = hs],
                                [NoWriter EXCEPT !.off = Top.off + hs])
               /\ gOpen' = Append(gOpen, [hdr |-> name, elems |-> << >>])
               /\ nElems' = nElems + 1
               /\ UNCHANGED <<phase, mw, ew, gEntries>>

(* robotraconteurlite_messageelement_writer_end_nested_element: patch    *)
(* the parent's saved size and data count, advance the parent.          *)
EndNested ==
  /\ phase = "message" /\ Len(elw) >= 2
  /\ LET parent == elw[Len(elw) - 1]
         child == Top
         elemSize == parent.hdr + child.size
         p1 == Patch(buf, parent.sizeOff, U32(elemSize))
         p2 == Patch(p1.mem, parent.countOff, U32(child.count))
         node == [name |-> gOpen[Len(gOpen)].hdr, type |-> CompositeType,
                  count |-> Len(gOpen[Len(gOpen)].elems), data |-> << >>,
                  kids |-> gOpen[Len(gOpen)].elems]
     IN CASE ~p1.ok -> Fail(p1.mem, "OUT_OF_RANGE")
          [] ~p2.ok -> Fail(p2.mem, "OUT_OF_RANGE")
          [] OTHER ->
               /\ buf' = p2.mem /\ status' = "SUCCESS"
               /\ elw' = [SubSeq(elw, 1, Len(elw) - 1) EXCEPT
                            ![Len(elw) - 1] = Advanced(parent, elemSize)]
               /\ gOpen' = AddElem(SubSeq(gOpen, 1, Len(gOpen) - 1), node)
               /\ UNCHANGED <<phase, mw, ew, gEntries, nElems>>

(* robotraconteurlite_messageentry_writer_end_entry: patch the entry    *)
(* size and the element count (as uint16) and advance the entry writer. *)
EndEntry ==
  /\ phase = "message" /\ Len(elw) = 1
  /\ LET entrySize == ew.hdr + Top.size
         p1 == Patch(buf, ew.sizeOff, U32(entrySize))
         p2 == Patch(p1.mem, ew.countOff, U16(Top.count))
     IN CASE ~p1.ok -> Fail(p1.mem, "OUT_OF_RANGE")
          [] ~p2.ok -> Fail(p2.mem, "OUT_OF_RANGE")
          [] OTHER ->
               /\ buf' = p2.mem /\ status' = "SUCCESS"
               /\ ew' = Advanced(ew, entrySize)
               /\ elw' = << >>
               /\ gEntries' = Append(gEntries, [type |-> EntryType, elems |-> gOpen[1].elems])
               /\ gOpen' = << >>
               /\ UNCHANGED <<phase, mw, nElems>>

(* robotraconteurlite_message_writer_end_message: patch message_size and *)
(* entry_count; the caller then hands message_size to the connection.   *)
EndMessage ==
  /\ phase = "message" /\ elw = << >>
  /\ LET p1 == Patch(buf, mw.sizeOff, U32(ew.size + mw.hdr))
         p2 == Patch(p1.mem, mw.countOff, U16(ew.count))
     IN CASE ~p1.ok -> Fail(p1.mem, "OUT_OF_RANGE")
          [] ~p2.ok -> Fail(p2.mem, "OUT_OF_RANGE")
          [] OTHER ->
               /\ buf' = p2.mem /\ status' = "SUCCESS" /\ phase' = "ended"
               /\ UNCHANGED <<mw, ew, elw, gEntries, gOpen, nElems>>

-----------------------------------------------------------------------------
(* The reader.  mem is the receive buffer and len its length: reads go   *)
(* through copy_to_uint32/uint16 and fail with OUT_OF_RANGE when Fits     *)
(* does not hold.  Offsets are absolute positions in the buffer.         *)

(* A run of header field reads from o: "u32", "u16", "skip2" (o += 2,   *)
(* nothing read), "id" (16 bytes copied) and "str" (the uint16 length    *)
(* prefix; the bytes are skipped, read_header_string only takes their   *)
(* offset and length).  vals[i] is the value of field i, for a string   *)
(* the pair <<offset, length>>; on failure vals holds the fields read    *)
(* before it.  Intermediate results are passed to the next operator as  *)
(* arguments throughout the reader.                                      *)
FieldWidth(k) == CASE k = "u32" -> 4 [] k = "id" -> 16 [] OTHER -> 2

FieldValue(mem, o, k) ==
  CASE k = "str" -> << o + 2, FromLE(mem, o, 2) >>
    [] k \in {"u32", "u16"} -> FromLE(mem, o, FieldWidth(k))
    [] OTHER -> 0

FieldEnd(mem, o, k) ==
  IF k = "str" THEN o + 2 + FromLE(mem, o, 2) ELSE o + FieldWidth(k)

RECURSIVE ReadFields(_, _, _, _, _)
ReadFields(mem, len, o, kinds, vals) ==
  CASE kinds = << >> -> [ok |-> TRUE, o |-> o, vals |-> vals]
    [] Head(kinds) # "skip2" /\ ~Fits(o, FieldWidth(Head(kinds)), len) ->
         [ok |-> FALSE, o |-> o, vals |-> vals]
    [] OTHER -> ReadFields(mem, len, FieldEnd(mem, o, Head(kinds)), Tail(kinds),
                           Append(vals, FieldValue(mem, o, Head(kinds))))

Err(st) == [st |-> st]

(* robotraconteurlite_message_reader_init with offset 0 and count len. *)
ReaderInit(mem, len) ==
  CASE len < 64 -> "OUT_OF_RANGE"
    [] ~Fits(0, 4, len) -> "OUT_OF_RANGE"
    [] [k \in 1 .. 4 |-> mem[k - 1]] # Magic -> "PROTOCOL"
    [] ~Fits(4, 4, len) -> "OUT_OF_RANGE"
    [] len < FromLE(mem, 4, 4) -> "OUT_OF_RANGE"
    [] OTHER -> "SUCCESS"

(* robotraconteurlite_message_reader_read_header_ex at reader offset 0:  *)
(* message_size and version are read and the version checked before    *)
(* the rest of the header is read.                                       *)
MessageHeaderOf(r) ==
  CASE Len(r.vals) < 2 -> Err("OUT_OF_RANGE")
    [] r.vals[2] # 2 -> Err("PROTOCOL")
    [] ~r.ok -> Err("OUT_OF_RANGE")
    [] r.o - 0 # r.vals[3] -> Err("PROTOCOL")
    [] OTHER -> [st |-> "SUCCESS", message_size |-> r.vals[1],
                 header_size |-> r.vals[3], entry_count |-> r.vals[11],
                 entry_count_offset |-> r.o - 6]

MessageReadHeader(mem, len) ==
  MessageHeaderOf(ReadFields(mem, len, 4,
    <<"u32", "u16", "u16", "id", "id", "u32", "u32", "str", "str", "str", "u16", "u16", "u16">>,
    << >>))

(* robotraconteurlite_message_reader_begin_read_entries, reader at       *)
(* buffer_offset 0 with buffer_count len.                                 *)
FirstEntry(len, h, sz) ==
  CASE ~sz.ok -> Err("OUT_OF_RANGE")
    [] h.header_size + sz.vals[1] > len -> Err("PROTOCOL")
    [] OTHER -> [st |-> "SUCCESS", off |-> h.header_size, cnt |-> sz.vals[1],
                 rem |-> len - h.header_size - sz.vals[1], cur |-> 0,
                 ecOff |-> h.entry_count_offset]

EntriesFrom(mem, len, h) ==
  IF h.st # "SUCCESS" THEN Err(h.st)
  ELSE FirstEntry(len, h, ReadFields(mem, len, h.header_size, <<"u32">>, << >>))

BeginReadEntries(mem, len) == EntriesFrom(mem, len, MessageReadHeader(mem, len))

(* robotraconteurlite_messageentry_reader_move_next: the entry count is *)
(* re-read from the message header on every call.                       *)
NextEntry(er, ec, sz) ==
  CASE ~ec.ok -> Err("OUT_OF_RANGE")
    [] ~(er.cur + 1 < ec.vals[1]) -> Err("NO_MORE")
    [] ~sz.ok -> Err("OUT_OF_RANGE")
    [] er.rem < sz.vals[1] -> Err("PROTOCOL")
    [] OTHER -> [er EXCEPT !.st = "SUCCESS", !.off = er.off + er.cnt, !.cnt = sz.vals[1],
                           !.rem = er.rem - sz.vals[1], !.cur = er.cur + 1]

EntryMoveNext(mem, len, er) ==
  NextEntry(er, ReadFields(mem, len, er.ecOff, <<"u16">>, << >>),
                ReadFields(mem, len, er.off + er.cnt, <<"u32">>, << >>))

(* robotraconteurlite_messageentry_reader_read_header_ex. *)
EntryHeaderOf(er, a) ==
  IF ~a.ok THEN Err("OUT_OF_RANGE")
  ELSE [st |-> "SUCCESS", entry_size |-> a.vals[1], entry_type |-> a.vals[2],
        element_count |-> a.vals[9], header_size |-> a.o - er.off,
        element_start |-> a.o]

EntryReadHeader(mem, len, er) ==
  EntryHeaderOf(er, ReadFields(mem, len, er.off,
    <<"u32", "u16", "skip2", "str", "str", "u32", "u16", "str", "u16">>, << >>))

(* robotraconteurlite_messageelement_reader_read_header_ex. *)
ElementHeaderOf(elr, a) ==
  IF ~a.ok THEN Err("OUT_OF_RANGE")
  ELSE [st |-> "SUCCESS", element_size |-> a.vals[1], name_off |-> a.vals[2][1],
        name_len |-> a.vals[2][2], element_type |-> a.vals[3],
        data_count |-> a.vals[6], header_size |-> a.o - elr.off, data_start |-> a.o]

ElementReadHeader(mem, len, elr) ==
  ElementHeaderOf(elr, ReadFields(mem, len, elr.off,
    <<"u32", "str", "u16", "str", "str", "u32">>, << >>))

(* robotraconteurlite_messageentry_reader_begin_read_elements. *)
FirstElement(er, h, sz) ==
  CASE ~sz.ok -> Err("OUT_OF_RANGE")
    [] (h.element_start - er.off) + sz.vals[1] > er.cnt -> Err("PROTOCOL")
    [] OTHER -> [st |-> "SUCCESS", off |-> h.element_start, cnt |-> sz.vals[1],
                 rem |-> er.cnt - h.header_size - sz.vals[1], cur |-> 0,
                 total |-> h.element_count]

ElementsFrom(mem, len, er, h) ==
  CASE h.st # "SUCCESS" -> Err(h.st)
    [] h.element_count = 0 -> Err("NO_MORE")
    [] OTHER -> FirstElement(er, h, ReadFields(mem, len, h.element_start, <<"u32">>, << >>))

BeginReadElements(mem, len, er) == ElementsFrom(mem, len, er, EntryReadHeader(mem, len, er))

(* robotraconteurlite_messageelement_reader_move_next: the element count *)
(* is the one cached by begin_read_elements.                            *)
NextElement(elr, sz) ==
  CASE ~(elr.cur + 1 < elr.total) -> Err("NO_MORE")
    [] ~sz.ok -> Err("OUT_OF_RANGE")
    [] elr.rem < sz.vals[1] -> Err("PROTOCOL")
    [] OTHER -> [elr EXCEPT !.st = "SUCCESS", !.off = elr.off + elr.cnt, !.cnt = sz.vals[1],
                            !.rem = elr.rem - sz.vals[1], !.cur = elr.cur + 1]

ElementMoveNext(mem, len, elr) ==
  NextElement(elr, ReadFields(mem, len, elr.off + elr.cnt, <<"u32">>, << >>))

(* The element types begin_read_nested_elements accepts. *)
NestedTypes == {101, 102, 103, 108, 117, 109, 110, 111, 115, 116}

(* robotraconteurlite_messageelement_reader_begin_read_nested_elements.  *)
(* The bounds check compares sz.o, an absolute offset just past the     *)
(* first nested element's size field, with the parent element's size.   *)
FirstNested(elr, h, sz) ==
  CASE ~sz.ok -> Err("OUT_OF_RANGE")
    [] (sz.o + sz.vals[1]) > elr.cnt -> Err("PROTOCOL")
    [] OTHER -> [st |-> "SUCCESS", off |-> h.data_start, cnt |-> sz.vals[1],
                 rem |-> elr.cnt - h.header_size - sz.vals[1], cur |-> 0,
                 total |-> h.data_count]

NestedFrom(mem, len, elr, h) ==
  CASE h.st # "SUCCESS" -> Err(h.st)
    [] h.element_type \notin NestedTypes -> Err("TYPE_MISMATCH")
    [] h.data_count = 0 -> Err("NO_MORE")
    [] OTHER -> FirstNested(elr, h, ReadFields(mem, len, h.data_start, <<"u32">>, << >>))

BeginReadNested(mem, len, elr) == NestedFrom(mem, len, elr, ElementReadHeader(mem, len, elr))

(* robotraconteurlite_messageelement_reader_get_data_info: data_size is  *)
(* element_size - header_size in size_t; when it wraps (a size smaller  *)
(* than the header) it is some 2^64 - k, above every esize * data_count *)
(* of 32-bit counts, and is represented by -1.                          *)
DataInfoOf(h, type, esize) ==
  LET dataSize == IF h.element_size >= h.header_size
                    THEN h.element_size - h.header_size ELSE -1
  IN CASE h.st # "SUCCESS" -> Err(h.st)
       [] h.element_type # type -> Err("TYPE_MISMATCH")
       [] esize # 0 /\ esize * h.data_count # dataSize -> Err("PROTOCOL")
       [] OTHER -> [st |-> "SUCCESS", data_offset |-> h.data_start,
                    data_size |-> dataSize, data_count |-> h.data_count]

GetDataInfo(mem, len, elr, type, esize) ==
  DataInfoOf(ElementReadHeader(mem, len, elr), type, esize)

(* robotraconteurlite_messageelement_reader_read_data_scalar_ex: the one *)
(* element of an element of count 1, copied by buffer_vec_copy_vec_ex    *)
(* from esize bytes at data_offset into a one-element destination.  The *)
(* receive buffer is a single span, so the copy is buffer_copy_ex.       *)
ReadDataScalarEx(mem, len, elr, type, esize) ==
  LET info == GetDataInfo(mem, len, elr, type, esize) IN
  CASE info.st # "SUCCESS" -> Err(info.st)
    [] info.data_count # 1 -> Err("PROTOCOL")
    [] ~Fits(info.data_offset, esize, len) -> Err("OUT_OF_RANGE")
    [] OTHER -> [st |-> "SUCCESS",
                 val |-> [k \in 1 .. esize |-> mem[info.data_offset + k - 1]]]

(* Mutant: only the first 16-byte chunk of a name is compared. *)
NameChunksFirstOnly(mem, len, base, name, strOff, strLen) ==
  LET n == IF strLen <= 16 THEN strLen ELSE 16
  IN CASE ~Fits(base + strOff, n, len) -> "OUT_OF_RANGE"
       [] [k \in 1 .. n |-> mem[base + strOff + k - 1]] # SubSeq(name, strOff + 1, strOff + n)
            -> "differ"
       [] OTHER -> "match"

(* The do-while loop of find_element: compare the stored name with the  *)
(* wanted one in chunks of at most 16 bytes copied out of the buffer.   *)
RECURSIVE NameChunks(_, _, _, _, _, _)
NameChunks(mem, len, base, name, strOff, strLen) ==
  LET n == IF strLen <= 16 THEN strLen ELSE 16
  IN CASE ~Fits(base + strOff, n, len) -> "OUT_OF_RANGE"
       [] [k \in 1 .. n |-> mem[base + strOff + k - 1]] # SubSeq(name, strOff + 1, strOff + n)
            -> "differ"
       [] strLen - n = 0 -> "match"
       [] OTHER -> NameChunks(mem, len, base, name, strOff + n, strLen - n)

(* The while loop of find_element from the element the reader is at:    *)
(* read the header, compare the name, move to the next element.         *)
RECURSIVE FindFrom(_, _, _, _)
FindNext(mem, len, name, nx) ==
  CASE nx.st = "NO_MORE" -> Err("NOT_FOUND")
    [] nx.st # "SUCCESS" -> nx
    [] OTHER -> FindFrom(mem, len, nx, name)

FindCompared(mem, len, elr, name, cmp) ==
  CASE cmp = "OUT_OF_RANGE" -> Err(cmp)
    [] cmp = "match" -> elr
    [] OTHER -> FindNext(mem, len, name, ElementMoveNext(mem, len, elr))

FindAt(mem, len, elr, name, h) ==
  IF h.st # "SUCCESS" THEN Err(h.st)
  ELSE FindCompared(mem, len, elr, name,
         IF h.name_len = Len(name)
           THEN NameChunks(mem, len, h.name_off, name, 0, h.name_len)
           ELSE "differ")

FindFrom(mem, len, elr, name) == FindAt(mem, len, elr, name, ElementReadHeader(mem, len, elr))

(* robotraconteurlite_messageentry_reader_find_element. *)
FindIn(mem, len, elr, name) ==
  CASE elr.st = "NO_MORE" -> Err("NOT_FOUND")
    [] elr.st # "SUCCESS" -> elr
    [] OTHER -> FindFrom(mem, len, elr, name)

FindElement(mem, len, er, name) == FindIn(mem, len, BeginReadElements(mem, len, er), name)

(* The checks find_element_verify_scalar makes on the header of the      *)
(* element find_element returned.                                        *)
VerifyScalar(elr, h, type) ==
  CASE h.st # "SUCCESS" -> Err(h.st)
    [] h.element_type # type -> Err("TYPE_MISMATCH")
    [] h.data_count # 1 -> Err("TYPE_MISMATCH")
    [] OTHER -> elr

(* Mutant: a variable-length array may hold one more than expected_len. *)
VerifyArrayOffByOne(elr, h, type, expLen, varLen) ==
  CASE h.st # "SUCCESS" -> Err(h.st)
    [] h.element_type # type -> Err("TYPE_MISMATCH")
    [] ~varLen /\ h.data_count # expLen -> Err("TYPE_MISMATCH")
    [] varLen /\ h.data_count > expLen + 1 -> Err("OUT_OF_RANGE")
    [] OTHER -> elr

(* The checks of find_element_verify_array: a fixed-length array must have *)
(* exactly expected_len items, a variable-length one at most that many.   *)
VerifyArray(elr, h, type, expLen, varLen) ==
  CASE h.st # "SUCCESS" -> Err(h.st)
    [] h.element_type # type -> Err("TYPE_MISMATCH")
    [] ~varLen /\ h.data_count # expLen -> Err("TYPE_MISMATCH")
    [] varLen /\ h.data_count > expLen -> Err("OUT_OF_RANGE")
    [] OTHER -> elr

(* What the two functions return once find_element returned elr. *)
Verified(elr, h, check) == IF elr.st # "SUCCESS" THEN elr ELSE check

(* robotraconteurlite_messageentry_reader_find_element_verify_scalar. *)
FindElementVerifyScalar(mem, len, er, name, type) ==
  LET elr == FindElement(mem, len, er, name)
      h == ElementReadHeader(mem, len, elr)
  IN Verified(elr, h, VerifyScalar(elr, h, type))

(* robotraconteurlite_messageentry_reader_find_element_verify_array. *)
FindElementVerifyArray(mem, len, er, name, type, expLen, varLen) ==
  LET elr == FindElement(mem, len, er, name)
      h == ElementReadHeader(mem, len, elr)
  IN Verified(elr, h, VerifyArray(elr, h, type, expLen, varLen))

(* The checks of find_element_verify_string: a string element of at most *)
(* expected_max_len characters.                                          *)
StringType == 11

VerifyString(elr, h, maxLen) == VerifyArray(elr, h, StringType, maxLen, TRUE)

(* robotraconteurlite_messageentry_reader_find_element_verify_string. *)
FindElementVerifyString(mem, len, er, name, maxLen) ==
  LET elr == FindElement(mem, len, er, name)
      h == ElementReadHeader(mem, len, elr)
  IN Verified(elr, h, VerifyString(elr, h, maxLen))

(* robotraconteurlite_messageelement_reader_find_nested_element: the loop *)
(* of find_element over the reader begin_read_nested_elements returns.    *)
FindNestedElement(mem, len, elr, name) == FindIn(mem, len, BeginReadNested(mem, len, elr), name)

(* The find_nested_element_verify_scalar, _array and _string functions.  *)
FindNestedElementVerifyScalar(mem, len, elr, name, type) ==
  LET nr == FindNestedElement(mem, len, elr, name)
  IN Verified(nr, ElementReadHeader(mem, len, nr), VerifyScalar(nr, ElementReadHeader(mem, len, nr), type))

FindNestedElementVerifyArray(mem, len, elr, name, type, expLen, varLen) ==
  LET nr == FindNestedElement(mem, len, elr, name)
  IN Verified(nr, ElementReadHeader(mem, len, nr),
              VerifyArray(nr, ElementReadHeader(mem, len, nr), type, expLen, varLen))

FindNestedElementVerifyString(mem, len, elr, name, maxLen) ==
  LET nr == FindNestedElement(mem, len, elr, name)
  IN Verified(nr, ElementReadHeader(mem, len, nr), VerifyString(nr, ElementReadHeader(mem, len, nr), maxLen))

Next ==
  \/ BeginMessage \/ BeginEntry \/ WriteRaw \/ BeginNested \/ EndNested
  \/ EndEntry \/ EndMessage

Spec == Init /\ [][Next]_vars

MessageSize == ew.size + mw.hdr

(* The bytes the receiver holds: the first message_size bytes the        *)
(* connection sends from the send buffer (zero past its end, which a     *)
(* consistent writer never reaches).                                     *)
Received == [b \in 0 .. MessageSize - 1 |-> IF b < BufLen THEN buf[b] ELSE 0]

-----------------------------------------------------------------------------
(* A receiver walking a message with the reader API, the way a service   *)
(* reads a request: every entry, every element, the data info of every  *)
(* scalar element with the size of its type, and, when descend holds,   *)
(* the nested elements of every composite element.  An error is kept in *)
(* the result as a record [st].                                          *)

SizeOf(code) ==
  IF \E t \in RawTypes : t.code = code THEN (CHOOSE t \in RawTypes : t.code = code).size ELSE 0

NameAt(mem, len, h) ==
  IF Fits(h.name_off, h.name_len, len)
    THEN [k \in 1 .. h.name_len |-> mem[h.name_off + k - 1]] ELSE << >>

RECURSIVE DecodeElems(_, _, _, _, _)
InfoKids(info) == IF info.st = "SUCCESS" THEN << >> ELSE << Err(info.st) >>

Kids(mem, len, elr, descend, h) ==
  CASE h.element_type \notin NestedTypes ->
         InfoKids(GetDataInfo(mem, len, elr, h.element_type, SizeOf(h.element_type)))
    [] ~descend -> << >>
    [] OTHER -> DecodeElems(mem, len, BeginReadNested(mem, len, elr), descend, << >>)

(* The value of a scalar element of count 1, read with read_data_scalar_ex; *)
(* an error is kept as the record [st].                                    *)
ScalarValue(r) == IF r.st = "SUCCESS" THEN r.val ELSE r

Data(mem, len, elr, h) ==
  IF h.element_type \notin NestedTypes /\ h.data_count = 1
    THEN ScalarValue(ReadDataScalarEx(mem, len, elr, h.element_type, SizeOf(h.element_type)))
    ELSE << >>

DecodeElem(mem, len, elr, descend, acc, h) ==
  IF h.st # "SUCCESS" THEN Append(acc, Err(h.st))
  ELSE DecodeElems(mem, len, ElementMoveNext(mem, len, elr), descend,
         Append(acc, [name |-> NameAt(mem, len, h), type |-> h.element_type,
                      count |-> h.data_count, data |-> Data(mem, len, elr, h),
                      kids |-> Kids(mem, len, elr, descend, h)]))

DecodeElems(mem, len, elr, descend, acc) ==
  CASE elr.st = "NO_MORE" -> acc
    [] elr.st # "SUCCESS" -> Append(acc, elr)
    [] OTHER -> DecodeElem(mem, len, elr, descend, acc, ElementReadHeader(mem, len, elr))

RECURSIVE DecodeEntries(_, _, _, _, _)
DecodeEntry(mem, len, er, descend, acc, h) ==
  IF h.st # "SUCCESS" THEN Append(acc, Err(h.st))
  ELSE DecodeEntries(mem, len, EntryMoveNext(mem, len, er), descend,
         Append(acc, [type |-> h.entry_type,
                      elems |-> DecodeElems(mem, len, BeginReadElements(mem, len, er),
                                            descend, << >>)]))

DecodeEntries(mem, len, er, descend, acc) ==
  CASE er.st = "NO_MORE" -> acc
    [] er.st # "SUCCESS" -> Append(acc, er)
    [] OTHER -> DecodeEntry(mem, len, er, descend, acc, EntryReadHeader(mem, len, er))

DecodeMessage(mem, len, descend, init, h) ==
  CASE init # "SUCCESS" -> << Err(init) >>
    [] h.st # "SUCCESS" -> << h >>
    [] h.entry_count = 0 -> << >>
    [] OTHER -> DecodeEntries(mem, len, EntriesFrom(mem, len, h), descend, << >>)

Decode(mem, len, descend) ==
  DecodeMessage(mem, len, descend, ReaderInit(mem, len), MessageReadHeader(mem, len))

(* What the writer was asked to write, in the shape Decode returns. *)
RECURSIVE Expected(_, _)
Expected(elems, descend) ==
  [i \in DOMAIN elems |->
     [name |-> elems[i].name, type |-> elems[i].type, count |-> elems[i].count,
      data |-> elems[i].data,
      kids |-> IF descend THEN Expected(elems[i].kids, descend) ELSE << >>]]

ExpectedMessage(descend) ==
  [i \in DOMAIN gEntries |->
     [type |-> gEntries[i].type, elems |-> Expected(gEntries[i].elems, descend)]]

(* The entry reader positioned at entry i (from 1) of a message. *)
RECURSIVE EntryAt(_, _, _)
AdvanceEntry(mem, len, er) ==
  IF er.st = "SUCCESS" THEN EntryMoveNext(mem, len, er) ELSE er

EntryAt(mem, len, i) ==
  IF i = 1 THEN BeginReadEntries(mem, len) ELSE AdvanceEntry(mem, len, EntryAt(mem, len, i - 1))

(* The element reader positioned at element j (from 1) of the entry at er, *)
(* by begin_read_elements and move_next; an error stops the walk.          *)
RECURSIVE ElementAt(_, _, _, _)
AdvanceElement(mem, len, elr) ==
  IF elr.st = "SUCCESS" THEN ElementMoveNext(mem, len, elr) ELSE elr

ElementAt(mem, len, er, j) ==
  IF j = 1 THEN BeginReadElements(mem, len, er) ELSE AdvanceElement(mem, len, ElementAt(mem, len, er, j - 1))

-----------------------------------------------------------------------------
TypeOK ==
  /\ buf \in [0 .. BufLen - 1 -> 0 .. 255]
  /\ phase \in {"idle", "message", "ended", "failed"}
  /\ status \in {"SUCCESS", "OUT_OF_RANGE", "PROTOCOL"}
  /\ Len(elw) <= MaxDepth /\ Len(gOpen) = Len(elw)
  /\ ew.off <= BufLen /\ \A k \in DOMAIN elw : elw[k].off <= BufLen
  /\ nElems <= MaxElements

IsFirstHit(r, hits) ==
  IF hits = {} THEN r.st = "NOT_FOUND" ELSE r.st = "SUCCESS" /\ r.cur = Min(hits) - 1

(* find_element on every entry of a finished message returns the first  *)
(* element of that entry with the wanted name, or NOT_FOUND when there  *)
(* is none, also for names that differ only after the first 16 bytes.   *)
FindElementFindsFirst ==
  phase = "ended" =>
    \A i \in DOMAIN gEntries, name \in Names :
      IsFirstHit(FindElement(Received, MessageSize, EntryAt(Received, MessageSize, i), name),
                 {j \in DOMAIN gEntries[i].elems : gEntries[i].elems[j].name = name})

(* What a service looking up an element by name and checking it should *)
(* get, from what was written: the first element of the name decides.   *)
ExpectedVerify(elems, hits, type, n, varLen, scalar) ==
  IF hits = {} THEN "NOT_FOUND"
  ELSE LET e == elems[Min(hits)] IN
       CASE e.type # type -> "TYPE_MISMATCH"
         [] scalar /\ e.count # 1 -> "TYPE_MISMATCH"
         [] ~scalar /\ ~varLen /\ e.count # n -> "TYPE_MISMATCH"
         [] ~scalar /\ varLen /\ e.count > n -> "OUT_OF_RANGE"
         [] OTHER -> "SUCCESS"

(* A service reading a request by name: find_element_verify_scalar,     *)
(* find_element_verify_array (fixed and variable length) and             *)
(* find_element_verify_string on every entry of a finished message return *)
(* the status the first element of that name calls for (no string is    *)
(* written, so _string finds a type mismatch or nothing), and             *)
(* read_data_scalar_ex on the element a successful verify_scalar returns *)
(* yields exactly the bytes written for it.  The functions are the       *)
(* FindElementVerify operators with find_element and the element header  *)
(* evaluated once per entry and name.                                    *)
VerifiedLookup ==
  phase = "ended" =>
    \A i \in DOMAIN gEntries, name \in Names :
      LET elems == gEntries[i].elems
          hits == {j \in DOMAIN elems : elems[j].name = name}
          elr == FindElement(Received, MessageSize, EntryAt(Received, MessageSize, i), name)
          h == ElementReadHeader(Received, MessageSize, elr)
      IN /\ \A t \in {x.code : x \in RawTypes} :
              LET sc == Verified(elr, h, VerifyScalar(elr, h, t)) IN
              /\ sc.st = ExpectedVerify(elems, hits, t, 0, FALSE, TRUE)
              /\ sc.st = "SUCCESS" =>
                   ReadDataScalarEx(Received, MessageSize, sc, t, SizeOf(t)).val
                     = elems[Min(hits)].data
              /\ \A n \in DataLens, v \in BOOLEAN :
                   Verified(elr, h, VerifyArray(elr, h, t, n, v)).st
                     = ExpectedVerify(elems, hits, t, n, v, FALSE)
         /\ \A n \in DataLens :
              Verified(elr, h, VerifyString(elr, h, n)).st
                = ExpectedVerify(elems, hits, StringType, n, TRUE, FALSE)

(* What a service reading a structure member by name should get: for     *)
(* every composite element written, find_nested_element returns the      *)
(* first child of the name, and find_nested_element_verify_scalar, _array *)
(* and _string return the status that child calls for.                   *)
NestedLookup ==
  \A i \in DOMAIN gEntries : \A j \in DOMAIN gEntries[i].elems :
    LET e == gEntries[i].elems[j]
        elr == ElementAt(Received, MessageSize, EntryAt(Received, MessageSize, i), j)
    IN e.type = CompositeType =>
       \A name \in Names :
         LET hits == {c \in DOMAIN e.kids : e.kids[c].name = name} IN
         /\ IsFirstHit(FindNestedElement(Received, MessageSize, elr, name), hits)
         /\ \A t \in {x.code : x \in RawTypes}, n \in DataLens :
              /\ FindNestedElementVerifyScalar(Received, MessageSize, elr, name, t).st
                   = ExpectedVerify(e.kids, hits, t, 0, FALSE, TRUE)
              /\ \A v \in BOOLEAN :
                   FindNestedElementVerifyArray(Received, MessageSize, elr, name, t, n, v).st
                     = ExpectedVerify(e.kids, hits, t, n, v, FALSE)
              /\ FindNestedElementVerifyString(Received, MessageSize, elr, name, n).st
                   = ExpectedVerify(e.kids, hits, StringType, n, TRUE, FALSE)

(* The round trip and the lookups hold also through                      *)
(* begin_read_nested_elements: the children of every nested element are  *)
(* read back as written, and found by name.                              *)
NestedRoundTrip ==
  phase = "ended" => Decode(Received, MessageSize, TRUE) = ExpectedMessage(TRUE) /\ NestedLookup

====
