------------------------------- MODULE Strings -------------------------------
(***************************************************************************)
(* The string view of src/src/array.c: a robotraconteurlite_string is a    *)
(* data pointer and a length, with no terminator.  string_copy_to_buffer_vec *)
(* is a copy_vec_ex of a one-span source and is a case of ScatterGather's   *)
(* StringCalls; this module adds the operations on two strings:           *)
(* string_cmp, string_copy_to and string_shallow_copy_to, as operators     *)
(* checked against a reference ordering and the copy contract of the spec *)
(* over every string of at most MaxStrLen bytes drawn from Bytes.         *)
(*                                                                         *)
(* A string is a record [data, len, null]: data is the byte sequence      *)
(* behind the pointer (its length is the storage the pointer reaches);   *)
(* null marks a null data pointer, which has no bytes behind it.          *)
(***************************************************************************)
EXTENDS ScatterGather

CONSTANTS
  Bytes,      \* byte values, as unsigned char; one of them >= 128
  MaxStrLen   \* the longest string enumerated

INVALID_ARGUMENT == "INVALID_ARGUMENT"

(* The bytes a string's length covers. *)
Contents(s) == SubSeq(s.data, 1, s.len)

(* Every string value with readable data: the length is its storage. *)
Views == { [data |-> d, len |-> Len(d), null |-> FALSE] : d \in BoundedSeq(Bytes, MaxStrLen) }

(* Sources of a copy also include a null pointer with any length. *)
Sources == Views \cup { [data |-> <<>>, len |-> n, null |-> TRUE] : n \in 0 .. MaxStrLen }

(* Destinations: storage d of which the first n bytes are the string. *)
Dests == { s \in [data : BoundedSeq(Bytes, MaxStrLen), len : 0 .. MaxStrLen, null : {FALSE}] :
            s.len <= Len(s.data) }

Sign(x) == IF x < 0 THEN -1 ELSE IF x > 0 THEN 1 ELSE 0

(* Mutant: memcmp reads the bytes as signed char. *)
MemCmpSigned(a, b, n) ==
  LET sc(x) == IF x >= 128 THEN x - 256 ELSE x
      k == { i \in 1 .. n : a[i] # b[i] }
  IN IF k = {} THEN 0 ELSE LET i == Min(k) IN Sign(sc(a[i]) - sc(b[i]))

(* memcmp over n bytes: the sign of the difference of the first pair of  *)
(* unequal bytes, compared as unsigned char; 0 if the n bytes agree.  The *)
(* magnitude memcmp returns is left to the C library and abstracted.     *)
RECURSIVE MemCmp(_, _, _)
MemCmp(a, b, n) ==
  IF n = 0 THEN 0
  ELSE IF Head(a) # Head(b) THEN Sign(Head(a) - Head(b))
  ELSE MemCmp(Tail(a), Tail(b), n - 1)

(* robotraconteurlite_string_cmp: shorter strings order first; equal     *)
(* lengths order by memcmp.                                              *)
StringCmp(s1, s2) ==
  CASE s1.len = 0 /\ s2.len = 0 -> 0
    [] s1.len < s2.len -> -1
    [] s1.len > s2.len -> 1
    [] OTHER -> MemCmp(s1.data, s2.data, s1.len)

(* Mutant: the capacity test admits a source one byte too long. *)
StringCopyToOffByOne(source, dest) ==
  CASE source.len = 0 -> [st |-> SUCCESS, dest |-> [dest EXCEPT !.len = 0]]
    [] source.null -> [st |-> INVALID_ARGUMENT, dest |-> dest]
    [] source.len > dest.len + 1 -> [st |-> INVALID_ARGUMENT, dest |-> dest]
    [] OTHER ->
         [st |-> SUCCESS,
          dest |-> [data |-> source.data \o SubSeq(dest.data, source.len + 1, Len(dest.data)),
                    len |-> source.len, null |-> FALSE]]

(* robotraconteurlite_string_copy_to: dest->len is the capacity on entry; *)
(* the source bytes are written over the front of dest's storage and     *)
(* dest->len becomes the source length.                                  *)
StringCopyTo(source, dest) ==
  CASE source.len = 0 -> [st |-> SUCCESS, dest |-> [dest EXCEPT !.len = 0]]
    [] source.null -> [st |-> INVALID_ARGUMENT, dest |-> dest]
    [] source.len > dest.len -> [st |-> INVALID_ARGUMENT, dest |-> dest]
    [] OTHER ->
         [st |-> SUCCESS,
          dest |-> [data |-> source.data \o SubSeq(dest.data, source.len + 1, Len(dest.data)),
                    len |-> source.len, null |-> FALSE]]

(* robotraconteurlite_string_shallow_copy_to: dest takes the pointer and *)
(* the length; node_begin_send_messageentry fills the header's node names *)
(* this way.                                                              *)
StringShallowCopyTo(source, dest) ==
  [dest EXCEPT !.data = source.data, !.len = source.len, !.null = source.null]

(* robotraconteurlite_buffer_vec_copy_to_string: copy_vec_ex from the    *)
(* message buffer at pos into a one-span vector made of dest itself, so  *)
(* dest->len is that span's length.  mem is the buffer flattened: the    *)
(* sg_copy run shows a copy does not depend on how the range is split.  *)
CopyToString(mem, pos, dest, n) ==
  CASE n = 0 -> [st |-> SUCCESS, dest |-> dest]
    [] OutOfBounds(pos, n, Len(mem), 0, n, dest.len) -> [st |-> OUT_OF_RANGE, dest |-> dest]
    [] OTHER -> [st |-> SUCCESS,
                 dest |-> [dest EXCEPT !.data = SubSeq(mem, pos + 1, pos + n) \o
                                                 SubSeq(@, n + 1, Len(@))]]

(* Mutant: the capacity test also refuses a string that fits exactly. *)
ReadHeaderStringExactFit(mem, off, strLen, str) ==
  CASE strLen = 0 -> [st |-> SUCCESS, str |-> [str EXCEPT !.len = 0]]
    [] str.null /\ str.len = 0 -> [st |-> SUCCESS, str |-> [str EXCEPT !.len = strLen]]
    [] str.null -> [st |-> "ASSERT", str |-> str]
    [] str.len <= strLen -> [st |-> INVALID_ARGUMENT, str |-> str]
    [] OTHER ->
         LET r == CopyToString(mem, off, str, strLen) IN
         IF r.st # SUCCESS THEN [st |-> r.st, str |-> r.dest]
         ELSE [st |-> SUCCESS, str |-> [r.dest EXCEPT !.len = strLen]]

(* robotraconteurlite_message_read_header_string, which the header       *)
(* readers call for every string once the header size has been checked:  *)
(* an empty string; a zero-copy request (data NULL, len 0) only gets the *)
(* length; caller-owned storage is capacity-checked, then copied into.   *)
(* The assert(str->data != NULL) of the owned path is "ASSERT".          *)
ReadHeaderString(mem, off, strLen, str) ==
  CASE strLen = 0 -> [st |-> SUCCESS, str |-> [str EXCEPT !.len = 0]]
    [] str.null /\ str.len = 0 -> [st |-> SUCCESS, str |-> [str EXCEPT !.len = strLen]]
    [] str.null -> [st |-> "ASSERT", str |-> str]
    [] str.len < strLen -> [st |-> INVALID_ARGUMENT, str |-> str]
    [] OTHER ->
         LET r == CopyToString(mem, off, str, strLen) IN
         IF r.st # SUCCESS THEN [st |-> r.st, str |-> r.dest]
         ELSE [st |-> SUCCESS, str |-> [r.dest EXCEPT !.len = strLen]]

-----------------------------------------------------------------------------
(* The reference order of byte strings: by length first, then by the     *)
(* first differing byte as unsigned char.                                *)
ShortLexLess(a, b) ==
  \/ Len(a) < Len(b)
  \/ /\ Len(a) = Len(b)
     /\ \E i \in 1 .. Len(a) : SubSeq(a, 1, i - 1) = SubSeq(b, 1, i - 1) /\ a[i] < b[i]

(* What string_cmp returns, as a sign, for every pair of strings, and    *)
(* what the reference order says it should.                              *)
CmpTable == [p \in Views \X Views |-> Sign(StringCmp(p[1], p[2]))]

RefOrderTable ==
  [p \in Views \X Views |->
     IF Contents(p[1]) = Contents(p[2]) THEN 0
     ELSE IF ShortLexLess(Contents(p[1]), Contents(p[2])) THEN -1 ELSE 1]

(* What a caller sees after string_copy_to: on success the status, the   *)
(* storage length and string_cmp of the result (also after a shallow     *)
(* copy) against the source; on failure the status and dest.             *)
CopyOutcome(src, d) ==
  LET r == StringCopyTo(src, d) IN
  IF r.st = SUCCESS
    THEN [st |-> r.st, storage |-> Len(r.dest.data), cmp |-> StringCmp(r.dest, src),
          shallow |-> StringCmp(StringShallowCopyTo(r.dest, d), src)]
    ELSE [st |-> r.st, dest |-> r.dest]

CopyTable == [p \in Sources \X Dests |-> CopyOutcome(p[1], p[2])]

(* The spec's contract: copy when the source is empty, or readable and   *)
(* fits in dest->len, else InvalidArgument with dest untouched.          *)
RefCopyTable ==
  [p \in Sources \X Dests |->
     IF p[1].len = 0 \/ (~p[1].null /\ p[1].len <= p[2].len)
       THEN [st |-> SUCCESS, storage |-> Len(p[2].data), cmp |-> 0, shallow |-> 0]
       ELSE [st |-> INVALID_ARGUMENT, dest |-> p[2]]]

(* At every step, string_cmp orders strings as the reference order does: *)
(* 0 exactly for equal contents, negative exactly when the first orders  *)
(* first by length, then by the first unequal byte as unsigned char, for *)
(* bytes above 127 too.                                                  *)
StringCmpMeetsOrder == [][CmpTable = RefOrderTable]_vars

(* At every step, string_copy_to succeeds exactly when the source is      *)
(* empty, or readable and no longer than dest->len; it then stays inside *)
(* dest's storage and leaves a string that string_cmp, also after         *)
(* string_shallow_copy_to, finds equal to the source; otherwise it leaves *)
(* dest as it was.                                                        *)
CopyThenCmpEqual == [][CopyTable = RefCopyTable]_vars

(* The header strings a reader may meet: a buffer of three distinct      *)
(* bytes (the bytes copied show where they came from), an offset and a   *)
(* length inside or past it, and as the caller's string either a         *)
(* zero-copy request or caller-owned storage.                            *)
HeaderBufs == { b \in [1 .. 3 -> Bytes] : IsInjective(b) }
ZeroCopy == [data |-> << >>, len |-> 0, null |-> TRUE]
HeaderCases == HeaderBufs \X (0 .. 3) \X (0 .. MaxStrLen) \X (Dests \cup {ZeroCopy})

(* What the caller sees: the status, the length, the bytes the string   *)
(* holds, and the size of its storage.                                   *)
HeaderStringOutcome(r) ==
  [st |-> r.st, len |-> r.str.len, storage |-> Len(r.str.data),
   bytes |-> IF r.st = SUCCESS /\ ~r.str.null THEN Contents(r.str) ELSE << >>]

HeaderStringTable ==
  [c \in HeaderCases |-> HeaderStringOutcome(ReadHeaderString(c[1], c[2], c[3], c[4]))]

(* Spec section 4.2, read_header: a zero-copy request gets the length; a *)
(* owned string gets the bytes copied when it can hold them, else         *)
(* InvalidArgument, and OUT_OF_RANGE when the bytes lie past the buffer.  *)
RefHeaderStringTable ==
  [c \in HeaderCases |->
     LET mem == c[1]  off == c[2]  n == c[3]  str == c[4]
         ok(bytes) == [st |-> SUCCESS, len |-> n, storage |-> Len(str.data), bytes |-> bytes]
         fail(e) == [st |-> e, len |-> str.len, storage |-> Len(str.data), bytes |-> << >>]
     IN CASE n = 0 -> ok(<< >>)
          [] str.null -> ok(<< >>)
          [] str.len < n -> fail(INVALID_ARGUMENT)
          [] off + n > Len(mem) -> fail(OUT_OF_RANGE)
          [] OTHER -> ok(SubSeq(mem, off + 1, off + n))]

(* At every step, reading a header string into a zero-copy request or    *)
(* into caller-owned storage gives the outcome the spec's read_header    *)
(* contract gives: the length alone, the buffer's bytes in storage large *)
(* enough, InvalidArgument for storage too small, never a write past it. *)
HeaderStringMeetsContract == [][HeaderStringTable = RefHeaderStringTable]_vars
=============================================================================
