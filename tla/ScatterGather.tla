---------------------------- MODULE ScatterGather ----------------------------
(***************************************************************************)
(* The scatter-gather buffer of src/src/array.c: a buffer_vec is a vector  *)
(* of spans that together form one logical range.  The module models one  *)
(* call of robotraconteurlite_buffer_vec_copy_vec (bytes) or of            *)
(* robotraconteurlite_buffer_vec_copy_vec_ex (element counts of two        *)
(* possibly different element sizes, used by every typed wrapper):        *)
(* the single-span fast path, the length and bounds checks, the two seek  *)
(* loops and the dual-cursor copy loop, one iteration per step.           *)
(*                                                                         *)
(* Data abstraction: the source byte at logical byte index b holds the    *)
(* value b + 1, the destination starts all zero, so the destination after *)
(* a copy shows exactly which source byte landed where.  A span is its    *)
(* length in elements; positions and counts are in elements of that side. *)
(***************************************************************************)
EXTENDS Naturals, Sequences, SequencesExt

CONSTANTS
  Layouts,     \* the span vectors a buffer_vec may have: sequences of lengths
  Positions,   \* the positions a caller may pass
  Counts,      \* the counts a caller may pass
  ElemSizes    \* the element sizes of the typed copies (sizeof(T))

ASSUME \A l \in Layouts : Len(l) >= 1
ASSUME ElemSizes \subseteq Nat \ {0}

SUCCESS == "SUCCESS"
OUT_OF_RANGE == "OUT_OF_RANGE"

VARIABLES
  in,      \* the call's arguments, fixed for the behaviour
  dmem,    \* destination contents, by logical byte index
  pc,      \* "start", "walk" or "done"
  si, di,  \* source_i, dest_i: current span of each side
  sOff,    \* source_i_byte_pos: byte offset inside span si
  dOff,    \* dest_i_byte_pos
  rem,     \* bytes_remaining (count_remaining in the byte copy)
  status   \* the status the call returned

vars == <<in, dmem, pc, si, di, sOff, dOff, rem, status>>

(* robotraconteurlite_buffer_vec_len: the sum of the span lengths. *)
VecLen(lens) == FoldLeft(+, 0, lens)

(* Bytes held by spans 1..i-1 of a vector of elements of size es: the   *)
(* current_byte_pos the seek loops have summed on reaching span i.       *)
BytesBefore(lens, es, i) == VecLen(SubSeq(lens, 1, i - 1)) * es

(* The seek loops: advance over spans while the end of the current span  *)
(* lies strictly before the wanted byte position.  Returns <<i, cur>>.   *)
RECURSIVE Seek(_, _, _, _, _)
Seek(lens, es, bytePos, i, cur) ==
  IF i <= Len(lens) /\ cur + lens[i] * es < bytePos
    THEN Seek(lens, es, bytePos, i + 1, cur + lens[i] * es)
    ELSE <<i, cur>>

(* Mutant: the seek forgets the offset inside the span it stopped at. *)
OffsetInDropped(cur, bytePos) == 0

(* The byte offset inside the span the seek stopped at. *)
OffsetIn(cur, bytePos) == IF cur < bytePos THEN bytePos - cur ELSE 0

(* The destination after copying n source bytes starting at logical source *)
(* byte sb to logical destination byte db.                                 *)
Placed(mem, sb, db, n) ==
  [b \in DOMAIN mem |-> IF b >= db /\ b < db + n THEN sb + (b - db) + 1 ELSE mem[b]]

(* Mutant: the bounds check keeps the start test but drops pos + count. *)
OutOfBoundsNoEnd(sp, sc, slen, dp, dc, dlen) ==
  ~(sp < slen) \/ ~(dp < dlen) \/ dp + dc > dlen

(* The bounds check shared by every path, in elements of each side. *)
OutOfBounds(sp, sc, slen, dp, dc, dlen) ==
  ~(sp < slen) \/ sp + sc > slen \/ ~(dp < dlen) \/ dp + dc > dlen

(* robotraconteurlite_buffer_copy: the byte copy between two single spans. *)
BufferCopy(a, mem) ==
  CASE a.sCount = 0 -> [st |-> SUCCESS, mem |-> mem]
    [] OutOfBounds(a.sPos, a.sCount, a.src[1], a.dPos, a.sCount, a.dst[1])
         -> [st |-> OUT_OF_RANGE, mem |-> mem]
    [] OTHER -> [st |-> SUCCESS, mem |-> Placed(mem, a.sPos, a.dPos, a.sCount)]

(* robotraconteurlite_buffer_copy_ex: the typed copy between two spans. *)
BufferCopyEx(a, mem) ==
  CASE a.sCount = 0 /\ a.dCount = 0 -> [st |-> SUCCESS, mem |-> mem]
    [] a.sCount * a.sEs # a.dCount * a.dEs -> [st |-> OUT_OF_RANGE, mem |-> mem]
    [] OutOfBounds(a.sPos, a.sCount, a.src[1], a.dPos, a.dCount, a.dst[1])
         -> [st |-> OUT_OF_RANGE, mem |-> mem]
    [] OTHER -> [st |-> SUCCESS,
                 mem |-> Placed(mem, a.sPos * a.sEs, a.dPos * a.dEs, a.sCount * a.sEs)]

(* The arguments a caller passes to copy_vec (one count, size 1) or to   *)
(* copy_vec_ex (a count and an element size per side).                    *)
DirectCalls ==
  { [fn |-> "vec", src |-> s, dst |-> d, sPos |-> sp, dPos |-> dp,
     sCount |-> c, dCount |-> c, sEs |-> 1, dEs |-> 1]
      : s \in Layouts, d \in Layouts, sp \in Positions, dp \in Positions, c \in Counts }
  \cup
  { [fn |-> "vec_ex", src |-> s, dst |-> d, sPos |-> sp, dPos |-> dp,
     sCount |-> sc, dCount |-> dc, sEs |-> se, dEs |-> de]
      : s \in Layouts, d \in Layouts, sp \in Positions, dp \in Positions,
        sc \in Counts, dc \in Counts, se \in ElemSizes, de \in ElemSizes }

ExCall(s, d, sp, dp, sc, dc, se, de) ==
  [fn |-> "vec_ex", src |-> s, dst |-> d, sPos |-> sp, dPos |-> dp,
   sCount |-> sc, dCount |-> dc, sEs |-> se, dEs |-> de]

(* copy_to_T_array and copy_from_T_array for sizeof(T) = es: the array is *)
(* one span of its len elements; the buffer side counts bytes.  Counts    *)
(* are those whose byte size is within the bounds.                       *)
ArrayCalls(es) ==
  LET ns == {n \in Counts : n * es \in Counts} IN
  { ExCall(s, <<a>>, sp, dp, n * es, n, 1, es)
      : s \in Layouts, a \in Counts, sp \in Positions, dp \in Positions, n \in ns }
  \cup
  { ExCall(<<a>>, d, sp, dp, n, n * es, es, 1)
      : d \in Layouts, a \in Counts, sp \in Positions, dp \in Positions, n \in ns }

(* copy_to_T and copy_from_T: the scalar is a span of len 1 at position 0. *)
ScalarCalls(es) ==
  { ExCall(s, <<1>>, sp, 0, es, 1, 1, es) : s \in Layouts, sp \in Positions }
  \cup
  { ExCall(<<1>>, d, 0, dp, 1, es, es, 1) : d \in Layouts, dp \in Positions }

(* The typed wrappers of the one- and two-byte types. *)
Int8Calls == ArrayCalls(1) \cup ScalarCalls(1)
Uint8Calls == ArrayCalls(1) \cup ScalarCalls(1)
Int16Calls == ArrayCalls(2) \cup ScalarCalls(2)
Uint16Calls == ArrayCalls(2) \cup ScalarCalls(2)
StringCalls == ArrayCalls(1)

(* Every call: the wrappers' shapes are among the direct calls' within    *)
(* the bounds, and are listed so that each wrapper's use is explicit.     *)
Calls ==
  DirectCalls \cup Int8Calls \cup Uint8Calls \cup Int16Calls \cup Uint16Calls \cup StringCalls

DstBytes(a) == VecLen(a.dst) * a.dEs

Init ==
  /\ in \in Calls
  /\ dmem = [b \in 0 .. DstBytes(in) - 1 |-> 0]
  /\ pc = "start"
  /\ si = 1 /\ di = 1 /\ sOff = 0 /\ dOff = 0 /\ rem = 0
  /\ status = "none"

SinglePath == Len(in.src) = 1 /\ Len(in.dst) = 1

(* Set up the walk after the checks passed: the seek loops and the offsets. *)
BeginWalk(sBytePos, dBytePos, nBytes) ==
  LET s == Seek(in.src, in.sEs, sBytePos, 1, 0)
      d == Seek(in.dst, in.dEs, dBytePos, 1, 0)
  IN /\ pc' = "walk"
     /\ si' = s[1] /\ sOff' = OffsetIn(s[2], sBytePos)
     /\ di' = d[1] /\ dOff' = OffsetIn(d[2], dBytePos)
     /\ rem' = nBytes
     /\ UNCHANGED <<in, dmem, status>>

Finish(r) ==
  /\ pc' = "done" /\ status' = r.st /\ dmem' = r.mem
  /\ UNCHANGED <<in, si, di, sOff, dOff, rem>>

FailRange ==
  /\ pc' = "done" /\ status' = OUT_OF_RANGE
  /\ UNCHANGED <<in, dmem, si, di, sOff, dOff, rem>>

(* robotraconteurlite_buffer_vec_copy_vec up to its copy loop. *)
StartCopyVec ==
  /\ pc = "start" /\ in.fn = "vec"
  /\ IF SinglePath
       THEN Finish(BufferCopy(in, dmem))
     ELSE IF OutOfBounds(in.sPos, in.sCount, VecLen(in.src),
                         in.dPos, in.sCount, VecLen(in.dst))
       THEN FailRange
     ELSE BeginWalk(in.sPos, in.dPos, in.sCount)

(* robotraconteurlite_buffer_vec_copy_vec_ex up to its copy loop. *)
StartCopyVecEx ==
  /\ pc = "start" /\ in.fn = "vec_ex"
  /\ IF SinglePath
       THEN Finish(BufferCopyEx(in, dmem))
     ELSE IF \/ in.sCount * in.sEs # in.dCount * in.dEs
             \/ OutOfBounds(in.sPos, in.sCount, VecLen(in.src),
                            in.dPos, in.dCount, VecLen(in.dst))
       THEN FailRange
     ELSE BeginWalk(in.sPos * in.sEs, in.dPos * in.dEs, in.sCount * in.sEs)

(* Mutant: the run is not clipped to what remains to be copied. *)
CopyDeltaNoRem(remaining, sDelta, dDelta) ==
  IF sDelta < dDelta THEN sDelta ELSE dDelta

(* The run one loop iteration copies: the smaller of the two spans' rests, *)
(* clipped to the bytes remaining.                                        *)
CopyDelta(remaining, sDelta, dDelta) ==
  LET d == IF sDelta < dDelta THEN sDelta ELSE dDelta
  IN IF remaining < d THEN remaining ELSE d

(* Mutant: the loop lacks the test for an exhausted source span, so it  *)
(* copies zero bytes from it instead of moving to the next span.        *)
WalkStepNoSkip ==
  /\ pc = "walk" /\ rem > 0
  /\ si \in DOMAIN in.src /\ di \in DOMAIN in.dst
  /\ LET sDelta == in.src[si] * in.sEs - sOff
         dDelta == in.dst[di] * in.dEs - dOff
         delta  == CopyDelta(rem, sDelta, dDelta)
     IN \/ /\ dDelta = 0
           /\ di' = di + 1 /\ dOff' = 0
           /\ UNCHANGED <<dmem, si, sOff, rem>>
        \/ /\ dDelta > 0
           /\ dmem' = Placed(dmem, BytesBefore(in.src, in.sEs, si) + sOff,
                                   BytesBefore(in.dst, in.dEs, di) + dOff, delta)
           /\ rem' = rem - delta
           /\ sOff' = sOff + delta /\ dOff' = dOff + delta
           /\ UNCHANGED <<si, di>>
  /\ UNCHANGED <<in, pc, status>>

(* One iteration of the copy loop: step past an exhausted source span,   *)
(* step past an exhausted destination span, or copy the largest run that *)
(* fits in both current spans and in what remains.                       *)
WalkStep ==
  /\ pc = "walk" /\ rem > 0
  /\ si \in DOMAIN in.src /\ di \in DOMAIN in.dst
  /\ LET sDelta == in.src[si] * in.sEs - sOff
         dDelta == in.dst[di] * in.dEs - dOff
         delta  == CopyDelta(rem, sDelta, dDelta)
     IN \/ /\ sDelta = 0
           /\ si' = si + 1 /\ sOff' = 0
           /\ UNCHANGED <<dmem, di, dOff, rem>>
        \/ /\ sDelta > 0 /\ dDelta = 0
           /\ di' = di + 1 /\ dOff' = 0
           /\ UNCHANGED <<dmem, si, sOff, rem>>
        \/ /\ sDelta > 0 /\ dDelta > 0
           /\ dmem' = Placed(dmem, BytesBefore(in.src, in.sEs, si) + sOff,
                                   BytesBefore(in.dst, in.dEs, di) + dOff, delta)
           /\ rem' = rem - delta
           /\ sOff' = sOff + delta /\ dOff' = dOff + delta
           /\ UNCHANGED <<si, di>>
  /\ UNCHANGED <<in, pc, status>>

(* The copy loop's condition fails: the call returns success. *)
WalkEnd ==
  /\ pc = "walk" /\ rem = 0
  /\ pc' = "done" /\ status' = SUCCESS
  /\ UNCHANGED <<in, dmem, si, di, sOff, dOff, rem>>

Next == StartCopyVec \/ StartCopyVecEx \/ WalkStep \/ WalkEnd

Spec == Init /\ [][Next]_vars /\ WF_vars(Next)

-----------------------------------------------------------------------------
TypeOK ==
  /\ in.fn \in {"vec", "vec_ex"}
  /\ in.src \in Layouts /\ in.dst \in Layouts
  /\ {in.sPos, in.dPos} \subseteq Positions
  /\ {in.sCount, in.dCount} \subseteq Counts
  /\ {in.sEs, in.dEs} \subseteq ElemSizes \cup {1}
  /\ pc \in {"start", "walk", "done"}
  /\ status \in {"none", SUCCESS, OUT_OF_RANGE}
  /\ DOMAIN dmem = 0 .. DstBytes(in) - 1
  /\ rem \in Nat /\ sOff \in Nat /\ dOff \in Nat

(* The logical copy the caller asked for, as array.c's contract states it: *)
(* the byte ranges of both sides lie inside their vectors and the two      *)
(* sides name the same number of bytes.                                    *)
InRange ==
  /\ in.sCount * in.sEs = in.dCount * in.dEs
  /\ in.sPos + in.sCount <= VecLen(in.src)
  /\ in.dPos + in.dCount <= VecLen(in.dst)

RefMem == Placed([b \in 0 .. DstBytes(in) - 1 |-> 0],
                 in.sPos * in.sEs, in.dPos * in.dEs, in.sCount * in.sEs)

(* Every copy of a non-empty range, through the fast path or through the   *)
(* span walk, returns SUCCESS with exactly the requested source bytes at   *)
(* the requested destination bytes when the range is in bounds, and       *)
(* returns OUT_OF_RANGE having written nothing when it is not.             *)
CopyMeetsReference ==
  (pc = "done" /\ (in.sCount > 0 \/ in.dCount > 0)) =>
    IF InRange THEN status = SUCCESS /\ dmem = RefMem
               ELSE status = OUT_OF_RANGE /\ \A b \in DOMAIN dmem : dmem[b] = 0

(* Whenever the copy loop runs an iteration, source_i and dest_i index a   *)
(* span of their vector: the loop never reads buffer_vec past its count.   *)
SpanIndicesValid ==
  (pc = "walk" /\ rem > 0) => (si \in DOMAIN in.src /\ di \in DOMAIN in.dst)

(* Every call returns: the copy loop cannot spin without progress. *)
CopyTerminates == <>(pc = "done")
=============================================================================
