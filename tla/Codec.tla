------------------------------- MODULE Codec --------------------------------
(***************************************************************************)
(* The byte codecs the flows depend on: the 7-bit varints of xio           *)
(* (xio/writer.go, xio/reader.go) and the range encoding of flow acks      *)
(* (session/flowack.go), with the ack the flow reader builds from its      *)
(* buffer (flowReader.CommitAck).                                          *)
(*                                                                         *)
(* A varint of width k has up to k groups of 7 bits with the continuation *)
(* bit, then one full 8-bit byte: k = 3 is the uint32 code, k = 7 the      *)
(* uint64 code, which is the same code with other constants.  TLC's        *)
(* integers stop below 2^31, so the uint64 instance is checked on the      *)
(* values TLC holds and the 8-bit tail is checked on narrow instances.     *)
(***************************************************************************)
EXTENDS Naturals, Integers, Sequences, SequencesExt

\* v >= 2^n, for the integers TLC represents (all below 2^31).
AtLeastPow2(v, n) == n <= 30 /\ v >= 2^n

\* A uint64 subtraction that wraps below zero gives a value far above the
\* varint range; Wrapped stands for all of them.
Wrapped == -1
USub(a, b) == IF a >= b THEN a - b ELSE Wrapped

InRange(v, k) == v # Wrapped /\ ~AtLeastPow2(v, 7 * k + 8)

Or80(b) == IF b >= 128 THEN b ELSE b + 128     \* 0x80 | b

\* The loop `for m := 0x80; v >= m; m <<= 7 { shift += 7 }`.
RECURSIVE GroupShift(_, _, _)
GroupShift(v, m, s) == IF AtLeastPow2(v, m) THEN GroupShift(v, m + 7, s + 7) ELSE s

\* Mutant: the shift of the 8-bit tail case one bit short.
WriteTailShiftShort(v, k) ==
    IF ~InRange(v, k) THEN [ok |-> FALSE, bytes |-> <<>>]
    ELSE LET big == AtLeastPow2(v, 7 * k)
             sh == IF big THEN 7 * k ELSE GroupShift(v, 7, 0)
             last == IF big THEN v % 256 ELSE v % 128
         IN  [ok |-> TRUE,
              bytes |-> [i \in 1..(sh \div 7) |-> Or80((v \div 2^(sh - 7 * (i - 1))) % 256)]
                        \o <<last>>]

\* Write7BitValue32 / Write7BitValue64: the bytes written, or failure.
Write7Bit(v, k) ==
    IF ~InRange(v, k) THEN [ok |-> FALSE, bytes |-> <<>>]
    ELSE LET big == AtLeastPow2(v, 7 * k)
             sh == IF big THEN 7 * k + 1 ELSE GroupShift(v, 7, 0)
             last == IF big THEN v % 256 ELSE v % 128
         IN  [ok |-> TRUE,
              bytes |-> [i \in 1..(sh \div 7) |-> Or80((v \div 2^(sh - 7 * (i - 1))) % 256)]
                        \o <<last>>]

Write7BitValue32(v) == Write7Bit(v, 3)
Write7BitValue64(v) == Write7Bit(v, 7)

\* Mutant: the tail case counted as k bytes.
SizeOfTailShort(v, k) ==
    IF ~InRange(v, k) THEN [ok |-> FALSE, n |-> 0]
    ELSE IF AtLeastPow2(v, 7 * k) THEN [ok |-> TRUE, n |-> k]
    ELSE [ok |-> TRUE, n |-> 1 + GroupShift(v, 7, 0) \div 7]

\* SizeOf7BitValue32 / SizeOf7BitValue64.
SizeOf7Bit(v, k) ==
    IF ~InRange(v, k) THEN [ok |-> FALSE, n |-> 0]
    ELSE IF AtLeastPow2(v, 7 * k) THEN [ok |-> TRUE, n |-> k + 1]
    ELSE [ok |-> TRUE, n |-> 1 + GroupShift(v, 7, 0) \div 7]

SizeOf7BitValue64(v) == SizeOf7Bit(v, 7)

\* Read7BitValue32 / Read7BitValue64 from position pos of buf: the value
\* and the position after it, or failure at the end of the buffer.
RECURSIVE ReadGroups(_, _, _, _, _)
ReadGroups(buf, pos, k, i, v) ==
    IF pos > Len(buf) THEN [ok |-> FALSE, v |-> 0, pos |-> pos]
    ELSE LET b == buf[pos] IN
         IF i < k
         THEN IF b < 128 THEN [ok |-> TRUE, v |-> v * 128 + b, pos |-> pos + 1]
              ELSE ReadGroups(buf, pos + 1, k, i + 1, v * 128 + (b % 128))
         ELSE [ok |-> TRUE, v |-> v * 256 + b, pos |-> pos + 1]

Read7Bit(buf, pos, k) == ReadGroups(buf, pos, k, 0, 0)

-----------------------------------------------------------------------------
(* Flow acks: the cumulative stage and the ranges beyond it. *)

\* Mutant: the gap written as beg - stage - 1.
RECURSIVE StoreRangesGapOffByOne(_, _, _)
StoreRangesGapOffByOne(stage, rs, out) ==
    IF ~out.ok \/ rs = <<>> THEN out
    ELSE LET r == Head(rs)
             a == Write7BitValue64(USub(r.beg, stage + 1))
             b == Write7BitValue64(USub(r.end, r.beg))
         IN  StoreRangesGapOffByOne(r.end, Tail(rs),
                         [ok |-> a.ok /\ b.ok, bytes |-> out.bytes \o a.bytes \o b.bytes])

\* storeFlowAck: the stage, then per range beg - stage - 2 and end - beg,
\* stage moving to the range's end; failure when a varint fails.
RECURSIVE StoreRanges(_, _, _)
StoreRanges(stage, rs, out) ==
    IF ~out.ok \/ rs = <<>> THEN out
    ELSE LET r == Head(rs)
             a == Write7BitValue64(USub(r.beg, stage + 2))
             b == Write7BitValue64(USub(r.end, r.beg))
         IN  StoreRanges(r.end, Tail(rs),
                         [ok |-> a.ok /\ b.ok, bytes |-> out.bytes \o a.bytes \o b.bytes])

StoreFlowAck(ack) == StoreRanges(ack.stage, ack.ranges, Write7BitValue64(ack.stage))

\* Mutant: the size leaves out the range lengths.
RECURSIVE SizeRangesNoLength(_, _, _)
SizeRangesNoLength(stage, rs, out) ==
    IF ~out.ok \/ rs = <<>> THEN out
    ELSE LET r == Head(rs)
             a == SizeOf7BitValue64(USub(r.beg, stage + 2))
         IN  SizeRangesNoLength(r.end, Tail(rs), [ok |-> a.ok, n |-> out.n + a.n])

\* flowAck.Size: the sum of the varint sizes storeFlowAck writes.
RECURSIVE SizeRanges(_, _, _)
SizeRanges(stage, rs, out) ==
    IF ~out.ok \/ rs = <<>> THEN out
    ELSE LET r == Head(rs)
             a == SizeOf7BitValue64(USub(r.beg, stage + 2))
             b == SizeOf7BitValue64(USub(r.end, r.beg))
         IN  SizeRanges(r.end, Tail(rs), [ok |-> a.ok /\ b.ok, n |-> out.n + a.n + b.n])

AckSize(ack) == SizeRanges(ack.stage, ack.ranges, SizeOf7BitValue64(ack.stage))

\* parseFlowAck: read the stage, then pairs until the buffer is empty.
RECURSIVE ParseRanges(_, _, _, _)
ParseRanges(buf, pos, stage, ack) ==
    IF pos > Len(buf) THEN [ok |-> TRUE, ack |-> ack]
    ELSE LET a == Read7Bit(buf, pos, 7)
             b == Read7Bit(buf, a.pos, 7)
             beg == a.v + stage + 2
             end == b.v + beg
         IN  IF ~a.ok \/ ~b.ok THEN [ok |-> FALSE, ack |-> ack]
             ELSE ParseRanges(buf, b.pos, end, [ack EXCEPT !.ranges = Append(@, [beg |-> beg, end |-> end])])

ParseFlowAck(buf) ==
    LET s == Read7Bit(buf, 1, 7) IN
    IF ~s.ok THEN [ok |-> FALSE, ack |-> [stage |-> 0, ranges |-> <<>>]]
    ELSE ParseRanges(buf, s.pos, s.v, [stage |-> s.v, ranges |-> <<>>])

\* Mutant: a consecutive stage moves the range's beginning, not its end.
RECURSIVE RunsMoveBeg(_, _)
RunsMoveBeg(q, acc) ==
    IF q = <<>> THEN acc
    ELSE IF acc # <<>> /\ Head(q) = Last(acc).end + 1
         THEN RunsMoveBeg(Tail(q), [acc EXCEPT ![Len(acc)].beg = Head(q)])
         ELSE RunsMoveBeg(Tail(q), Append(acc, [beg |-> Head(q), end |-> Head(q)]))

\* flowReader.CommitAck: the reader's stage and the maximal runs of
\* consecutive stages in its buffer, in order.
RECURSIVE Runs(_, _)
Runs(q, acc) ==
    IF q = <<>> THEN acc
    ELSE IF acc # <<>> /\ Head(q) = Last(acc).end + 1
         THEN Runs(Tail(q), [acc EXCEPT ![Len(acc)].end = Head(q)])
         ELSE Runs(Tail(q), Append(acc, [beg |-> Head(q), end |-> Head(q)]))

CommitAckOf(stage, buffered) ==
    [stage |-> stage, ranges |-> Runs(SetToSortSeq(buffered, <), <<>>)]

=============================================================================
