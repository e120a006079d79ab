---------------------------- MODULE MCCodecCheck ----------------------------
(***************************************************************************)
(* Inputs of the codec checks: the widths 1, 2, 3 (uint32) and 7 (uint64), *)
(* every value up to 300 and the values around each power of two where    *)
(* a width changes or the range ends; acks of stages 0..3 with up to six   *)
(* stages beyond.                                                          *)
(***************************************************************************)
EXTENDS CodecCheck

MCWidths == {1, 2, 3, 7}
MCValues == (0..300) \cup {2^n + d : n \in {7, 8, 14, 15, 21, 22, 28, 29, 30}, d \in {-1, 0, 1}}
MCAckStages == 0..3
MCAckSpan == 6
MCIds == {<<0, 0, 0, 1>>, <<255, 0, 128, 7>>}
MCCodes == {16, 81, 12}
\* Lengths 0 to 3, so that some packets need no padding at all.
MCContents == {<<>>, <<255>>, <<0, 255>>, <<255, 0, 0>>}
MCSumBytes == {0, 1, 255}
MCSumLen == 6
MCPayloads == {<<>>, <<0>>, <<222, 173, 190, 175>>}
MCAmfNames == {<<>>, <<99>>, <<5, 9>>}
MCAmfNumbers == {0, 1, 3, 1000, 2^20 + 1}
\* The empty name is one of them: the writer must skip it.
MCAmfKeys == {<<>>, <<108>>, <<99>>}
\* AMF3: the integers at the ends of the 29-bit range, around the width
\* changes of the U29 and just outside the range; two heaps.  Heap 1 can be
\* written by amf3.Writer (no class name, no field name but the empty one):
\* an empty object and one holding it.  Heap 2 has a class name, a
\* field whose value is a string equal to the class name, a second object
\* of the same class and names, and an object holding itself.
MCAmf3Values ==
    {Null, Bool(TRUE), Num(3), Str(<<>>), Str(<<65>>), Date(7), Bytes(<<>>), Bytes(<<1, 2>>),
     Ptr(1), Ptr(2)}
    \cup {Integer(i) : i \in {0, 127, 128, 2^21, MaxInt, MinInt, -1, MaxInt + 1}}
MCAmf3Heaps ==
    {(1 :> [cls |-> <<>>, f |-> <<>>]) @@ (2 :> [cls |-> <<>>, f |-> (<<>> :> Ptr(1))]),
     (1 :> [cls |-> <<65>>, f |-> (<<99>> :> Str(<<65>>))])
       @@ (2 :> [cls |-> <<65>>, f |-> (<<99>> :> Ptr(2))])}
MCAmf3Len == 3
MCSplitLens == {0, 1, 255, 256, 257, 512, 513}
MCHsEpds == {<<112>>, <<114, 116, 109>>}
MCHsTags == {[i \in 1..16 |-> 0], [i \in 1..16 |-> 255]}
MCHsCookies == {[i \in 1..64 |-> i]}
\* A key of 128 bytes makes the key block's lengths take two varint bytes.
MCHsKeys == {<<7>>, [i \in 1..128 |-> 1]}
MCHsInits == {<<9>>, <<9, 9>>}
MCHsResponders == {<<3, 26>>, [i \in 1..130 |-> 2]}
=============================================================================
