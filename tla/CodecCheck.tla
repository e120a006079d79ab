----------------------------- MODULE CodecCheck ------------------------------
(***************************************************************************)
(* Checks of the codecs of Codec and Frame against reference definitions  *)
(* and against the parsers the other side runs.  The state is the input   *)
(* under test, chosen by Init and never changed, so every invariant is     *)
(* checked once per input; the inputs of the other checks keep a fixed    *)
(* valid value meanwhile.                                                  *)
(***************************************************************************)
EXTENDS Codec, Frame, Amf0, Amf3, HandshakeWire, FiniteSets

CONSTANTS
    Widths,      \* the widths k checked
    Values,      \* the varint inputs
    AckStages,   \* cumulative stages of the acks checked
    AckSpan,     \* stages beyond the cumulative one an ack may cover
    Ids,         \* session ids (four bytes) of the packets framed
    Codes,       \* response codes of the messages framed
    Contents,    \* message contents
    SumBytes,    \* bytes of the checksum inputs
    SumLen,      \* length of the checksum inputs (even)
    Payloads,    \* payloads of the bridge's frames
    AmfNames,    \* strings: message names, string values, field names
    AmfNumbers,  \* numbers (naturals below 2^21)
    AmfKeys,     \* field names of the objects
    Amf3Values,  \* AMF3 values of a message (objects as Ptr into a heap)
    Amf3Heaps,   \* heaps: object id -> class name and fields
    Amf3Len,     \* most AMF3 values in one message
    SplitLens,   \* lengths of the messages split into fragments
    HsEpds,      \* endpoint descriptors of hellos
    HsTags,      \* 16-byte tags
    HsCookies,   \* 64-byte cookie values
    HsKeys,      \* client public keys
    HsInits,     \* client initiator nonces
    HsResponders \* the server's responder values

VARIABLES
    k,     \* varint width under test
    v,     \* varint value under test
    ack,   \* flow ack under test
    pkt,   \* packet under test: id, echo time or not, time, messages
    sumin, \* checksum input under test
    frames, \* two bridge payloads sent back to back
    amf,    \* AMF value, message or split length under test
    hs      \* handshake exchange under test

vars == <<k, v, ack, pkt, sumin, frames, amf, hs>>

\* The acks the flow reader can send: its stage, and a buffer of stages
\* beyond stage + 1 (stage + 1 itself is missing, or it would have been
\* delivered).
ReaderAcks ==
    UNION {{CommitAckOf(s, b) : b \in SUBSET ((s + 2)..(s + AckSpan))} : s \in AckStages}

NoAck == [stage |-> 0, ranges |-> <<>>]

NoPkt == [id |-> <<0, 0, 0, 0>>, echo |-> FALSE, now |-> 0, msgs |-> <<>>]

Packets == [id : Ids, echo : BOOLEAN, now : {0, 65535},
            msgs : BoundedSeq([code : Codes, content : Contents], 2)]

KeepVarint == k = 7 /\ v = 0
KeepAck == ack = NoAck
KeepPkt == pkt = NoPkt
KeepSum == sumin = <<>>
KeepFrames == frames = <<<<>>, <<>>>>

Scalars == {Null, Bool(FALSE), Bool(TRUE)} \cup {Num(n) : n \in AmfNumbers}
             \cup {Str(s) : s \in AmfNames}
FlatObjects == {Obj(f) : f \in UNION {[D -> Scalars] : D \in SUBSET AmfKeys}}
\* Objects holding an object, as writeObjectValue's Write allows.
NestedObjects == {Obj(k1 :> Obj(k2 :> x)) : k1, k2 \in AmfKeys, x \in Scalars}
AmfValues == Scalars \cup FlatObjects \cup NestedObjects

NoAmf == [kind |-> "none", v |-> Null, name |-> <<>>, cb |-> 0, len |-> 0, xs |-> <<>>, heap |-> <<>>]
AmfInputs ==
    {[NoAmf EXCEPT !.kind = "value", !.v = x] : x \in AmfValues}
    \cup {[NoAmf EXCEPT !.kind = "message", !.v = x, !.name = nm, !.cb = c] :
            x \in Scalars \cup NestedObjects, nm \in AmfNames, c \in AmfNumbers}
    \cup {[NoAmf EXCEPT !.kind = "split", !.len = l] : l \in SplitLens}
    \cup {[NoAmf EXCEPT !.kind = "amf3", !.xs = x, !.heap = h] :
            x \in BoundedSeq(Amf3Values, Amf3Len), h \in Amf3Heaps}
KeepAmf == amf = NoAmf

NoHs == [kind |-> "none", epd |-> <<>>, tag |-> <<>>, mode |-> 0, cookie |-> <<>>, yid |-> <<>>,
         pubkey |-> <<>>, initiator |-> <<>>, xid |-> <<>>, responder |-> <<>>]
HsInputs ==
    {[NoHs EXCEPT !.kind = "hello", !.epd = e, !.tag = t, !.mode = m, !.cookie = c] :
        e \in HsEpds, t \in HsTags, m \in {10, 15}, c \in HsCookies}
    \cup {[NoHs EXCEPT !.kind = "assign", !.yid = y, !.cookie = c, !.pubkey = pk, !.initiator = i,
                       !.xid = x, !.responder = r] :
        y \in Ids, c \in HsCookies, pk \in HsKeys, i \in HsInits, x \in Ids, r \in HsResponders}
KeepHs == hs = NoHs

\* One input under test, the others fixed.
InitVarint == k \in Widths /\ v \in Values /\ KeepAck /\ KeepPkt /\ KeepSum /\ KeepFrames /\ KeepAmf /\ KeepHs
InitReaderAck == KeepVarint /\ ack \in ReaderAcks /\ KeepPkt /\ KeepSum /\ KeepFrames /\ KeepAmf /\ KeepHs
InitPacket == KeepVarint /\ KeepAck /\ pkt \in Packets /\ KeepSum /\ KeepFrames /\ KeepAmf /\ KeepHs
InitSum == KeepVarint /\ KeepAck /\ KeepPkt /\ sumin \in [1..SumLen -> SumBytes] /\ KeepFrames /\ KeepAmf /\ KeepHs
InitFrames == KeepVarint /\ KeepAck /\ KeepPkt /\ KeepSum /\ frames \in Payloads \X Payloads /\ KeepAmf /\ KeepHs
InitAmf == KeepVarint /\ KeepAck /\ KeepPkt /\ KeepSum /\ KeepFrames /\ amf \in AmfInputs /\ KeepHs
InitHs == KeepVarint /\ KeepAck /\ KeepPkt /\ KeepSum /\ KeepFrames /\ KeepAmf /\ hs \in HsInputs
Init == InitVarint \/ InitReaderAck \/ InitPacket \/ InitSum \/ InitFrames \/ InitAmf \/ InitHs

Next == UNCHANGED vars

Spec == Init /\ [][Next]_vars

-----------------------------------------------------------------------------
(* Reference definitions. *)

\* v < 2^bits; every integer TLC holds fits in 31 bits.
Fits(x, bits) == bits >= 31 \/ x < 2^bits

\* The varint range of width k: [0, 2^(7k+8)).
RefInRange == Fits(v, 7 * k + 8)

\* The encoded width: the fewest 7-bit groups that hold v, or k groups
\* and the 8-bit byte when v needs more than 7k bits.
RefWidth == IF ~Fits(v, 7 * k) THEN k + 1
            ELSE CHOOSE j \in 1..k : Fits(v, 7 * j) /\ (j = 1 \/ ~Fits(v, 7 * (j - 1)))

\* The Internet checksum: the complement of the one's-complement sum of
\* the big-endian 16-bit words.
RefChecksum(bs) ==
    LET s == FoldLeft(LAMBDA acc, i : acc + bs[2 * i - 1] * 256 + bs[2 * i], 0, [j \in 1..(Len(bs) \div 2) |-> j])
    IN  65535 - (IF s = 0 THEN 0 ELSE ((s - 1) % 65535) + 1)

\* A value as the reader should see it: the fields with an empty name,
\* which cannot be written (the reader takes "" for the end), left out.
RECURSIVE Visible(_)
Visible(x) ==
    IF x.t # "obj" THEN x
    ELSE Obj([kk \in {j \in DOMAIN x.o : j # <<>>} |-> Visible(x.o[kk])])

\* What a client sends: a handshake packet (marker 0x0b, one message,
\* session id 0), and the bodies of hello and assign as the client lays
\* them out: the peer id's source is the key block, its length first.
ClientPacket(code, body) == AnswerPacket(<<0, 0, 0, 0>>, code, body)
HelloBody == <<0, Len(hs.epd) + 1, hs.mode>> \o hs.epd \o hs.tag
KeyBlock == Write7BitValue64(Len(hs.pubkey) + 2).bytes \o <<29, 2>> \o hs.pubkey
AssignBody ==
    hs.yid \o Write7BitValue64(CookieSize).bytes \o hs.cookie
      \o Write7BitValue64(Len(KeyBlock)).bytes \o KeyBlock
      \o Write7BitValue64(Len(hs.initiator)).bytes \o hs.initiator

\* The server's side of a client packet: PacketXid, DecodePacket's
\* checksum test, then Handshake.handle from byte 6.
Served(p) ==
    IF PacketXid(p.bytes).xid = <<0, 0, 0, 0>> /\ ChecksumOK(p.bytes)
    THEN HandleRequest(SubSeq(p.bytes, 7, Len(p.bytes)))
    ELSE [kind |-> "none", req |-> NoRequest]

\* The client's side of an answer: the session id it was sent to, and
\* the messages of the packet (no echo time: they start at byte 10).
Received(a) == [xid |-> PacketXid(a.bytes).xid, msgs |-> ParseMessages(a.bytes, 10, <<>>).msgs,
                ok |-> a.ok /\ ChecksumOK(a.bytes)]

\* The AMF3 format: every date, byte array and object takes the next index
\* of the object table where it starts, an object before its fields; a
\* repeated object goes by that index.  A non-empty string, and traits of
\* a class and names already sent, may go by reference (refs) or inline.
\* A U29 is the width-3 varint VarintRoundTrip checks.
NoRefEnc == [bytes |-> <<>>, strs |-> <<>>, objs |-> <<>>, traits |-> <<>>]
Put(e, bs) == [e EXCEPT !.bytes = @ \o bs]

RefString(s, e, refs) ==
    LET i == SelectInSeq(e.strs, LAMBDA y : y = s) IN
    CASE s = <<>> -> Put(e, <<1>>)
      [] refs /\ i > 0 -> Put(e, U29((i - 1) * 2))
      [] OTHER -> [Put(e, U29(Len(s) * 2 + 1) \o s) EXCEPT !.strs = Append(@, s)]

RECURSIVE RefEncode(_, _, _, _), RefFields(_, _, _, _, _), RefEncodeSeq(_, _, _, _)

RefFields(ks, f, heap, e, refs) ==
    IF ks = <<>> THEN e ELSE RefFields(Tail(ks), f, heap, RefEncode(f[Head(ks)], heap, e, refs), refs)

RefEncode(x, heap, e, refs) ==
    CASE x.t = "null"  -> Put(e, <<1>>)
      [] x.t = "bool"  -> Put(e, <<IF x.b THEN 3 ELSE 2>>)
      [] x.t = "int"   -> Put(e, <<4>> \o U29(IF x.n < 0 THEN x.n + 2^29 ELSE x.n))
      [] x.t = "num"   -> Put(e, <<5>> \o Float64Bytes(x.n))
      [] x.t = "str"   -> RefString(x.s, Put(e, <<6>>), refs)
      [] x.t = "date"  -> [Put(e, <<8, 1>> \o Float64Bytes(x.n)) EXCEPT !.objs = Append(@, x)]
      [] x.t = "bytes" -> [Put(e, <<12>> \o U29(Len(x.s) * 2 + 1) \o x.s) EXCEPT !.objs = Append(@, x)]
      [] x.t = "ptr"   ->
           LET i == SelectInSeq(e.objs, LAMBDA y : y = x)
               o == heap[x.n]
               tr == [cls |-> o.cls, ks |-> Keys(o.f)]
               ti == SelectInSeq(e.traits, LAMBDA y : y = tr)
               e1 == [Put(e, <<10>>) EXCEPT !.objs = Append(@, x)]
               inline == [Put(e1, U29(Len(tr.ks) * 16 + 3)) EXCEPT !.traits = Append(@, tr)]
               e2 == IF refs /\ ti > 0 THEN Put(e1, U29((ti - 1) * 4 + 1))
                     ELSE FoldLeft(LAMBDA a, kk : RefString(kk, a, refs), RefString(o.cls, inline, refs), tr.ks)
           IN  IF i > 0 THEN Put(e, <<10>> \o U29((i - 1) * 2))
               ELSE RefFields(tr.ks, o.f, heap, e2, refs)

\* The format holds integers of 29 bits.
InFormat(x) == x.t = "int" => MinInt <= x.n /\ x.n <= MaxInt

\* A message of values, each after the 0x11 marker.
RefEncodeSeq(xs, heap, e, refs) ==
    IF xs = <<>> THEN e ELSE RefEncodeSeq(Tail(xs), heap, RefEncode(Head(xs), heap, Put(e, <<17>>), refs), refs)

\* What the reader should return for a message encoded as e: each object
\* as its index in the object table, and the table holding the dates, the
\* byte arrays and the objects' fields.
Renamed(x, e) == IF x.t = "ptr" THEN Ptr(SelectInSeq(e.objs, LAMBDA y : y = x) - 1) ELSE x
RefTable(e, heap) ==
    [i \in DOMAIN e.objs |->
        IF e.objs[i].t = "ptr"
        THEN Obj([kk \in DOMAIN heap[e.objs[i].n].f |-> Renamed(heap[e.objs[i].n].f[kk], e)])
        ELSE e.objs[i]]

\* The least number of 256-byte pieces that hold len bytes.
RefPieces(len) == CHOOSE c \in 0..len : c * 256 >= len /\ (c = 0 \/ (c - 1) * 256 < len)

-----------------------------------------------------------------------------
(* Properties. *)

TypeOK ==
    /\ k \in Widths /\ v \in Nat
    /\ ack.stage \in Nat /\ \A i \in DOMAIN ack.ranges : ack.ranges[i].beg <= ack.ranges[i].end
    /\ pkt \in Packets \cup {NoPkt} /\ sumin \in Seq(SumBytes)
    /\ frames \in (Payloads \cup {<<>>}) \X (Payloads \cup {<<>>})
    /\ amf \in AmfInputs \cup {NoAmf}
    /\ hs \in HsInputs \cup {NoHs}

\* Write7BitValue32/64 followed by Read7BitValue32/64 gives the value back
\* and stops right after the bytes written, whatever follows them in the
\* packet (varints are read back to back in acks and flow headers); values
\* outside the range are refused by the writer.
VarintRoundTrip ==
    LET w == Write7Bit(v, k) IN
    /\ w.ok = RefInRange
    /\ w.ok => \A t \in {0, 255} :
                 Read7Bit(w.bytes \o <<t>>, 1, k) = [ok |-> TRUE, v |-> v, pos |-> Len(w.bytes) + 1]

\* SizeOf7BitValue32/64, which flush uses for its size accounting, is the
\* number of bytes the writer emits, the reference width.
VarintSize ==
    LET s == SizeOf7Bit(v, k) IN
    /\ s.ok = RefInRange
    /\ s.ok => s.n = RefWidth /\ s.n = Len(Write7Bit(v, k).bytes)

\* Every ack the flow reader sends is written by storeFlowAck and read
\* back by the peer's parseFlowAck unchanged.
AckRoundTrip ==
    LET s == StoreFlowAck(ack) IN
    s.ok /\ ParseFlowAck(s.bytes) = [ok |-> TRUE, ack |-> ack]

\* flowAck.Size is the length storeFlowAck writes.
AckSizeExact ==
    AckSize(ack) = [ok |-> TRUE, n |-> Len(StoreFlowAck(ack).bytes)]

\* A packet a session sends (PacketToBytes, then EncodePacket) comes out
\* in whole AES blocks from byte 4, and the receiving side (PacketXid,
\* DecodePacket's checksum test, handle's message loop) finds the session
\* id, accepts the checksum, and reads back exactly the messages, the
\* 0xff padding taken for the end of the packet.
PacketRoundTrip ==
    LET e == EncodePacket(pkt.id, PacketToBytes(74, pkt.echo, pkt.now, pkt.now, pkt.msgs))
        first == 10 + (IF pkt.echo THEN 2 ELSE 0)
    IN  /\ e.ok /\ (Len(e.bytes) - 4) % 16 = 0
        /\ PacketXid(e.bytes) = [ok |-> TRUE, xid |-> pkt.id]
        /\ ChecksumOK(e.bytes)
        /\ ParseMessages(e.bytes, first, <<>>) = [ok |-> TRUE, msgs |-> pkt.msgs]

\* rtmfp.checksum is the Internet checksum, its carries folded in fully.
ChecksumIsOnesComplement ==
    Checksum(sumin) = RefChecksum(sumin)

\* Two frames writeData puts back to back on the bridge's stream are read
\* back by readData in order, the second ending the stream; a frame cut
\* short or with another magic is refused, not read as other data.
TcpRoundTrip ==
    LET buf == WriteData(frames[1]) \o WriteData(frames[2])
        a == ReadData(buf, 1)
        b == ReadData(buf, a.pos)
    IN  /\ a.ok /\ a.data = frames[1]
        /\ b.ok /\ b.data = frames[2] /\ b.pos = Len(buf) + 1
        /\ ~ReadData(SubSeq(buf, 1, Len(buf) - 1), a.pos).ok
        /\ ~ReadData([buf EXCEPT ![a.pos] = 0], a.pos).ok

\* Whatever order Go's map walk gives an object's fields, amf0.Writer's
\* bytes are read back by amf0.Reader as the value written (numbers
\* through their float64 image), ending right after those bytes.
AmfRoundTrip ==
    amf.kind = "value" =>
        /\ Encodings(amf.v) # {}
        /\ \A e \in Encodings(amf.v), t \in {5, 9} :
              ReadValue(e \o <<t>>, 1) = [ok |-> TRUE, v |-> Visible(amf.v), pos |-> Len(e) + 1]

\* A call the server writes (newAmfMessageWriter) and a data message
\* (newAmfBytesWriter), each followed by an argument, are taken apart by
\* handleMessage into the same name and callback, the handler's reader
\* starting at the argument; and a stream's onDefault relay of the call
\* (newAmfBytesWriter with the name, then the rest) reaches a player as
\* the same name and argument.
MessageRoundTrip ==
    amf.kind = "message" =>
        \A e \in Encodings(amf.v) :
          LET call == NewAmfMessageWriter(amf.name, amf.cb) \o e
              data == NewAmfBytesWriter(amf.name) \o e
              c == HandleMessage(call)
              d == HandleMessage(data)
              relay == NewAmfBytesWriter(c.name) \o SubSeq(call, c.pos, Len(call))
              r == HandleMessage(relay)
          IN  /\ c.ok /\ ~c.raw /\ c.name = amf.name /\ c.callback = amf.cb
              /\ d.ok /\ ~d.raw /\ d.name = amf.name /\ d.callback = 0
              /\ r.ok /\ r.name = amf.name
              /\ \A m \in {[b |-> call, p |-> c.pos], [b |-> data, p |-> d.pos], [b |-> relay, p |-> r.pos]} :
                    ReadValue(m.b, m.p) = [ok |-> TRUE, v |-> Visible(amf.v), pos |-> Len(m.b) + 1]

\* split cuts a message into the fewest pieces of at most 256 bytes, all
\* full but the last, which joined give the message back.
SplitJoins ==
    amf.kind = "split" =>
        LET d == [i \in 1..amf.len |-> i % 256]
            p == Split(d)
        IN  /\ FlattenSeq(p) = d /\ Len(p) = RefPieces(amf.len)
            /\ \A i \in DOMAIN p : Len(p[i]) = IF i < Len(p) THEN 256 ELSE amf.len - (i - 1) * 256
\* Every AMF3 encoding of a message's values, strings and traits inline or
\* by reference, is read back by amf0.Reader's switch to the one
\* amf3.Reader it keeps: the values, the objects' fields, and the object
\* indices the format gives them.  The reader must add an entry to each
\* table at the point the sender did (a class name and the field names
\* are strings too, an object enters before its fields, an empty string
\* never), or a later reference lands on the wrong entry.
Amf3ReaderDecodesFormat ==
    (amf.kind = "amf3" /\ \A i \in DOMAIN amf.xs : InFormat(amf.xs[i])) =>
        \A refs \in BOOLEAN :
            LET e == RefEncodeSeq(amf.xs, amf.heap, NoRefEnc, refs) IN
            ReadSwitched(e.bytes, 1, NoTables, <<>>)
              = [ok |-> TRUE, vs |-> [i \in DOMAIN amf.xs |-> Renamed(amf.xs[i], e)],
                 heap |-> RefTable(e, amf.heap)]

\* Whenever amf3.Writer returns without error from a message's values, it
\* has written their AMF3 encoding, strings and traits inline and a
\* repeated object by its index: the placeholders WriteDate and
\* WriteByteArray put in its object table keep its indices the reader's.
\* (It returns only for values without a non-empty string: see
\* WriteStringValue.)
Amf3WriterEncodesFormat ==
    (amf.kind = "amf3" /\ \A id \in DOMAIN amf.heap : amf.heap[id].cls = <<>>) =>
        LET w == WriteSwitched(amf.xs, amf.heap, NewWriter) IN
        w.st = "ok" => w.bytes = RefEncodeSeq(amf.xs, amf.heap, NoRefEnc, FALSE).bytes


\* A client's hello reaches parseHelloRequest through the handshake
\* packet's frame and Handshake.handle with its epd, mode and tag; every
\* hello cut short is refused; and the 0x70 answer, sent to session 0,
\* carries back the same tag, the cookie and the 77-byte certificate.
HelloExchange ==
    hs.kind = "hello" =>
        LET r == Served(ClientPacket(48, HelloBody))
            a == Received(AnswerPacket(<<0, 0, 0, 0>>, 112, HelloResponse(r.req.tag, hs.cookie)))
        IN  /\ r.kind = "hello" /\ r.req.ok
            /\ r.req.epd = hs.epd /\ r.req.mode = hs.mode /\ r.req.tag = hs.tag
            /\ \A n \in 0..(Len(HelloBody) - 1) : ~ParseHello(SubSeq(HelloBody, 1, n)).ok
            /\ a.ok /\ a.xid = <<0, 0, 0, 0>> /\ Len(a.msgs) = 1 /\ a.msgs[1].code = 112
            /\ a.msgs[1].content = <<16>> \o hs.tag \o <<64>> \o hs.cookie \o Certificate

\* A client's assign reaches parseAssignRequest with its yid, cookie,
\* key and initiator, and the peer id is the hash of the key block; every
\* assign cut short is refused; and the 0x78 answer is sent to the yid
\* and carries the xid, the responder and the mode 0x58.
AssignExchange ==
    hs.kind = "assign" =>
        LET r == Served(ClientPacket(56, AssignBody))
            a == Received(AnswerPacket(hs.yid, 120, AssignResponse(hs.xid, hs.responder)))
            c == a.msgs[1].content
            rl == Read7Bit(c, 5, 7)
        IN  /\ r.kind = "assign"
            /\ r.req = [NoRequest EXCEPT !.ok = TRUE, !.yid = hs.yid, !.cookie = hs.cookie,
                                         !.pid = Digest(KeyBlock), !.pubkey = hs.pubkey,
                                         !.initiator = hs.initiator]
            /\ \A n \in 0..(Len(AssignBody) - 1) : ~ParseAssign(SubSeq(AssignBody, 1, n)).ok
            /\ a.ok /\ a.xid = hs.yid /\ Len(a.msgs) = 1 /\ a.msgs[1].code = 120
            /\ SubSeq(c, 1, 4) = hs.xid /\ rl.ok /\ rl.v = Len(hs.responder)
            /\ SubSeq(c, rl.pos, rl.pos + rl.v - 1) = hs.responder
            /\ c[rl.pos + rl.v] = 88 /\ Len(c) = rl.pos + rl.v

=============================================================================
