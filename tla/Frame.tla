------------------------------- MODULE Frame --------------------------------
(***************************************************************************)
(* The byte framing around the messages: the packet a session sends       *)
(* (rtmfp.PacketToBytes and rtmfp.EncodePacket: header slot, marker,       *)
(* times, code/length/content per message, 0xff padding to AES blocks,     *)
(* checksum, session id mask), the checks and parsers the receiving side  *)
(* applies (rtmfp.PacketXid, rtmfp.DecodePacket's checksum test, the      *)
(* message loop of Session.handle with rtmfp.ParseRequestMessage), and the *)
(* length-prefixed frames of the RPC bridge (tcp writeData / readData).   *)
(*                                                                         *)
(* Bytes are naturals below 256 and buffers sequences of them; 32-bit      *)
(* words that may pass 2^31 (the session id, the bridge's magic) stay four *)
(* bytes.  The AES cipher is left out: the receiver decrypts the same      *)
(* bytes EncodePacket encrypted before it tests the checksum, and both     *)
(* sides take the id mask over the encrypted words as they travel.         *)
(***************************************************************************)
EXTENDS Naturals, Sequences, SequencesExt, Bitwise

Byte == 0..255

\* RawWriter.Write16 / Write32 (big-endian) of a value TLC holds.
Write16(v) == <<(v \div 256) % 256, v % 256>>
Write32(v) == <<(v \div 2^24) % 256, (v \div 2^16) % 256, (v \div 256) % 256, v % 256>>

\* RawReader.Read16 at position pos: the value and the position after it,
\* or failure at the end of the buffer.
Read16(buf, pos) ==
    IF pos + 1 > Len(buf) THEN [ok |-> FALSE, v |-> 0, pos |-> pos]
    ELSE [ok |-> TRUE, v |-> buf[pos] * 256 + buf[pos + 1], pos |-> pos + 2]

\* RawReader.Read32 at pos, kept as its four bytes.
Word(buf, pos) == SubSeq(buf, pos, pos + 3)

XorWord(a, b) == [i \in 1..4 |-> a[i] ^^ b[i]]

-----------------------------------------------------------------------------
(* The checksum: 16-bit big-endian words summed in 32 bits, the carries   *)
(* folded in twice, complemented.                                          *)

RECURSIVE WordSum(_, _)
WordSum(bs, i) == IF 2 * i > Len(bs) THEN 0
                  ELSE bs[2 * i - 1] * 256 + bs[2 * i] + WordSum(bs, i + 1)

\* Mutant: the carries folded in once.
ChecksumOneFold(bs) ==
    LET sum == WordSum(bs, 1)
        f1 == (sum \div 65536) + (sum % 65536)
    IN  65535 - (f1 % 65536)

Checksum(bs) ==
    LET sum == WordSum(bs, 1)
        f1 == (sum \div 65536) + (sum % 65536)
        f2 == (f1 \div 65536) + (f1 % 65536)
    IN  65535 - (f2 % 65536)

-----------------------------------------------------------------------------
(* The packet a session sends. *)

\* One response message: code, 16-bit content length, content.
MessageBytes(m) == <<m.code>> \o Write16(Len(m.content)) \o m.content

\* PacketToBytes: six bytes left for the id and checksum, the marker (0x04
\* added when the echo time is written), the time, the echo time, the
\* messages.
PacketToBytes(marker, echo, now, ping, msgs) ==
    [i \in 1..6 |-> 0]
      \o <<IF echo THEN marker + 4 ELSE marker>>
      \o Write16(now)
      \o (IF echo THEN Write16(ping) ELSE <<>>)
      \o FoldLeft(LAMBDA acc, m : acc \o MessageBytes(m), <<>>, msgs)

\* Mutant: the padding table one byte short.
PaddingShort(n) == [j \in 1..((15 - n) % 16) |-> 255]

\* paddings[n]: (16 - n) % 16 bytes of 0xff.
Padding(n) == [j \in 1..((16 - n) % 16) |-> 255]

\* EncodePacket: pad from byte 4 to whole AES blocks, write the checksum
\* of the bytes from 6 at 4, and mask the id with the two words at 4 and 8.
EncodePacket(yid, data) ==
    IF Len(data) < 6 THEN [ok |-> FALSE, bytes |-> <<>>]
    ELSE LET n == (Len(data) - 4) % 16
             p == IF n # 0 THEN data \o Padding(n) ELSE data
             sum == Checksum(SubSeq(p, 7, Len(p)))
             s == [p EXCEPT ![5] = sum \div 256, ![6] = sum % 256]
         IN  [ok |-> TRUE,
              bytes |-> XorWord(XorWord(yid, Word(s, 5)), Word(s, 9)) \o SubSeq(s, 5, Len(s))]

-----------------------------------------------------------------------------
(* The receiving side. *)

\* PacketXid: the three words at 0, 4 and 8 xored.
PacketXid(data) ==
    IF Len(data) < 12 THEN [ok |-> FALSE, xid |-> <<0, 0, 0, 0>>]
    ELSE [ok |-> TRUE, xid |-> XorWord(XorWord(Word(data, 1), Word(data, 5)), Word(data, 9))]

\* DecodePacket's test after decryption: at least 20 bytes, and the
\* checksum at 4 is the checksum of the bytes from 6.
ChecksumOK(data) ==
    Len(data) >= 20 /\ data[5] * 256 + data[6] = Checksum(SubSeq(data, 7, Len(data)))

\* Session.handle's message loop over ParseRequestMessage: a code, then a
\* 16-bit size and that many bytes; 0xff ends the messages (EOP); a short
\* size or content is an error.
RECURSIVE ParseMessages(_, _, _)
ParseMessages(buf, pos, out) ==
    IF pos > Len(buf) \/ buf[pos] = 255 THEN [ok |-> TRUE, msgs |-> out]
    ELSE LET sz == Read16(buf, pos + 1) IN
         IF ~sz.ok \/ Len(buf) - (sz.pos - 1) < sz.v THEN [ok |-> FALSE, msgs |-> out]
         ELSE ParseMessages(buf, sz.pos + sz.v,
                            Append(out, [code |-> buf[pos],
                                         content |-> SubSeq(buf, sz.pos, sz.pos + sz.v - 1)]))

-----------------------------------------------------------------------------
(* The RPC bridge's frames. *)

Magic == <<222, 173, 190, 175>>          \* 0xdeadbeaf
MaxPacketSize == 10 * 1024 * 1024

\* writeData: the magic, the 32-bit length, the data.
WriteData(d) == Magic \o Write32(Len(d)) \o d

\* Mutant: the length read one byte early.
ReadDataLenEarly(buf, pos) ==
    IF pos + 7 > Len(buf) THEN [ok |-> FALSE, data |-> <<>>, pos |-> pos]
    ELSE LET w == Word(buf, pos + 3)
             size == w[2] * 65536 + w[3] * 256 + w[4]
         IN  IF SubSeq(buf, pos, pos + 3) # Magic \/ w[1] > 0 \/ size > MaxPacketSize
                \/ pos + 7 + size > Len(buf)
             THEN [ok |-> FALSE, data |-> <<>>, pos |-> pos]
             ELSE [ok |-> TRUE, data |-> SubSeq(buf, pos + 8, pos + 7 + size), pos |-> pos + 8 + size]

\* readData: eight bytes of head, the magic checked, the size at most
\* MaxPacketSize (a first byte above 0 already passes it), then the data;
\* the end of the stream before any of them is an error.
ReadData(buf, pos) ==
    IF pos + 7 > Len(buf) THEN [ok |-> FALSE, data |-> <<>>, pos |-> pos]
    ELSE LET w == Word(buf, pos + 4)
             size == w[2] * 65536 + w[3] * 256 + w[4]
         IN  IF SubSeq(buf, pos, pos + 3) # Magic \/ w[1] > 0 \/ size > MaxPacketSize
                \/ pos + 7 + size > Len(buf)
             THEN [ok |-> FALSE, data |-> <<>>, pos |-> pos]
             ELSE [ok |-> TRUE, data |-> SubSeq(buf, pos + 8, pos + 7 + size), pos |-> pos + 8 + size]

=============================================================================
