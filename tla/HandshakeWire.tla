---------------------------- MODULE HandshakeWire ----------------------------
(***************************************************************************)
(* The handshake's messages on the wire: Handshake.handle, which reads    *)
(* the marker, the time and the first message of a decrypted handshake    *)
(* packet; parseHelloRequest and parseAssignRequest; and the answers the  *)
(* server writes (helloResponse 0x70, assignResponse 0x78), framed as a   *)
(* packet of marker 0x0b without echo time.                               *)
(*                                                                         *)
(* SHA-256 is taken as collision-free: Digest(bs) stands for the hash of   *)
(* bs and differs for different bs.  The 64 random bytes of the            *)
(* certificate are held at one value, which nothing reads.                 *)
(***************************************************************************)
EXTENDS Naturals, Sequences, SequencesExt, Codec, Frame

CookieSize == 64

Digest(bs) == [sha256 |-> bs]

\* handshake/cert.go: the prefix, 64 random bytes, the suffix.
Certificate == <<1, 10, 65, 14>> \o [i \in 1..64 |-> 0] \o <<2, 21, 2, 2, 21, 5, 2, 21, 14>>

\* RawWriter.WriteString8: a length byte, then the bytes.
WriteString8(s) == <<Len(s)>> \o s

\* RawReader.ReadBytes of n bytes at pos.
ReadBytes(buf, pos, n) ==
    IF pos + n - 1 > Len(buf) THEN [ok |-> FALSE, bs |-> <<>>, pos |-> pos]
    ELSE [ok |-> TRUE, bs |-> SubSeq(buf, pos, pos + n - 1), pos |-> pos + n]

-----------------------------------------------------------------------------
(* Requests. *)

NoRequest == [ok |-> FALSE, epd |-> <<>>, tag |-> <<>>, mode |-> 0,
              yid |-> <<>>, cookie |-> <<>>, pid |-> Digest(<<>>), pubkey |-> <<>>, initiator |-> <<>>]

\* Mutant: the epd length taken without the mode byte it counts.
ParseHelloNoDecrement(buf) ==
    IF Len(buf) < 2 \/ buf[2] <= 1 \/ buf[2] - 1 > Len(buf) - 2 \/ Len(buf) < 3 THEN NoRequest
    ELSE LET size == buf[2]
             epd == ReadBytes(buf, 4, size)
             tag == ReadBytes(buf, epd.pos, 16)
         IN  IF ~epd.ok \/ ~tag.ok THEN NoRequest
             ELSE [NoRequest EXCEPT !.ok = TRUE, !.epd = epd.bs, !.tag = tag.bs, !.mode = buf[3]]

\* parseHelloRequest: a byte ignored, the epd length plus one (counting
\* the mode byte, at least 2 and at most what is left), the mode, the
\* epd, a 16-byte tag.
ParseHello(buf) ==
    IF Len(buf) < 2 \/ buf[2] <= 1 \/ buf[2] - 1 > Len(buf) - 2 \/ Len(buf) < 3 THEN NoRequest
    ELSE LET size == buf[2] - 1
             epd == ReadBytes(buf, 4, size)
             tag == ReadBytes(buf, epd.pos, 16)
         IN  IF ~epd.ok \/ ~tag.ok THEN NoRequest
             ELSE [NoRequest EXCEPT !.ok = TRUE, !.epd = epd.bs, !.tag = tag.bs, !.mode = buf[3]]

\* Mutant: the peer id's source consumed before the key is read.
ParseAssignSkipsPidSrc(buf) ==
    LET yid == ReadBytes(buf, 1, 4)
        coolen == Read7Bit(buf, yid.pos, 7)
        cookie == ReadBytes(buf, coolen.pos, CookieSize)
        pidlen == Read7Bit(buf, cookie.pos, 7)
        keylen == Read7Bit(buf, pidlen.pos + pidlen.v, 7)
        pubkey == ReadBytes(buf, keylen.pos + 2, keylen.v - 2)
        initlen == Read7Bit(buf, pubkey.pos, 7)
        initiator == ReadBytes(buf, initlen.pos, initlen.v)
        left(p) == Len(buf) - p + 1
    IN  IF \/ ~yid.ok \/ ~coolen.ok \/ coolen.v # CookieSize \/ ~cookie.ok
           \/ ~pidlen.ok \/ pidlen.v = 0 \/ pidlen.v > left(pidlen.pos)
           \/ ~keylen.ok \/ keylen.v <= 2 \/ keylen.v - 2 > left(keylen.pos)
           \/ left(keylen.pos) < 2 \/ ~pubkey.ok
           \/ ~initlen.ok \/ initlen.v = 0 \/ initlen.v > left(initlen.pos) \/ ~initiator.ok
        THEN NoRequest
        ELSE [NoRequest EXCEPT !.ok = TRUE, !.yid = yid.bs, !.cookie = cookie.bs,
                               !.pid = Digest(SubSeq(buf, pidlen.pos, pidlen.pos + pidlen.v - 1)),
                               !.pubkey = pubkey.bs, !.initiator = initiator.bs]

\* parseAssignRequest: the yid, the cookie (its length must be 64), the
\* length of the peer id's source, hashed without being consumed, so
\* that the key length that follows is read from the start of that same
\* source; the key (its length counts two skipped bytes), the initiator
\* (not empty).
ParseAssign(buf) ==
    LET yid == ReadBytes(buf, 1, 4)
        coolen == Read7Bit(buf, yid.pos, 7)
        cookie == ReadBytes(buf, coolen.pos, CookieSize)
        pidlen == Read7Bit(buf, cookie.pos, 7)
        keylen == Read7Bit(buf, pidlen.pos, 7)
        pubkey == ReadBytes(buf, keylen.pos + 2, keylen.v - 2)
        initlen == Read7Bit(buf, pubkey.pos, 7)
        initiator == ReadBytes(buf, initlen.pos, initlen.v)
        left(p) == Len(buf) - p + 1
    IN  IF \/ ~yid.ok \/ ~coolen.ok \/ coolen.v # CookieSize \/ ~cookie.ok
           \/ ~pidlen.ok \/ pidlen.v = 0 \/ pidlen.v > left(pidlen.pos)
           \/ ~keylen.ok \/ keylen.v <= 2 \/ keylen.v - 2 > left(keylen.pos)
           \/ left(keylen.pos) < 2 \/ ~pubkey.ok
           \/ ~initlen.ok \/ initlen.v = 0 \/ initlen.v > left(initlen.pos) \/ ~initiator.ok
        THEN NoRequest
        ELSE [NoRequest EXCEPT !.ok = TRUE, !.yid = yid.bs, !.cookie = cookie.bs,
                               !.pid = Digest(SubSeq(buf, pidlen.pos, pidlen.pos + pidlen.v - 1)),
                               !.pubkey = pubkey.bs, !.initiator = initiator.bs]

\* ParseRequestMessage at pos: code (0xff is the end of the packet), size,
\* content.
FirstMessage(buf, pos) ==
    LET sz == Read16(buf, pos + 1) IN
    IF pos > Len(buf) \/ buf[pos] = 255 \/ ~sz.ok \/ Len(buf) - (sz.pos - 1) < sz.v
    THEN [ok |-> FALSE, code |-> 0, body |-> <<>>]
    ELSE [ok |-> TRUE, code |-> buf[pos], body |-> SubSeq(buf, sz.pos, sz.pos + sz.v - 1)]

\* Handshake.handle on the packet from byte 6: the marker (0x0b), the
\* time, then the first message, a hello (0x30) or an assign (0x38).
HandleRequest(data) ==
    LET m == FirstMessage(data, 4) IN
    IF Len(data) < 3 \/ data[1] # 11 \/ ~m.ok \/ m.code \notin {48, 56}
    THEN [kind |-> "none", req |-> NoRequest]
    ELSE IF m.code = 48 THEN [kind |-> "hello", req |-> ParseHello(m.body)]
         ELSE [kind |-> "assign", req |-> ParseAssign(m.body)]

-----------------------------------------------------------------------------
(* Answers. *)

\* helloResponse.WriteTo (code 0x70): the tag as string8, the cookie as
\* string8, the certificate.
HelloResponse(tag, cookie) == WriteString8(tag) \o WriteString8(cookie) \o Certificate

\* assignResponse.WriteTo (code 0x78): the xid, the responder's length
\* and bytes, the mode 0x58.
AssignResponse(xid, responder) ==
    xid \o Write7BitValue64(Len(responder)).bytes \o responder \o <<88>>

\* The packet HandlePacket sends: marker 0x0b, no echo time, one message,
\* encoded for the yid (0 for a hello's answer).
AnswerPacket(yid, code, body) ==
    EncodePacket(yid, PacketToBytes(11, FALSE, 0, 0, <<[code |-> code, content |-> body]>>))

=============================================================================
