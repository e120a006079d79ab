-------------------------------- MODULE Amf0 ---------------------------------
(***************************************************************************)
(* The AMF0 values the session's flows carry, and the message wrapper      *)
(* around them: amf0.Writer and amf0.Reader for null, boolean, number,     *)
(* string and object; handleMessage / handleAmfMessage, which take a       *)
(* request message apart; newAmfMessageWriter / newAmfBytesWriter, which   *)
(* start every AMF message the server sends; and split, which cuts a       *)
(* message into the 256-byte fragments a flowWriter sends.                 *)
(*                                                                         *)
(* A number is a float64; the values held here are the naturals below      *)
(* 2^21 (callbacks, stream ids, session ids in tests), whose IEEE-754      *)
(* image is computed byte by byte.  A string is its bytes.  An object is   *)
(* a function from field names to values: Go's map, whose iteration order  *)
(* is random, so the writer may emit its fields in any order.  Dates and   *)
(* object references are not produced by any writer this module models,   *)
(* and the reader refuses them.  The reader's switch to AMF3 on the 0x11  *)
(* marker is modelled in Amf3 (ReadSwitched), which keeps the amf3        *)
(* reader's tables from one value to the next; ReadValue stops at it.     *)
(***************************************************************************)
EXTENDS Naturals, Sequences, SequencesExt, Frame, TLC

\* Values: one record shape for all, so that TLC may compare any two.
Null      == [t |-> "null", b |-> FALSE, n |-> 0, s |-> <<>>, o |-> <<>>]
Bool(x)   == [Null EXCEPT !.t = "bool", !.b = x]
Num(x)    == [Null EXCEPT !.t = "num", !.n = x]
Str(x)    == [Null EXCEPT !.t = "str", !.s = x]
Obj(x)    == [Null EXCEPT !.t = "obj", !.o = x]

NumBound == 2^21

-----------------------------------------------------------------------------
(* xio: float64 and 16-bit-length strings. *)

Log2(n) == CHOOSE e \in 0..20 : 2^e <= n /\ n < 2^(e + 1)

\* WriteFloat64 of a natural below 2^21: sign 0, exponent 1023 + e, the
\* bits below the leading one at the top of the 52-bit mantissa.
Float64Bytes(n) ==
    IF n = 0 THEN [i \in 1..8 |-> 0]
    ELSE LET e == Log2(n)
             exp == 1023 + e
             m == (n - 2^e) * 2^(20 - e)
         IN  <<exp \div 16, (exp % 16) * 16 + m \div 65536, (m \div 256) % 256, m % 256, 0, 0, 0, 0>>

\* Float64frombits of eight bytes: the natural they stand for, or -1 for a
\* float this module does not hold (negative, fractional, 2^21 or more).
FloatValue(bs) ==
    LET exp == (bs[1] % 128) * 16 + bs[2] \div 16
        m == (bs[2] % 16) * 65536 + bs[3] * 256 + bs[4]
        e == exp - 1023
        low == SubSeq(bs, 5, 8) = <<0, 0, 0, 0>>
    IN  IF exp = 0 /\ m = 0 /\ low THEN 0
        ELSE IF bs[1] < 128 /\ 0 <= e /\ e <= 20 /\ low /\ m % 2^(20 - e) = 0
             THEN 2^e + m \div 2^(20 - e)
             ELSE -1

ReadFloat64(buf, pos) ==
    IF pos + 7 > Len(buf) THEN [ok |-> FALSE, n |-> 0, pos |-> pos]
    ELSE [ok |-> TRUE, n |-> FloatValue(SubSeq(buf, pos, pos + 7)), pos |-> pos + 8]

String16(s) == Write16(Len(s)) \o s

ReadString16(buf, pos) ==
    LET l == Read16(buf, pos) IN
    IF ~l.ok \/ l.pos + l.v - 1 > Len(buf) THEN [ok |-> FALSE, s |-> <<>>, pos |-> pos]
    ELSE [ok |-> TRUE, s |-> SubSeq(buf, l.pos, l.pos + l.v - 1), pos |-> l.pos + l.v]

-----------------------------------------------------------------------------
(* amf0.Writer: the set of byte strings Write may produce for a value. *)

RECURSIVE Encodings(_)

\* Mutant: writeObjectValue without its skip of the empty field name.
ObjectBodiesWithEmpty(o) ==
    UNION {FoldLeft(LAMBDA acc, k : {a \o String16(k) \o x : a \in acc, x \in Encodings(o[k])},
                    {<<>>}, order) : order \in SetToSeqs(DOMAIN o)}

\* writeObjectValue's fields, in every order the map may be walked in,
\* each as its name and its value; the empty name is skipped.
ObjectBodies(o) ==
    UNION {FoldLeft(LAMBDA acc, k : {a \o String16(k) \o x : a \in acc, x \in Encodings(o[k])},
                    {<<>>}, order) : order \in SetToSeqs({k \in DOMAIN o : k # <<>>})}

Encodings(v) ==
    CASE v.t = "null" -> {<<5>>}
      [] v.t = "bool" -> {<<1, IF v.b THEN 1 ELSE 0>>}
      [] v.t = "num"  -> {<<0>> \o Float64Bytes(v.n)}
      [] v.t = "str"  -> {<<2>> \o String16(v.s)}
      [] v.t = "obj"  -> {<<3>> \o body \o String16(<<>>) \o <<9>> : body \in ObjectBodies(v.o)}

-----------------------------------------------------------------------------
(* amf0.Reader. *)

Fail(pos) == [ok |-> FALSE, v |-> Null, pos |-> pos]

RECURSIVE ReadValue(_, _), ReadFields(_, _, _)

\* Read: the type byte, then the value; undefined reads as null.
ReadValue(buf, pos) ==
    IF pos > Len(buf) THEN Fail(pos)
    ELSE LET t == buf[pos] IN
    CASE t \in {5, 6} -> [ok |-> TRUE, v |-> Null, pos |-> pos + 1]
      [] t = 1 -> IF pos + 1 > Len(buf) THEN Fail(pos)
                  ELSE [ok |-> TRUE, v |-> Bool(buf[pos + 1] # 0), pos |-> pos + 2]
      [] t = 0 -> LET f == ReadFloat64(buf, pos + 1) IN
                  IF f.ok THEN [ok |-> TRUE, v |-> Num(f.n), pos |-> f.pos] ELSE Fail(pos)
      [] t = 2 -> LET s == ReadString16(buf, pos + 1) IN
                  IF s.ok THEN [ok |-> TRUE, v |-> Str(s.s), pos |-> s.pos] ELSE Fail(pos)
      [] t = 3 -> ReadFields(buf, pos + 1, <<>>)
      [] OTHER -> Fail(pos)

\* readObjectValue: name and value until the empty name, then the end
\* marker 0x09; a repeated name keeps its last value (o.Set).
ReadFields(buf, pos, o) ==
    LET k == ReadString16(buf, pos) IN
    IF ~k.ok THEN Fail(pos)
    ELSE IF k.s = <<>>
         THEN IF k.pos <= Len(buf) /\ buf[k.pos] = 9
              THEN [ok |-> TRUE, v |-> Obj(o), pos |-> k.pos + 1]
              ELSE Fail(pos)
         ELSE LET x == ReadValue(buf, k.pos) IN
              IF ~x.ok THEN Fail(pos) ELSE ReadFields(buf, x.pos, (k.s :> x.v) @@ o)

TestNull(buf, pos) == pos <= Len(buf) /\ buf[pos] = 5

\* ReadString and ReadNumber: a null reads as "" and 0.
ReadString(buf, pos) ==
    IF pos > Len(buf) THEN [ok |-> FALSE, s |-> <<>>, pos |-> pos]
    ELSE CASE buf[pos] = 5 -> [ok |-> TRUE, s |-> <<>>, pos |-> pos + 1]
           [] buf[pos] = 2 -> ReadString16(buf, pos + 1)
           [] OTHER -> [ok |-> FALSE, s |-> <<>>, pos |-> pos]

ReadNumber(buf, pos) ==
    IF pos > Len(buf) THEN [ok |-> FALSE, n |-> 0, pos |-> pos]
    ELSE CASE buf[pos] = 5 -> [ok |-> TRUE, n |-> 0, pos |-> pos + 1]
           [] buf[pos] = 0 -> ReadFloat64(buf, pos + 1)
           [] OTHER -> [ok |-> FALSE, n |-> 0, pos |-> pos]


-----------------------------------------------------------------------------
(* The message wrapper (session/message.go). *)

\* newAmfMessageWriter: code 0x14, four zero bytes, the name, the callback
\* number, a null.
NewAmfMessageWriter(name, callback) ==
    <<20>> \o Write32(0) \o <<2>> \o String16(name) \o <<0>> \o Float64Bytes(callback) \o <<5>>

\* newAmfBytesWriter: code 0x0f, five zero bytes, the name.
NewAmfBytesWriter(name) == <<15, 0>> \o Write32(0) \o <<2>> \o String16(name)

NoMessage(pos) == [ok |-> FALSE, raw |-> FALSE, code |-> 0, name |-> <<>>, callback |-> 0, pos |-> pos]

\* handleAmfMessage: the name, then (with a callback) the callback number
\* and a null if one follows; pos is where the handler's reader starts.
HandleAmfMessage(buf, pos, withcallback) ==
    LET n == ReadString(buf, pos)
        c == ReadNumber(buf, n.pos)
    IN  CASE ~n.ok -> NoMessage(pos)
          [] ~withcallback ->
               [ok |-> TRUE, raw |-> FALSE, code |-> buf[1], name |-> n.s, callback |-> 0, pos |-> n.pos]
          [] ~c.ok -> NoMessage(pos)
          [] OTHER ->
               [ok |-> TRUE, raw |-> FALSE, code |-> buf[1], name |-> n.s, callback |-> c.n,
                pos |-> IF TestNull(buf, c.pos) THEN c.pos + 1 ELSE c.pos]

\* Skip(k) after the code byte: refused past the end of the buffer.
AfterSkip(buf, k, withcallback) ==
    IF 1 + k > Len(buf) THEN NoMessage(2) ELSE HandleAmfMessage(buf, 2 + k, withcallback)

\* Mutant: 0x14 skips five bytes, as 0x11 and 0x0f do.
HandleMessageSkip5(buf) ==
    IF Len(buf) = 0 THEN NoMessage(1)
    ELSE CASE buf[1] = 17 -> AfterSkip(buf, 5, TRUE)
           [] buf[1] = 20 -> AfterSkip(buf, 5, TRUE)
           [] buf[1] = 15 -> AfterSkip(buf, 5, FALSE)
           [] OTHER -> [NoMessage(2) EXCEPT !.ok = TRUE, !.raw = TRUE, !.code = buf[1]]

\* handleMessage: the code; 0x11 and 0x14 are AMF calls with a callback,
\* 0x0f AMF data without one, any other code a raw message.
HandleMessage(buf) ==
    IF Len(buf) = 0 THEN NoMessage(1)
    ELSE CASE buf[1] = 17 -> AfterSkip(buf, 5, TRUE)
           [] buf[1] = 20 -> AfterSkip(buf, 4, TRUE)
           [] buf[1] = 15 -> AfterSkip(buf, 5, FALSE)
           [] OTHER -> [NoMessage(2) EXCEPT !.ok = TRUE, !.raw = TRUE, !.code = buf[1]]

-----------------------------------------------------------------------------
(* split (session/flowwriter.go): pieces of 256 bytes, the last shorter. *)

Step == 256

\* Mutant: the piece count rounded down.
SplitFloor(data) ==
    [i \in 1..(Len(data) \div Step) |->
        SubSeq(data, (i - 1) * Step + 1, IF i * Step > Len(data) THEN Len(data) ELSE i * Step)]

Split(data) ==
    [i \in 1..((Step - 1 + Len(data)) \div Step) |->
        SubSeq(data, (i - 1) * Step + 1, IF i * Step > Len(data) THEN Len(data) ELSE i * Step)]

=============================================================================
