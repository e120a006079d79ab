-------------------------------- MODULE Amf3 ---------------------------------
(***************************************************************************)
(* The AMF3 codec (amf/amf3): amf3.Reader, which amf0.Reader switches to  *)
(* on the 0x11 marker and keeps for the rest of the message, and           *)
(* amf3.Writer, which amf0.Writer.Write3 keeps the same way.               *)
(*                                                                         *)
(* The reader keeps three tables: strings, objects (dates, byte arrays     *)
(* and objects, in the order they start) and traits.  A reference is an    *)
(* index into one of them, so the reader must number every entry exactly  *)
(* as the sender did.  Objects are held by reference: Ptr(i) is the object *)
(* at index i of the reader's object table, or the writer's input object  *)
(* i, whose class name and fields a heap gives.  Numbers and dates are the *)
(* naturals below 2^21 that Amf0's float64 image holds.                    *)
(***************************************************************************)
EXTENDS Codec, Amf0

\* The values AMF3 adds to Amf0's: Go's int, *time.Time (milliseconds),
\* []byte, and *amf.Object by reference.
Integer(x) == [Null EXCEPT !.t = "int", !.n = x]
Date(ms)   == [Null EXCEPT !.t = "date", !.n = ms]
Bytes(x)   == [Null EXCEPT !.t = "bytes", !.s = x]
Ptr(i)     == [Null EXCEPT !.t = "ptr", !.n = i]

\* MaxInt and MinInt: the 29-bit signed range of an AMF3 integer.
MaxInt == 2^28 - 1
MinInt == -(2^28)

U29(v) == Write7BitValue32(v).bytes
ReadU29(buf, pos) == Read7Bit(buf, pos, 3)

-----------------------------------------------------------------------------
(* amf3.Reader. *)

\* NewReader: the three tables start empty.
NoTables == [str |-> <<>>, obj |-> <<>>, traits |-> <<>>]

Fail3(pos, tb) == [ok |-> FALSE, v |-> Null, pos |-> pos, tb |-> tb]
Got(x, pos, tb) == [ok |-> TRUE, v |-> x, pos |-> pos, tb |-> tb]

\* readIntegerValue: a U29 with bit 28 set is negative, sign-extended by
\* int32(v | 0xe0000000).
IntOf(v) == IF v < 2^28 THEN v ELSE v - 2^29

ReadIntegerValue(buf, pos, tb) ==
    LET h == ReadU29(buf, pos) IN
    IF h.ok THEN Got(Integer(IntOf(h.v)), h.pos, tb) ELSE Fail3(pos, tb)

\* Mutant: an empty inline string enters the string table too.
ReadStringValueKeepsEmpty(buf, pos, tb) ==
    LET h == ReadU29(buf, pos)
        i == h.v \div 2
    IN  CASE ~h.ok -> Fail3(pos, tb)
          [] h.v % 2 = 0 -> IF i < Len(tb.str) THEN Got(Str(tb.str[i + 1]), h.pos, tb)
                            ELSE Fail3(pos, tb)
          [] h.pos + i - 1 > Len(buf) -> Fail3(pos, tb)
          [] OTHER -> LET s == SubSeq(buf, h.pos, h.pos + i - 1) IN
                      Got(Str(s), h.pos + i, [tb EXCEPT !.str = Append(@, s)])

\* readStringValue: an even header is getStringRef(v >> 1); an odd one is
\* an inline string of v >> 1 bytes, which enters the string table unless
\* it is empty.
ReadStringValue(buf, pos, tb) ==
    LET h == ReadU29(buf, pos)
        i == h.v \div 2
    IN  CASE ~h.ok -> Fail3(pos, tb)
          [] h.v % 2 = 0 -> IF i < Len(tb.str) THEN Got(Str(tb.str[i + 1]), h.pos, tb)
                            ELSE Fail3(pos, tb)
          [] i = 0 -> Got(Str(<<>>), h.pos, tb)
          [] h.pos + i - 1 > Len(buf) -> Fail3(pos, tb)
          [] OTHER -> LET s == SubSeq(buf, h.pos, h.pos + i - 1) IN
                      Got(Str(s), h.pos + i, [tb EXCEPT !.str = Append(@, s)])

\* getObjectRef(v >> 1) and the type assertion of the caller.
ObjectRef(tb, i, t, pos) ==
    IF i < Len(tb.obj) /\ tb.obj[i + 1].t = t THEN Got(tb.obj[i + 1], pos, tb) ELSE Fail3(pos, tb)

\* readDateValue: a reference, or an inline float64 of milliseconds that
\* enters the object table.
ReadDateValue(buf, pos, tb) ==
    LET h == ReadU29(buf, pos)
        d == ReadFloat64(buf, h.pos)
    IN  CASE ~h.ok -> Fail3(pos, tb)
          [] h.v % 2 = 0 -> ObjectRef(tb, h.v \div 2, "date", h.pos)
          [] ~d.ok -> Fail3(pos, tb)
          [] OTHER -> Got(Date(d.n), d.pos, [tb EXCEPT !.obj = Append(@, Date(d.n))])

\* readByteArrayValue: a reference, or v >> 1 inline bytes that enter the
\* object table.
ReadByteArrayValue(buf, pos, tb) ==
    LET h == ReadU29(buf, pos)
        l == h.v \div 2
    IN  CASE ~h.ok -> Fail3(pos, tb)
          [] h.v % 2 = 0 -> ObjectRef(tb, l, "bytes", h.pos)
          [] h.pos + l - 1 > Len(buf) -> Fail3(pos, tb)
          [] OTHER -> LET b == Bytes(SubSeq(buf, h.pos, h.pos + l - 1)) IN
                      Got(b, h.pos + l, [tb EXCEPT !.obj = Append(@, b)])

\* The loop of loadTraits over the field names.
RECURSIVE ReadNames(_, _, _, _, _)
ReadNames(buf, pos, tb, n, names) ==
    IF n = 0 THEN Got(names, pos, tb)
    ELSE LET s == ReadStringValue(buf, pos, tb) IN
         IF s.ok THEN ReadNames(buf, s.pos, s.tb, n - 1, Append(names, s.v.s))
         ELSE Fail3(pos, tb)

\* loadTraits: a reference (ref & 3 = 1) to the traits table, or inline
\* traits that are neither externalizable nor dynamic (ref & 15 = 3): the
\* class name, then ref >> 4 field names.  The traits enter their table
\* before the names are read.
LoadTraits(buf, pos, tb, ref) ==
    CASE ref % 4 = 1 -> IF ref \div 4 < Len(tb.traits)
                        THEN Got(tb.traits[ref \div 4 + 1], pos, tb) ELSE Fail3(pos, tb)
      [] ref % 16 # 3 -> Fail3(pos, tb)
      [] OTHER ->
           LET c == ReadStringValue(buf, pos, tb)
               ti == Len(c.tb.traits) + 1
               ns == ReadNames(buf, c.pos, [c.tb EXCEPT !.traits = Append(@, <<>>)], ref \div 16, <<>>)
           IN  IF c.ok /\ ns.ok THEN Got(ns.v, ns.pos, [ns.tb EXCEPT !.traits[ti] = ns.v])
               ELSE Fail3(pos, tb)

RECURSIVE Read3(_, _, _), ReadObjectValue(_, _, _), ReadBody(_, _, _, _, _)

\* The loop of readObjectValue over the traits' names: each value is
\* read and o.Set; Set refuses a *time.Time.
ReadBody(buf, pos, tb, oi, names) ==
    IF names = <<>> THEN Got(Ptr(oi - 1), pos, tb)
    ELSE LET x == Read3(buf, pos, tb) IN
         IF ~x.ok \/ x.v.t = "date" THEN Fail3(pos, tb)
         ELSE ReadBody(buf, x.pos, [x.tb EXCEPT !.obj[oi] = Obj((Head(names) :> x.v) @@ @.o)],
                       oi, Tail(names))

\* readObjectValue: a reference, or traits, then a new object that enters
\* the object table before its fields are read.
ReadObjectValue(buf, pos, tb) ==
    LET h == ReadU29(buf, pos)
        t == LoadTraits(buf, h.pos, tb, h.v)
    IN  CASE ~h.ok -> Fail3(pos, tb)
          [] h.v % 2 = 0 -> IF ObjectRef(tb, h.v \div 2, "obj", h.pos).ok
                            THEN Got(Ptr(h.v \div 2), h.pos, tb) ELSE Fail3(pos, tb)
          [] ~t.ok -> Fail3(pos, tb)
          [] OTHER -> ReadBody(buf, t.pos, [t.tb EXCEPT !.obj = Append(@, Obj(<<>>))],
                               Len(t.tb.obj) + 1, t.v)

\* Reader.Read: the type byte, then the value; undefined reads as nil.
Read3(buf, pos, tb) ==
    IF pos > Len(buf) THEN Fail3(pos, tb)
    ELSE LET t == buf[pos]
             f == ReadFloat64(buf, pos + 1)
         IN
    CASE t \in {0, 1} -> Got(Null, pos + 1, tb)
      [] t = 2 -> Got(Bool(FALSE), pos + 1, tb)
      [] t = 3 -> Got(Bool(TRUE), pos + 1, tb)
      [] t = 4 -> ReadIntegerValue(buf, pos + 1, tb)
      [] t = 5 -> IF f.ok THEN Got(Num(f.n), f.pos, tb) ELSE Fail3(pos, tb)
      [] t = 6 -> ReadStringValue(buf, pos + 1, tb)
      [] t = 8 -> ReadDateValue(buf, pos + 1, tb)
      [] t = 10 -> ReadObjectValue(buf, pos + 1, tb)
      [] t = 12 -> ReadByteArrayValue(buf, pos + 1, tb)
      [] OTHER -> Fail3(pos, tb)

\* amf0.Reader.Read on the 0x11 marker, value after value of a message:
\* the first creates the amf3 reader, the later ones reuse it and its
\* tables.  The result is the values and the object table.
RECURSIVE ReadSwitched(_, _, _, _)
ReadSwitched(buf, pos, tb, out) ==
    IF pos > Len(buf) THEN [ok |-> TRUE, vs |-> out, heap |-> tb.obj]
    ELSE LET x == Read3(buf, pos + 1, tb) IN
         IF buf[pos] = 17 /\ x.ok THEN ReadSwitched(buf, x.pos, x.tb, Append(out, x.v))
         ELSE [ok |-> FALSE, vs |-> out, heap |-> tb.obj]



-----------------------------------------------------------------------------
(* amf3.Writer.  A result is the status ("ok", "err" for an error return,  *)
(* "loop" for a call that never returns), the bytes and the object table: *)
(* the input objects written so far, and NilRef for a date or byte array. *)

NilRef == -1
W(st, bs, refs) == [st |-> st, bytes |-> bs, refs |-> refs]
Then(pre, w) == [w EXCEPT !.bytes = pre \o @]

\* NewWriter: an empty object table.
NewWriter == W("ok", <<>>, <<>>)

\* getObjectRef: the first index holding the object, 0 if none.
ObjectIndex(refs, id) == SelectInSeq(refs, LAMBDA r : r = id)

\* writeStringValue: the empty string is the inline header 0x01.  Any
\* other string gets its header, then w.WriteString(s), which is
\* amf3.Writer's own WriteString: the type byte 0x06 and writeStringValue(s)
\* again, so the calls never return until the goroutine's stack overflows.
WriteStringValue(s, refs) ==
    IF s = <<>> THEN W("ok", <<1>>, refs) ELSE W("loop", U29(Len(s) * 2 + 1), refs)

\* WriteString: the type byte, then writeStringValue.
WriteString(s, refs) == Then(<<6>>, WriteStringValue(s, refs))

\* WriteNumber: the float64.
WriteNumber(v, refs) == W("ok", <<5>> \o Float64Bytes(v), refs)

\* WriteInteger: an int outside the 29-bit range is refused; else its low
\* 29 bits (v & 0x1fffffff).
WriteInteger(v, refs) ==
    IF v > MaxInt \/ v < MinInt THEN W("err", <<>>, refs)
    ELSE W("ok", <<4>> \o U29(v % 2^29), refs)

\* Mutant: WriteDate without its placeholder in the object table.
WriteDateNoRef(ms, refs) == W("ok", <<8, 1>> \o Float64Bytes(ms), refs)

\* WriteDate: a placeholder enters the object table, as the reader's date
\* does; the inline header 0x01 and the milliseconds as a float64.
WriteDate(ms, refs) == W("ok", <<8, 1>> \o Float64Bytes(ms), Append(refs, NilRef))

\* WriteByteArray: a placeholder, the inline header and the bytes.
WriteByteArray(bs, refs) ==
    W("ok", <<12>> \o U29(Len(bs) * 2 + 1) \o bs, Append(refs, NilRef))

\* The order writeObjectValue's map walks take: the one TLC's CHOOSE picks.
\* Any order loops as soon as one name is not empty, and an object that
\* does not loop has at most the one empty name.
Keys(f) == CHOOSE ks \in SetToSeqs(DOMAIN f) : TRUE

\* storeTraits: the empty class name, then each field name.
RECURSIVE StoreNames(_, _)
StoreNames(ks, out) ==
    IF ks = <<>> \/ out.st # "ok" THEN out
    ELSE LET x == WriteStringValue(Head(ks), out.refs) IN
         StoreNames(Tail(ks), [x EXCEPT !.bytes = out.bytes \o @])

RECURSIVE Write3(_, _, _), WriteFields(_, _, _, _)

\* The loop of writeObjectValue over the traits' names.
WriteFields(ks, f, heap, out) ==
    IF ks = <<>> \/ out.st # "ok" THEN out
    ELSE LET x == Write3(f[Head(ks)], heap, out.refs) IN
         WriteFields(Tail(ks), f, heap, [x EXCEPT !.bytes = out.bytes \o @])

\* writeObjectValue: an object already written goes by its index in the
\* table; a new one enters the table, then its header (n << 4 | 3), its
\* traits and its fields.
WriteObjectValue(id, heap, refs) ==
    LET i == ObjectIndex(refs, id)
        f == heap[id].f
        ks == Keys(f)
        tr == StoreNames(ks, Then(U29(Cardinality(DOMAIN f) * 16 + 3), W("ok", <<1>>, Append(refs, id))))
    IN  IF i > 0 THEN W("ok", U29((i - 1) * 2), refs)
        ELSE WriteFields(ks, f, heap, tr)

WriteObject(id, heap, refs) == Then(<<10>>, WriteObjectValue(id, heap, refs))

\* Writer.Write on the value's Go type.
Write3(x, heap, refs) ==
    CASE x.t = "null"  -> W("ok", <<1>>, refs)
      [] x.t = "bool"  -> W("ok", <<IF x.b THEN 3 ELSE 2>>, refs)
      [] x.t = "int"   -> WriteInteger(x.n, refs)
      [] x.t = "num"   -> WriteNumber(x.n, refs)
      [] x.t = "str"   -> WriteString(x.s, refs)
      [] x.t = "date"  -> WriteDate(x.n, refs)
      [] x.t = "ptr"   -> WriteObject(x.n, heap, refs)
      [] x.t = "bytes" -> WriteByteArray(x.s, refs)

\* amf0.Writer.Write3, value after value: the 0x11 marker, then the value
\* by the one amf3 writer the amf0 writer keeps.
RECURSIVE WriteSwitched(_, _, _)
WriteSwitched(xs, heap, out) ==
    IF xs = <<>> \/ out.st # "ok" THEN out
    ELSE LET x == Write3(Head(xs), heap, out.refs) IN
         WriteSwitched(Tail(xs), heap, [x EXCEPT !.bytes = out.bytes \o <<17>> \o @])

=============================================================================
