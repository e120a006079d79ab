------------------------------- MODULE Flush --------------------------------
(***************************************************************************)
(* The outbound batching of a session (session/session.go flush, the       *)
(* responses of session/response.go, rtmfp.PacketToBytes and                *)
(* rtmfp.EncodePacket): the handlers queue responses with Session.send,    *)
(* and flush packs the queue into packets, eliding the header of a flow    *)
(* message that continues the previous one, and closing a packet when the *)
(* sizes SetLastInfo reports pass 1320 bytes.                              *)
(*                                                                         *)
(* A response is abstracted to what the sizes and the header elision read: *)
(* its kind, flow id, stage, data length, and whether it carries the flow  *)
(* signature (stageack = 0).  Flow ids, stages, deltas and window counts   *)
(* stay below 128, so each of their varints is one byte, as Codec computes.*)
(***************************************************************************)
EXTENDS Naturals, Sequences, SequencesExt

CONSTANTS
    Fids,        \* flow writers of the session (fids from 1, session.lastfid)
    MaxStage,    \* per writer, the most new stages it sends
    DataLens,    \* lengths of fragment data (split cuts at 256)
    AckBodies,   \* sizes of ack bodies (flowAck.Size)
    SigLen,      \* length of a flow signature ("\x00TC\x04" and the stream id)
    HsLen,       \* bytes a handshakeResponse writes (3 + pid + address + tag)
    MaxQueue     \* most responses queued before a flush

C == INSTANCE Codec

Limit == 1320       \* flush's const limit
MTU == 1400         \* udp.Send drops larger datagrams
Kinds == {"flow", "ack", "keepalive", "error", "handshake"}

Rsp == [kind : Kinds, fid : Fids \cup {0}, stage : 0..Max(Range(MaxStage)), len : DataLens \cup AckBodies \cup {0},
        sig : BOOLEAN]

\* The handlers that hold the session lock and flush when they return:
\* HandlePacket, Manage, Handshake, and the calls the work queues make
\* (the publication fan-out, Callback, Broadcast), which add the
\* fragments of one message to one writer.
Handlers == [kind : {"packet", "manage", "handshake"}, fid : {0}]
            \cup [kind : {"call"}, fid : Fids]
None == [kind |-> "none", fid |-> 0]

VARIABLES
    rsplist,   \* s.rsplist
    next,      \* per writer: the next new stage (fw.stage + 1)
    unacked,   \* per writer: its stage 1 is still queued, so stageack = 0
    closed,    \* s.closed: Close queued its error response
    handler    \* the handler holding the session lock, or None

vars == <<rsplist, next, unacked, closed, handler>>

Init ==
    /\ rsplist = <<>>
    /\ next = [f \in Fids |-> 1]
    /\ unacked = [f \in Fids |-> TRUE]
    /\ closed = FALSE
    /\ handler = None

-----------------------------------------------------------------------------
(* Sizes. *)

V(x) == C!SizeOf7BitValue64(x).n

\* Info: (fid, stage) of a flow response, (0, 0) of the others.
Info(r) == IF r.kind = "flow" THEN <<r.fid, r.stage>> ELSE <<0, 0>>

\* Mutant: the header elided when the stage follows, whatever the flow.
HeaderIgnoresFid(r, last) == ~(r.stage = last[2] + 1)

\* flowResponse.SetLastInfo's header decision.
Header(r, last) == ~(r.fid = last[1] /\ r.stage = last[2] + 1)

\* cnt of an ack: 0x7f when the reader's buffer is empty (the body is the
\* stage alone), else 0x3f00 less the few buffered fragments.
Cnt(r) == IF r.len = 1 THEN 127 ELSE 16128 - 1

\* The signature option and the reader-fid option (the peer's fid, one
\* byte) of a first fragment (stageack = 0).
SigLen1 == 1 + SigLen
RfidMore == 1 + V(1)

\* flowResponse.SetLastInfo: the size it returns after `last`.  The delta
\* is stage - stageack, one byte like the stage.
\* Mutant: the signature option left out of the size.
FlowSetLastInfoNoSig(r, last) ==
    1 + r.len + (IF Header(r, last) THEN V(r.fid) + V(r.stage) + V(r.stage) + 1 ELSE 0)

FlowSetLastInfo(r, last) ==
    1 + r.len + (IF Header(r, last)
                 THEN V(r.fid) + V(r.stage) + V(r.stage)
                      + (IF r.sig THEN SigLen1 + V(RfidMore) + RfidMore ELSE 0) + 1
                 ELSE 0)

\* flowAckResponse.SetLastInfo: the varints of fid and cnt, and the ack's
\* size only when flowAck.Size fails (the branch is inverted), which it
\* never does for an ack CommitAck builds.
FlowAckSetLastInfo(r) ==
    LET sz == [ok |-> TRUE, n |-> r.len] IN
    V(r.fid) + V(Cnt(r)) + (IF ~sz.ok THEN sz.n ELSE 0)

\* SetLastInfo of a response; keepalive, error and handshake responses
\* report 0.
SetLastInfo(r, last) ==
    CASE r.kind = "flow" -> FlowSetLastInfo(r, last)
      [] r.kind = "ack" -> FlowAckSetLastInfo(r)
      [] OTHER -> 0

\* flowResponse.WriteTo: flags, the header when SetLastInfo chose one,
\* the data.
FlowWriteTo(r, header) ==
    1 + (IF header
         THEN V(r.fid) + V(r.stage) + V(r.stage)
              + (IF r.sig THEN SigLen1 + V(RfidMore) + 1 + V(1) ELSE 0) + 1
         ELSE 0)
      + r.len

\* flowAckResponse.WriteTo: fid, cnt, storeFlowAck.
FlowAckWriteTo(r) == V(r.fid) + V(Cnt(r)) + r.len

\* The bytes WriteTo writes.
WriteTo(r, header) ==
    CASE r.kind = "flow" -> FlowWriteTo(r, header)
      [] r.kind = "ack" -> FlowAckWriteTo(r)
      [] r.kind = "handshake" -> HsLen
      [] OTHER -> 0

-----------------------------------------------------------------------------
(* flush: one packet is a sequence of [rsp, header]. *)

\* Mutant: lastfid, laststage kept across the packet boundary.
RECURSIVE PackLoopKeepsLast(_, _, _, _, _)
PackLoopKeepsLast(q, size, msgs, last, out) ==
    IF q = <<>>
    THEN IF msgs # <<>> THEN Append(out, msgs) ELSE out
    ELSE LET r == Head(q)
             sz == size + 3 + SetLastInfo(r, last)
         IN  IF sz <= Limit \/ msgs = <<>>
             THEN PackLoopKeepsLast(Tail(q), sz, Append(msgs, [rsp |-> r, header |-> Header(r, last)]),
                           Info(r), out)
             ELSE PackLoopKeepsLast(q, 0, <<>>, last, Append(out, msgs))

RECURSIVE PackLoop(_, _, _, _, _)
PackLoop(q, size, msgs, last, out) ==
    IF q = <<>>
    THEN IF msgs # <<>> THEN Append(out, msgs) ELSE out
    ELSE LET r == Head(q)
             sz == size + 3 + SetLastInfo(r, last)
         IN  IF sz <= Limit \/ msgs = <<>>
             THEN PackLoop(Tail(q), sz, Append(msgs, [rsp |-> r, header |-> Header(r, last)]),
                           Info(r), out)
             ELSE PackLoop(q, 0, <<>>, <<0, 0>>, Append(out, msgs))

Pack(q) == PackLoop(q, 0, <<>>, <<0, 0>>, <<>>)

\* The payload of a packet: per message the code, the 16-bit length and
\* the content (PacketToBytes).
Payload(p) == FoldLeft(LAMBDA acc, m : acc + 3 + WriteTo(m.rsp, m.header), 0, p)

\* The datagram: the 6-byte header slot, marker, time, the echo time
\* (when the last packet came in within 30 s), the payload, padded to
\* AES blocks from byte 4 (EncodePacket).
Datagram(p, echo) ==
    LET n == 6 + 1 + 2 + (IF echo THEN 2 ELSE 0) + Payload(p)
    IN  4 + ((n - 4 + 15) \div 16) * 16

-----------------------------------------------------------------------------
(* The handlers: each takes the lock, queues responses with send, and     *)
(* flushes when it returns (defer s.flush()).                              *)

\* A handler takes the lock; HandlePacket, Manage, Handshake and the calls
\* all return at once when the session is closed.
Begin(h) ==
    /\ handler = None
    /\ ~closed
    /\ handler' = h
    /\ UNCHANGED <<rsplist, next, unacked, closed>>

\* Session.send from a handler of one of the kinds ks.
Queue(ks, r) ==
    /\ handler.kind \in ks
    /\ ~closed
    /\ Len(rsplist) < MaxQueue
    /\ rsplist' = Append(rsplist, r)
    /\ UNCHANGED handler

\* flowWriter.AddFragments, from a message handler run by HandlePacket or
\* from a call on the work queue (on that call's writer): a new stage,
\* with stageack 0 while stage 1 is unacknowledged, so that
\* newFlowResponse adds the signature and the reader's fid.
FlowNew(f, d) ==
    /\ handler.kind = "call" => handler.fid = f
    /\ next[f] <= MaxStage[f]
    /\ Queue({"packet", "call"}, [kind |-> "flow", fid |-> f, stage |-> next[f], len |-> d, sig |-> unacked[f]])
    /\ next' = [next EXCEPT ![f] = @ + 1]
    /\ UNCHANGED <<unacked, closed>>

\* flowWriter.CommitAck (a 0x51 in HandlePacket) acknowledging stage 1:
\* stageack is no longer 0.
WriterAck(f) ==
    /\ handler.kind = "packet"
    /\ unacked[f] /\ next[f] > 1
    /\ unacked' = [unacked EXCEPT ![f] = FALSE]
    /\ UNCHANGED <<rsplist, next, closed, handler>>

\* Mutant: a stage not yet sent is taken for a retransmission.
FlowResendUnsent(f, s, d) ==
    /\ s <= next[f]
    /\ handler.kind = "manage" => s = next[f] - 1
    /\ Queue({"packet", "manage"}, [kind |-> "flow", fid |-> f, stage |-> s, len |-> d, sig |-> unacked[f]])
    /\ UNCHANGED <<next, unacked, closed>>

\* flowWriter.CommitAck (a 0x51 in HandlePacket) or flowWriter.Manage:
\* a retransmission of a stage sent before; Manage resends only the last
\* fragment its writer holds.
FlowResend(f, s, d) ==
    /\ s < next[f]
    /\ handler.kind = "manage" => s = next[f] - 1
    /\ Queue({"packet", "manage"}, [kind |-> "flow", fid |-> f, stage |-> s, len |-> d, sig |-> unacked[f]])
    /\ UNCHANGED <<next, unacked, closed>>

\* handleFlowRequest: flowReader.CommitAck, the ack of the reader whose
\* writer is f.
Ack(f, b) ==
    /\ Queue({"packet"}, [kind |-> "ack", fid |-> f, stage |-> 0, len |-> b, sig |-> FALSE])
    /\ UNCHANGED <<next, unacked, closed>>

\* Session.handle (0x01, passive) and Session.Manage: a keepalive.
KeepAlive ==
    /\ Queue({"packet", "manage"}, [kind |-> "keepalive", fid |-> 0, stage |-> 0, len |-> 0, sig |-> FALSE])
    /\ UNCHANGED <<next, unacked, closed>>

\* Session.Handshake: the one answer for a peer's rendezvous.
Handshake ==
    /\ rsplist = <<>>
    /\ Queue({"handshake"}, [kind |-> "handshake", fid |-> 0, stage |-> 0, len |-> 0, sig |-> FALSE])
    /\ UNCHANGED <<next, unacked, closed>>

\* Session.Close from handle (0x4c or an unknown code) or from Manage (no
\* keepalive answered): the error response; the handler returns.
Error ==
    /\ Queue({"packet", "manage"}, [kind |-> "error", fid |-> 0, stage |-> 0, len |-> 0, sig |-> FALSE])
    /\ closed' = TRUE
    /\ UNCHANGED <<next, unacked>>

\* Session.flush as the handler returns: the queue is packed and sent, and
\* the lock released.  Handshake always sends its answer.
Flush ==
    /\ handler # None
    /\ handler.kind = "handshake" => rsplist # <<>>
    /\ rsplist' = <<>>
    /\ handler' = None
    /\ UNCHANGED <<next, unacked, closed>>

Next ==
    \/ \E h \in Handlers : Begin(h)
    \/ \E f \in Fids, d \in DataLens :
          \/ FlowNew(f, d)
          \/ \E s \in 1..MaxStage[f] : FlowResend(f, s, d)
    \/ \E f \in Fids : WriterAck(f)
    \/ \E f \in Fids, b \in AckBodies : Ack(f, b)
    \/ KeepAlive \/ Handshake \/ Error
    \/ Flush

Spec == Init /\ [][Next]_vars

-----------------------------------------------------------------------------
(* Properties. *)

\* What the peer reads from the messages of a packet: a message with a
\* header, or any other response, stands for itself; a 0x11 message takes
\* the flow of the message before it in the same packet and the next
\* stage (Session.handle's lastreq, reset by every other code); a 0x11
\* first in a packet, or after a non-flow message, is an orphan.
RECURSIVE Decoded(_, _)
Decoded(p, i) ==
    LET r == p[i].rsp IN
    IF r.kind # "flow" \/ p[i].header THEN <<r.kind, r.fid, r.stage, r.len>>
    ELSE IF i = 1 \/ p[i - 1].rsp.kind # "flow" THEN <<"orphan", 0, 0, r.len>>
    ELSE LET prev == Decoded(p, i - 1) IN <<prev[1], prev[2], prev[3] + 1, r.len>>

Meaning(r) == <<r.kind, r.fid, r.stage, r.len>>

DecodedPackets(ps) ==
    FlattenSeq([i \in DOMAIN ps |-> [j \in DOMAIN ps[i] |-> Decoded(ps[i], j)]])

TypeOK ==
    /\ rsplist \in Seq(Rsp) /\ Len(rsplist) <= MaxQueue
    /\ \A f \in Fids : next[f] \in 1..(MaxStage[f] + 1) /\ unacked \in [Fids -> BOOLEAN]
    /\ closed \in BOOLEAN /\ handler \in Handlers \cup {None}
    /\ \A i \in DOMAIN rsplist : rsplist[i].kind = "flow" => rsplist[i].stage < next[rsplist[i].fid]

\* Every flush sends each queued response once, in queue order, in
\* packets that are not empty, and the peer, reading the packets in
\* order, recovers the flow and stage of every message whose header flush
\* elided (SetLastInfo's elision and flush's reset of lastfid, laststage
\* when it closes a packet).
FlushDeliversQueue ==
    [][Flush => LET ps == Pack(rsplist) IN
                /\ \A i \in DOMAIN ps : ps[i] # <<>>
                /\ DecodedPackets(ps) = [i \in DOMAIN rsplist |-> Meaning(rsplist[i])]]_vars

\* Bytes PacketToBytes writes that SetLastInfo does not report: the ack
\* bodies and the handshake answers.
Uncounted(p) ==
    FoldLeft(LAMBDA acc, m : acc + (CASE m.rsp.kind = "ack" -> m.rsp.len
                                      [] m.rsp.kind = "handshake" -> HsLen
                                      [] OTHER -> 0), 0, p)

\* A packet of several messages holds at most 1320 bytes of messages,
\* counting every byte WriteTo writes except the ones SetLastInfo leaves
\* out by design (the ack body, behind the inverted test, and the
\* handshake answer): the sizes flowResponse.SetLastInfo reports are the
\* bytes its WriteTo writes, signature and reader fid included.
OverLimitOnlyUncounted ==
    [][Flush => \A i \in DOMAIN Pack(rsplist) :
                  LET p == Pack(rsplist)[i] IN Len(p) > 1 => Payload(p) - Uncounted(p) <= Limit]_vars

\* Every datagram a HandlePacket flush builds (echo time present, as the
\* packet just came in) fits the 1400 bytes udp.Send accepts.
PacketsFitMTU ==
    [][Flush /\ handler.kind = "packet" => \A i \in DOMAIN Pack(rsplist) : Datagram(Pack(rsplist)[i], TRUE) <= MTU]_vars

=============================================================================
