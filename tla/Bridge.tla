------------------------------- MODULE Bridge -------------------------------
(***************************************************************************)
(* The rpc bridge seen from the server: the requests rpc.Join, rpc.Call    *)
(* and rpc.Exit queue on the async groups (rpc/rpc.go), the tcp client     *)
(* that carries them to the bridge and brings its answers back            *)
(* (tcp/client.go, tcp/server.go), the dispatch of those answers and of   *)
(* the bridge's close messages (server.go), and the closures Callback and *)
(* CloseAll run on the work queues (session/session.go).                  *)
(*                                                                         *)
(* The client's connection may break at any time, on either goroutine's  *)
(* error; the main loop then drains the send channel for BackoffTicks     *)
(* ticks of 100 ms and dials again.  A request is a record of its session *)
(* xid, its number among that session's requests and its kind; an answer *)
(* is the session xid and the number of the call it answers.             *)
(***************************************************************************)
EXTENDS Naturals, Sequences, SequencesExt, FiniteSets

CONSTANTS
    Xids,          \* the sessions' xids
    NumQueues,     \* async groups (32 in the code)
    MaxCalls,      \* most rpc.Call requests per session
    ChanCap,       \* capacity of the client's send channel (1024)
    RecvCap,       \* capacity of the client's recv channel (1024)
    BackoffTicks,  \* 100 ms ticks between two connections (50)
    MaxFails       \* most connection failures and failed dials

ASSUME /\ Xids \subseteq Nat /\ NumQueues \in Nat \ {0}
       /\ MaxCalls \in Nat /\ ChanCap \in Nat \ {0} /\ RecvCap \in Nat \ {0}
       /\ BackoffTicks \in Nat \ {0} /\ MaxFails \in Nat

Queues == 0..(NumQueues - 1)
MaxReqs == MaxCalls + 2
Reqs == [xid : Xids, n : 1..MaxReqs, kind : {"join", "call", "exit"}]
Answers == [xid : Xids, n : 1..MaxReqs]
Closures == [op : {"send"}, req : Reqs] \cup [op : {"callback"}, ans : Answers]
              \cup [op : {"close"}, xid : Xids]

VARIABLES
    sess,      \* per xid: "new" until the first packet, "open", "closed"
    nreq,      \* per xid: requests issued so far
    ncall,     \* per xid: rpc.Call requests issued so far
    aq,        \* async groups: queue -> sequence of closures
    chan,      \* c.send, the client's send channel
    cphase,    \* the client's main loop: "dial", "up" (waiting on sig), "backoff"
    ticks,     \* back-off ticks left
    stale,     \* senders of broken connections that have not returned yet
    nfail,     \* connection failures and failed dials so far
    wire,      \* requests written to the current connection, not yet read
    rwire,     \* answers the bridge wrote to the current connection
    crecv,     \* c.recv, the client's recv channel
    swire,     \* close messages on the bridge's connection to the tcp server
    srecv,     \* s.recv, the tcp server's recv channel
    closeSent, \* sessions the bridge has asked to close
    heard,     \* history: per xid, the requests the bridge read, in order
    answered,  \* history: answers the bridge wrote
    applied,   \* history: per xid, the answers Callback added to the main flow
    lost,      \* history: requests dropped by the client
    rlost,     \* history: answers lost with a connection
    discarded  \* history: answers Callback dropped for a closed session

sessVars == <<sess, nreq, ncall>>
clientVars == <<chan, cphase, ticks, stale, nfail, wire, rwire, crecv>>
serverVars == <<swire, srecv, closeSent>>
histVars == <<heard, answered, applied, lost, rlost, discarded>>
vars == <<sessVars, aq, clientVars, serverVars, histVars>>

Init ==
    /\ sess = [x \in Xids |-> "new"]
    /\ nreq = [x \in Xids |-> 0]
    /\ ncall = [x \in Xids |-> 0]
    /\ aq = [q \in Queues |-> <<>>]
    /\ chan = <<>> /\ cphase = "dial" /\ ticks = 0 /\ stale = 0 /\ nfail = 0
    /\ wire = <<>> /\ rwire = <<>> /\ crecv = <<>>
    /\ swire = <<>> /\ srecv = <<>> /\ closeSent = {}
    /\ heard = [x \in Xids |-> <<>>] /\ answered = {} /\ applied = [x \in Xids |-> <<>>]
    /\ lost = {} /\ rlost = {} /\ discarded = {}

-----------------------------------------------------------------------------
(* The server's side: requests issued by sessions, closures on the queues. *)

\* async.Call(gid, f): f is queued on group gid % NumQueues.
Enqueue(q, gid, f) == [q EXCEPT ![gid % NumQueues] = Append(@, f)]

\* Mutant: rpc.Exit queues its send on another group than the session's.
IssueExitElsewhere(q, x, kind) ==
    Enqueue(q, IF kind = "exit" THEN x + 1 ELSE x,
            [op |-> "send", req |-> [xid |-> x, n |-> nreq[x] + 1, kind |-> kind]])

\* rpc.Join, rpc.Call, rpc.Exit: the encoded request is sent by a closure
\* queued on the group of the session's xid.
Issue(q, x, kind) ==
    Enqueue(q, x, [op |-> "send", req |-> [xid |-> x, n |-> nreq[x] + 1, kind |-> kind]])

\* Session.Close on session x, the queues being q: closed, then rpc.Exit.
CloseSession(x, q) ==
    /\ sess' = [sess EXCEPT ![x] = "closed"]
    /\ nreq' = [nreq EXCEPT ![x] = @ + 1]
    /\ aq' = Issue(q, x, "exit")
    /\ UNCHANGED ncall

\* HandlePacket's first packet on session x: the cookie is committed and
\* rpc.Join issued.
Join(x) ==
    /\ sess[x] = "new"
    /\ sess' = [sess EXCEPT ![x] = "open"]
    /\ nreq' = [nreq EXCEPT ![x] = @ + 1]
    /\ aq' = Issue(aq, x, "join")
    /\ UNCHANGED <<ncall, clientVars, serverVars, histVars>>

\* connHandler.onRequest / onProxySend (and the stream handler's forward)
\* inside HandlePacket of an open session: rpc.Call.
Call(x) ==
    /\ sess[x] = "open"
    /\ ncall[x] < MaxCalls
    /\ ncall' = [ncall EXCEPT ![x] = @ + 1]
    /\ nreq' = [nreq EXCEPT ![x] = @ + 1]
    /\ aq' = Issue(aq, x, "call")
    /\ UNCHANGED <<sess, clientVars, serverVars, histVars>>

\* The session closes itself (a closing code, or Manage's keepalive timeout).
Close(x) ==
    /\ sess[x] # "closed"
    /\ CloseSession(x, aq)
    /\ UNCHANGED <<clientVars, serverVars, histVars>>

\* Mutant: Send does not block until the channel is over its capacity.
ChanHasRoomOffByOne == Len(chan) <= ChanCap

\* c.send <- bs proceeds only while the buffered channel has room.
ChanHasRoom == Len(chan) < ChanCap

\* rpc's closure, f being the closure and rest the queues without it:
\* clt.Send, which blocks while the send channel is full.
RunSend(f, rest) ==
    /\ ChanHasRoom
    /\ chan' = Append(chan, f.req) /\ aq' = rest
    /\ UNCHANGED <<sessVars, applied, discarded>>

\* Callback's closure: FindByXid, and under the session lock, unless the
\* session is closed, mainfw.AddFragments of the answer (then flush).
RunCallback(f, rest) ==
    /\ IF sess[f.ans.xid] # "closed"
       THEN applied' = [applied EXCEPT ![f.ans.xid] = Append(@, f.ans.n)]
            /\ UNCHANGED discarded
       ELSE discarded' = discarded \cup {f.ans} /\ UNCHANGED applied
    /\ aq' = rest
    /\ UNCHANGED <<sessVars, chan>>

\* CloseAll's closure: FindByXid, and Session.Close under the session lock.
RunCloseAll(f, rest) ==
    /\ IF sess[f.xid] # "closed" THEN CloseSession(f.xid, rest)
       ELSE aq' = rest /\ UNCHANGED sessVars
    /\ UNCHANGED <<chan, applied, discarded>>

\* An async worker takes the closure at the head of its group and runs it.
Worker(q) ==
    /\ aq[q] # <<>>
    /\ LET f == Head(aq[q])
           rest == [aq EXCEPT ![q] = Tail(@)]
       IN  CASE f.op = "send"     -> RunSend(f, rest)
             [] f.op = "callback" -> RunCallback(f, rest)
             [] f.op = "close"    -> RunCloseAll(f, rest)
    /\ UNCHANGED <<cphase, ticks, stale, nfail, wire, rwire, crecv, serverVars,
                   heard, answered, lost, rlost>>

-----------------------------------------------------------------------------
(* The tcp client: its main loop, sender and recver goroutines.           *)

\* net.DialTCP succeeds: the sender and recver start on the new connection
\* and the main loop waits on sig.
Dial ==
    /\ cphase = "dial"
    /\ cphase' = "up"
    /\ UNCHANGED <<sessVars, aq, chan, ticks, stale, nfail, wire, rwire, crecv,
                   serverVars, histVars>>

\* net.DialTCP fails: the main loop goes on to the back-off.
DialFail ==
    /\ cphase = "dial" /\ nfail < MaxFails
    /\ cphase' = "backoff" /\ ticks' = BackoffTicks /\ nfail' = nfail + 1
    /\ UNCHANGED <<sessVars, aq, chan, stale, wire, rwire, crecv, serverVars, histVars>>

\* Mutant: the sender's empty-data test is inverted and it skips the data.
SenderSendInverted ==
    /\ cphase = "up" /\ chan # <<>>
    /\ chan' = Tail(chan)
    /\ UNCHANGED <<sessVars, aq, cphase, ticks, stale, nfail, wire, rwire, crecv,
                   serverVars, histVars>>

\* sender: the select takes the head of the send channel and writeData
\* writes it to the connection.
SenderSend ==
    /\ cphase = "up" /\ chan # <<>>
    /\ wire' = Append(wire, Head(chan))
    /\ chan' = Tail(chan)
    /\ UNCHANGED <<sessVars, aq, cphase, ticks, stale, nfail, rwire, crecv,
                   serverVars, histVars>>

\* raise, on a read or write error of the recver or the sender: the
\* connection is closed with what is in flight on it, sig is closed and the
\* main loop begins the back-off.  When the sender's write failed, the
\* request it took is lost and the sender has returned; otherwise it is
\* still in its select, where the send channel may win over sig.
Fail(onWrite) ==
    /\ cphase = "up" /\ nfail < MaxFails
    /\ onWrite => chan # <<>>
    /\ lost' = lost \cup ToSet(wire) \cup (IF onWrite THEN {Head(chan)} ELSE {})
    /\ chan' = IF onWrite THEN Tail(chan) ELSE chan
    /\ stale' = IF onWrite THEN stale ELSE stale + 1
    /\ rlost' = rlost \cup ToSet(rwire)
    /\ wire' = <<>> /\ rwire' = <<>>
    /\ cphase' = "backoff" /\ ticks' = BackoffTicks /\ nfail' = nfail + 1
    /\ UNCHANGED <<sessVars, aq, crecv, serverVars, heard, answered, applied, discarded>>

\* The sender of a broken connection takes a request after sig was closed
\* (Go picks among ready cases at random); its write fails and it returns.
StaleSend ==
    /\ stale > 0 /\ chan # <<>>
    /\ lost' = lost \cup {Head(chan)}
    /\ chan' = Tail(chan) /\ stale' = stale - 1
    /\ UNCHANGED <<sessVars, aq, cphase, ticks, nfail, wire, rwire, crecv,
                   serverVars, heard, answered, applied, rlost, discarded>>

\* The sender of a broken connection sees sig closed and returns.
StaleExit ==
    /\ stale > 0 /\ stale' = stale - 1
    /\ UNCHANGED <<sessVars, aq, chan, cphase, ticks, nfail, wire, rwire, crecv,
                   serverVars, histVars>>

\* One iteration of the back-off loop: 100 ms sleep, then everything in the
\* send channel is read and dropped; after the last one the loop dials.
Backoff ==
    /\ cphase = "backoff"
    /\ lost' = lost \cup ToSet(chan)
    /\ chan' = <<>>
    /\ ticks' = ticks - 1
    /\ cphase' = IF ticks = 1 THEN "dial" ELSE "backoff"
    /\ UNCHANGED <<sessVars, aq, stale, nfail, wire, rwire, crecv, serverVars,
                   heard, answered, applied, rlost, discarded>>

\* recver: readData returns the next answer and it goes into c.recv.
RecvFrame ==
    /\ cphase = "up" /\ rwire # <<>> /\ Len(crecv) < RecvCap
    /\ crecv' = Append(crecv, Head(rwire))
    /\ rwire' = Tail(rwire)
    /\ UNCHANGED <<sessVars, aq, chan, cphase, ticks, stale, nfail, wire,
                   serverVars, histVars>>

\* server.go's loop on the client: c.Recv, DecodeXResponse, Callback, which
\* queues its closure on the group of time.Now().UnixNano(): any group.
Dispatch(q) ==
    /\ crecv # <<>>
    /\ aq' = [aq EXCEPT ![q] = Append(@, [op |-> "callback", ans |-> Head(crecv)])]
    /\ crecv' = Tail(crecv)
    /\ UNCHANGED <<sessVars, chan, cphase, ticks, stale, nfail, wire, rwire,
                   serverVars, histVars>>

-----------------------------------------------------------------------------
(* The tcp server: the bridge's close messages.                            *)

\* recver of an accepted connection: readData, then into s.recv.
SRecvFrame ==
    /\ swire # <<>>
    /\ srecv' = Append(srecv, Head(swire))
    /\ swire' = Tail(swire)
    /\ UNCHANGED <<sessVars, aq, clientVars, closeSent, histVars>>

\* The accepted connection breaks: what is in flight on it is lost.  The
\* bridge connects again to the listening server.
SFail ==
    /\ swire # <<>> /\ nfail < MaxFails
    /\ swire' = <<>> /\ nfail' = nfail + 1
    /\ UNCHANGED <<sessVars, aq, chan, cphase, ticks, stale, wire, rwire, crecv,
                   srecv, closeSent, histVars>>

\* server.go's loop on the server: s.Recv, DecodeXMessage, close, CloseAll,
\* which queues its closure on any group.
SDispatch(q) ==
    /\ srecv # <<>>
    /\ aq' = [aq EXCEPT ![q] = Append(@, [op |-> "close", xid |-> Head(srecv)])]
    /\ srecv' = Tail(srecv)
    /\ UNCHANGED <<sessVars, clientVars, swire, closeSent, histVars>>

-----------------------------------------------------------------------------
(* The bridge. *)

\* It reads the next request of the client's connection.
BridgeRead ==
    /\ wire # <<>>
    /\ heard' = [heard EXCEPT ![Head(wire).xid] = Append(@, Head(wire))]
    /\ wire' = Tail(wire)
    /\ UNCHANGED <<sessVars, aq, chan, cphase, ticks, stale, nfail, rwire, crecv,
                   serverVars, answered, applied, lost, rlost, discarded>>

\* It answers a call it read, on the current connection.
BridgeAnswer(r) ==
    /\ cphase = "up"
    /\ r.kind = "call"
    /\ [xid |-> r.xid, n |-> r.n] \notin answered
    /\ rwire' = Append(rwire, [xid |-> r.xid, n |-> r.n])
    /\ answered' = answered \cup {[xid |-> r.xid, n |-> r.n]}
    /\ UNCHANGED <<sessVars, aq, chan, cphase, ticks, stale, nfail, wire, crecv,
                   serverVars, heard, applied, lost, rlost, discarded>>

\* It asks the server to close a session it has heard of.
BridgeClose(x) ==
    /\ x \notin closeSent
    /\ heard[x] # <<>>
    /\ swire' = Append(swire, x)
    /\ closeSent' = closeSent \cup {x}
    /\ UNCHANGED <<sessVars, aq, clientVars, srecv, histVars>>


-----------------------------------------------------------------------------
Next ==
    \/ \E x \in Xids : Join(x) \/ Call(x) \/ Close(x) \/ BridgeClose(x)
    \/ \E q \in Queues : Worker(q) \/ Dispatch(q) \/ SDispatch(q)
    \/ Dial \/ DialFail \/ SenderSend \/ StaleSend \/ StaleExit \/ Backoff
    \/ \E onWrite \in BOOLEAN : Fail(onWrite)
    \/ RecvFrame \/ SRecvFrame \/ SFail \/ BridgeRead
    \/ \E x \in Xids : \E i \in DOMAIN heard[x] : BridgeAnswer(heard[x][i])

Spec == Init /\ [][Next]_vars

\* The goroutines are fair: the main loop's dial and back-off timer, the
\* sender and recver, the dispatch loops, and each async worker.  A worker
\* blocked on the full send channel is strongly fair: Go wakes the senders
\* blocked on a channel in the order they blocked.  The sessions, the
\* bridge and the failures are not; MaxFails bounds the failures, so the
\* bridge is eventually reachable for good.
FairSpec ==
    /\ Spec
    /\ WF_vars(Dial) /\ WF_vars(SenderSend) /\ WF_vars(StaleExit) /\ WF_vars(Backoff)
    /\ WF_vars(RecvFrame) /\ WF_vars(\E q \in Queues : Dispatch(q))
    /\ WF_vars(SRecvFrame) /\ WF_vars(\E q \in Queues : SDispatch(q))
    /\ WF_vars(BridgeRead)
    /\ \A q \in Queues : SF_vars(Worker(q))

-----------------------------------------------------------------------------
(* Properties. *)

TypeOK ==
    /\ sess \in [Xids -> {"new", "open", "closed"}]
    /\ nreq \in [Xids -> 0..MaxReqs] /\ ncall \in [Xids -> 0..MaxCalls]
    /\ aq \in [Queues -> Seq(Closures)]
    /\ chan \in Seq(Reqs) /\ Len(chan) <= ChanCap
    /\ cphase \in {"dial", "up", "backoff"} /\ ticks \in 0..BackoffTicks
    /\ stale \in 0..MaxFails /\ nfail \in 0..MaxFails
    /\ wire \in Seq(Reqs) /\ rwire \in Seq(Answers)
    /\ crecv \in Seq(Answers) /\ Len(crecv) <= RecvCap
    /\ swire \in Seq(Xids) /\ srecv \in Seq(Xids) /\ closeSent \subseteq Xids
    /\ heard \in [Xids -> Seq(Reqs)] /\ answered \subseteq Answers
    /\ applied \in [Xids -> Seq(1..MaxReqs)]
    /\ lost \subseteq Reqs /\ rlost \subseteq Answers /\ discarded \subseteq Answers

\* The bridge reads each session's requests in the order the session issued
\* them, each at most once: a join before the calls, the exit last, however
\* the connection breaks, the back-off drains the channel and a sender of
\* a broken connection races the next one (rpc's queue per xid, the single
\* send channel, one sender per connection).
RequestsInOrder ==
    \A x \in Xids :
        /\ \A i \in DOMAIN heard[x] : heard[x][i].xid = x
        /\ IsSorted([i \in DOMAIN heard[x] |-> heard[x][i].n], <)

\* Nothing waits forever: every request a session issues eventually reaches
\* the bridge or is dropped by a broken connection or the back-off drain,
\* and every answer the bridge writes is eventually added to the session's
\* main flow, dropped by Callback because the session closed, or lost with
\* its connection (no worker stays blocked on the send channel, no
\* goroutine waits on another).
Settled ==
    /\ \A x \in Xids, n \in 1..MaxReqs :
          (n <= nreq[x]) ~> (\E r \in ToSet(heard[x]) \cup lost : r.xid = x /\ r.n = n)
    /\ \A a \in Answers :
          (a \in answered) ~> (Contains(applied[a.xid], a.n) \/ a \in discarded \cup rlost)

=============================================================================
