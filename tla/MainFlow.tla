------------------------------ MODULE MainFlow ------------------------------
(***************************************************************************)
(* The main flow of one session: its flowWriter (module FlowWriter) and   *)
(* every caller that writes to it.  The connection handler answers the    *)
(* client's commands on it directly (session/conn.go); closures queued on *)
(* the async groups add relays from other sessions (onRelay), the         *)
(* bridge's answers (Callback), its pushes (RecvPull, BroadcastByXid) and *)
(* run its close requests (CloseAll) (session/session.go).  The session  *)
(* closes itself too (timeout, a close packet, the client's end of the    *)
(* main flow): Session.Close runs the handler's OnClose, which ends the   *)
(* writer.                                                                 *)
(*                                                                         *)
(* flowWriter.AddFragments does not test fw.closed; a closure tests       *)
(* s.closed, the handler tests fw.closed.  Session.Close sets both under  *)
(* the session lock in one step, so the writer's closed stands for both   *)
(* once the main flow exists.                                             *)
(*                                                                         *)
(* Every caller pledges the stages of its message when it is issued, and *)
(* no more than MaxStage are pledged, so the writer's own bound never     *)
(* holds back a caller the code would let write.                         *)
(***************************************************************************)
EXTENDS Naturals, Sequences, SequencesExt, FiniteSets

CONSTANTS
    MaxStage,   \* most stages pledged by all callers together
    MaxFrags,   \* most fragments of one message (split, 256 bytes each)
    Retrans,    \* the retrans schedule, in ticks of 100 ms
    NumQueues,  \* async groups (32 in the code)
    Peers,      \* xids of the sessions that relay to this one
    Self        \* this session's xid, one of Peers

ASSUME NumQueues \in Nat \ {0} /\ Peers \subseteq Nat /\ Self \in Peers

VARIABLES
    stage, frags, idx, mage, closed, rel, net, acknet, got, pstage, pclosed,
    sclosed,     \* s.closed
    hasMain,     \* s.mainfw # nil: the client opened the main flow
    addrchgi,    \* h.addrchgi
    aq,          \* async groups: queue -> sequence of closures
    nrelay,      \* per peer: relays it has sent to this session
    pledged,     \* stages of all messages issued so far
    closeIssued, \* the bridge has asked to close this session
    relays       \* history: the relays added to the main flow, in order

FW == INSTANCE FlowWriter

Queues == 0..(NumQueues - 1)
Closures == [op : {"write"}, from : Peers \cup {0}, k : 0..MaxStage,
             rel : BOOLEAN, n : 1..MaxFrags]
            \cup [op : {"close"}, from : {0}]

fwVars == <<stage, frags, idx, mage, closed, rel, net, acknet, got, pstage, pclosed>>
sessVars == <<sclosed, hasMain, addrchgi>>
callVars == <<aq, nrelay, pledged, closeIssued, relays>>
vars == <<fwVars, sessVars, callVars>>

Init ==
    /\ FW!Init
    /\ sclosed = FALSE
    /\ hasMain = FALSE
    /\ addrchgi = FALSE
    /\ aq = [q \in Queues |-> <<>>]
    /\ nrelay = [y \in Peers |-> 0]
    /\ pledged = 0
    /\ closeIssued = FALSE
    /\ relays = <<>>

-----------------------------------------------------------------------------
(* The session. *)

\* Session.getFlowReader for the signature \x00TC\x04\x00 of an open
\* session: a new writer becomes s.mainfw, with a connHandler.
OpenMain ==
    /\ ~sclosed /\ ~hasMain
    /\ hasMain' = TRUE
    /\ UNCHANGED <<fwVars, sclosed, addrchgi, callVars>>

\* Session.Close: s.closed, then OnClose of every writer: the handler's
\* OnClose sets fw.closed and ends the main flow.  Without a main flow
\* only s.closed is set.
CloseSession ==
    /\ ~sclosed
    /\ sclosed' = TRUE
    /\ IF hasMain THEN FW!End ELSE UNCHANGED fwVars
    /\ UNCHANGED <<hasMain, addrchgi>>

\* The session closes itself: its keep-alive timeout, the client's close
\* packet, or the client's end of the main flow.
Close == CloseSession /\ UNCHANGED callVars

-----------------------------------------------------------------------------
(* The connection handler: commands of the client on the main flow. *)

\* The handler's answers: a reliable message of n fragments, written now.
Respond(n) ==
    /\ pledged + n <= MaxStage
    /\ pledged' = pledged + n
    /\ FW!AddFragments(TRUE, n)

\* connHandler.OnAmfMessage and OnRawMessage refuse every command once the
\* main flow is closed.
Handling == hasMain /\ ~closed

\* onConnect: the reject of an AMF0 client or the success response.
Connect ==
    /\ Handling
    /\ Respond(1)
    /\ UNCHANGED <<sessVars, aq, nrelay, closeIssued, relays>>

\* onSetPeerInfo: s.addrs (not modelled), then the keep-alive message.
SetPeerInfo ==
    /\ Handling
    /\ Respond(1)
    /\ UNCHANGED <<sessVars, aq, nrelay, closeIssued, relays>>

\* onCreateStream: the answer with a new stream id (s.lastsid++, skipping
\* 0); the id is data of the answer and is not kept.
CreateStream ==
    /\ Handling
    /\ Respond(1)
    /\ UNCHANGED <<sessVars, aq, nrelay, closeIssued, relays>>

\* onSetAddressChangeInform.
SetAddressChangeInform ==
    /\ Handling /\ ~addrchgi
    /\ addrchgi' = TRUE
    /\ UNCHANGED <<fwVars, sclosed, hasMain, callVars>>

\* onAddressChange: an onIPChange message only if addrchgi was set.
AddressChange ==
    /\ Handling /\ addrchgi
    /\ Respond(1)
    /\ UNCHANGED <<sessVars, aq, nrelay, closeIssued, relays>>

\* onDefault: the NetConnection.Call.Failed answer names the method, so
\* it may take any number of fragments.
CallFailed ==
    /\ Handling
    /\ \E n \in 1..MaxFrags : Respond(n)
    /\ UNCHANGED <<sessVars, aq, nrelay, closeIssued, relays>>

\* OnRawMessage with flag 3 and a stream id other than 0: set-buffer-time.
SetBufferTime ==
    /\ Handling
    /\ Respond(1)
    /\ UNCHANGED <<sessVars, aq, nrelay, closeIssued, relays>>

-----------------------------------------------------------------------------
(* The closures on the async groups. *)

Issue(q, f) == [aq EXCEPT ![q] = Append(@, f)]

\* Mutant: the relay closure is queued on a group picked by the clock.
RelayAnyGroup(y, n, q) ==
    /\ y = Self => Handling
    /\ pledged + n <= MaxStage
    /\ pledged' = pledged + n
    /\ nrelay' = [nrelay EXCEPT ![y] = @ + 1]
    /\ aq' = Issue(q, [op |-> "write", from |-> y, k |-> nrelay[y] + 1, rel |-> TRUE, n |-> n])
    /\ UNCHANGED <<fwVars, sessVars, closeIssued, relays>>

\* connHandler.onRelay of the session y whose target pid is this
\* session's: the onRelay message, reliable, is added by a closure queued
\* on the group of y's xid.  This session's own relay is a command on its
\* main flow.
Relay(y, n, q) ==
    /\ y = Self => Handling
    /\ q = y % NumQueues
    /\ pledged + n <= MaxStage
    /\ pledged' = pledged + n
    /\ nrelay' = [nrelay EXCEPT ![y] = @ + 1]
    /\ aq' = Issue(q, [op |-> "write", from |-> y, k |-> nrelay[y] + 1, rel |-> TRUE, n |-> n])
    /\ UNCHANGED <<fwVars, sessVars, closeIssued, relays>>

\* A message of n fragments for this session's main flow, in a closure
\* queued on the group of time.Now().UnixNano(): any group q.
Forward(q, reliable, n) ==
    /\ pledged + n <= MaxStage
    /\ pledged' = pledged + n
    /\ aq' = Issue(q, [op |-> "write", from |-> 0, k |-> 0, rel |-> reliable, n |-> n])
    /\ UNCHANGED <<fwVars, sessVars, nrelay, closeIssued, relays>>

\* Callback: the bridge's answer to an rpc.Call of this session.
Callback(q, reliable, n) == Forward(q, reliable, n)

\* RecvPull: a broadcast of the bridge to a list of xids with this one.
RecvPull(q, reliable, n) == Forward(q, reliable, n)

\* BroadcastByXid: a session's broadcastBySessionId naming this xid.
BroadcastByXid(q, reliable, n) == Forward(q, reliable, n)

\* CloseAll: the bridge's close of a list of xids with this one, while
\* the session is open (a close after that is a no-op closure).
CloseAll(q) ==
    /\ ~closeIssued /\ ~sclosed
    /\ closeIssued' = TRUE
    /\ aq' = Issue(q, [op |-> "close", from |-> 0])
    /\ UNCHANGED <<fwVars, sessVars, nrelay, pledged, relays>>

\* Mutant: the closure does not test s.closed.
AcceptsIgnoresClosed == hasMain

\* What a closure tests under the session lock before it adds to the main
\* flow: the session is not closed and s.mainfw is not nil.
Accepts == ~sclosed /\ hasMain

\* A write closure: FindByXid (FindByPid for a relay), then under the
\* session lock, if Accepts, mainfw.AddFragments (then flush).
RunWrite(f) ==
    /\ IF Accepts
       THEN /\ FW!AddFragments(f.rel, f.n)
            /\ relays' = IF f.from \in Peers
                         THEN Append(relays, [from |-> f.from, k |-> f.k])
                         ELSE relays
       ELSE UNCHANGED <<fwVars, relays>>
    /\ UNCHANGED sessVars

\* CloseAll's closure: Session.Close under the session lock, which does
\* nothing if the session is already closed.  Nothing flushes after it:
\* the closure has no deferred flush, and Manage returns on s.closed before
\* its own, so the end fragment stays queued and never reaches the peer.
RunClose ==
    /\ IF ~sclosed
       THEN /\ sclosed' = TRUE
            /\ IF hasMain
               THEN FW!EndQueued /\ UNCHANGED <<idx, mage, rel, net, acknet, got, pstage, pclosed>>
               ELSE UNCHANGED fwVars
            /\ UNCHANGED <<hasMain, addrchgi>>
       ELSE UNCHANGED <<fwVars, sessVars>>
    /\ UNCHANGED relays

\* The worker of group q takes the closure at its head and runs it.
Worker(q) ==
    /\ aq[q] # <<>>
    /\ aq' = [aq EXCEPT ![q] = Tail(@)]
    /\ LET f == Head(aq[q])
       IN  IF f.op = "close" THEN RunClose ELSE RunWrite(f)
    /\ UNCHANGED <<nrelay, pledged, closeIssued>>

-----------------------------------------------------------------------------
(* The writer's timer, the peer and the network (module FlowWriter). *)

\* Time passes for an open writer; a closed one keeps no fragment and its
\* back-off age is never read again.
Tick == hasMain /\ ~closed /\ FW!Tick /\ UNCHANGED <<sessVars, callVars>>
Manage == FW!Manage /\ UNCHANGED <<sessVars, callVars>>
ReceiveAck(a) == FW!ReceiveAck(a) /\ UNCHANGED <<sessVars, callVars>>
PeerReceive(r) == FW!PeerReceive(r) /\ UNCHANGED <<sessVars, callVars>>
Lose == (FW!LoseRecord \/ FW!LoseAck) /\ UNCHANGED <<sessVars, callVars>>

Next ==
    \/ OpenMain \/ Close
    \/ Connect \/ SetPeerInfo \/ CreateStream \/ SetAddressChangeInform
    \/ AddressChange \/ CallFailed \/ SetBufferTime
    \/ \E y \in Peers, n \in 1..MaxFrags, q \in Queues : Relay(y, n, q)
    \/ \E q \in Queues, reliable \in BOOLEAN, n \in 1..MaxFrags :
          \/ Callback(q, reliable, n)
          \/ RecvPull(q, reliable, n)
          \/ BroadcastByXid(q, reliable, n)
    \/ \E q \in Queues : CloseAll(q) \/ Worker(q)
    \/ Tick \/ Manage
    \/ \E a \in acknet : ReceiveAck(a)
    \/ \E r \in net : PeerReceive(r)
    \/ Lose

Spec == Init /\ [][Next]_vars

\* Each group has its own goroutine, and the session's manage loop ticks
\* the writer.  As in FlowWriter, a data stage (an ack level) sent again
\* and again is eventually received; the end record is sent once and
\* never again, so nothing is assumed of it or of the acks past it.
ReceiveStage(s) == \E r \in net : r.stage = s /\ PeerReceive(r)
ReceiveAckOf(k) == \E a \in acknet : a.stage = k /\ ReceiveAck(a)

FairSpec ==
    /\ Spec
    /\ \A q \in Queues : WF_vars(Worker(q))
    /\ WF_vars(Tick) /\ WF_vars(Manage)
    /\ \A s \in 1..MaxStage : SF_vars(ReceiveStage(s))
    /\ \A k \in 0..MaxStage : SF_vars(ReceiveAckOf(k))

-----------------------------------------------------------------------------
(* Properties. *)

TypeOK ==
    /\ FW!TypeOK
    /\ sclosed \in BOOLEAN /\ hasMain \in BOOLEAN /\ addrchgi \in BOOLEAN
    /\ aq \in [Queues -> Seq(Closures)]
    /\ nrelay \in [Peers -> 0..MaxStage]
    /\ pledged \in 0..MaxStage
    /\ closeIssued \in BOOLEAN
    /\ relays \in Seq([from : Peers, k : 1..MaxStage])

\* FlowWriter's safety holds with the real callers: a reliable fragment
\* is never lost while the writer is open.
ReliableNotLost == FW!ReliableNotLost

\* Every reliable fragment the callers hand the writer is eventually
\* acknowledged and dropped, or the flow is ended: again and again the
\* writer's queue is empty or closed.  The callers add finitely many
\* stages and a stage once dropped is never retained again, so this is
\* FlowWriter's EventuallyAcked for every stage at once.
EventuallyAcked == []<>(frags = <<>> \/ closed)

\* Nothing is added to the main flow after its end fragment: once the
\* handler's OnClose has ended the writer, no step issues another stage.
\* AddFragments does not test fw.closed, so this rests on every caller:
\* the handler's fw.closed test and the closures' s.closed test, made
\* under the session lock when the closure runs, not when it was queued.
EndIsLast == [][closed => stage' = stage]_vars

\* The relays of one session reach this session's main flow in the order
\* they were sent and without a gap: onRelay queues them all on the group
\* of the sender's xid, so one worker runs them in order, and a closure
\* drops its relay only before the main flow exists or after the session
\* closed.
RelaysInOrder ==
    \A y \in Peers :
        LET ks == [i \in 1..Len(SelectSeq(relays, LAMBDA e : e.from = y)) |->
                      SelectSeq(relays, LAMBDA e : e.from = y)[i].k]
        IN  \A i \in DOMAIN ks : ks[i] = ks[1] + i - 1
=============================================================================
