----------------------------- MODULE FlowWriter -----------------------------
(***************************************************************************)
(* The sending half of one RTMFP flow: the server's flowWriter            *)
(* (session/flowwriter.go) driven by its callers, the session's manage    *)
(* tick and the acks of the peer, over a network that loses, duplicates   *)
(* and reorders datagrams in both directions.                             *)
(*                                                                         *)
(* Time is kept as ages in ticks of 100 ms: the age of a fragment is now - *)
(* sendtime, the age of the back-off is now - manage.lasttime.  Every      *)
(* comparison the code makes is against a threshold of at most            *)
(* Max(Retrans) ticks, so ages are capped at Cap without losing a case.   *)
(*                                                                         *)
(* The peer is the environment: a flow reader that records the stages it   *)
(* got, skips up to the stageack of each record, and answers every record *)
(* with an ack of its cumulative stage and the stages it holds beyond.    *)
(***************************************************************************)
EXTENDS Naturals, Sequences, SequencesExt, FiniteSets

CONSTANTS
    MaxStage,   \* most data stages the callers hand to the writer
    MaxFrags,   \* most fragments of one message (split of one payload)
    Retrans     \* the retrans schedule of args.Retrans(), in ticks of 100 ms

ASSUME /\ MaxStage \in Nat \ {0} /\ MaxFrags \in Nat \ {0}
       /\ Retrans \in Seq(Nat \ {0}) /\ Retrans # <<>>

Cap == Max(ToSet(Retrans)) + 1
Ages == 0..Cap
Stages == 1..(MaxStage + 1)

\* A data record on the wire: stage, stageack, and the end flag of End.
Records == [stage : Stages, stageack : 0..MaxStage, end : BOOLEAN]
\* An ack on the wire: the peer's cumulative stage and the stages it holds
\* beyond it (the union of the ack's ranges; parseFlowAck always yields
\* ascending, disjoint ranges, so the writer's walk over them removes
\* exactly these stages).
Acks == [stage : 0..(MaxStage + 1), sel : SUBSET Stages]

VARIABLES
    stage,    \* fw.stage: last stage issued
    frags,    \* fw.frags: retained reliable fragments, in order: stage and
              \* age (now - sendtime)
    idx,      \* fw.manage.idx, 0-based index into Retrans
    mage,     \* now - fw.manage.lasttime, in ticks, capped
    closed,   \* fw.closed
    rel,      \* history: the stages issued as reliable
    net,      \* data records in flight to the peer
    acknet,   \* acks in flight to the writer
    got,      \* peer: stages received with data
    pstage,   \* peer: its reader's stage
    pclosed   \* peer: the end fragment was accepted

writer == <<stage, frags, idx, mage, closed>>
peer == <<got, pstage, pclosed>>
vars == <<writer, rel, net, acknet, peer>>

StagesOf(q) == {q[i].stage : i \in DOMAIN q}
Old(f) == f.age > 1     \* f.sendtime < now - 100 ms

\* The stageack of a record sent now: the stage before the oldest retained
\* fragment.
HeadAck(q) == q[1].stage - 1

Init ==
    /\ stage = 0
    /\ frags = <<>>
    /\ idx = 0
    /\ mage = Cap          \* manage.lasttime = 0: the first check is due
    /\ closed = FALSE
    /\ rel = {}
    /\ net = {}
    /\ acknet = {}
    /\ got = {}
    /\ pstage = 0
    /\ pclosed = FALSE

-----------------------------------------------------------------------------
(* The writer. *)

\* flowWriter.AddFragments: a message of n fragments, stages stage+1..
\* stage+n, each sent with the same stageack; reliable ones are retained.
\* It does not test fw.closed: that is left to its callers.
AddFragments(reliable, n) ==
    /\ stage + n <= MaxStage
    /\ LET sa == IF frags = <<>> THEN stage ELSE HeadAck(frags)
           new == [i \in 1..n |-> [stage |-> stage + i, age |-> 0]]
       IN  /\ stage' = stage + n
           /\ frags' = IF reliable THEN frags \o new ELSE frags
           /\ rel' = IF reliable THEN rel \cup StagesOf(new) ELSE rel
           /\ net' = net \cup {[stage |-> stage + i, stageack |-> sa, end |-> FALSE] : i \in 1..n}
    /\ UNCHANGED <<idx, mage, closed, acknet, peer>>

\* Mutant: the cumulative pop runs one stage past the ack.
CommitAckPastStage(ack) ==
    LET q1 == SelectSeq(frags, LAMBDA f : f.stage > ack.stage + 1)
        q2 == SelectSeq(q1, LAMBDA f : f.stage \notin ack.sel)
    IN  /\ frags' = [i \in DOMAIN q2 |-> IF Old(q2[i]) THEN [q2[i] EXCEPT !.age = 0] ELSE q2[i]]
        /\ net' = net \cup {[stage |-> q2[i].stage, stageack |-> HeadAck(q1), end |-> FALSE] :
                              i \in {j \in DOMAIN q2 : Old(q2[j])}}
        /\ idx' = 0
        /\ mage' = 0
        /\ UNCHANGED <<stage, closed, rel, acknet, peer>>

\* flowWriter.CommitAck: drop what the ack covers, reset the back-off, and
\* resend every remaining fragment not sent in the last 100 ms.
CommitAck(ack) ==
    LET q1 == SelectSeq(frags, LAMBDA f : f.stage > ack.stage)
        q2 == SelectSeq(q1, LAMBDA f : f.stage \notin ack.sel)
    IN  /\ frags' = [i \in DOMAIN q2 |-> IF Old(q2[i]) THEN [q2[i] EXCEPT !.age = 0] ELSE q2[i]]
        /\ net' = net \cup {[stage |-> q2[i].stage, stageack |-> HeadAck(q1), end |-> FALSE] :
                              i \in {j \in DOMAIN q2 : Old(q2[j])}}
        /\ idx' = 0
        /\ mage' = 0
        /\ UNCHANGED <<stage, closed, rel, acknet, peer>>

\* Mutants: the back-off index bumped past the schedule's end; the 100 ms
\* guard inverted.
ManageUncapped ==
    /\ frags # <<>>
    /\ mage > Retrans[idx + 1]
    /\ idx' = idx + 1
    /\ mage' = 0
    /\ IF Old(Last(frags))
       THEN /\ frags' = [frags EXCEPT ![Len(frags)].age = 0]
            /\ net' = net \cup {[stage |-> Last(frags).stage, stageack |-> HeadAck(frags), end |-> FALSE]}
       ELSE UNCHANGED <<frags, net>>
    /\ UNCHANGED <<stage, closed, rel, acknet, peer>>
ManageGuardInverted ==
    /\ frags # <<>>
    /\ mage > Retrans[idx + 1]
    /\ idx' = IF idx < Len(Retrans) - 1 THEN idx + 1 ELSE idx
    /\ mage' = 0
    /\ IF ~Old(Last(frags))
       THEN /\ frags' = [frags EXCEPT ![Len(frags)].age = 0]
            /\ net' = net \cup {[stage |-> Last(frags).stage, stageack |-> HeadAck(frags), end |-> FALSE]}
       ELSE UNCHANGED <<frags, net>>
    /\ UNCHANGED <<stage, closed, rel, acknet, peer>>

\* flowWriter.Manage: when the back-off interval has passed, bump the index
\* and resend the newest fragment unless it was sent in the last 100 ms.
Manage ==
    /\ frags # <<>>
    /\ mage > Retrans[idx + 1]
    /\ idx' = IF idx < Len(Retrans) - 1 THEN idx + 1 ELSE idx
    /\ mage' = 0
    /\ IF Old(Last(frags))
       THEN /\ frags' = [frags EXCEPT ![Len(frags)].age = 0]
            /\ net' = net \cup {[stage |-> Last(frags).stage, stageack |-> HeadAck(frags), end |-> FALSE]}
       ELSE UNCHANGED <<frags, net>>
    /\ UNCHANGED <<stage, closed, rel, acknet, peer>>

\* The handler's OnClose: fw.closed, then flowWriter.End queues a bare
\* abandoned|end fragment at stage+1 on the session and clears the queue.
EndQueued ==
    /\ ~closed
    /\ closed' = TRUE
    /\ stage' = stage + 1
    /\ frags' = <<>>

\* ... and the session's deferred flush sends it.
End ==
    /\ EndQueued
    /\ net' = net \cup {[stage |-> stage + 1, stageack |-> stage, end |-> TRUE]}
    /\ UNCHANGED <<idx, mage, rel, acknet, peer>>

Older(a) == IF a < Cap THEN a + 1 ELSE a

\* 100 ms pass.
Tick ==
    /\ frags' = [i \in DOMAIN frags |-> [frags[i] EXCEPT !.age = Older(@)]]
    /\ mage' = Older(mage)
    /\ UNCHANGED <<stage, idx, closed, rel, net, acknet, peer>>

-----------------------------------------------------------------------------
(* The peer and the network. *)

RECURSIVE Advance(_, _)
Advance(k, G) == IF k + 1 \in G THEN Advance(k + 1, G) ELSE k

\* The peer reader takes a record: skip to its stageack, keep its stage if
\* new, drain, and answer with an ack.
PeerReceive(r) ==
    /\ r \in net
    /\ LET base == IF r.stageack > pstage THEN r.stageack ELSE pstage
           g == IF r.stage > base /\ ~r.end THEN got \cup {r.stage} ELSE got
           ps == Advance(base, g \cup (IF r.end THEN {r.stage} ELSE {}))
       IN  /\ got' = g
           /\ pstage' = ps
           /\ pclosed' = (pclosed \/ (r.end /\ r.stage <= ps))
           /\ acknet' = acknet \cup {[stage |-> ps, sel |-> {s \in g : s > ps}]}
    /\ UNCHANGED <<writer, rel, net>>

\* Session.handle, code 0x51: an ack reaches the writer.
ReceiveAck(a) ==
    /\ a \in acknet
    /\ CommitAck(a)

LoseRecord == \E r \in net : net' = net \ {r} /\ UNCHANGED <<writer, rel, acknet, peer>>
LoseAck == \E a \in acknet : acknet' = acknet \ {a} /\ UNCHANGED <<writer, rel, net, peer>>

Next ==
    \/ ~closed /\ \E reliable \in BOOLEAN, n \in 1..MaxFrags : AddFragments(reliable, n)
    \/ \E a \in acknet : ReceiveAck(a)
    \/ Manage
    \/ End
    \/ Tick
    \/ \E r \in net : PeerReceive(r)
    \/ LoseRecord
    \/ LoseAck

Spec == Init /\ [][Next]_vars

\* The manage loop ticks every writer, time passes, and a stage (an ack
\* level) sent again and again is eventually received: a fair-lossy
\* network, any copy of the stage (of an ack of that level) will do.
ReceiveStage(s) == \E r \in net : r.stage = s /\ PeerReceive(r)
ReceiveAckOf(k) == \E a \in acknet : a.stage = k /\ ReceiveAck(a)

FairSpec ==
    /\ Spec
    /\ WF_vars(Tick) /\ WF_vars(Manage)
    /\ \A s \in Stages : SF_vars(ReceiveStage(s))
    /\ \A k \in 0..(MaxStage + 1) : SF_vars(ReceiveAckOf(k))

-----------------------------------------------------------------------------
(* Properties. *)

TypeOK ==
    /\ stage \in 0..(MaxStage + 1)
    /\ frags \in Seq([stage : Stages, age : Ages])
    /\ idx \in 0..(Len(Retrans) - 1)
    /\ mage \in Ages
    /\ closed \in BOOLEAN
    /\ rel \subseteq Stages
    /\ net \subseteq Records
    /\ acknet \subseteq Acks
    /\ got \subseteq Stages
    /\ pstage \in 0..(MaxStage + 1)
    /\ pclosed \in BOOLEAN

\* A reliable fragment is never lost while the writer is open: it stays in
\* fw.frags until the peer has it, and the stageack of no record (written by
\* AddFragments, CommitAck or Manage) makes the peer skip it.
ReliableNotLost ==
    ~closed => \A s \in rel :
                  /\ s \in got \/ s \in StagesOf(frags)
                  /\ s <= pstage => s \in got

\* Every reliable fragment the writer retains is eventually acknowledged
\* and dropped (or the flow is ended): the Manage back-off and the resends
\* of CommitAck get each one through a fair-lossy network.
EventuallyAcked ==
    \A s \in Stages : (s \in StagesOf(frags)) ~> (s \notin StagesOf(frags) \/ closed)
=============================================================================
