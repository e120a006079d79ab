----------------------------- MODULE FlowReader -----------------------------
(***************************************************************************)
(* The receiving half of one RTMFP flow: the server's flowReader           *)
(* (session/flowreader.go) fed with the 0x10/0x11 flow records of a client *)
(* flow writer, over a network that loses, duplicates and reorders them.   *)
(*                                                                         *)
(* One Receive step is Session.handleFlowRequest: AddFragments followed by *)
(* CommitAck, run atomically under the session lock.  The fragment list    *)
(* fr.frags is kept in ascending stage order without duplicates by         *)
(* AddFragments, so it is represented by the set of its fragments.         *)
(* Payloads are abstracted to the stage that carries them: a delivered     *)
(* message is the sequence of stages whose bytes it concatenates.          *)
(*                                                                         *)
(* The client is the environment.  It emits the stages of its messages in  *)
(* order (csent), may abandon whole messages (cab) and raises the stageack *)
(* it puts in its records (cack) only past stages the server acknowledged  *)
(* or it abandoned.  Any record it could have sent so far may arrive, any  *)
(* number of times, in any order.                                          *)
(***************************************************************************)
EXTENDS Naturals, Sequences, SequencesExt, FiniteSets

CONSTANTS
    MsgSizes,     \* the client's messages, as numbers of fragments
    MaxSlices,    \* most fragments carried by one 0x10 record and its 0x11 slices
    Deceptive,    \* handler.DeceptiveAck() of the flow's message handler
    Abandonable   \* indices of the messages the client may abandon

ASSUME /\ MsgSizes \in Seq(Nat \ {0}) /\ MsgSizes # <<>>
       /\ MaxSlices \in Nat \ {0}
       /\ Deceptive \in BOOLEAN
       /\ Abandonable \subseteq 1..Len(MsgSizes)

NumMsgs == Len(MsgSizes)

\* First stage of message i; message NumMsgs+1 is the closing fragment.
RECURSIVE Start(_)
Start(i) == IF i = 1 THEN 1 ELSE Start(i - 1) + MsgSizes[i - 1]

EndStage == Start(NumMsgs + 1)
Stages == 1..EndStage
MsgStages(i) == Start(i)..(Start(i + 1) - 1)
MsgOf(s) == CHOOSE i \in 1..NumMsgs : s \in MsgStages(i)

\* The fragments the client writer emits.  Within a message the first has no
\* with-before flag and the last no with-after flag; the flow is closed by a
\* fragment flagged abandoned|end without data.
Frag(s) ==
    IF s = EndStage
    THEN [stage |-> s, wb |-> FALSE, wa |-> FALSE, ab |-> TRUE, end |-> TRUE,
          data |-> <<>>]
    ELSE [stage |-> s, wb |-> s # Start(MsgOf(s)), wa |-> s # Start(MsgOf(s) + 1) - 1,
          ab |-> FALSE, end |-> FALSE, data |-> <<s>>]

\* The same stage re-sent after the client abandoned its message.
AbandonedFrag(s) == [Frag(s) EXCEPT !.ab = TRUE, !.data = <<>>]

FragRecs == {Frag(s) : s \in Stages} \cup {AbandonedFrag(s) : s \in Stages}
Solo(f) == ~f.wb /\ ~f.wa

VARIABLES
    stage,      \* fr.stage: highest stage accepted
    frags,      \* fr.frags: fragments buffered ahead of stage
    ready,      \* fr.ready: fragments of the message being assembled
    closed,     \* handler.OnClose has been called
    delivered,  \* history: messages handed to handleMessage, in order
    lastAck,    \* the flowAck of the last flowAckResponse sent
    acked,      \* stages the client has seen acknowledged
    csent,      \* client: stages emitted so far
    cack,       \* client: highest stageack put in a record so far
    cab,        \* client: stages of the messages it abandoned
    received    \* history: data stages received while ahead of fr.stage

reader == <<stage, frags, ready, closed, delivered, lastAck>>
client == <<acked, csent, cack, cab>>
vars == <<reader, client, received>>

-----------------------------------------------------------------------------
(* The reader's algorithm, on a record r holding its fields, the messages  *)
(* delivered during the step (out) and whether accept returned true.      *)

StagesOf(S) == {f.stage : f \in S}
Lowest(S) == CHOOSE f \in S : \A g \in S : f.stage <= g.stage

\* Mutant: merge without its with-before/with-after sanity check.
MergeUnchecked(rd) == FlattenSeq([i \in DOMAIN rd |-> rd[i].data])

\* flowReader.merge: the payloads of ready, or nothing when the first
\* fragment continues an earlier one or the last expects a later one.
Merge(rd) ==
    IF rd[1].wb \/ rd[Len(rd)].wa THEN <<>>
    ELSE FlattenSeq([i \in DOMAIN rd |-> rd[i].data])

\* flowReader.deliver: hand the merged message to the handler, clear ready.
Deliver(r) ==
    IF r.ready = <<>> THEN r
    ELSE [r EXCEPT !.ready = <<>>,
                   !.out = IF Merge(r.ready) = <<>> THEN @ ELSE Append(@, Merge(r.ready))]

\* flowReader.accept
Accept(r, f) ==
    IF r.stage + 1 > f.stage THEN r
    ELSE LET r1 == [r EXCEPT !.stage = f.stage]
             r2 == IF r.stage + 1 # f.stage THEN Deliver(r1) ELSE r1
             r3 == IF f.ab THEN Deliver(r2)
                   ELSE LET a == IF f.wb THEN r2 ELSE Deliver(r2)
                            b == [a EXCEPT !.ready = Append(@, f)]
                        IN  IF f.wa THEN b ELSE Deliver(b)
         IN  IF f.end THEN [Deliver(r3) EXCEPT !.closed = TRUE, !.stop = TRUE]
             ELSE r3

\* Op applied to the value of v: the loops below hand each intermediate
\* reader on as a value, not as an expression to re-evaluate.
Then(v, Op(_)) == CHOOSE x \in {Op(y) : y \in {v}} : TRUE

\* The first loop of AddFragments: accept buffered fragments up to stageack.
RECURSIVE DrainUpTo(_, _)

DrainUpTo(r, limit) ==
    IF r.frags = {} \/ Lowest(r.frags).stage > limit THEN r
    ELSE Then(Accept([r EXCEPT !.frags = @ \ {Lowest(r.frags)}], Lowest(r.frags)),
              LAMBDA r1 : IF r1.stop THEN r1 ELSE DrainUpTo(r1, limit))

\* The last loop of AddFragments: accept the buffered successors of stage.
\* Mutant: the final loop accepts one buffered successor and breaks.
DrainNextOnce(r) ==
    IF r.frags = {} \/ Lowest(r.frags).stage # r.stage + 1 THEN r
    ELSE Accept([r EXCEPT !.frags = @ \ {Lowest(r.frags)}], Lowest(r.frags))

RECURSIVE DrainNext(_)
DrainNext(r) ==
    IF r.frags = {} \/ Lowest(r.frags).stage # r.stage + 1 THEN r
    ELSE Then(Accept([r EXCEPT !.frags = @ \ {Lowest(r.frags)}], Lowest(r.frags)),
              LAMBDA r1 : IF r1.stop THEN r1 ELSE DrainNext(r1))

\* Mutant: the stageack raise applied whatever the handler's DeceptiveAck.
DeceptiveStageackAlways(stageack, fs) ==
    LET raised == {fs[i].stage - 1 : i \in {j \in DOMAIN fs : Solo(fs[j])}}
    IN  IF raised = {} THEN stageack ELSE Max(raised \cup {stageack})

\* Deceptive ack: a solo fragment beyond stageack+1 raises stageack to its
\* predecessor; the loop leaves the largest such value.
DeceptiveStageack(stageack, fs) ==
    IF Deceptive
    THEN LET raised == {fs[i].stage - 1 : i \in {j \in DOMAIN fs : Solo(fs[j])}}
         IN  IF raised = {} THEN stageack ELSE Max(raised \cup {stageack})
    ELSE stageack

\* The insertion loop: fragments beyond the stage, not already buffered.
Insert(r, fs) ==
    [r EXCEPT !.frags = @ \cup {fs[i] : i \in {j \in DOMAIN fs :
                                  fs[j].stage > r.stage /\ fs[j].stage \notin StagesOf(r.frags)}}]

\* flowReader.AddFragments
AddFragments(r, stageack0, fs) ==
    LET stageack == DeceptiveStageack(stageack0, fs)
        skip == r.stage < stageack
        r1 == IF skip THEN DrainUpTo(r, stageack) ELSE r
        r2 == IF r1.stage < stageack THEN Deliver([r1 EXCEPT !.stage = stageack]) ELSE r1
        r3 == Insert(r2, fs)
    IN  IF r1.stop THEN r1
        ELSE IF ~skip /\ r3.frags = r2.frags THEN r3
        ELSE Then(r3, DrainNext)

\* The ranges of consecutive stages of a sorted stage sequence.
RECURSIVE AckRanges(_)

\* Mutant: a range is extended with beg and end swapped.
AckRangesSwapped(seq) ==
    IF seq = <<>> THEN <<>>
    ELSE LET rest == AckRanges(Tail(seq))
         IN  IF rest # <<>> /\ rest[1].beg = seq[1] + 1
             THEN <<[beg |-> rest[1].end, end |-> seq[1]]>> \o Tail(rest)
             ELSE <<[beg |-> seq[1], end |-> seq[1]]>> \o rest

\* Mutant: a stage is taken as consecutive only two past the range end.
AckRangesSplit(seq) ==
    IF seq = <<>> THEN <<>>
    ELSE LET rest == AckRanges(Tail(seq))
         IN  IF rest # <<>> /\ rest[1].beg = seq[1] + 2
             THEN <<[beg |-> seq[1], end |-> rest[1].end]>> \o Tail(rest)
             ELSE <<[beg |-> seq[1], end |-> seq[1]]>> \o rest

AckRanges(seq) ==
    IF seq = <<>> THEN <<>>
    ELSE LET rest == AckRanges(Tail(seq))
         IN  IF rest # <<>> /\ rest[1].beg = seq[1] + 1
             THEN <<[beg |-> seq[1], end |-> rest[1].end]>> \o Tail(rest)
             ELSE <<[beg |-> seq[1], end |-> seq[1]]>> \o rest

\* flowReader.CommitAck: cumulative stage, ranges over the buffer, window.
CommitAck(r) ==
    [stage  |-> r.stage,
     ranges |-> AckRanges(SetToSortSeq(StagesOf(r.frags), <)),
     cnt    |-> IF r.frags = {} THEN 127
                ELSE IF Cardinality(r.frags) < 16128 THEN 16128 - Cardinality(r.frags)
                ELSE 0]

\* The stages an ack tells the client it received.
AckedBy(ack) == (1..ack.stage) \cup UNION {rg.beg..rg.end : rg \in ToSet(ack.ranges)}

-----------------------------------------------------------------------------
Init ==
    /\ stage = 0
    /\ frags = {}
    /\ ready = <<>>
    /\ closed = FALSE
    /\ delivered = <<>>
    /\ lastAck = [stage |-> 0, ranges |-> <<>>, cnt |-> 127]
    /\ acked = {}
    /\ csent = 0
    /\ cack = 0
    /\ cab = {}
    /\ received = {}

\* A flow record: the client's fragments a..b, those in ab abandoned.
Record(sa, a, b, ab) ==
    [stageack |-> sa,
     frags |-> [i \in 1..(b - a + 1) |->
                  IF a + i - 1 \in ab THEN AbandonedFrag(a + i - 1) ELSE Frag(a + i - 1)]]

\* The reader after Session.handleFlowRequest processed record rec.
Handled(rec) ==
    AddFragments([stage |-> stage, frags |-> frags, ready |-> ready,
                  closed |-> closed, out |-> <<>>, stop |-> FALSE],
                 rec.stageack, rec.frags)

\* Session.handleFlowRequest on an existing reader: AddFragments, CommitAck.
Receive(rec) ==
    \E r \in {Handled(rec)} :
       /\ stage' = r.stage
       /\ frags' = r.frags
       /\ ready' = r.ready
       /\ closed' = r.closed
       /\ delivered' = delivered \o r.out
       /\ lastAck' = CommitAck(r)
       /\ acked' = acked \cup AckedBy(CommitAck(r))
       /\ received' = received \cup {rec.frags[i].stage : i \in
                         {j \in DOMAIN rec.frags : rec.frags[j].stage > stage /\ rec.frags[j].data # <<>>}}
       /\ UNCHANGED <<csent, cack, cab>>

\* Any record the client has been able to send arrives.
ReceiveAny ==
    \E a \in 1..csent :
      \E b \in a..Min({a + MaxSlices - 1, csent}), sa \in 0..Min({cack, a - 1}) :
        \E ab \in SUBSET (cab \cap a..b) : Receive(Record(sa, a, b, ab))

\* The client writer emits its next stage.
ClientSend ==
    /\ csent < EndStage
    /\ csent' = csent + 1
    /\ UNCHANGED <<reader, acked, cack, cab, received>>

\* The client gives up an unacknowledged message of a partially reliable flow.
ClientAbandon(i) ==
    /\ i \in Abandonable
    /\ MsgStages(i) \subseteq 1..csent
    /\ ~(MsgStages(i) \subseteq acked \cup cab)
    /\ cab' = cab \cup MsgStages(i)
    /\ UNCHANGED <<reader, acked, csent, cack, received>>

\* The client raises its stageack over stages acknowledged or abandoned.
ClientAdvance(k) ==
    /\ k \in (cack + 1)..csent
    /\ 1..k \subseteq acked \cup cab
    /\ cack' = k
    /\ UNCHANGED <<reader, acked, csent, cab, received>>

Next ==
    \/ ReceiveAny
    \/ ClientSend
    \/ \E i \in 1..NumMsgs : ClientAbandon(i)
    \/ \E k \in Stages : ClientAdvance(k)

\* The client re-sends each stage it emitted, alone, with its current
\* stageack, and the network eventually delivers one of the copies.
Retransmit(s) ==
    /\ s \in 1..csent
    /\ Receive(Record(Min({cack, s - 1}), s, s, cab \cap {s}))

Spec == Init /\ [][Next]_vars
FairSpec == Spec /\ WF_vars(ClientSend) /\ \A s \in Stages : WF_vars(Retransmit(s))

-----------------------------------------------------------------------------
AckRec == [stage : 0..EndStage,
           ranges : Seq({[beg |-> b, end |-> e] : b \in Stages, e \in Stages}),
           cnt : 0..16128]

TypeOK ==
    /\ stage \in 0..EndStage
    /\ frags \subseteq FragRecs
    /\ ready \in Seq(FragRecs)
    /\ closed \in BOOLEAN
    /\ delivered \in Seq(Seq(Stages))
    /\ lastAck \in AckRec
    /\ \A i \in DOMAIN lastAck.ranges : lastAck.ranges[i].beg <= lastAck.ranges[i].end
    /\ acked \subseteq Stages /\ cab \subseteq Stages /\ received \subseteq Stages
    /\ csent \in 0..EndStage /\ cack \in 0..EndStage

\* Every message handed to the handler is exactly one message of the client,
\* all of its fragments in order: merge never lets a partial message, or
\* parts of two messages, through after a gap, a skip or an abandon.
MessageIntegrity ==
    \A i \in DOMAIN delivered :
        \E m \in 1..NumMsgs : delivered[i] = [j \in 1..MsgSizes[m] |-> Start(m) + j - 1]

\* storeFlowAck writes each range as beg - prev - 2 and end - beg in unsigned
\* varints, prev starting at the ack's stage: the reader's ack is encodable
\* only if each range starts at least two past the previous end.
AckEncodable ==
    \A i \in DOMAIN lastAck.ranges :
        LET prev == IF i = 1 THEN lastAck.stage ELSE lastAck.ranges[i - 1].end
        IN  lastAck.ranges[i].beg >= prev + 2

\* A fair-lossy network and a client that keeps re-sending: the flow is
\* eventually closed by the reader (OnClose of its handler is called).
Completion == <>closed

\* Deceptive ack skips stages never received, never one received: every solo
\* message whose fragment reached the reader ahead of its stage is delivered
\* or still buffered.
ReceivedNotDropped ==
    \A s \in received :
        Solo(Frag(s)) => (\E i \in DOMAIN delivered : delivered[i] = <<s>>) \/ s \in StagesOf(frags)

\* The reader implements an ordered, partially reliable delivery of the
\* client's messages (FlowDelivery).
Delivery == INSTANCE FlowDelivery WITH
    NumMsgs <- NumMsgs, Abandonable <- Abandonable,
    delivered <- [i \in DOMAIN delivered |-> MsgOf(delivered[i][1])],
    closed <- closed,
    abandoned <- {i \in 1..NumMsgs : MsgStages(i) \subseteq cab},
    Lossy <- Deceptive

DeliverySpec == Delivery!Spec
=============================================================================
