---------------------------- MODULE FlowDelivery ----------------------------
(***************************************************************************)
(* What one RTMFP flow promises its message handler: the client's         *)
(* messages 1..NumMsgs are handed over in order, each at most once.  A     *)
(* message may be passed over only when the client abandoned it, or at any *)
(* time when the flow is lossy (a deceptive-ack reader).  The flow closes  *)
(* once, after which nothing more is delivered.                            *)
(***************************************************************************)
EXTENDS Naturals, Sequences, SequencesExt

CONSTANTS NumMsgs, Abandonable, Lossy

VARIABLES delivered, closed, abandoned

vars == <<delivered, closed, abandoned>>

LastId == IF delivered = <<>> THEN 0 ELSE delivered[Len(delivered)]

Skippable(i) == Lossy \/ i \in abandoned

Init ==
    /\ delivered = <<>>
    /\ closed = FALSE
    /\ abandoned = {}

\* The sender gives a message up.
Abandon ==
    /\ \E i \in Abandonable : abandoned' = abandoned \cup {i}
    /\ UNCHANGED <<delivered, closed>>

\* A batch of later messages is delivered, possibly closing the flow; every
\* message passed over is skippable, and so is every message left behind by
\* the close.
Advance ==
    /\ ~closed
    /\ \E batch \in SUBSET ((LastId + 1)..NumMsgs), c \in BOOLEAN :
         LET d == delivered \o SetToSortSeq(batch, <)
         IN  /\ \A i \in 1..NumMsgs :
                   (i \notin ToSet(d) /\ (c \/ (d # <<>> /\ i < d[Len(d)]))) => Skippable(i)
             /\ delivered' = d
             /\ closed' = c
    /\ UNCHANGED abandoned

Next == Abandon \/ Advance

Spec == Init /\ [][Next]_vars
=============================================================================
