---------------------------- MODULE MCFlowReader ----------------------------
(* Instances of FlowReader for TLC.                                        *)
EXTENDS FlowReader

\* A solo message, a message of two fragments, a solo message, then the
\* closing fragment: stages 1..5.
MCMsgSizes == <<1, 2, 1>>

\* A 0x10 record with one 0x11 slice: two consecutive fragments per record.
MCMaxSlices == 2

\* The two-fragment message is the one a partially reliable client gives up.
MCAbandonable == {2}

=============================================================================
