------------------------------ MODULE MCFlush -------------------------------
(* Flush with full 256-byte fragments (split's step, the largest message, *)
(* so that few messages overflow a packet), an ack with many ranges (120  *)
(* bytes), and a handshake answer of an IPv4 address and a 16-byte peer   *)
(* id and tag.  Five responses of the first stages, which carry the      *)
(* signature, split a packet; the second writer's two stages interleave  *)
(* with the first writer's three.                                         *)
EXTENDS Flush

MCFids == {1, 2}
MCStages == [f \in MCFids |-> IF f = 1 THEN 3 ELSE 2]
MCDataLens == {256}
MCAckBodies == {120}
=============================================================================
