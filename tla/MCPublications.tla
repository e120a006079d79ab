-------------------------- MODULE MCPublications ---------------------------
(***************************************************************************)
(* Publications for TLC: two handlers (publisher and player, or two     *)
(* would-be publishers, or two players), two publication objects over    *)
(* time for the one name, two data messages and two async queues.        *)
(***************************************************************************)
EXTENDS Publications, TLC

CONSTANTS h1, h2

MCHandlers == {h1, h2}
MCMaxPubs == 2
MCMaxMsgs == 2
MCNumQueues == 2
MCSymmetry == Permutations(MCHandlers)
=============================================================================
