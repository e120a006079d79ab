---------------------------- MODULE MCMainFlow -----------------------------
(***************************************************************************)
(* MainFlow for TLC: two stages pledged in all (one message of two        *)
(* fragments, or two single ones), then the end stage; the back-off       *)
(* schedule of two steps, 200 ms and 300 ms; two async groups, so that a  *)
(* relay and a bridge message, or two relays on the wrong group, can      *)
(* overtake each other; this session (xid 1) relaying to itself.          *)
(***************************************************************************)
EXTENDS MainFlow

MCMaxStage == 2
MCMaxFrags == 2
MCRetrans == <<2, 3>>
MCPeers == {1}
=============================================================================
