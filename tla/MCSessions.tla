---------------------------- MODULE MCSessions -----------------------------
(***************************************************************************)
(* Sessions for TLC: one client pid (so that a reconnecting client meets  *)
(* its old session), three Hello requests and three sessions, two xids    *)
(* (so that the xid space wraps and fills), two async queues, one         *)
(* keepalive before the timeout and one packet per session.               *)
(***************************************************************************)
EXTENDS Sessions

CONSTANTS p1

MCPids == {p1}
MCMaxCookies == 3
MCMaxSessions == 3
MCXidMod == 3
MCNumQueues == 2
MCMaxKeepalive == 1
MCMaxPackets == 1
=============================================================================
