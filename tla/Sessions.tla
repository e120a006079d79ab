------------------------------ MODULE Sessions ------------------------------
(***************************************************************************)
(* The session registry and the life of a session: the handshake's Assign *)
(* creating a session for a cookie (handshake/handshake.go), the registry *)
(* with its xid and pid indexes and the 32 manage loops                   *)
(* (session/sessions.go), the session's first packet, keepalive and close *)
(* (session/session.go), the cookie store (cookies/cookies.go), and the   *)
(* rpc Join/Exit messages to the bridge through the async work queues     *)
(* (rpc/rpc.go, async/async.go).                                          *)
(*                                                                         *)
(* Sessions are numbered 1..MaxSessions in the order Create allocates      *)
(* them; cookies 1..MaxCookies in the order Hello issues them.  Each step  *)
(* is one critical section of the code: a session-locked handler, one     *)
(* bucket update, one queue operation.                                    *)
(***************************************************************************)
EXTENDS Naturals, Sequences, FiniteSets

CONSTANTS
    Pids,           \* peer ids of the clients
    MaxCookies,     \* most Hello requests served
    MaxSessions,    \* most sessions created
    XidMod,         \* xids are uint32, taken modulo XidMod (0 is skipped)
    NumQueues,      \* async work queues (32 in the code)
    MaxKeepalive,   \* maxKeepalive (6 in the code)
    MaxPackets      \* most packets a client sends to one session

ASSUME /\ XidMod \in Nat /\ XidMod >= 2 /\ NumQueues \in Nat \ {0}
       /\ MaxKeepalive \in Nat /\ MaxPackets \in Nat

Sess == 1..MaxSessions
Cks == 1..MaxCookies
Xids == 1..(XidMod - 1)
None == 0
Phases == {"none", "creating", "alive", "dying", "unindexed", "gone"}

VARIABLES
    store,     \* cookies.values: the cookies in the store
    nc,        \* cookies issued so far
    owner,     \* the client (pid) a cookie was issued to
    cxid,      \* cookie.Xid: 0 until Assign binds it to a session
    ns,        \* sessions allocated so far
    phase,     \* where a session is in Create / manage list / deletion
    sxid, spid, scookie,
    joined,    \* len(s.cookie) = 0: the first packet committed the cookie
    closed,    \* s.closed
    kcnt,      \* s.manage.cnt: keepalives sent without an answer
    due,       \* heartbeat seconds have passed since s.manage.lasttime
    npk,       \* packets the client sent (history, bounds the client)
    xidmap,    \* the union of the buckets' xidmaps: xid -> session or None
    pidmap,    \* the union of the buckets' pidmaps: pid -> session or None
    lastxid,   \* sessions.lastxid
    aq,        \* async groups: queue -> sequence of pending rpc sends
    bridge     \* what the tcp client has sent to the bridge, in order

cookieVars == <<store, nc, owner, cxid>>
sessVars == <<ns, phase, sxid, spid, scookie, joined, closed, kcnt, due, npk>>
regVars == <<xidmap, pidmap, lastxid>>
vars == <<cookieVars, sessVars, regVars, aq, bridge>>

Init ==
    /\ store = {} /\ nc = 0
    /\ owner = [c \in Cks |-> CHOOSE p \in Pids : TRUE]
    /\ cxid = [c \in Cks |-> 0]
    /\ ns = 0
    /\ phase = [s \in Sess |-> "none"]
    /\ sxid = [s \in Sess |-> 0]
    /\ spid = [s \in Sess |-> CHOOSE p \in Pids : TRUE]
    /\ scookie = [s \in Sess |-> 0]
    /\ joined = [s \in Sess |-> FALSE]
    /\ closed = [s \in Sess |-> FALSE]
    /\ kcnt = [s \in Sess |-> 0]
    /\ due = [s \in Sess |-> FALSE]
    /\ npk = [s \in Sess |-> 0]
    /\ xidmap = [x \in Xids |-> None]
    /\ pidmap = [p \in Pids |-> None]
    /\ lastxid = 0
    /\ aq = [q \in 0..(NumQueues - 1) |-> <<>>]
    /\ bridge = <<>>

-----------------------------------------------------------------------------
(* rpc and async. *)

\* async.Call(gid, f): f is queued on group gid % 32.
Enqueue(q, gid, msg) == [q EXCEPT ![gid % NumQueues] = Append(@, msg)]

\* Mutant: the exit is queued on another group than the join.
RpcSendExitElsewhere(q, kind, s) ==
    Enqueue(q, IF kind = "exit" THEN sxid[s] + 1 ELSE sxid[s], [kind |-> kind, sess |-> s])

\* rpc.Join / rpc.Exit: the message is sent from the queue of gid = xid.
RpcSend(q, kind, s) == Enqueue(q, sxid[s], [kind |-> kind, sess |-> s])

\* Session.Close (under the session lock): closed, then rpc.Exit.
Close(s) ==
    IF closed[s] THEN UNCHANGED <<closed, aq>>
    ELSE /\ closed' = [closed EXCEPT ![s] = TRUE]
         /\ aq' = RpcSend(aq, "exit", s)

-----------------------------------------------------------------------------
(* Handshake and registry. *)

\* Handshake.handleHello, mode 0x0a: cookies.New stores a fresh cookie.
Hello(p) ==
    /\ nc < MaxCookies
    /\ nc' = nc + 1
    /\ store' = store \cup {nc + 1}
    /\ owner' = [owner EXCEPT ![nc + 1] = p]
    /\ UNCHANGED <<cxid, sessVars, regVars, aq, bridge>>

\* Mutant: the xid loop takes the next xid without looking it up.
RECURSIVE XidScanUnchecked(_, _)
XidScanUnchecked(x, last) ==
    LET n == (x + 1) % XidMod
    IN  IF n = 0 THEN XidScanUnchecked(n, last)
        ELSE IF n = last THEN None
        ELSE n

\* The xid loop of Create: the first xid after lastxid, cyclically and
\* skipping 0, that no session holds; None when the scan comes back to
\* lastxid.
RECURSIVE XidScan(_, _)
XidScan(x, last) ==
    LET n == (x + 1) % XidMod
    IN  IF n = 0 THEN XidScan(n, last)
        ELSE IF n = last THEN None
        ELSE IF xidmap[n] = None THEN n
        ELSE XidScan(n, last)

NewXid == XidScan(lastxid, lastxid)

Creating == \E s \in Sess : phase[s] = "creating"

\* Mutant: Assign without the cookie.Xid check.
AssignUnbound(c) ==
    /\ c \in store
    /\ ~Creating
    /\ ns < MaxSessions
    /\ \E x \in {NewXid} :
         IF x = None THEN UNCHANGED vars
         ELSE LET s == ns + 1 IN
              /\ ns' = s
              /\ phase' = [phase EXCEPT ![s] = "creating"]
              /\ sxid' = [sxid EXCEPT ![s] = x]
              /\ spid' = [spid EXCEPT ![s] = owner[c]]
              /\ scookie' = [scookie EXCEPT ![s] = c]
              /\ lastxid' = x
              /\ xidmap' = [xidmap EXCEPT ![x] = s]
              /\ UNCHANGED <<cookieVars, joined, closed, kcnt, due, npk, pidmap, aq, bridge>>

\* Handshake.handleAssign up to the middle of session.Create: the cookie
\* is found and locked; if it is not bound yet, Create takes sessions.Lock,
\* scans for an xid and registers the session by xid.  A cookie already
\* bound is answered with its xid; "too many sessions" drops the request.
Assign(c) ==
    /\ c \in store
    /\ ~Creating
    /\ cxid[c] = 0
    /\ ns < MaxSessions
    /\ \E x \in {NewXid} :
         IF x = None THEN UNCHANGED vars
         ELSE LET s == ns + 1 IN
              /\ ns' = s
              /\ phase' = [phase EXCEPT ![s] = "creating"]
              /\ sxid' = [sxid EXCEPT ![s] = x]
              /\ spid' = [spid EXCEPT ![s] = owner[c]]
              /\ scookie' = [scookie EXCEPT ![s] = c]
              /\ lastxid' = x
              /\ xidmap' = [xidmap EXCEPT ![x] = s]
              /\ UNCHANGED <<cookieVars, joined, closed, kcnt, due, npk, pidmap, aq, bridge>>

\* The rest of Create and of handleAssign: addSessionByPid, the session
\* joins its manage loop's fresh list, and the cookie is bound to its xid.
CreateDone(s) ==
    /\ phase[s] = "creating"
    /\ pidmap' = [pidmap EXCEPT ![spid[s]] = s]
    /\ phase' = [phase EXCEPT ![s] = "alive"]
    /\ cxid' = [cxid EXCEPT ![scookie[s]] = sxid[s]]
    /\ UNCHANGED <<store, nc, owner, ns, sxid, spid, scookie, joined, closed,
                   kcnt, due, npk, xidmap, lastxid, aq, bridge>>

-----------------------------------------------------------------------------
(* The session. *)

\* session.HandlePacket from the session's client: found by xid, not closed;
\* the first packet commits the cookie and sends rpc.Join; the keepalive
\* count is reset; the packet may carry 0x4c (or an unknown code), which
\* closes the session.
Packet(s, closes) ==
    /\ phase[s] = "alive"
    /\ xidmap[sxid[s]] = s
    /\ ~closed[s]
    /\ npk[s] < MaxPackets
    /\ npk' = [npk EXCEPT ![s] = @ + 1]
    /\ joined' = [joined EXCEPT ![s] = TRUE]
    /\ store' = IF joined[s] THEN store ELSE store \ {scookie[s]}
    /\ kcnt' = [kcnt EXCEPT ![s] = 0]
    /\ due' = [due EXCEPT ![s] = FALSE]
    /\ LET aq1 == IF joined[s] THEN aq ELSE RpcSend(aq, "join", s)
       IN  IF closes
           THEN /\ closed' = [closed EXCEPT ![s] = TRUE]
                /\ aq' = RpcSend(aq1, "exit", s)
           ELSE UNCHANGED closed /\ aq' = aq1
    /\ UNCHANGED <<nc, owner, cxid, ns, phase, sxid, spid, scookie, regVars, bridge>>

\* heartbeat seconds pass with no packet from the client.
Elapse(s) ==
    /\ phase[s] = "alive" /\ ~closed[s] /\ ~due[s]
    /\ due' = [due EXCEPT ![s] = TRUE]
    /\ UNCHANGED <<cookieVars, ns, phase, sxid, spid, scookie, joined, closed,
                   kcnt, npk, regVars, aq, bridge>>

\* Mutant: Manage without its early return for a closed session.
ManageTickIgnoresClosed(s) ==
    /\ phase[s] = "alive"
    /\ due[s]
    /\ IF kcnt[s] < MaxKeepalive
       THEN /\ kcnt' = [kcnt EXCEPT ![s] = @ + 1]
            /\ due' = [due EXCEPT ![s] = FALSE]
            /\ UNCHANGED <<phase, closed, aq>>
       ELSE /\ Close(s)
            /\ phase' = [phase EXCEPT ![s] = "dying"]
            /\ UNCHANGED <<kcnt, due>>
    /\ UNCHANGED <<cookieVars, ns, sxid, spid, scookie, joined, npk, regVars, bridge>>

\* Mutant: one keepalive too many before the timeout.
ManageTickOffByOne(s) ==
    /\ phase[s] = "alive"
    /\ closed[s] \/ due[s]
    /\ IF closed[s]
       THEN /\ phase' = [phase EXCEPT ![s] = "dying"]
            /\ UNCHANGED <<closed, kcnt, due, aq>>
       ELSE IF kcnt[s] <= MaxKeepalive
       THEN /\ kcnt' = [kcnt EXCEPT ![s] = @ + 1]
            /\ due' = [due EXCEPT ![s] = FALSE]
            /\ UNCHANGED <<phase, closed, aq>>
       ELSE /\ Close(s)
            /\ phase' = [phase EXCEPT ![s] = "dying"]
            /\ UNCHANGED <<kcnt, due>>
    /\ UNCHANGED <<cookieVars, ns, sxid, spid, scookie, joined, npk, regVars, bridge>>

\* Session.Manage on the manage loop: a closed session returns true; when
\* heartbeat seconds passed, a keepalive is sent, or after MaxKeepalive of
\* them the session is closed and returns true.  Returning true starts the
\* loop's deletion of the session from the registry.
ManageTick(s) ==
    /\ phase[s] = "alive"
    /\ closed[s] \/ due[s]
    /\ IF closed[s]
       THEN /\ phase' = [phase EXCEPT ![s] = "dying"]
            /\ UNCHANGED <<closed, kcnt, due, aq>>
       ELSE IF kcnt[s] < MaxKeepalive
       THEN /\ kcnt' = [kcnt EXCEPT ![s] = @ + 1]
            /\ due' = [due EXCEPT ![s] = FALSE]
            /\ UNCHANGED <<phase, closed, aq>>
       ELSE /\ Close(s)
            /\ phase' = [phase EXCEPT ![s] = "dying"]
            /\ UNCHANGED <<kcnt, due>>
    /\ UNCHANGED <<cookieVars, ns, sxid, spid, scookie, joined, npk, regVars, bridge>>

\* The manage loop after Manage returned true: delSessionByXid(s.xid) ...
DelXid(s) ==
    /\ phase[s] = "dying"
    /\ xidmap' = [xidmap EXCEPT ![sxid[s]] = None]
    /\ phase' = [phase EXCEPT ![s] = "unindexed"]
    /\ UNCHANGED <<cookieVars, ns, sxid, spid, scookie, joined, closed, kcnt,
                   due, npk, pidmap, lastxid, aq, bridge>>

\* ... then delSessionByPid(s.pid), and the session leaves the alive list.
DelPid(s) ==
    /\ phase[s] = "unindexed"
    /\ pidmap' = [pidmap EXCEPT ![spid[s]] = None]
    /\ phase' = [phase EXCEPT ![s] = "gone"]
    /\ UNCHANGED <<cookieVars, ns, sxid, spid, scookie, joined, closed, kcnt,
                   due, npk, xidmap, lastxid, aq, bridge>>

\* The cookie store's expiry loop: a cookie older than five minutes goes.
Expire(c) ==
    /\ c \in store
    /\ store' = store \ {c}
    /\ UNCHANGED <<nc, owner, cxid, sessVars, regVars, aq, bridge>>

\* An async worker runs the head of its queue: the tcp client sends it.
Worker(q) ==
    /\ aq[q] # <<>>
    /\ bridge' = Append(bridge, Head(aq[q]))
    /\ aq' = [aq EXCEPT ![q] = Tail(@)]
    /\ UNCHANGED <<cookieVars, sessVars, regVars>>

Next ==
    \/ \E p \in Pids : Hello(p)
    \/ \E c \in Cks : Assign(c) \/ Expire(c)
    \/ \E s \in Sess :
          \/ CreateDone(s) \/ Elapse(s) \/ ManageTick(s) \/ DelXid(s) \/ DelPid(s)
          \/ \E closes \in BOOLEAN : Packet(s, closes)
    \/ \E q \in DOMAIN aq : Worker(q)

Spec == Init /\ [][Next]_vars

\* The code's own threads are fair: a Create in progress completes, the
\* manage loops tick every session and finish their deletions, the clock
\* runs, and the async workers drain their queues.  Clients are not.
FairSpec ==
    /\ Spec
    /\ \A s \in Sess : /\ WF_vars(CreateDone(s)) /\ WF_vars(Elapse(s))
                       /\ WF_vars(ManageTick(s)) /\ WF_vars(DelXid(s))
                       /\ WF_vars(DelPid(s))
    /\ \A q \in 0..(NumQueues - 1) : WF_vars(Worker(q))

-----------------------------------------------------------------------------
(* Properties. *)

TypeOK ==
    /\ store \subseteq Cks /\ nc \in 0..MaxCookies
    /\ owner \in [Cks -> Pids] /\ cxid \in [Cks -> 0..(XidMod - 1)]
    /\ ns \in 0..MaxSessions /\ phase \in [Sess -> Phases]
    /\ sxid \in [Sess -> 0..(XidMod - 1)] /\ spid \in [Sess -> Pids]
    /\ scookie \in [Sess -> 0..MaxCookies]
    /\ joined \in [Sess -> BOOLEAN] /\ closed \in [Sess -> BOOLEAN]
    /\ kcnt \in [Sess -> 0..MaxKeepalive] /\ due \in [Sess -> BOOLEAN]
    /\ npk \in [Sess -> 0..MaxPackets]
    /\ xidmap \in [Xids -> 0..MaxSessions] /\ pidmap \in [Pids -> 0..MaxSessions]
    /\ lastxid \in 0..(XidMod - 1)
    /\ bridge \in Seq([kind : {"join", "exit"}, sess : Sess])

\* FindByXid finds every session from the start of Create until the manage
\* loop deletes it, and only that session, even after the xid space wraps
\* around and xids of deleted sessions are handed out again (Create's xid
\* loop and the manage loop's delSessionByXid).
XidIndexed ==
    \A s \in Sess : phase[s] \in {"creating", "alive", "dying"} => xidmap[sxid[s]] = s

\* One cookie makes at most one session, however often the client repeats
\* its Assign (handleAssign's cookie.Xid check under the cookie lock).
AssignOnce ==
    \A s, t \in Sess : phase[s] # "none" /\ phase[t] # "none" /\ s # t
                       => scookie[s] # scookie[t]

\* The bridge hears of each session in order: a join (the first packet)
\* before an exit (Close), each at most once, an exit without a join only
\* for a session closed before any packet (rpc.Join and rpc.Exit queued
\* on the async group of the session's xid).
RpcOrdered ==
    \A s \in Sess :
       LET kinds == [i \in 1..Len(bridge) |-> bridge[i].kind]
           mine == {i \in 1..Len(bridge) : bridge[i].sess = s}
           seq == [j \in 1..Cardinality(mine) |->
                     kinds[CHOOSE i \in mine : Cardinality({k \in mine : k <= i}) = j]]
       IN  seq \in {<<>>, <<"join">>, <<"join", "exit">>, <<"exit">>}

\* Every session the registry takes in is eventually closed, deleted from
\* both indexes and the manage list, and its exit reaches the bridge: a
\* client that goes silent is timed out by the keepalive count.
Retired ==
    \A s \in Sess : (phase[s] = "alive") ~>
        (phase[s] = "gone" /\ \E i \in 1..Len(bridge) : bridge[i] = [kind |-> "exit", sess |-> s])

\* Spec (session registry invariant): a live session is registered in the
\* pid index; at the least, FindByPid finds a live session for every pid
\* that has one (Create's addSessionByPid and the manage loop's
\* delSessionByPid).
PidIndexed ==
    \A p \in Pids :
       (\E s \in Sess : phase[s] = "alive" /\ ~closed[s] /\ spid[s] = p)
         => pidmap[p] # None

=============================================================================
