---------------------------- MODULE Publications ---------------------------
(***************************************************************************)
(* The publication router (session/streams.go) and the stream handlers    *)
(* that use it (session/stream.go): play, publish, closeStream, the        *)
(* handler's OnClose when its session closes, and the fan-out of a         *)
(* publisher's data and of the publish/unpublish notifications through    *)
(* the async work queues (async/async.go).                                *)
(*                                                                         *)
(* One stream name.  Publication objects are numbered in the order        *)
(* newPublication creates them.  A handler's command runs under its        *)
(* session's lock, but newPublication, start/add, remove and stop each     *)
(* take only the bucket or the publication lock, so other sessions run    *)
(* between them: onPlay and onPublish are two steps, before and after     *)
(* newPublication.  A fan-out closure runs one subscriber call at a time, *)
(* each under that subscriber's session lock.                             *)
(***************************************************************************)
EXTENDS Naturals, Sequences, SequencesExt

CONSTANTS
    Handlers,   \* stream handlers, one per session
    MaxPubs,    \* most publication objects created
    MaxMsgs,    \* most data messages published
    NumQueues   \* async work queues (32 in the code)

None == 0
Pubs == 1..MaxPubs
Queues == 0..(NumQueues - 1)
Kinds == {"data", "publishNotify", "unpublishNotify"}
Closure == [kind : Kinds, p : Pubs, m : 0..MaxMsgs]

VARIABLES
    np,        \* publications created so far
    pubmap,    \* the bucket's pubmap entry for the name: a publication or None
    pclosed,   \* p.closed
    master,    \* p.master
    slaves,    \* p.slaves, most recent first
    pq,        \* p.gid % 32: the queue of the publication's closures
    play,      \* h.play.p
    publish,   \* h.publish.p
    hclosed,   \* the handler's session is closed
    pc,        \* "idle", or the command between newPublication and start/add
    found,     \* the publication newPublication returned to that command
    since,     \* history: messages published when h started playing
    nm,        \* data messages published so far
    pubOf,     \* history: the publication of each message
    aq,        \* async queues of closures
    run,       \* per queue: the closure being run and the slaves left to call
    recv       \* history: per handler, the fan-out calls that reached it

pubVars == <<np, pubmap, pclosed, master, slaves, pq>>
hVars == <<play, publish, hclosed, pc, found, since>>
vars == <<pubVars, hVars, nm, pubOf, aq, run, recv>>

Init ==
    /\ np = 0 /\ pubmap = None
    /\ pclosed = [p \in Pubs |-> FALSE]
    /\ master = [p \in Pubs |-> None]
    /\ slaves = [p \in Pubs |-> <<>>]
    /\ pq = [p \in Pubs |-> 0]
    /\ play = [h \in Handlers |-> None]
    /\ publish = [h \in Handlers |-> None]
    /\ hclosed = [h \in Handlers |-> FALSE]
    /\ pc = [h \in Handlers |-> "idle"]
    /\ found = [h \in Handlers |-> None]
    /\ since = [h \in Handlers |-> 0]
    /\ nm = 0
    /\ pubOf = [m \in 1..MaxMsgs |-> None]
    /\ aq = [q \in Queues |-> <<>>]
    /\ run = [q \in Queues |-> <<>>]
    /\ recv = [h \in Handlers |-> <<>>]

Without(l, h) == SelectSeq(l, LAMBDA o : o # h)

\* async.Call(p.gid, f)
Enqueue(q, c) == [aq EXCEPT ![q] = Append(@, c)]

-----------------------------------------------------------------------------
(* The router and the handlers. *)

\* Mutants: remove closes the publication without looking at its master;
\* the unpublish notification goes to another queue than p.gid's.
DisengageIgnoresMaster(h) ==
    LET pp == play[h]
        pb == publish[h]
        removing == pp # None /\ ~pclosed[pp]
        sl == IF removing THEN [slaves EXCEPT ![pp] = Without(@, h)] ELSE slaves
        emptied == removing /\ sl[pp] = <<>>
        stopping == pb # None /\ ~pclosed[pb]
    IN  [slaves |-> sl,
         pclosed |-> [p \in Pubs |-> pclosed[p] \/ (emptied /\ p = pp) \/ (stopping /\ p = pb)],
         pubmap |-> IF emptied \/ stopping THEN None ELSE pubmap,
         play |-> [play EXCEPT ![h] = None],
         publish |-> [publish EXCEPT ![h] = None],
         aq |-> IF pb # None
                THEN Enqueue(pq[pb], [kind |-> "unpublishNotify", p |-> pb, m |-> 0])
                ELSE aq]

DisengageNotifyElsewhere(h) ==
    LET pp == play[h]
        pb == publish[h]
        removing == pp # None /\ ~pclosed[pp]
        sl == IF removing THEN [slaves EXCEPT ![pp] = Without(@, h)] ELSE slaves
        emptied == removing /\ master[pp] = None /\ sl[pp] = <<>>
        stopping == pb # None /\ ~pclosed[pb]
    IN  [slaves |-> sl,
         pclosed |-> [p \in Pubs |-> pclosed[p] \/ (emptied /\ p = pp) \/ (stopping /\ p = pb)],
         pubmap |-> IF emptied \/ stopping THEN None ELSE pubmap,
         play |-> [play EXCEPT ![h] = None],
         publish |-> [publish EXCEPT ![h] = None],
         aq |-> IF pb # None
                THEN Enqueue((pq[pb] + 1) % NumQueues, [kind |-> "unpublishNotify", p |-> pb, m |-> 0])
                ELSE aq]

\* streamHandler.disenage: a player leaves its publication (remove, which
\* closes and unregisters it once it has neither master nor slaves); a
\* publisher stops its publication (stop) and queues the unpublish
\* notification of its players.  The result is the state after it.
Disengage(h) ==
    LET pp == play[h]
        pb == publish[h]
        removing == pp # None /\ ~pclosed[pp]
        sl == IF removing THEN [slaves EXCEPT ![pp] = Without(@, h)] ELSE slaves
        emptied == removing /\ master[pp] = None /\ sl[pp] = <<>>
        stopping == pb # None /\ ~pclosed[pb]
    IN  [slaves |-> sl,
         pclosed |-> [p \in Pubs |-> pclosed[p] \/ (emptied /\ p = pp) \/ (stopping /\ p = pb)],
         pubmap |-> IF emptied \/ stopping THEN None ELSE pubmap,
         play |-> [play EXCEPT ![h] = None],
         publish |-> [publish EXCEPT ![h] = None],
         aq |-> IF pb # None
                THEN Enqueue(pq[pb], [kind |-> "unpublishNotify", p |-> pb, m |-> 0])
                ELSE aq]

ApplyDisengage(d) ==
    /\ slaves' = d.slaves /\ pclosed' = d.pclosed
    /\ play' = d.play /\ publish' = d.publish /\ aq' = d.aq

\* Mutant: newPublication without the p == nil check: every lookup makes
\* and registers a new publication.
BeginAlwaysNew(h, cmd) ==
    /\ pc[h] = "idle" /\ ~hclosed[h]
    /\ LET d == Disengage(h) IN
       /\ d.pubmap # None \/ np < MaxPubs
       /\ ApplyDisengage(d)
       /\ np' = np + 1
       /\ pubmap' = np + 1
       /\ found' = [found EXCEPT ![h] = np + 1]
       /\ \E q \in Queues : pq' = [pq EXCEPT ![np + 1] = q]
    /\ pc' = [pc EXCEPT ![h] = cmd]
    /\ UNCHANGED <<master, hclosed, since, nm, pubOf, run, recv>>

\* onPlay / onPublish up to newPublication: disengage, then look the name
\* up in its bucket, creating and registering a publication (with the
\* queue of its gid = now) when there is none.
Begin(h, cmd) ==
    /\ pc[h] = "idle" /\ ~hclosed[h]
    /\ LET d == Disengage(h) IN
       /\ d.pubmap # None \/ np < MaxPubs
       /\ ApplyDisengage(d)
       /\ IF d.pubmap # None
          THEN /\ found' = [found EXCEPT ![h] = d.pubmap]
               /\ pubmap' = d.pubmap
               /\ UNCHANGED <<np, pq>>
          ELSE /\ np' = np + 1
               /\ pubmap' = np + 1
               /\ found' = [found EXCEPT ![h] = np + 1]
               /\ \E q \in Queues : pq' = [pq EXCEPT ![np + 1] = q]
    /\ pc' = [pc EXCEPT ![h] = cmd]
    /\ UNCHANGED <<master, hclosed, since, nm, pubOf, run, recv>>

\* The rest of onPlay: p.add(h) puts h first in a fresh copy of the slave
\* list; on success h plays p, else Play.Failed.
PlayEnd(h) ==
    /\ pc[h] = "play"
    /\ LET p == found[h] IN
       IF ~pclosed[p]
       THEN /\ slaves' = [slaves EXCEPT ![p] = <<h>> \o Without(@, h)]
            /\ play' = [play EXCEPT ![h] = p]
            /\ since' = [since EXCEPT ![h] = nm]
       ELSE UNCHANGED <<slaves, play, since>>
    /\ pc' = [pc EXCEPT ![h] = "idle"]
    /\ UNCHANGED <<np, pubmap, pclosed, master, pq, publish, hclosed, found, nm, pubOf, aq, run, recv>>

\* The rest of onPublish: p.start(h) succeeds when p is open and has no
\* master; then h publishes p and the players are notified through p's
\* queue, else Publish.BadName.
PublishEnd(h) ==
    /\ pc[h] = "publish"
    /\ LET p == found[h] IN
       IF ~pclosed[p] /\ master[p] = None
       THEN /\ master' = [master EXCEPT ![p] = h]
            /\ publish' = [publish EXCEPT ![h] = p]
            /\ aq' = Enqueue(pq[p], [kind |-> "publishNotify", p |-> p, m |-> 0])
       ELSE UNCHANGED <<master, publish, aq>>
    /\ pc' = [pc EXCEPT ![h] = "idle"]
    /\ UNCHANGED <<np, pubmap, pclosed, slaves, pq, play, hclosed, found, since, nm, pubOf, run, recv>>

\* onCloseStream: disengage.
CloseStream(h) ==
    /\ pc[h] = "idle" /\ ~hclosed[h]
    /\ play[h] # None \/ publish[h] # None
    /\ ApplyDisengage(Disengage(h)) /\ pubmap' = Disengage(h).pubmap
    /\ UNCHANGED <<np, master, pq, hclosed, pc, found, since, nm, pubOf, run, recv>>

\* The session closes: Session.Close calls the handler's OnClose, which
\* disengages it.
OnClose(h) ==
    /\ pc[h] = "idle" /\ ~hclosed[h]
    /\ ApplyDisengage(Disengage(h)) /\ pubmap' = Disengage(h).pubmap
    /\ hclosed' = [hclosed EXCEPT ![h] = TRUE]
    /\ UNCHANGED <<np, master, pq, pc, found, since, nm, pubOf, run, recv>>

\* Mutant: each data message is queued by its own gid, not p.gid.
DataPerMessageQueue(h) ==
    /\ pc[h] = "idle" /\ ~hclosed[h]
    /\ publish[h] # None
    /\ nm < MaxMsgs
    /\ nm' = nm + 1
    /\ pubOf' = [pubOf EXCEPT ![nm + 1] = publish[h]]
    /\ aq' = Enqueue((pq[publish[h]] + nm) % NumQueues, [kind |-> "data", p |-> publish[h], m |-> nm + 1])
    /\ UNCHANGED <<pubVars, hVars, run, recv>>

\* onDefault on a publisher: the data message is queued on p's queue.
Data(h) ==
    /\ pc[h] = "idle" /\ ~hclosed[h]
    /\ publish[h] # None
    /\ nm < MaxMsgs
    /\ nm' = nm + 1
    /\ pubOf' = [pubOf EXCEPT ![nm + 1] = publish[h]]
    /\ aq' = Enqueue(pq[publish[h]], [kind |-> "data", p |-> publish[h], m |-> nm + 1])
    /\ UNCHANGED <<pubVars, hVars, run, recv>>

-----------------------------------------------------------------------------
(* The fan-out closures on the async workers. *)

\* A worker takes the closure at the head of its queue and reads p.list():
\* the slave list and !p.closed.  A data closure with a closed publication
\* does nothing; a notification goes ahead either way.
WorkerStart(q) ==
    /\ run[q] = <<>>
    /\ aq[q] # <<>>
    /\ LET c == Head(aq[q])
           l == slaves[c.p]
       IN  run' = [run EXCEPT ![q] =
                     IF (c.kind = "data" /\ pclosed[c.p]) \/ l = <<>> THEN <<>>
                     ELSE <<[kind |-> c.kind, p |-> c.p, m |-> c.m, rest |-> l]>>]
    /\ aq' = [aq EXCEPT ![q] = Tail(@)]
    /\ UNCHANGED <<pubVars, hVars, nm, pubOf, recv>>

\* The closure's call for the next slave x, under x's session lock: unless
\* the session is closed or x no longer plays p, the data goes to x's
\* writer (AddFragments) or the notification is sent to it.
WorkerCall(q) ==
    /\ run[q] # <<>>
    /\ LET r == run[q][1]
           x == Head(r.rest)
       IN  /\ pc[x] = "idle"
           /\ recv' = IF ~hclosed[x] /\ play[x] = r.p
                      THEN [recv EXCEPT ![x] = Append(@, [kind |-> r.kind, p |-> r.p, m |-> r.m])]
                      ELSE recv
           /\ run' = [run EXCEPT ![q] = IF Tail(r.rest) = <<>> THEN <<>>
                                        ELSE <<[r EXCEPT !.rest = Tail(@)]>>]
    /\ UNCHANGED <<pubVars, hVars, nm, pubOf, aq>>

Next ==
    \/ \E h \in Handlers :
          \/ Begin(h, "play") \/ Begin(h, "publish")
          \/ PlayEnd(h) \/ PublishEnd(h)
          \/ CloseStream(h) \/ OnClose(h) \/ Data(h)
    \/ \E q \in Queues : WorkerStart(q) \/ WorkerCall(q)

Spec == Init /\ [][Next]_vars

-----------------------------------------------------------------------------
(* Properties. *)

Event == [kind : Kinds, p : Pubs, m : 0..MaxMsgs]

TypeOK ==
    /\ np \in 0..MaxPubs /\ pubmap \in 0..MaxPubs
    /\ pclosed \in [Pubs -> BOOLEAN] /\ master \in [Pubs -> Handlers \cup {None}]
    /\ \A p \in Pubs : slaves[p] \in Seq(Handlers) /\ Len(slaves[p]) <= Cardinality(Handlers)
    /\ pq \in [Pubs -> Queues]
    /\ play \in [Handlers -> 0..MaxPubs] /\ publish \in [Handlers -> 0..MaxPubs]
    /\ hclosed \in [Handlers -> BOOLEAN] /\ pc \in [Handlers -> {"idle", "play", "publish"}]
    /\ found \in [Handlers -> 0..MaxPubs] /\ since \in [Handlers -> 0..MaxMsgs]
    /\ nm \in 0..MaxMsgs /\ pubOf \in [1..MaxMsgs -> 0..MaxPubs]
    /\ \A q \in Queues : aq[q] \in Seq(Closure) /\ Len(run[q]) <= 1
    /\ \A h \in Handlers : recv[h] \in Seq(Event)

\* Every subscriber gets the data of the publications it plays in the order
\* the publishers sent it, each message at most once (one async queue per
\* publication, a slave list without duplicates, the play.p check).
FanOutOrdered ==
    \A h \in Handlers : \A i, j \in DOMAIN recv[h] :
        (i < j /\ recv[h][i].kind = "data" /\ recv[h][j].kind = "data")
          => recv[h][i].m < recv[h][j].m

\* What a subscriber hears of one publication is framed by its
\* notifications: the publish notification, if it comes, comes first, and
\* nothing comes after the unpublish notification (start and stop queue
\* them on the publication's queue, behind or ahead of its data).
NotificationsFrame ==
    \A h \in Handlers : \A i, j \in DOMAIN recv[h] :
        (i < j /\ recv[h][i].p = recv[h][j].p)
          => /\ recv[h][i].kind # "unpublishNotify"
             /\ recv[h][j].kind # "publishNotify"

\* At most one handler publishes the name at a time: start refuses a
\* second master, and a publication with a master is neither closed by
\* remove nor replaced in the bucket.
SinglePublisher ==
    \A g, h \in Handlers : g # h => (publish[g] = None \/ publish[h] = None)

\* onPublish answers NetStream.Publish.BadName (start refused) only when
\* the name is published by someone else: a free name is never refused
\* to a publisher, whatever players do between its newPublication and its
\* start.
BadNameOnlyWhenTaken ==
    [][\A h \in Handlers :
         (PublishEnd(h) /\ publish'[h] = None) => \E g \in Handlers \ {h} : publish[g] # None]_vars

Quiescent == \A q \in Queues : aq[q] = <<>> /\ run[q] = <<>>

\* Spec (fan-out): once the queues are idle, every subscriber still
\* playing a publication has received every data message the publisher
\* sent on it after the subscriber started playing (onDefault's closure,
\* which tests !p.closed when it runs).
DataReachesPlayers ==
    Quiescent =>
      \A h \in Handlers, m \in 1..nm :
         (pubOf[m] = play[h] /\ ~hclosed[h] /\ m > since[h])
           => \E i \in DOMAIN recv[h] : recv[h][i].kind = "data" /\ recv[h][i].m = m

=============================================================================
