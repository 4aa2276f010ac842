--------------------------- MODULE InspectorSync ---------------------------
(***************************************************************************)
(* How an inspector follows the daemon: the live table and the event bus   *)
(* of src/ipc/server.rs, the reducer of src/inspector/state.rs and the     *)
(* start-up and refresh of rust-shark-app/src/inspect/mod.rs.              *)
(*                                                                         *)
(* The worker changes the live table first and broadcasts the event        *)
(* afterwards, without holding a lock in between; so it does with the      *)
(* alerts of one packet, which it commits together and broadcasts one by   *)
(* one.                                                                    *)
(* An inspector queries the tables on one connection, then subscribes on   *)
(* another.  An event passes the subscriber's bounded queue, then its      *)
(* handler thread, the socket, the reader thread and an unbounded channel  *)
(* (inbox).  A query blocks the inspector, so its answer is taken and      *)
(* applied in one step.                                                    *)
(***************************************************************************)
EXTENDS Integers, Sequences, FiniteSets

CONSTANTS
    Inspectors,  \* inspector processes
    Suspended,   \* those that are suspended while they run: what is written to
                 \* them is not read, and their handler threads block
    Cap,         \* capacity of a subscriber's queue (1024)
    FeedCap,     \* MAX_ALERTS, alerts an inspector keeps
    QueryLimit,  \* alerts an inspector asks for when it starts (200)
    MaxAlerts,   \* alerts one packet may raise: one per detector
    Times,       \* times of packets, which may go back
    MaxIds,      \* bound of the model: connections opened
    MaxEvents    \* bound of the model: events broadcast before the worker
                 \* stops taking up something new

ASSUME SyncAssumption ==
    /\ Suspended \subseteq Inspectors
    /\ Cap \in Nat \ {0} /\ FeedCap \in Nat \ {0}
    /\ QueryLimit \in 0..FeedCap
    /\ MaxAlerts \in Nat \ {0} /\ Times \subseteq Int
    /\ MaxIds \in Nat /\ MaxEvents \in Nat

VARIABLES
    up,          \* the daemon runs
    live,        \* LiveState: connection id -> version of its DTO
    opened,      \* connections opened so far
    alerts,      \* alerts in the store, in the order of their rows: the number
                 \* of the observation that raised each and its packet's time
    out,         \* what the worker is about to broadcast, in order
    log,         \* events broadcast so far (history variable)
    subs,        \* Bus.subs: subscribers whose queue the bus holds
    queue,       \* per subscriber: the bounded queue
    inbox,       \* per inspector: events its handler thread has written
    pc,          \* per inspector: what it does next
    view,        \* InspectorApp.conns
    feed,        \* InspectorApp.alerts, newest first
    connected,   \* InspectorApp.connected
    applied,     \* events applied so far (history variable)
    joined,      \* Len(log) when the inspector subscribed (history variable)
    dropped,     \* a full queue has cost it an event (history variable)
    stale        \* its tables may lack an event it will never see (history
                 \* variable)

daemonVars == <<up, live, opened, alerts, out, log>>
inspectorVars == <<pc, view, feed, connected, applied, joined, dropped, stale>>
vars == <<daemonVars, subs, queue, inbox, inspectorVars>>

\* One event: Flow carries the whole DTO, here its version.
Flow(id, v) == [type |-> "flow", id |-> id, ver |-> v]
Closed(id) == [type |-> "closed", id |-> id, ver |-> 0]
Alert(n) == [type |-> "alert", id |-> n, ver |-> 0]
Beat == [type |-> "beat", id |-> 0, ver |-> 0]
Eof == [type |-> "eof", id |-> 0, ver |-> 0]

Put(f, k, v) == [x \in DOMAIN f \cup {k} |-> IF x = k THEN v ELSE f[x]]
Drop(f, k) == [x \in DOMAIN f \ {k} |-> f[x]]
FirstOf(s, n) == SubSeq(s, 1, IF Len(s) <= n THEN Len(s) ELSE n)

Obs(a) == alerts[a].obs
Time(a) == alerts[a].ts

\* What query_recent_alerts may answer: n alerts, or all, by their times, latest
\* first; nothing orders those of one time.
Recents(n) ==
    LET k == IF Len(alerts) <= n THEN Len(alerts) ELSE n
    IN  {f \in [1..k -> DOMAIN alerts] :
           /\ \A x, y \in 1..k : x < y => f[x] # f[y] /\ Time(f[x]) >= Time(f[y])
           /\ \A a \in DOMAIN alerts :
                (\A x \in 1..k : f[x] # a) => \A x \in 1..k : Time(f[x]) >= Time(a)}

-----------------------------------------------------------------------------
Init ==
    /\ up = TRUE
    /\ live = [k \in {} |-> 0]
    /\ opened = 0
    /\ alerts = <<>>
    /\ out = <<>>
    /\ log = <<>>
    /\ subs = Suspended
    /\ queue = [i \in Inspectors |-> <<>>]
    /\ inbox = [i \in Inspectors |-> <<>>]
    /\ pc = [i \in Inspectors |-> IF i \in Suspended THEN "run" ELSE "conns"]
    /\ view = [i \in Inspectors |-> [k \in {} |-> 0]]
    /\ feed = [i \in Inspectors |-> <<>>]
    /\ connected = [i \in Inspectors |-> TRUE]
    /\ applied = [i \in Inspectors |-> <<>>]
    /\ joined = [i \in Inspectors |-> 0]
    /\ dropped = [i \in Inspectors |-> FALSE]
    /\ stale = [i \in Inspectors |-> FALSE]

Free == up /\ out = <<>> /\ Len(log) < MaxEvents

\* handle_update, under the live lock: a new connection, or one more packet.
OpenConn ==
    /\ Free
    /\ opened < MaxIds
    /\ opened' = opened + 1
    /\ live' = Put(live, opened', 1)
    /\ out' = <<Flow(opened', 1)>>
    /\ UNCHANGED <<up, alerts, log, subs, queue, inbox, inspectorVars>>

UpdateConn(id) ==
    /\ Free
    /\ live' = [live EXCEPT ![id] = @ + 1]
    /\ out' = <<Flow(id, live'[id])>>
    /\ UNCHANGED <<up, opened, alerts, log, subs, queue, inbox, inspectorVars>>

\* Faulty variant: the entry stays in the live table.
CloseKeeping(id) ==
    /\ Free
    /\ out' = <<Closed(id)>>
    /\ UNCHANGED <<up, live, opened, alerts, log, subs, queue, inbox, inspectorVars>>

\* persist_closed, under the live lock.
CloseConn(id) ==
    /\ Free
    /\ live' = Drop(live, id)
    /\ out' = <<Closed(id)>>
    /\ UNCHANGED <<up, opened, alerts, log, subs, queue, inbox, inspectorVars>>

\* evaluate_full has committed the n alerts of one observation, in one
\* transaction; handle_update broadcasts them when it has let go of the store.
RaiseAlerts(n, t) ==
    /\ Free
    /\ LET obs == IF alerts = <<>> THEN 1 ELSE Obs(Len(alerts)) + 1
       IN  alerts' = alerts \o [k \in 1..n |-> [obs |-> obs, ts |-> t]]
    /\ out' = [k \in 1..n |-> Alert(Len(alerts) + k)]
    /\ UNCHANGED <<up, live, opened, log, subs, queue, inbox, inspectorVars>>

\* run_worker had nothing to do for 200 ms.
Heartbeat ==
    /\ Free
    /\ out' = <<Beat>>
    /\ UNCHANGED <<up, live, opened, alerts, log, subs, queue, inbox, inspectorVars>>

\* The handler thread of i still receives from its queue.
Listening(i) == pc[i] # "unheard"

\* try_send: a full queue loses the event.
Push(q, e) == IF Len(q) < Cap THEN Append(q, e) ELSE q

\* Faulty variant: a full queue stops the event for every subscriber.
BroadcastWhenRoom ==
    /\ up
    /\ out # <<>>
    /\ LET e == Head(out)
           full == {i \in subs : Listening(i) /\ Len(queue[i]) >= Cap}
       IN /\ log' = Append(log, e)
          /\ queue' = [i \in Inspectors |-> IF i \in subs /\ Listening(i) /\ full = {}
                                            THEN Push(queue[i], e) ELSE queue[i]]
          /\ dropped' = [i \in Inspectors |-> dropped[i] \/ i \in full]
          /\ stale' = [i \in Inspectors |-> stale[i] \/ i \in full
                                            \/ pc[i] \in {"alerts", "subscribe"}]
    /\ subs' = {i \in subs : Listening(i)}
    /\ out' = Tail(out)
    /\ UNCHANGED <<up, live, opened, alerts, inbox, pc, view, feed, connected,
                   applied, joined>>

\* Bus::broadcast, under the lock of subs: to every subscriber, and those whose
\* handler thread is gone are pruned.
Broadcast ==
    /\ up
    /\ out # <<>>
    /\ LET e == Head(out)
           full == {i \in subs : Listening(i) /\ Len(queue[i]) >= Cap}
       IN /\ log' = Append(log, e)
          /\ queue' = [i \in Inspectors |-> IF i \in subs /\ Listening(i)
                                            THEN Push(queue[i], e) ELSE queue[i]]
          /\ dropped' = [i \in Inspectors |-> dropped[i] \/ i \in full]
          /\ stale' = [i \in Inspectors |-> stale[i] \/ i \in full
                                            \/ pc[i] \in {"alerts", "subscribe"}]
    /\ subs' = {i \in subs : Listening(i)}
    /\ out' = Tail(out)
    /\ UNCHANGED <<up, live, opened, alerts, inbox, pc, view, feed, connected,
                   applied, joined>>

\* run_inspector: LiveConnections, then RecentAlerts, on the query connection.
QueryConns(i) ==
    /\ up
    /\ pc[i] = "conns"
    /\ view' = [view EXCEPT ![i] = live]
    /\ pc' = [pc EXCEPT ![i] = "alerts"]
    /\ UNCHANGED <<daemonVars, subs, queue, inbox, feed, connected, applied,
                   joined, dropped, stale>>

\* (An answer that is an error leaves the feed empty.)
QueryAlerts(i) ==
    /\ up
    /\ pc[i] = "alerts"
    /\ \E f \in Recents(QueryLimit) \cup {<<>>} : feed' = [feed EXCEPT ![i] = f]
    /\ pc' = [pc EXCEPT ![i] = "subscribe"]
    /\ UNCHANGED <<daemonVars, subs, queue, inbox, view, connected, applied,
                   joined, dropped, stale>>

\* Subscribe on the second connection.  The queue is registered before the
\* acknowledgement, so the inspector is not heard of without it.
Subscribe(i) ==
    /\ up
    /\ pc[i] = "subscribe"
    /\ subs' = subs \cup {i}
    /\ joined' = [joined EXCEPT ![i] = Len(log)]
    /\ pc' = [pc EXCEPT ![i] = "run"]
    /\ UNCHANGED <<daemonVars, queue, inbox, view, feed, connected, applied,
                   dropped, stale>>

\* The daemon ends after the second connection was made and before it
\* subscribes: the failed request is ignored and the reader meets the end.
SubscribeFails(i) ==
    /\ ~up
    /\ pc[i] = "subscribe"
    /\ inbox' = [inbox EXCEPT ![i] = <<Eof>>]
    /\ joined' = [joined EXCEPT ![i] = Len(log)]
    /\ pc' = [pc EXCEPT ![i] = "run"]
    /\ UNCHANGED <<daemonVars, subs, queue, view, feed, connected, applied,
                   dropped, stale>>

\* The daemon is gone before the inspector has started: requests on the query
\* connection fail one by one, connecting the second one ends run_inspector.
StartFails(i) ==
    /\ ~up
    /\ pc[i] \in {"conns", "alerts", "subscribe"}
    /\ pc' = [pc EXCEPT ![i] = "gone"]
    /\ UNCHANGED <<daemonVars, subs, queue, inbox, view, feed, connected,
                   applied, joined, dropped, stale>>

\* An inspector that runs and is scheduled.
Active(i) == pc[i] = "run" /\ i \notin Suspended

\* handle_conn's loop after Subscribe, the socket and the reader thread.
Forward(i) ==
    /\ up
    /\ Active(i)
    /\ queue[i] # <<>>
    /\ inbox' = [inbox EXCEPT ![i] = Append(@, Head(queue[i]))]
    /\ queue' = [queue EXCEPT ![i] = Tail(@)]
    /\ UNCHANGED <<daemonVars, subs, inspectorVars>>

\* InspectorApp::apply, on the connections and on the feed.
Reduce(conns, e) ==
    CASE e.type = "flow"   -> Put(conns, e.id, e.ver)
      [] e.type = "closed" -> Drop(conns, e.id)
      [] OTHER             -> conns

Enlist(f, e) == IF e.type = "alert" THEN FirstOf(<<e.id>> \o f, FeedCap) ELSE f

\* run_loop takes one message from its channel; the last one may be that the
\* daemon has closed the connection.
Apply(i) ==
    /\ Active(i)
    /\ inbox[i] # <<>>
    /\ LET e == Head(inbox[i])
       IN /\ view' = [view EXCEPT ![i] = Reduce(@, e)]
          /\ feed' = [feed EXCEPT ![i] = Enlist(@, e)]
          /\ connected' = [connected EXCEPT ![i] = @ /\ e # Eof]
          /\ applied' = [applied EXCEPT ![i] = IF e = Eof THEN @ ELSE Append(@, e)]
    /\ inbox' = [inbox EXCEPT ![i] = Tail(@)]
    /\ UNCHANGED <<daemonVars, subs, queue, pc, joined, dropped, stale>>

InFlight(i) == out # <<>> \/ queue[i] # <<>> \/ inbox[i] # <<>>

\* Ui::refresh (key r): the answer replaces the connections, whatever is
\* queued.
Refresh(i) ==
    /\ up
    /\ Active(i)
    /\ view' = [view EXCEPT ![i] = live]
    /\ stale' = [stale EXCEPT ![i] = @ /\ InFlight(i)]
    /\ UNCHANGED <<daemonVars, subs, queue, inbox, pc, feed, connected, applied,
                   joined, dropped>>

\* The user quits, or the inspector is killed.
Quit(i) ==
    /\ pc[i] = "run"
    /\ pc' = [pc EXCEPT ![i] = "gone"]
    /\ inbox' = [inbox EXCEPT ![i] = <<>>]
    /\ UNCHANGED <<daemonVars, subs, queue, view, feed, connected, applied,
                   joined, dropped, stale>>

\* The handler thread of an inspector that quit fails to write the next event
\* and drops its end of the queue.
HandlerEnds(i) ==
    /\ up
    /\ pc[i] = "gone" /\ queue[i] # <<>>
    /\ queue' = [queue EXCEPT ![i] = <<>>]
    /\ pc' = [pc EXCEPT ![i] = "unheard"]
    /\ UNCHANGED <<daemonVars, subs, inbox, view, feed, connected, applied,
                   joined, dropped, stale>>

\* Faulty variants: the end of the stream overtakes events that were written,
\* or is not told at all (a read of zero bytes is taken for an idle daemon).
ExitAhead ==
    /\ up
    /\ up' = FALSE
    /\ out' = <<>>
    /\ subs' = {}
    /\ queue' = [i \in Inspectors |-> <<>>]
    /\ inbox' = [i \in Inspectors |-> IF pc[i] = "run" THEN <<Eof>> \o inbox[i]
                                      ELSE inbox[i]]
    /\ UNCHANGED <<live, opened, alerts, log, inspectorVars>>

ExitUntold ==
    /\ up
    /\ up' = FALSE
    /\ out' = <<>>
    /\ subs' = {}
    /\ queue' = [i \in Inspectors |-> <<>>]
    /\ UNCHANGED <<live, opened, alerts, log, inbox, inspectorVars>>

\* The daemon's process ends with all its threads: what was queued is lost, the
\* sockets close after what was written.
DaemonExits ==
    /\ up
    /\ up' = FALSE
    /\ out' = <<>>
    /\ subs' = {}
    /\ queue' = [i \in Inspectors |-> <<>>]
    /\ inbox' = [i \in Inspectors |-> IF pc[i] = "run" THEN Append(inbox[i], Eof)
                                      ELSE inbox[i]]
    /\ UNCHANGED <<live, opened, alerts, log, inspectorVars>>

Worker ==
    \/ OpenConn
    \/ \E id \in DOMAIN live : UpdateConn(id) \/ CloseConn(id)
    \/ \E n \in 1..MaxAlerts, t \in Times : RaiseAlerts(n, t)
    \/ Heartbeat

Inspector(i) ==
    \/ QueryConns(i)
    \/ QueryAlerts(i)
    \/ Subscribe(i)
    \/ SubscribeFails(i)
    \/ StartFails(i)
    \/ Refresh(i)
    \/ Quit(i)

Next ==
    \/ Worker
    \/ Broadcast
    \/ \E i \in Inspectors : Inspector(i) \/ Forward(i) \/ Apply(i) \/ HandlerEnds(i)
    \/ DaemonExits

Spec == Init /\ [][Next]_vars

\* The threads that move events are scheduled: the worker between its update
\* and the broadcast, each handler and each inspector's event loop.
FairSpec ==
    /\ Spec
    /\ WF_vars(Broadcast)
    /\ \A i \in Inspectors : WF_vars(Forward(i)) /\ WF_vars(Apply(i))
                             /\ WF_vars(HandlerEnds(i))

-----------------------------------------------------------------------------
(***************************************************************************)
(* Properties.                                                             *)
(***************************************************************************)
States == {"conns", "alerts", "subscribe", "run", "gone", "unheard"}
Events == [type : {"flow", "closed", "alert", "beat", "eof"}, id : Nat, ver : Nat]

SyncTypeOK ==
    /\ up \in BOOLEAN
    /\ DOMAIN live \subseteq 1..opened /\ opened \in 0..MaxIds
    /\ alerts \in Seq([obs : Nat, ts : Times])
    /\ out \in Seq(Events) /\ Len(out) <= MaxAlerts /\ log \in Seq(Events)
    /\ subs \subseteq Inspectors
    /\ \A i \in Inspectors :
         /\ queue[i] \in Seq(Events) /\ Len(queue[i]) <= Cap
         /\ inbox[i] \in Seq(Events)
         /\ pc[i] \in States
         /\ feed[i] \in Seq(DOMAIN alerts) /\ Len(feed[i]) <= FeedCap
         /\ connected[i] \in BOOLEAN /\ dropped[i] \in BOOLEAN /\ stale[i] \in BOOLEAN

\* The events of s are events of t, in t's order.
IsSubsequence(s, t) ==
    \E at \in [DOMAIN s -> DOMAIN t] :
        /\ \A m, n \in DOMAIN s : m < n => at[m] < at[n]
        /\ \A n \in DOMAIN s : s[n] = t[at[n]]

\* What was written to i and not read yet, but for the end of the stream.
Unread(i) ==
    IF inbox[i] # <<>> /\ inbox[i][Len(inbox[i])] = Eof
    THEN SubSeq(inbox[i], 1, Len(inbox[i]) - 1) ELSE inbox[i]

Received(i) == applied[i] \o Unread(i) \o queue[i]

Since(i) == SubSeq(log, joined[i] + 1, Len(log))

\* "Subscribe before acking so no events are missed after the ack"
\* (handle_conn): a subscriber that never filled its queue has every event
\* since it subscribed, once and in order; a slow one has some of them, in
\* order, and costs no other subscriber any (Bus).  When the daemon has ended
\* all that was written is still read, and nothing that was not sent.
StreamExact ==
    \A i \in Inspectors : pc[i] = "run" =>
        /\ up /\ ~dropped[i] => Received(i) = Since(i)
        /\ IsSubsequence(Received(i), Since(i))

\* An inspector that lacks no event and has applied all it was sent shows the
\* live table (run_inspector, InspectorApp::apply, Ui::refresh).
ViewConverges ==
    \A i \in Inspectors :
        up /\ pc[i] = "run" /\ ~stale[i] /\ ~InFlight(i) => view[i] = live

Repeated(f) == {f[n] : n \in {n \in DOMAIN f : \E m \in 1..(n - 1) : f[m] = f[n]}}

\* The feed is newest first whatever was queried and what was streamed: what is
\* above is of no earlier observation, or of no earlier time as the store sorts.
\* An alert may be in it twice, when it was committed before the inspector asked
\* and broadcast after it subscribed, but never three times, and all that are
\* there twice are of one observation.
FeedNewestFirst ==
    \A i \in Inspectors :
        LET f == feed[i]
        IN  /\ \A m, n \in DOMAIN f :
                 m < n => Obs(f[m]) >= Obs(f[n]) \/ Time(f[m]) >= Time(f[n])
            /\ \A l, m, n \in DOMAIN f : l < m /\ m < n => ~(f[l] = f[m] /\ f[m] = f[n])
            /\ \A a, b \in Repeated(f) : Obs(a) = Obs(b)

\* An inspector that outlives the daemon says so, and only then
\* (set_disconnected); it has applied all events that were written to it.
DisconnectTold ==
    \A i \in Inspectors : ~connected[i] => ~up /\ inbox[i] = <<>>

\* What an inspector holds, whatever it has missed: types, with its queue and
\* feed within their bounds, a feed in order, and the truth about the daemon.
SyncInv == SyncTypeOK /\ FeedNewestFirst /\ DisconnectTold

\* Events reach every inspector that keeps running; so does the daemon's end.
AllDelivered ==
    <>[](\A i \in Inspectors : Active(i) => ~InFlight(i))

\* (set_disconnected, at the end of the stream.)
DisconnectNoticed ==
    \A i \in Inspectors : ~up /\ Active(i) ~> ~connected[i] \/ pc[i] # "run"

\* Whatever the daemon sent or stopped sending is shown in the end.
EventuallyShown == AllDelivered /\ DisconnectNoticed
=============================================================================
