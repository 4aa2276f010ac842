------------------------------ MODULE Monitor ------------------------------
(***************************************************************************)
(* The worker thread of the monitor daemon                                 *)
(* (src/monitor/correlate.rs) over the flow table of FlowTracker.  One     *)
(* packet is one pass through the loop of run_worker; the pass is split    *)
(* where it touches state that other threads see: the store, the live      *)
(* table and the event bus.                                                *)
(*                                                                         *)
(* Alerts are the subject of AlertEngine: here an evaluation only decides  *)
(* which process the connection is attributed to.  A recv_timeout that     *)
(* expires broadcasts a heartbeat, which no state of this module records.  *)
(***************************************************************************)
EXTENDS FlowTracker

CONSTANTS
    Procs,       \* processes the OS socket table can name
    NoProc,      \* a lookup that finds none
    StoreOutcomes \* outcomes of a store call: TRUE succeeds, FALSE fails

ASSUME ProcAssumption == NoProc \notin Procs /\ StoreOutcomes \subseteq BOOLEAN

VARIABLES
    pc,          \* where the worker is in its loop
    cur,         \* the packet's update, while handle_update runs
    snap,        \* the closed flow, while persist_closed runs
    metas,       \* FlowMeta by key: connection id and row ids for the history
    nextId,      \* next connection id
    live,        \* LiveState: the connection table IPC clients see
    rows,        \* connections table of the store, in insertion order
    feed,        \* events broadcast so far, in order
    lost,        \* ids whose insert_connection failed (history variable)
    wire,        \* bytes seen per id and direction (history variable)
    stop,        \* the shared stop flag
    captureUp,   \* the capture thread still holds its end of the channel
    leaving      \* the loop was left: final drain of the completion queue

workerVars == <<pc, cur, snap, metas, nextId, live, leaving>>
vars == <<trackerVars, workerVars, rows, feed, lost, wire, stop, captureUp>>

Lookup == Procs \cup {NoProc}
Meta == [id : Nat, proc : Lookup]
Conn == [id : Nat, up : Nat, down : Nat, proc : Lookup]
Row  == [id : Nat, key : Keys, up : Nat, down : Nat, proc : Lookup]
Event == [type : {"flow", "closed"}, id : Nat]
NoUpdate == [key |-> "none"]
NoSnap == [id |-> 0]

\* handle_update: a packet is outbound unless only its destination is local.
Outbound(p) ==
    IF p.dir = "lh" THEN LocalSide[p.key] # "high" ELSE LocalSide[p.key] # "low"

\* handle_update: metas.entry(key).or_insert_with(...)
IdFor(k) == IF k \in DOMAIN metas THEN metas[k].id ELSE nextId

\* The history variable wire accounts a packet to the same connection id.
Credit(w, p) ==
    [key |-> w.key,
     lh  |-> IF p.dir = "lh" THEN w.lh + p.size ELSE w.lh,
     hl  |-> IF p.dir = "hl" THEN w.hl + p.size ELSE w.hl]

Credited(p) ==
    IF p.key \in DOMAIN metas THEN [wire EXCEPT ![IdFor(p.key)] = Credit(@, p)]
    ELSE Append(wire, Credit([key |-> p.key, lh |-> 0, hl |-> 0], p))

Put(f, k, v) == [x \in DOMAIN f \cup {k} |-> IF x = k THEN v ELSE f[x]]
Drop(f, k) == [x \in DOMAIN f \ {k} |-> f[x]]

-----------------------------------------------------------------------------
Init ==
    /\ TrackerInit
    /\ pc = "check"
    /\ cur = NoUpdate
    /\ snap = NoSnap
    /\ metas = [k \in {} |-> [id |-> 0, proc |-> NoProc]]
    /\ nextId = 1
    /\ live = [k \in {} |-> [id |-> 0, up |-> 0, down |-> 0, proc |-> NoProc]]
    /\ rows = <<>>
    /\ feed = <<>>
    /\ lost = {}
    /\ wire = <<>>
    /\ stop = FALSE
    /\ captureUp = TRUE
    /\ leaving = FALSE

\* run_worker: the test of the stop flag at the head of the loop.
CheckStop ==
    /\ pc = "check"
    /\ pc' = IF stop THEN "drain" ELSE "recv"
    /\ leaving' = stop
    /\ UNCHANGED <<trackerVars, cur, snap, metas, nextId, live, rows, feed,
                   lost, wire, stop, captureUp>>

\* recv_timeout expires on a connected channel: heartbeat, and round again.
ReceiveTimeout ==
    /\ pc = "recv"
    /\ captureUp
    /\ pc' = "check"
    /\ UNCHANGED <<trackerVars, cur, snap, metas, nextId, live, rows, feed,
                   lost, wire, stop, captureUp, leaving>>

\* Faulty variant: a closed channel is treated like a timeout.
IgnoreDisconnected ==
    /\ pc = "recv"
    /\ ~captureUp
    /\ pc' = "check"
    /\ UNCHANGED <<trackerVars, cur, snap, metas, nextId, live, rows, feed,
                   lost, wire, stop, captureUp, leaving>>

\* recv_timeout reports that the capture thread is gone.
ReceiveDisconnected ==
    /\ pc = "recv"
    /\ ~captureUp
    /\ pc' = "drain"
    /\ leaving' = TRUE
    /\ UNCHANGED <<trackerVars, cur, snap, metas, nextId, live, rows, feed,
                   lost, wire, stop, captureUp>>

\* A packet arrives: tracker.update, then handle_update up to its first lock.
Receive(p) ==
    /\ pc = "recv"
    /\ clock < MaxPackets
    /\ Update(p)
    /\ metas' = IF p.key \in DOMAIN metas THEN metas
                ELSE Put(metas, p.key, [id |-> nextId, proc |-> NoProc])
    /\ nextId' = IF p.key \in DOMAIN metas THEN nextId ELSE nextId + 1
    /\ cur' = [key  |-> p.key, id |-> IdFor(p.key), proc |-> NoProc,
               up   |-> IF Outbound(p) THEN p.size ELSE 0,
               down |-> IF Outbound(p) THEN 0 ELSE p.size]
    /\ wire' = Credited(p)
    /\ pc' = "evaluate"
    /\ UNCHANGED <<snap, live, rows, feed, lost, stop, captureUp, leaving>>

\* lookup_socket_proc names a process or none; evaluate_full, under the store
\* lock, either fails or resolves the row ids, which overwrite the old ones.
Evaluate(who, ok) ==
    /\ pc = "evaluate"
    /\ cur' = [cur EXCEPT !.proc = who]
    /\ metas' = IF ok THEN [metas EXCEPT ![cur.key].proc = who] ELSE metas
    /\ pc' = "publish"
    /\ UNCHANGED <<trackerVars, snap, nextId, live, rows, feed, lost, wire,
                   stop, captureUp, leaving>>

\* Faulty variant: an existing entry is left as it is.
FreshDto ==
    IF cur.key \in DOMAIN live THEN live[cur.key]
    ELSE [id |-> cur.id, up |-> cur.up, down |-> cur.down, proc |-> cur.proc]

\* The DTO handle_update publishes: the existing one or a fresh one, with this
\* packet's bytes; a lookup that found no process keeps the known one.
Dto ==
    LET old == IF cur.key \in DOMAIN live THEN live[cur.key]
               ELSE [id |-> cur.id, up |-> 0, down |-> 0, proc |-> NoProc]
    IN  [id   |-> old.id,
         up   |-> old.up + cur.up,
         down |-> old.down + cur.down,
         proc |-> IF cur.proc # NoProc THEN cur.proc ELSE old.proc]

\* Under the live lock.
Publish ==
    /\ pc = "publish"
    /\ live' = Put(live, cur.key, Dto)
    /\ pc' = "announce"
    /\ UNCHANGED <<trackerVars, cur, snap, metas, nextId, rows, feed, lost,
                   wire, stop, captureUp, leaving>>

\* broadcast(Event::Flow(dto)); handle_update returns.
Announce ==
    /\ pc = "announce"
    /\ feed' = Append(feed, [type |-> "flow", id |-> live[cur.key].id])
    /\ cur' = NoUpdate
    /\ pc' = "drain"
    /\ UNCHANGED <<trackerVars, snap, metas, nextId, live, rows, lost, wire,
                   stop, captureUp, leaving>>

\* Faulty variant: the FlowMeta outlives the connection.
TakeKeepingMeta ==
    /\ pc = "drain"
    /\ done # <<>>
    /\ LET s == Head(done)
       IN /\ snap' = [key |-> s.key, up |-> s.up, down |-> s.down,
                      id |-> metas[s.key].id, proc |-> metas[s.key].proc]
          /\ live' = Drop(live, s.key)
    /\ done' = Tail(done)
    /\ pc' = "retire"
    /\ UNCHANGED <<flows, clock, cur, metas, nextId, rows, feed, lost, wire, stop, captureUp, leaving>>

\* persist_closed up to the release of the live lock: forget the connection.
TakeClosed ==
    /\ pc = "drain"
    /\ done # <<>>
    /\ LET s == Head(done)
       IN /\ snap' = [key |-> s.key, up |-> s.up, down |-> s.down,
                      id |-> IF s.key \in DOMAIN metas THEN metas[s.key].id ELSE 0,
                      proc |-> IF s.key \in DOMAIN metas
                               THEN metas[s.key].proc ELSE NoProc]
          /\ metas' = Drop(metas, s.key)
          /\ live' = Drop(live, s.key)
    /\ done' = Tail(done)
    /\ pc' = "retire"
    /\ UNCHANGED <<flows, clock, cur, nextId, rows, feed, lost, wire, stop,
                   captureUp, leaving>>

\* Faulty variant: nobody is told.
RetireSilently ==
    /\ pc = "retire"
    /\ pc' = "insert"
    /\ UNCHANGED <<trackerVars, cur, snap, metas, nextId, live, rows, feed,
                   lost, wire, stop, captureUp, leaving>>

\* Faulty variant: a connection nobody could be named for has no row.
RetireUnattributed ==
    /\ pc = "retire"
    /\ feed' = Append(feed, [type |-> "closed", id |-> snap.id])
    /\ IF snap.proc = NoProc THEN pc' = "drain" /\ snap' = NoSnap
       ELSE pc' = "insert" /\ UNCHANGED snap
    /\ UNCHANGED <<trackerVars, cur, metas, nextId, live, rows, lost,
                   wire, stop, captureUp, leaving>>

\* broadcast(Event::Closed { id }), if the flow had a FlowMeta
Retire ==
    /\ pc = "retire"
    /\ feed' = IF snap.id = 0 THEN feed
               ELSE Append(feed, [type |-> "closed", id |-> snap.id])
    /\ pc' = "insert"
    /\ UNCHANGED <<trackerVars, cur, snap, metas, nextId, live, rows, lost,
                   wire, stop, captureUp, leaving>>

\* insert_connection under the store lock; a failure is only logged.
InsertRow(ok) ==
    /\ pc = "insert"
    /\ rows' = IF ok THEN Append(rows, snap) ELSE rows
    /\ lost' = IF ok THEN lost ELSE lost \cup {snap.id}
    /\ snap' = NoSnap
    /\ pc' = "drain"
    /\ UNCHANGED <<trackerVars, cur, metas, nextId, live, feed, wire, stop,
                   captureUp, leaving>>

\* try_recv finds the completion queue empty.
Drained ==
    /\ pc = "drain"
    /\ done = <<>>
    /\ pc' = IF leaving THEN "stopped" ELSE "check"
    /\ UNCHANGED <<trackerVars, cur, snap, metas, nextId, live, rows, feed,
                   lost, wire, stop, captureUp, leaving>>

\* A signal handler or an IPC client sets the flag.
RequestStop ==
    /\ ~stop
    /\ stop' = TRUE
    /\ UNCHANGED <<trackerVars, workerVars, rows, feed, lost, wire, captureUp>>

\* The capture thread returns: the device failed, or it saw the flag.
CaptureEnds ==
    /\ captureUp
    /\ captureUp' = FALSE
    /\ UNCHANGED <<trackerVars, workerVars, rows, feed, lost, wire, stop>>

Worker ==
    \/ CheckStop
    \/ ReceiveTimeout
    \/ ReceiveDisconnected
    \/ \E p \in Packet : Receive(p)
    \/ \E who \in Lookup, ok \in StoreOutcomes : Evaluate(who, ok)
    \/ Publish
    \/ Announce
    \/ TakeClosed
    \/ Retire
    \/ \E ok \in StoreOutcomes : InsertRow(ok)
    \/ Drained

Next == Worker \/ RequestStop \/ CaptureEnds

Spec == Init /\ [][Next]_vars

\* The operating system keeps scheduling the worker thread.
FairSpec == Spec /\ WF_vars(Worker)

-----------------------------------------------------------------------------
(***************************************************************************)
(* Properties.                                                             *)
(***************************************************************************)
Idle == pc \in {"check", "recv", "stopped"}

\* The totals of connection id as a row of the history states them.
Totals(id) ==
    LET w == wire[id]
    IN  [up   |-> IF LocalSide[w.key] = "high" THEN w.hl ELSE w.lh,
         down |-> IF LocalSide[w.key] = "high" THEN w.lh ELSE w.hl]

LiveIds == {live[k].id : k \in DOMAIN live}
RowIds == {rows[i].id : i \in DOMAIN rows}

\* Types; an LruCache never holds more than its capacity, MAX_FLOWS.
TypeOK ==
    /\ flows \in [DOMAIN flows -> FlowState]
    /\ DOMAIN flows \subseteq Keys
    /\ Cardinality(DOMAIN flows) <= MaxFlows
    /\ done \in Seq(Snapshots)
    /\ clock \in 0..MaxPackets
    /\ pc \in {"check", "recv", "evaluate", "publish", "announce", "drain",
               "retire", "insert", "stopped"}
    /\ cur \in [key : Keys, id : Nat, up : Nat, down : Nat, proc : Lookup]
               \cup {NoUpdate}
    /\ snap \in Row \cup {NoSnap}
    /\ metas \in [DOMAIN metas -> Meta]
    /\ DOMAIN metas \subseteq Keys
    /\ nextId \in Nat
    /\ live \in [DOMAIN live -> Conn]
    /\ DOMAIN live \subseteq Keys
    /\ rows \in Seq(Row)
    /\ feed \in Seq(Event)
    /\ lost \subseteq Nat
    /\ wire \in Seq([key : Keys, lh : Nat, hl : Nat])
    /\ stop \in BOOLEAN
    /\ captureUp \in BOOLEAN
    /\ leaving \in BOOLEAN

\* Two connections never share an id while either is known: the metas, the
\* snapshot being persisted and the history all name different ids.
IdsUnique ==
    /\ \A j, k \in DOMAIN metas : metas[j].id = metas[k].id => j = k
    /\ \A k \in DOMAIN metas : metas[k].id # snap.id
    /\ \A k \in DOMAIN metas : metas[k].id \notin RowIds

\* Between packets the three tables the worker keeps per connection (the flow
\* table, its FlowMetas and the live table) hold the same connections under
\* the same ids, each id one connection's: nothing leaks when a flow is closed
\* or evicted (run_worker, handle_update, persist_closed).
TablesAgree ==
    /\ IdsUnique
    /\ Idle => /\ done = <<>>
               /\ DOMAIN metas = DOMAIN flows
               /\ DOMAIN live = DOMAIN flows
               /\ \A k \in DOMAIN live : live[k].id = metas[k].id

\* Every row of the history is one connection's, and states exactly the bytes
\* seen on the wire for it, oriented local -> remote; no connection has two
\* rows (make_snapshot, persist_closed).
HistoryExact ==
    \A i \in DOMAIN rows :
        /\ rows[i].id \in DOMAIN wire
        /\ rows[i].key = wire[rows[i].id].key
        /\ rows[i].up = Totals(rows[i].id).up
        /\ rows[i].down = Totals(rows[i].id).down
        /\ \A j \in DOMAIN rows : rows[j].id = rows[i].id => j = i

\* While the daemon runs, a connection that was ever seen is live, or in the
\* history, or its insert failed and was logged.
NothingForgotten ==
    Idle => DOMAIN wire = LiveIds \cup RowIds \cup lost

\* Between packets the live table shows the bytes the flow table has: the sum
\* always, each direction wherever exactly one end is local.  The two are
\* oriented by different code (handle_update and make_snapshot).
LiveAgrees ==
    Idle => \A k \in DOMAIN live :
        /\ live[k].up + live[k].down = flows[k].lh + flows[k].hl
        /\ LocalSide[k] \in {"low", "high"} =>
               /\ live[k].up = Snapshot(k, flows[k]).up
               /\ live[k].down = Snapshot(k, flows[k]).down

\* In the event stream a connection is announced before it is closed, closed
\* once, and never announced again under the same id (an inspector would
\* resurrect it: InspectorState::apply inserts on every Flow event).
FeedOrder ==
    \A i \in DOMAIN feed : feed[i].type = "closed" =>
        /\ \E j \in 1..(i - 1) : feed[j] = [type |-> "flow", id |-> feed[i].id]
        /\ \A j \in (i + 1)..Len(feed) : feed[j].id # feed[i].id

\* Between packets the event stream tells the live table: what was announced
\* and not closed is what is live.
FeedTellsLive ==
    Idle => LiveIds = {feed[i].id : i \in DOMAIN feed}
                      \ {feed[i].id : i \in {j \in DOMAIN feed : feed[j].type = "closed"}}

\* The event stream: in order per connection, and telling the live table.
FeedExact == FeedOrder /\ FeedTellsLive

\* The stop flag ends the worker, whatever it is doing when the flag is set,
\* and so does the end of the capture thread: "Runs until `stop` is set or the
\* capture channel disconnects" (run_worker).
EndIsObeyed == stop \/ ~captureUp ~> pc = "stopped"

-----------------------------------------------------------------------------
(***************************************************************************)
(* The inductive invariant behind TablesAgree, IdsUnique, HistoryExact,    *)
(* NothingForgotten and LiveAgrees: the same facts, stated for every point *)
(* of the worker's loop.                                                   *)
(***************************************************************************)
Handling == pc \in {"evaluate", "publish", "announce"}
Closing  == pc \in {"retire", "insert"}
Pending  == {done[i].key : i \in DOMAIN done}
MetaIds  == {metas[k].id : k \in DOMAIN metas}

\* What the worker holds between two steps fits the place it has reached.
HandInv ==
    /\ Handling => /\ cur \in [key : Keys, id : Nat, up : Nat, down : Nat, proc : Lookup]
                   /\ cur.key \in DOMAIN metas
                   /\ cur.id = metas[cur.key].id
    /\ Closing => /\ snap \in Row
                  /\ snap.id \in 1..Len(wire) \ (MetaIds \cup RowIds \cup lost)
                  /\ snap.key = wire[snap.id].key
                  /\ snap.up = Totals(snap.id).up
                  /\ snap.down = Totals(snap.id).down
    /\ ~Closing => snap = NoSnap
    /\ Idle => done = <<>>

\* The completion queue holds closed flows, each once.
QueueInv ==
    /\ IsFiniteSet(DOMAIN flows)
    /\ \A i, j \in DOMAIN done : done[i].key = done[j].key => i = j
    /\ \A i \in DOMAIN done : done[i].key \notin DOMAIN flows

\* A FlowMeta exists for every flow that is tracked or waits in the queue, and
\* its id is the one under which the wire's bytes are counted.
MetaInv ==
    /\ nextId = Len(wire) + 1
    /\ DOMAIN metas = DOMAIN flows \cup Pending
    /\ \A k \in DOMAIN metas : /\ metas[k].id \in 1..Len(wire)
                               /\ wire[metas[k].id].key = k

TotalsInv ==
    /\ \A k \in DOMAIN flows : /\ flows[k].lh = wire[metas[k].id].lh
                               /\ flows[k].hl = wire[metas[k].id].hl
    /\ \A i \in DOMAIN done :
           /\ done[i].up = Totals(metas[done[i].key].id).up
           /\ done[i].down = Totals(metas[done[i].key].id).down

\* The live table lacks at most the connection whose first packet is in hand.
LiveInv ==
    /\ DOMAIN live \subseteq DOMAIN metas
    /\ \A k \in DOMAIN metas \ DOMAIN live :
           pc \in {"evaluate", "publish"} /\ k = cur.key
    /\ \A k \in DOMAIN live : live[k].id = metas[k].id

\* Every id is known, closing, recorded or lost.
LedgerInv ==
    /\ HistoryExact
    /\ RowIds \cap MetaIds = {}
    /\ lost \cap MetaIds = {}
    /\ lost \subseteq DOMAIN wire
    /\ DOMAIN wire = MetaIds \cup RowIds \cup lost
                     \cup (IF Closing THEN {snap.id} ELSE {})

IInv == TypeOK /\ HandInv /\ QueueInv /\ MetaInv /\ TotalsInv /\ LiveInv /\ LedgerInv

-----------------------------------------------------------------------------
(***************************************************************************)
(* The book of accounts the worker keeps: an account is open while its     *)
(* flow is in the table, and rows of the history are its entries.          *)
(***************************************************************************)
OpenIds == {metas[k].id : k \in DOMAIN flows}
Entries == [i \in DOMAIN rows |-> [id |-> rows[i].id, key |-> rows[i].key,
                                   up |-> rows[i].up, down |-> rows[i].down]]

Book == INSTANCE Ledger WITH
    accounts <- wire, open <- OpenIds, history <- Entries, missing <- lost

\* The worker implements the book: whatever waits in its queue, whatever call
\* of the store fails and wherever it is stopped.
KeepsBook == Book!Spec

-----------------------------------------------------------------------------
(***************************************************************************)
(* What comments of the code claim and the code does not do.               *)
(***************************************************************************)
\* "the daemon never loses a connection's totals" (FlowTracker): every
\* connection is in the history once the worker has stopped.
TotalsNeverLost ==
    pc = "stopped" => DOMAIN wire = RowIds \cup lost

=============================================================================
