---------------------------- MODULE AlertEngine ----------------------------
(***************************************************************************)
(* The detector chain of the egress monitor (src/alert/detectors.rs) over  *)
(* the SQLite store (src/store/mod.rs), statement by statement inside one  *)
(* transaction, with statements that fail, a daemon that crashes and one   *)
(* that is restarted with another configuration.                           *)
(*                                                                         *)
(* The store's lock is held for the whole evaluation, so nobody reads tx.  *)
(* The volume statistics behind flow.spike are the subject of Volume.      *)
(***************************************************************************)
EXTENDS Baseline

CONSTANTS
    MaxEvents,   \* bound of the model: observations in one behaviour
    MaxFaults    \* bound of the model: failures and crashes in one behaviour

ASSUME BoundAssumption == MaxEvents \in Nat /\ MaxFaults \in Nat

VARIABLES
    up,          \* the daemon runs
    window,      \* its AlertConfig.learning_window
    pc,          \* the statement evaluate_full has reached
    ev,          \* the observation in hand
    tx,          \* the tables as the open transaction sees them
    fired,       \* alerts collected by this evaluation (EvalOutcome.alerts)
    sent,        \* alerts broadcast to clients so far
    stuck,       \* a COMMIT failed and left its transaction open
    faults       \* failures so far

daemonVars == <<up, window>>
vars == <<db, daemonVars, pc, ev, tx, fired, sent, stuck, faults, seen>>

NoEvent == [ts |-> 0]
NoTx == [base |-> "closed"]

\* The transaction is open: a statement, or its COMMIT, is due.
InTx == pc \in {"baseline", "dest", "process", "identity", "label", "geo",
                "volume", "commit"}

\* Faulty variant: the cooldown only looks at the alerts of this evaluation.
RaiseForgetful(t, keys) ==
    LET new == {[key |-> k, ts |-> ev.ts] : k \in {j \in keys : Active(t)}}
               \ fired
    IN  /\ tx' = [t EXCEPT !.alerts = @ \cup new]
        /\ fired' = fired \cup new

\* A statement leaves tables t, and emit stores the alerts keys once the
\* baseline is active, unless they are still cooling down.
Raise(t, keys) ==
    LET due == IF Active(t) THEN keys ELSE {}
    IN  /\ tx' = InsertAlerts(t, due, ev.ts)
        /\ fired' = fired \cup Inserted(t, due, ev.ts)

\* keys, if the flow is outbound
WhenOut(keys) == IF ev.flow.out THEN keys ELSE {}

-----------------------------------------------------------------------------
EngineInit ==
    /\ Init
    /\ up = TRUE
    /\ window \in Windows
    /\ pc = "idle"
    /\ ev = NoEvent
    /\ tx = NoTx
    /\ fired = {}
    /\ sent = {}
    /\ stuck = FALSE
    /\ faults = 0

\* with_tx: BEGIN IMMEDIATE.  Where it fails nothing has happened yet; it
\* always does within a transaction that was left open.
Begin(e) ==
    /\ up /\ pc = "idle" /\ ~stuck
    /\ Len(seen) < MaxEvents
    /\ ev' = e
    /\ tx' = db
    /\ pc' = "baseline"
    /\ UNCHANGED <<db, daemonVars, fired, sent, faults, seen, stuck>>

\* Faulty variant: the window is over as soon as it was started.
StartActive ==
    /\ pc = "baseline"
    /\ tx' = IF tx.base = "none" THEN OpenWindow(tx, ev.ts + window) ELSE CloseWindow(tx)
    /\ pc' = "dest"
    /\ UNCHANGED <<db, daemonVars, ev, fired, sent, faults, seen, stuck>>

\* ensure_started: open the window once, close it when it has elapsed.
StartBaseline ==
    /\ pc = "baseline"
    /\ LET begun == IF tx.base = "none" THEN OpenWindow(tx, ev.ts + window) ELSE tx
       IN  tx' = IF ~Active(begun) /\ ev.ts >= begun.ends THEN CloseWindow(begun) ELSE begun
    /\ pc' = "dest"
    /\ UNCHANGED <<db, daemonVars, ev, fired, sent, faults, seen, stuck>>

\* upsert_destination, record_name; without a process that is all.
RecordDest ==
    /\ pc = "dest"
    /\ tx' = UpsertDestination(tx, ev.flow.dest)
    /\ pc' = IF ev.flow.proc = NoProc THEN "commit" ELSE "process"
    /\ UNCHANGED <<db, daemonVars, ev, fired, sent, faults, seen, stuck>>

\* upsert_process, and signal 2 for a new one.
RecordProcess ==
    /\ pc = "process"
    /\ Raise(UpsertProcess(tx, ev.flow.proc),
             WhenOut({<<"egress", p>> : p \in {ev.flow.proc} \ tx.procs}))
    /\ pc' = "identity"
    /\ UNCHANGED <<db, daemonVars, ev, sent, faults, seen, stuck>>

\* The alert of signal 5, if the identity in tables t calls for it.
IdentityChange(t) ==
    WhenOut({<<"identity", ev.flow.proc, ev.flow.ident.value>> :
                i \in {j \in CurrentIdentity(t, ev.flow.proc) :
                          ChangedSince(j, ev.flow.ident)}})

\* Faulty variant: the identity is recorded before the old one is looked up.
RecordThenCheck ==
    /\ pc = "identity"
    /\ IF ev.flow.ident = NoIdent THEN UNCHANGED <<tx, fired>>
       ELSE LET t == RecordIdentity(tx, ev.flow.proc, ev.flow.ident)
            IN  Raise(t, IdentityChange(t))
    /\ pc' = "label"
    /\ UNCHANGED <<db, daemonVars, ev, sent, faults, seen, stuck>>

\* current_identity, then record_identity, and signal 5 for a changed one.
CheckIdentity ==
    /\ pc = "identity"
    /\ IF ev.flow.ident = NoIdent THEN UNCHANGED <<tx, fired>>
       ELSE Raise(RecordIdentity(tx, ev.flow.proc, ev.flow.ident), IdentityChange(tx))
    /\ pc' = "label"
    /\ UNCHANGED <<db, daemonVars, ev, sent, faults, seen, stuck>>

\* note_label and touch_pair, and signal 1 for a new label.
NoteLabel ==
    /\ pc = "label"
    /\ Raise(TouchPair(RecordLabel(tx, ev.flow.proc, ev.flow.label), ev.flow.proc, ev.flow.dest),
             WhenOut({<<"dest", x[1], x[2]>> : x \in {<<ev.flow.proc, ev.flow.label>>} \ tx.labels}))
    /\ pc' = "geo"
    /\ UNCHANGED <<db, daemonVars, ev, sent, faults, seen, stuck>>

\* note_country and note_asn, and signal 3 for each new one.
NoteGeo ==
    /\ pc = "geo"
    /\ LET t == RecordGeo(tx, ev.flow.proc, GeoOf[ev.flow.dest])
       IN  Raise(t, WhenOut({<<"geo", x[1], x[2]>> : x \in t.geo \ tx.geo}))
    /\ pc' = "volume"
    /\ UNCHANGED <<db, daemonVars, ev, sent, faults, seen, stuck>>

\* update_volume, and signal 4 for a spike, whichever side opened the flow.
UpdateVolume ==
    /\ pc = "volume"
    /\ Raise(UpsertVolume(tx, ev.flow.proc),
             IF ev.flow.spike THEN {<<"volume", ev.flow.proc>>} ELSE {})
    /\ pc' = "commit"
    /\ UNCHANGED <<db, daemonVars, ev, sent, faults, seen, stuck>>

\* COMMIT succeeds.
Commit ==
    /\ pc = "commit"
    /\ db' = tx
    /\ tx' = NoTx
    /\ seen' = Append(seen, ev)
    /\ pc' = "notify"
    /\ UNCHANGED <<daemonVars, ev, fired, sent, faults, stuck>>

\* handle_update broadcasts what evaluate_full returned.
Notify ==
    /\ pc = "notify"
    /\ sent' = sent \cup fired
    /\ fired' = {}
    /\ ev' = NoEvent
    /\ pc' = "idle"
    /\ UNCHANGED <<db, daemonVars, tx, faults, seen, stuck>>

\* Faulty variant: the alerts collected so far are broadcast all the same.
FailTelling ==
    /\ InTx
    /\ faults < MaxFaults
    /\ faults' = faults + 1
    /\ sent' = sent \cup fired
    /\ tx' = NoTx /\ ev' = NoEvent /\ fired' = {}
    /\ pc' = "idle"
    /\ UNCHANGED <<db, daemonVars, seen, stuck>>

\* A statement fails: ROLLBACK, the error is logged and the alerts collected
\* so far are dropped with the EvalOutcome.  A COMMIT that fails is not rolled
\* back by with_tx, but by most errors.
StatementFails ==
    /\ InTx
    /\ faults < MaxFaults
    /\ faults' = faults + 1
    /\ tx' = NoTx /\ ev' = NoEvent /\ fired' = {}
    /\ pc' = "idle"
    /\ UNCHANGED <<db, daemonVars, sent, seen, stuck>>

\* Faulty variant: the worker goes on as if the COMMIT had gone through.
CommitShrugged ==
    /\ pc = "commit"
    /\ faults < MaxFaults
    /\ faults' = faults + 1
    /\ stuck' = TRUE
    /\ tx' = NoTx
    /\ seen' = Append(seen, ev)
    /\ pc' = "notify"
    /\ UNCHANGED <<db, daemonVars, ev, fired, sent>>

\* COMMIT fails with an error that leaves the transaction open (busy).
CommitFails ==
    /\ pc = "commit"
    /\ faults < MaxFaults
    /\ faults' = faults + 1
    /\ stuck' = TRUE
    /\ tx' = NoTx /\ ev' = NoEvent /\ fired' = {}
    /\ pc' = "idle"
    /\ UNCHANGED <<db, daemonVars, sent, seen>>

\* The daemon dies: its memory and its open transaction are gone.
Crash ==
    /\ up
    /\ faults < MaxFaults
    /\ faults' = faults + 1
    /\ up' = FALSE
    /\ stuck' = FALSE
    /\ tx' = NoTx /\ ev' = NoEvent /\ fired' = {}
    /\ pc' = "idle"
    /\ UNCHANGED <<db, window, sent, seen>>

\* A new daemon opens the same store, perhaps with another window (--demo).
Restart(w) ==
    /\ ~up
    /\ up' = TRUE
    /\ window' = w
    /\ UNCHANGED <<db, pc, ev, tx, fired, sent, faults, seen, stuck>>

Next ==
    \/ \E e \in Event : Begin(e)
    \/ StartBaseline
    \/ RecordDest
    \/ RecordProcess
    \/ CheckIdentity
    \/ NoteLabel
    \/ NoteGeo
    \/ UpdateVolume
    \/ Commit
    \/ Notify
    \/ StatementFails
    \/ CommitFails
    \/ Crash
    \/ \E w \in Windows : Restart(w)

EngineSpec == EngineInit /\ [][Next]_vars

-----------------------------------------------------------------------------
(***************************************************************************)
(* Properties.                                                             *)
(***************************************************************************)
Keys == {a.key : a \in db.alerts}

\* The observation number i finds the learning window over.
Judged(i) == \E j \in 1..i : seen[j].ts >= db.ends

\* Types, and the order of the tables' lives: nothing is stored before the
\* window was opened, and a process row brings all its other rows.
EngineTypeOK ==
    /\ db.base \in {"none", "learning", "active"} /\ db.ends \in Nat
    /\ db.procs \subseteq Procs /\ db.dests \subseteq Dests
    /\ db.labels \subseteq Procs \X Labels
    /\ db.pairs \subseteq Procs \X Dests
    /\ db.geo \subseteq Procs \X Geo
    /\ pc \in {"idle", "baseline", "dest", "process", "identity", "label", "geo",
               "volume", "commit", "notify"}
    /\ ev \in Event \cup {NoEvent}
    /\ InTx <=> tx # NoTx
    /\ up \in BOOLEAN /\ stuck \in BOOLEAN /\ window \in Windows /\ faults \in 0..MaxFaults

\* A process row brings a destination, a label and a volume row with it, and
\* none of them exists without it: no partial baseline rows (evaluate_full).
RowsComplete ==
    /\ db.volume = db.procs
    /\ {x[1] : x \in db.labels} = db.procs
    /\ {x[1] : x \in db.pairs} = db.procs
    /\ {x[2] : x \in db.pairs} \subseteq db.dests
    /\ db.base = "none" => db = EmptyDb

\* What clients were told is in the store, whatever failed or crashed since
\* (handle_update broadcasts the outcome of a committed evaluation).
SentIsStored == sent \subseteq db.alerts

\* The store between two statements of the daemon: typed, whole, and ahead of
\* what clients know.
EngineInv == EngineTypeOK /\ RowsComplete /\ SentIsStored

\* No alert before the window is over: an observation has reached the end of
\* the window no later than the observation that raised the alert.
SilentWhileLearning ==
    \A a \in db.alerts : \E i \in DOMAIN seen : seen[i].ts = a.ts /\ Judged(i)

\* Two alerts of one key are a cooldown apart, however often the daemon was
\* restarted and whichever way the clock was set (insert_alert).
CooldownKept ==
    \A a, b \in db.alerts :
        a.key = b.key /\ a # b => a.ts >= b.ts + Cooldown \/ b.ts >= a.ts + Cooldown

\* What is known without an alert was learnt silently for a reason: the first
\* observation of that label, country or network fell in the learning window
\* or was of an inbound flow.  A failed evaluation never uses up a novelty.
NoveltyAccounted ==
    \A i \in DOMAIN seen :
        LET f == seen[i].flow
            before == {seen[j].flow : j \in {k \in 1..(i - 1) : seen[k].flow.proc = f.proc}}
        IN  f.proc # NoProc /\ f.out /\ Judged(i) =>
                /\ (\A b \in before : b.label # f.label)
                   => <<"dest", f.proc, f.label>> \in Keys
                /\ \A g \in GeoOf[f.dest] :
                       (\A b \in before : g \notin GeoOf[b.dest])
                       => <<"geo", f.proc, g>> \in Keys

\* A process whose binary identity differs from the one it was last seen with
\* raises an alert when it connects out, unless one of them could not be read
\* ("binary identity changed since baseline, then connects out", signal 5).
IdentityChangeAlerts ==
    \A i, j \in DOMAIN seen :
        LET old == seen[i].flow
            new == seen[j].flow
        IN  /\ i < j
            /\ old.proc = new.proc /\ new.out /\ Judged(j)
            /\ old.ident # NoIdent /\ new.ident # NoIdent
            /\ \A k \in (i + 1)..(j - 1) :
                   seen[k].flow.proc = new.proc => seen[k].flow.ident = NoIdent
            /\ ChangedSince(old.ident, new.ident)
            => <<"identity", new.proc, new.ident.value>> \in Keys

\* Every novelty of an observation that was learnt raised its alert.
AlertsComplete == NoveltyAccounted /\ IdentityChangeAlerts

\* The chain of statements implements the one-step baseline, whose window, once
\* opened, ends when it ends: a restart "resumes the same window rather than
\* restarting the clock" (ensure_started).
Implements == Spec

-----------------------------------------------------------------------------
(***************************************************************************)
(* What the documentation claims and the code does not do.                 *)
(***************************************************************************)
\* "a binary's first-ever outbound connection" raises an alert (signal 2).
FirstEgressAlerts ==
    \A i \in DOMAIN seen :
        LET f == seen[i].flow
        IN  /\ f.proc # NoProc /\ f.out /\ Judged(i)
            /\ \A j \in 1..(i - 1) : ~(seen[j].flow.proc = f.proc /\ seen[j].flow.out)
            => <<"egress", f.proc>> \in Keys

=============================================================================
