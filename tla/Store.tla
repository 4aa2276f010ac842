------------------------------- MODULE Store -------------------------------
(***************************************************************************)
(* The baseline's tables in the SQLite store (src/store/mod.rs) and what   *)
(* one call does to them.  A value of the tables is a record t; a call     *)
(* that writes yields the tables after it.                                 *)
(*                                                                         *)
(* Row ids stand for their rows: a process is its executable, a            *)
(* destination its address.  Times at which rows were seen first and last, *)
(* counters and names shown to the user are left out, as nothing decides   *)
(* by them.                                                                *)
(***************************************************************************)
EXTENDS Naturals

CONSTANTS
    Procs,       \* executables: rows of table processes
    Cooldown     \* AlertConfig.cooldown

ASSUME StoreAssumption == Cooldown \in Nat \ {0}

NoValue == "none"

EmptyDb ==
    [base   |-> "none",                  \* meta.baseline_state
     ends   |-> 0,                       \* meta.learning_ends_ms
     dests  |-> {},                      \* destinations
     procs  |-> {},                      \* processes
     idents |-> [p \in Procs |-> {}],    \* binary_identities
     cur    |-> [p \in Procs |-> NoValue], \* processes.cur_identity_id
     labels |-> {},                      \* process_labels
     pairs  |-> {},                      \* process_dest_pairs
     geo    |-> {},                      \* process_countries, process_asns
     volume |-> {},                      \* volume_stats
     alerts |-> {}]                      \* alerts

\* meta_set of the window's end and of the state.
OpenWindow(t, ends) == [t EXCEPT !.base = "learning", !.ends = ends]
CloseWindow(t) == [t EXCEPT !.base = "active"]

\* baseline_state
Active(t) == t.base = "active"

UpsertDestination(t, d) == [t EXCEPT !.dests = @ \cup {d}]

UpsertProcess(t, p) == [t EXCEPT !.procs = @ \cup {p}]

\* record_identity: INSERT OR IGNORE, so that a value known already keeps the
\* row it has, and that row becomes the current one.
RecordIdentity(t, p, i) ==
    [t EXCEPT !.idents[p] = IF \E j \in @ : j.value = i.value THEN @ ELSE @ \cup {i},
              !.cur[p] = i.value]

\* current_identity: none or one.
CurrentIdentity(t, p) == {i \in t.idents[p] : i.value = t.cur[p]}

RecordLabel(t, p, l) == [t EXCEPT !.labels = @ \cup {<<p, l>>}]

TouchPair(t, p, d) == [t EXCEPT !.pairs = @ \cup {<<p, d>>}]

\* note_country and note_asn
RecordGeo(t, p, places) == [t EXCEPT !.geo = @ \cup ({p} \X places)]

\* upsert_volume_stat
UpsertVolume(t, p) == [t EXCEPT !.volume = @ \cup {p}]

\* insert_alert drops an alert whose key has fired within the cooldown, or
\* later than it: a negative difference is below the cooldown, too.
Cooling(t, key, ts) ==
    \E a \in t.alerts : a.key = key /\ ts < a.ts + Cooldown

\* insert_alert of several alerts with different keys: the rows it adds.
Inserted(t, keys, ts) ==
    {[key |-> k, ts |-> ts] : k \in {j \in keys : ~Cooling(t, j, ts)}}

InsertAlerts(t, keys, ts) == [t EXCEPT !.alerts = @ \cup Inserted(t, keys, ts)]
=============================================================================
