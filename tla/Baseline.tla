------------------------------ MODULE Baseline ------------------------------
(***************************************************************************)
(* What the egress monitor's baseline promises: an observed flow is        *)
(* learnt, and judged against what was known before it, in one step        *)
(* (evaluate_full: "no partial baseline rows on mid-event errors").        *)
(* AlertEngine, which does the work statement by statement inside a SQLite *)
(* transaction, implements this module.                                    *)
(***************************************************************************)
EXTENDS Store, Sequences

CONSTANTS
    NoProc,      \* an observation without attribution
    Dests,       \* remote addresses: rows of table destinations
    Labels,      \* what a destination may go by: owner, domain or address
    GeoOf,       \* country and network of a destination
    Idents,      \* binary identities executables may have
    NoIdent,     \* an observation without one
    FlagUpdates, \* AlertConfig.flag_signed_updates
    Flows,       \* flows that may be observed
    Windows,     \* learning windows a daemon may be started with
    Times        \* bound of the model: timestamps observations may have

Geo == UNION {GeoOf[d] : d \in Dests}

\* BinaryIdentity: a code signature (macOS), whose signer stands for team and
\* signing id, or a hash of the file.  Invalid stands for Unsigned and AdHoc,
\* too.
Identity(i) ==
    /\ DOMAIN i = {"kind", "value", "signer", "status"}
    /\ i.kind \in {"codesign", "hash"}
    /\ i.status \in {"valid", "invalid", "unreadable"}

\* One correlated flow observation (FlowEvent) but for its time.  spike: it
\* closes a volume interval that is out of line with the ones before it.
\* Without a process the direction plays no part, and one value stands for
\* both.
Flow(f) ==
    /\ f \in [proc : Procs \cup {NoProc}, dest : Dests, label : Labels,
              out : BOOLEAN, ident : Idents \cup {NoIdent}, spike : BOOLEAN]
    /\ f.proc = NoProc => f.ident = NoIdent /\ ~f.spike /\ f.out

ASSUME BaselineAssumption ==
    /\ NoProc \notin Procs
    /\ NoIdent \notin Idents
    /\ \A i \in Idents : Identity(i)
    /\ \A i, j \in Idents : i.kind = j.kind /\ (i.value = j.value => i = j)
    /\ \A f \in Flows : Flow(f)
    /\ FlagUpdates \in BOOLEAN
    /\ Windows \subseteq Nat /\ Times \subseteq Nat

VARIABLES
    db,          \* the committed tables of the store
    seen         \* the observations they were learnt from, in order

\* What evaluate_full is given, and when.
Event == [ts : Times, flow : Flows]

\* BinaryIdentity::changed_since.  Reading fails: no verdict.  A signed program
\* that keeps its signer may change its value, unless FlagUpdates.
ChangedSince(old, new) ==
    LET signed == old.kind = "codesign" /\ new.kind = "codesign"
    IN  /\ old.status # "unreadable" /\ new.status # "unreadable"
        /\ \/ old.status = "valid" /\ new.status # "valid"
           \/ signed /\ old.signer # new.signer
           \/ (~signed \/ FlagUpdates) /\ old.value # new.value

\* ensure_started over the whole life of the window.
Started(d, ts, window) ==
    LET ends == IF d.base = "none" THEN ts + window ELSE d.ends
    IN  [d EXCEPT !.ends = ends,
                  !.base = IF d.base = "active" \/ ts >= ends
                           THEN "active" ELSE "learning"]

\* The alerts an observation deserves, given what the store knew before it.
Deserved(d, f) ==
    LET p == f.proc
    IN  {<<"egress", p>> : x \in {p} \ d.procs}
        \cup {<<"identity", p, f.ident.value>> :
                 i \in {j \in CurrentIdentity(d, p) :
                           f.ident # NoIdent /\ ChangedSince(j, f.ident)}}
        \cup {<<"dest", x[1], x[2]>> : x \in {<<p, f.label>>} \ d.labels}
        \cup {<<"geo", x[1], x[2]>> : x \in ({p} \X GeoOf[f.dest]) \ d.geo}

\* A volume spike is judged whatever the direction of the flow.
Raised(d, f) ==
    (IF f.out THEN Deserved(d, f) ELSE {})
    \cup (IF f.spike THEN {<<"volume", f.proc>>} ELSE {})

Learnt(d, e, window) ==
    LET f == e.flow
        p == f.proc
        s == UpsertDestination(Started(d, e.ts, window), f.dest)
        known == IF f.ident = NoIdent THEN s ELSE RecordIdentity(s, p, f.ident)
        grown == [known EXCEPT !.procs = @ \cup {p}, !.volume = @ \cup {p},
                               !.labels = @ \cup {<<p, f.label>>},
                               !.pairs = @ \cup {<<p, f.dest>>},
                               !.geo = @ \cup ({p} \X GeoOf[f.dest])]
    IN  IF p = NoProc THEN s
        ELSE IF Active(s) THEN InsertAlerts(grown, Raised(d, f), e.ts)
        ELSE grown

Init == db = EmptyDb /\ seen = <<>>

Observe(e, window) ==
    /\ seen' = Append(seen, e)
    /\ db' = Learnt(db, e, window)

Spec == Init /\ [][\E e \in Event, w \in Windows : Observe(e, w)]_<<db, seen>>
=============================================================================
