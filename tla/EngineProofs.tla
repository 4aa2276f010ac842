---------------------------- MODULE EngineProofs ----------------------------
(***************************************************************************)
(* The detector chain implements the one-step baseline, for every set of   *)
(* processes, destinations, flows and windows, and whatever fails: what a  *)
(* transaction has done at each statement is a function of the tables      *)
(* before it (After...), and at its COMMIT that function is Learnt.        *)
(***************************************************************************)
EXTENDS AlertEngine, TLAPS

\* A value of the tables: a record of exactly these fields.
IsDb(t) ==
    t = [base |-> t.base, ends |-> t.ends, dests |-> t.dests, procs |-> t.procs,
         idents |-> t.idents, cur |-> t.cur, labels |-> t.labels, pairs |-> t.pairs,
         geo |-> t.geo, volume |-> t.volume, alerts |-> t.alerts]

Phases == {"none", "learning", "active"}

-----------------------------------------------------------------------------
(***************************************************************************)
(* The transaction, statement by statement.                                *)
(***************************************************************************)
\* The keys that emit looks at, what emit leaves of tables t, and the alerts in it.
Due(t, keys) == IF Active(t) THEN keys ELSE {}
Alerting(t, keys, ts) == InsertAlerts(t, Due(t, keys), ts)
Added(t, keys, ts) == t.alerts \cup Inserted(t, Due(t, keys), ts)

If(b, keys) == IF b THEN keys ELSE {}

AfterDest(d, e, w) == UpsertDestination(Started(d, e.ts, w), e.flow.dest)

AfterProcess(t, e) ==
    Alerting(UpsertProcess(t, e.flow.proc),
             If(e.flow.out, {<<"egress", p>> : p \in {e.flow.proc} \ t.procs}), e.ts)

ChangeKeys(t, e) ==
    If(e.flow.out, {<<"identity", e.flow.proc, e.flow.ident.value>> :
                       i \in {j \in CurrentIdentity(t, e.flow.proc) :
                                 ChangedSince(j, e.flow.ident)}})

AfterIdentity(t, e) ==
    IF e.flow.ident = NoIdent THEN t
    ELSE Alerting(RecordIdentity(t, e.flow.proc, e.flow.ident), ChangeKeys(t, e), e.ts)

AfterLabel(t, e) ==
    Alerting(TouchPair(RecordLabel(t, e.flow.proc, e.flow.label), e.flow.proc, e.flow.dest),
             If(e.flow.out, {<<"dest", x[1], x[2]>> :
                                x \in {<<e.flow.proc, e.flow.label>>} \ t.labels}), e.ts)

AfterGeo(t, e) ==
    LET u == RecordGeo(t, e.flow.proc, GeoOf[e.flow.dest])
    IN  Alerting(u, If(e.flow.out, {<<"geo", x[1], x[2]>> : x \in u.geo \ t.geo}), e.ts)

AfterVolume(t, e) ==
    Alerting(UpsertVolume(t, e.flow.proc),
             If(e.flow.spike, {<<"volume", e.flow.proc>>}), e.ts)

Processed(d, e, w) == AfterProcess(AfterDest(d, e, w), e)
Identified(d, e, w) == AfterIdentity(Processed(d, e, w), e)
Labelled(d, e, w) == AfterLabel(Identified(d, e, w), e)
Located(d, e, w) == AfterGeo(Labelled(d, e, w), e)
Finished(d, e, w) == AfterVolume(Located(d, e, w), e)

\* How far the transaction is.
Progress ==
    /\ pc = "baseline" => tx = db
    /\ pc = "dest" => tx = Started(db, ev.ts, window)
    /\ pc \notin {"baseline", "dest", "commit", "idle", "notify"} => ev.flow.proc # NoProc
    /\ pc = "process" => tx = AfterDest(db, ev, window)
    /\ pc = "identity" => tx = Processed(db, ev, window)
    /\ pc = "label" => tx = Identified(db, ev, window)
    /\ pc = "geo" => tx = Labelled(db, ev, window)
    /\ pc = "volume" => tx = Located(db, ev, window)
    /\ pc = "commit" => tx = IF ev.flow.proc = NoProc THEN AfterDest(db, ev, window)
                             ELSE Finished(db, ev, window)

ChainInv ==
    /\ IsDb(db) /\ db.base \in Phases
    /\ window \in Windows
    /\ ~up => pc = "idle"
    /\ InTx => ev \in Event
    /\ Progress

-----------------------------------------------------------------------------
(***************************************************************************)
(* What the chain does to the tables is what Learnt does.                  *)
(***************************************************************************)
\* ensure_started, in two statements and in one.
LEMMA StartedInTwo ==
    ASSUME NEW d, IsDb(d), d.base \in Phases, NEW ts, NEW w
    PROVE  LET begun == IF d.base = "none" THEN OpenWindow(d, ts + w) ELSE d
           IN  Started(d, ts, w) =
                   IF ~Active(begun) /\ ts >= begun.ends THEN CloseWindow(begun) ELSE begun
  BY DEF IsDb, Phases, Started, OpenWindow, CloseWindow, Active

\* ensure_started writes two entries of meta and nothing else.
LEMMA TwoFields ==
    ASSUME NEW d, IsDb(d), NEW n, NEW b
    PROVE  [d EXCEPT !.ends = n, !.base = b] =
               [base |-> b, ends |-> n, dests |-> d.dests, procs |-> d.procs,
                idents |-> d.idents, cur |-> d.cur, labels |-> d.labels, pairs |-> d.pairs,
                geo |-> d.geo, volume |-> d.volume, alerts |-> d.alerts]
  <1> DEFINE a == [d EXCEPT !.ends = n]
  <1>1. a = [base |-> d.base, ends |-> n, dests |-> d.dests, procs |-> d.procs,
             idents |-> d.idents, cur |-> d.cur, labels |-> d.labels, pairs |-> d.pairs,
             geo |-> d.geo, volume |-> d.volume, alerts |-> d.alerts]
    BY DEF IsDb
  <1>2. [d EXCEPT !.ends = n, !.base = b] = [a EXCEPT !.base = b]
    OBVIOUS
  <1> HIDE DEF a
  <1> QED BY <1>1, <1>2

\* The window's life leaves every other table alone.
LEMMA StartedKeeps ==
    ASSUME NEW d, IsDb(d), d.base \in Phases, NEW ts, NEW w
    PROVE  LET s == Started(d, ts, w)
           IN  /\ IsDb(s) /\ s.base \in Phases
               /\ s.dests = d.dests /\ s.procs = d.procs /\ s.idents = d.idents
               /\ s.cur = d.cur /\ s.labels = d.labels /\ s.pairs = d.pairs
               /\ s.geo = d.geo /\ s.volume = d.volume /\ s.alerts = d.alerts
  <1> DEFINE ends == IF d.base = "none" THEN ts + w ELSE d.ends
             base == IF d.base = "active" \/ ts >= ends THEN "active" ELSE "learning"
             s == [d EXCEPT !.ends = ends, !.base = base]
  <1>1. Started(d, ts, w) = s
    BY DEF Started
  <1>2. base \in Phases
    BY DEF Phases
  <1> HIDE DEF base, ends
  <1>3. s = [base |-> base, ends |-> ends, dests |-> d.dests, procs |-> d.procs,
             idents |-> d.idents, cur |-> d.cur, labels |-> d.labels, pairs |-> d.pairs,
             geo |-> d.geo, volume |-> d.volume, alerts |-> d.alerts]
    BY TwoFields
  <1> HIDE DEF s
  <1> QED BY <1>1, <1>2, <1>3 DEF IsDb

\* An alert that is due twice in one evaluation is inserted once: the second time
\* it is cooling down, or would be the same row.
LEMMA AddedTwice ==
    ASSUME NEW t, NEW u, NEW K, NEW L, NEW ts,
           u.base = t.base, u.alerts = Added(t, K, ts)
    PROVE  Added(u, L, ts) = Added(t, K \cup L, ts)
  <1> DEFINE Row(k) == [key |-> k, ts |-> ts]
  <1>1. \A x, M : Inserted(x, M, ts) = {Row(k) : k \in {j \in M : ~Cooling(x, j, ts)}}
    BY DEF Inserted
  <1>2. /\ Due(u, L) = Due(t, L)
        /\ Due(t, K \cup L) = Due(t, K) \cup Due(t, L)
    BY DEF Due, Active
  <1>3. u.alerts = t.alerts \cup Inserted(t, Due(t, K), ts)
    BY DEF Added
  <1>4. \A j : Cooling(t, j, ts) => Cooling(u, j, ts)
    BY <1>3 DEF Cooling
  <1>5. \A j : Cooling(u, j, ts) /\ ~Cooling(t, j, ts) => j \in Due(t, K)
    <2> SUFFICES ASSUME NEW j, Cooling(u, j, ts), ~Cooling(t, j, ts)
                 PROVE  j \in Due(t, K)
      OBVIOUS
    <2>1. PICK a \in u.alerts : a.key = j /\ ts < a.ts + Cooldown
      BY DEF Cooling
    <2>2. a \in Inserted(t, Due(t, K), ts)
      BY <2>1, <1>3 DEF Cooling
    <2>3. PICK k \in Due(t, K) : a = Row(k)
      BY <2>2 DEF Inserted
    <2> QED BY <2>1, <2>3
  <1> HIDE DEF Row
  <1>6. u.alerts \cup Inserted(u, Due(t, L), ts) =
            t.alerts \cup Inserted(t, Due(t, K) \cup Due(t, L), ts)
    BY <1>1, <1>3, <1>4, <1>5
  <1> QED BY <1>2, <1>6 DEF Added

\* The tables once statements up to a point are done, in one expression: s is what
\* they were before them; i, l, g and v tell whether identity, label, geography and
\* volume are recorded; keys are those of the alerts.
Known(s, e, i, l, g, v, keys) ==
    LET p == e.flow.proc
        r == IF i /\ e.flow.ident # NoIdent THEN RecordIdentity(s, p, e.flow.ident) ELSE s
    IN  [base |-> s.base, ends |-> s.ends, dests |-> s.dests,
         procs |-> s.procs \cup {p},
         idents |-> r.idents, cur |-> r.cur,
         labels |-> s.labels \cup (IF l THEN {<<p, e.flow.label>>} ELSE {}),
         pairs |-> s.pairs \cup (IF l THEN {<<p, e.flow.dest>>} ELSE {}),
         geo |-> s.geo \cup (IF g THEN {p} \X GeoOf[e.flow.dest] ELSE {}),
         volume |-> s.volume \cup (IF v THEN {p} ELSE {}),
         alerts |-> Added(s, keys, e.ts)]

\* emit, behind a statement that leaves the alerts alone, adds its keys.
LEMMA EmitAdds ==
    ASSUME NEW s, NEW u, NEW ts, NEW K, NEW L,
           IsDb(u), u.base = s.base, u.alerts = Added(s, K, ts)
    PROVE  Alerting(u, L, ts) =
               [base |-> u.base, ends |-> u.ends, dests |-> u.dests, procs |-> u.procs,
                idents |-> u.idents, cur |-> u.cur, labels |-> u.labels,
                pairs |-> u.pairs, geo |-> u.geo, volume |-> u.volume,
                alerts |-> Added(s, K \cup L, ts)]
  <1> DEFINE A == Added(u, L, ts)
  <1>1. A = Added(s, K \cup L, ts)
    BY AddedTwice
  <1>2. Alerting(u, L, ts) = [u EXCEPT !.alerts = A]
    BY DEF Alerting, InsertAlerts, Added
  <1> HIDE DEF A
  <1>3. [u EXCEPT !.alerts = A] =
            [base |-> u.base, ends |-> u.ends, dests |-> u.dests, procs |-> u.procs,
             idents |-> u.idents, cur |-> u.cur, labels |-> u.labels,
             pairs |-> u.pairs, geo |-> u.geo, volume |-> u.volume, alerts |-> A]
    BY DEF IsDb
  <1> QED BY <1>1, <1>2, <1>3

\* Nothing is added yet.
LEMMA NothingAdded == ASSUME NEW s, NEW ts PROVE s.alerts = Added(s, {}, ts)
  BY DEF Added, Due, Inserted

\* The chain, statement by statement, in that form.
LEMMA ProcessKnown ==
    ASSUME NEW s, IsDb(s), NEW e
    PROVE  AfterProcess(s, e) =
               Known(s, e, FALSE, FALSE, FALSE, FALSE,
                     If(e.flow.out, {<<"egress", p>> : p \in {e.flow.proc} \ s.procs}))
  <1> DEFINE K == {}
             u == UpsertProcess(s, e.flow.proc)
             L == If(e.flow.out, {<<"egress", p>> : p \in {e.flow.proc} \ s.procs})
  <1>1. /\ IsDb(u) /\ u.base = s.base /\ u.ends = s.ends /\ u.dests = s.dests
        /\ u.procs = s.procs \cup {e.flow.proc} /\ u.idents = s.idents /\ u.cur = s.cur
        /\ u.labels = s.labels /\ u.pairs = s.pairs /\ u.geo = s.geo
        /\ u.volume = s.volume /\ u.alerts = s.alerts
    BY DEF IsDb, UpsertProcess
  <1>2. u.alerts = Added(s, K, e.ts)
    BY <1>1, NothingAdded
  <1>3. AfterProcess(s, e) = Alerting(u, L, e.ts)
    BY DEF AfterProcess
  <1>6. K \cup L = L
    OBVIOUS
  <1> HIDE DEF u, L, K
  <1>4. Alerting(u, L, e.ts) =
            [base |-> u.base, ends |-> u.ends, dests |-> u.dests, procs |-> u.procs,
             idents |-> u.idents, cur |-> u.cur, labels |-> u.labels,
             pairs |-> u.pairs, geo |-> u.geo, volume |-> u.volume,
             alerts |-> Added(s, K \cup L, e.ts)]
    BY <1>1, <1>2, EmitAdds
  <1>5. Alerting(u, L, e.ts) = Known(s, e, FALSE, FALSE, FALSE, FALSE, L)
    BY <1>1, <1>4, <1>6 DEF Known
  <1> QED BY <1>3, <1>5 DEF L

\* The keys of each signal, by what the tables said before the chain.
EgressKeys(s, e) == If(e.flow.out, {<<"egress", p>> : p \in {e.flow.proc} \ s.procs})
IdentKeys(s, e) == IF e.flow.ident = NoIdent THEN {} ELSE ChangeKeys(s, e)
LabelKeys(s, e) ==
    If(e.flow.out, {<<"dest", x[1], x[2]>> :
                       x \in {<<e.flow.proc, e.flow.label>>} \ s.labels})
GeoKeys(s, e) ==
    If(e.flow.out, {<<"geo", x[1], x[2]>> :
                       x \in ({e.flow.proc} \X GeoOf[e.flow.dest]) \ s.geo})
VolumeKeys(s, e) == If(e.flow.spike, {<<"volume", e.flow.proc>>})

\* What the statements of one transaction change, and what they leave.
LEMMA LabelFields ==
    ASSUME NEW t, IsDb(t), NEW p, NEW l, NEW d
    PROVE  LET u == TouchPair(RecordLabel(t, p, l), p, d)
           IN  /\ IsDb(u)
               /\ u.base = t.base
               /\ u.ends = t.ends
               /\ u.dests = t.dests
               /\ u.procs = t.procs
               /\ u.idents = t.idents
               /\ u.cur = t.cur
               /\ u.labels = t.labels \cup {<<p, l>>}
               /\ u.pairs = t.pairs \cup {<<p, d>>}
               /\ u.geo = t.geo
               /\ u.volume = t.volume
               /\ u.alerts = t.alerts
  <1> DEFINE a == RecordLabel(t, p, l)
             b == t.labels \cup {<<p, l>>}
             c == t.pairs \cup {<<p, d>>}
  <1>1. a = [t EXCEPT !.labels = b]
    BY DEF RecordLabel
  <1> HIDE DEF b
  <1>2. a = [base |-> t.base, ends |-> t.ends, dests |-> t.dests, procs |-> t.procs,
             idents |-> t.idents, cur |-> t.cur, labels |-> b, pairs |-> t.pairs,
             geo |-> t.geo, volume |-> t.volume, alerts |-> t.alerts]
    BY <1>1 DEF IsDb
  <1> HIDE DEF a
  <1>3. TouchPair(a, p, d) = [a EXCEPT !.pairs = c]
    BY <1>2 DEF TouchPair
  <1> HIDE DEF c
  <1>4. TouchPair(a, p, d) =
            [base |-> t.base, ends |-> t.ends, dests |-> t.dests, procs |-> t.procs,
             idents |-> t.idents, cur |-> t.cur, labels |-> b, pairs |-> c,
             geo |-> t.geo, volume |-> t.volume, alerts |-> t.alerts]
    BY <1>2, <1>3
  <1> QED BY <1>4 DEF IsDb, a, b, c

\* note_country and note_asn, table by table.
LEMMA GeoFields ==
    ASSUME NEW t, IsDb(t), NEW p, NEW places
    PROVE  LET u == RecordGeo(t, p, places)
           IN  /\ IsDb(u)
               /\ u.base = t.base
               /\ u.ends = t.ends
               /\ u.dests = t.dests
               /\ u.procs = t.procs
               /\ u.idents = t.idents
               /\ u.cur = t.cur
               /\ u.labels = t.labels
               /\ u.pairs = t.pairs
               /\ u.geo = t.geo \cup ({p} \X places)
               /\ u.volume = t.volume
               /\ u.alerts = t.alerts
  <1> DEFINE b == t.geo \cup ({p} \X places)
             u == RecordGeo(t, p, places)
  <1>1. u = [t EXCEPT !.geo = b]
    BY DEF RecordGeo
  <1> HIDE DEF b, u
  <1>2. u =
            [base |-> t.base, ends |-> t.ends, dests |-> t.dests, procs |->
             t.procs, idents |-> t.idents, cur |-> t.cur, labels |-> t.labels,
             pairs |-> t.pairs, geo |-> b, volume |-> t.volume, alerts |-> t.alerts]
    BY <1>1 DEF IsDb
  <1> QED BY <1>2 DEF IsDb, b, u

\* upsert_volume_stat, table by table.
LEMMA VolumeFields ==
    ASSUME NEW t, IsDb(t), NEW p
    PROVE  LET u == UpsertVolume(t, p)
           IN  /\ IsDb(u)
               /\ u.base = t.base
               /\ u.ends = t.ends
               /\ u.dests = t.dests
               /\ u.procs = t.procs
               /\ u.idents = t.idents
               /\ u.cur = t.cur
               /\ u.labels = t.labels
               /\ u.pairs = t.pairs
               /\ u.geo = t.geo
               /\ u.volume = t.volume \cup {p}
               /\ u.alerts = t.alerts
  <1> DEFINE b == t.volume \cup {p}
             u == UpsertVolume(t, p)
  <1>1. u = [t EXCEPT !.volume = b]
    BY DEF UpsertVolume
  <1> HIDE DEF b, u
  <1>2. u =
            [base |-> t.base, ends |-> t.ends, dests |-> t.dests, procs |->
             t.procs, idents |-> t.idents, cur |-> t.cur, labels |-> t.labels,
             pairs |-> t.pairs, geo |-> t.geo, volume |-> b, alerts |-> t.alerts]
    BY <1>1 DEF IsDb
  <1> QED BY <1>2 DEF IsDb, b, u

\* record_identity depends on the identities alone.
WithIdent(f, p, i) ==
    [f EXCEPT ![p] = IF \E j \in @ : j.value = i.value THEN @ ELSE @ \cup {i}]
WithCurrent(f, p, i) == [f EXCEPT ![p] = i.value]

\* record_identity, table by table.
LEMMA IdentityFields ==
    ASSUME NEW t, IsDb(t), NEW p, NEW i
    PROVE  LET u == RecordIdentity(t, p, i)
           IN  /\ IsDb(u)
               /\ u.idents = WithIdent(t.idents, p, i)
               /\ u.cur = WithCurrent(t.cur, p, i)
               /\ u.base = t.base
               /\ u.ends = t.ends
               /\ u.dests = t.dests
               /\ u.procs = t.procs
               /\ u.labels = t.labels
               /\ u.pairs = t.pairs
               /\ u.geo = t.geo
               /\ u.volume = t.volume
               /\ u.alerts = t.alerts
  <1> DEFINE b == WithIdent(t.idents, p, i)
             c == WithCurrent(t.cur, p, i)
             a == [t EXCEPT !.idents = b]
             u == RecordIdentity(t, p, i)
  <1>1. u = [t EXCEPT !.idents = b, !.cur = c]
    BY DEF RecordIdentity, WithIdent, WithCurrent
  <1>2. [t EXCEPT !.idents = b, !.cur = c] = [a EXCEPT !.cur = c]
    BY DEF IsDb
  <1> HIDE DEF b, c, u
  <1>3. a = [base |-> t.base, ends |-> t.ends, dests |-> t.dests, procs |-> t.procs,
             idents |-> b, cur |-> t.cur, labels |-> t.labels, pairs |-> t.pairs,
             geo |-> t.geo, volume |-> t.volume, alerts |-> t.alerts]
    BY DEF IsDb
  <1> HIDE DEF a
  <1>4. u = [base |-> t.base, ends |-> t.ends, dests |-> t.dests, procs |-> t.procs,
             idents |-> b, cur |-> c, labels |-> t.labels, pairs |-> t.pairs,
             geo |-> t.geo, volume |-> t.volume, alerts |-> t.alerts]
    BY <1>1, <1>2, <1>3
  <1> QED BY <1>4 DEF IsDb, b, c, u

\* current_identity, record_identity and signal 5, behind signal 2.
LEMMA IdentityKnown ==
    ASSUME NEW s, IsDb(s), NEW e, NEW K
    PROVE  AfterIdentity(Known(s, e, FALSE, FALSE, FALSE, FALSE, K), e) =
               Known(s, e, TRUE, FALSE, FALSE, FALSE, K \cup IdentKeys(s, e))
  <1> DEFINE t == Known(s, e, FALSE, FALSE, FALSE, FALSE, K)
             L == IdentKeys(s, e)
  <1>1. CASE e.flow.ident = NoIdent
    <2>1. AfterIdentity(t, e) = t /\ K \cup L = K
      BY <1>1 DEF AfterIdentity, IdentKeys
    <2>2. t = Known(s, e, TRUE, FALSE, FALSE, FALSE, K)
      BY <1>1 DEF Known
    <2> QED BY <2>1, <2>2
  <1>2. CASE e.flow.ident # NoIdent
    <2> DEFINE p == e.flow.proc
               r == RecordIdentity(s, p, e.flow.ident)
               u == RecordIdentity(t, p, e.flow.ident)
    <2>1. /\ t.idents = s.idents /\ t.cur = s.cur /\ t.base = s.base /\ t.ends = s.ends
          /\ t.dests = s.dests /\ t.procs = s.procs \cup {p} /\ t.labels = s.labels
          /\ t.pairs = s.pairs /\ t.geo = s.geo /\ t.volume = s.volume
          /\ t.alerts = Added(s, K, e.ts) /\ IsDb(t)
      BY DEF Known, IsDb
    <2>2. ChangeKeys(t, e) = L
      BY <1>2, <2>1 DEF IdentKeys, ChangeKeys, CurrentIdentity
    <2> HIDE DEF t
    <2>3. /\ u.idents = r.idents /\ u.cur = r.cur
          /\ u.base = s.base /\ u.ends = s.ends
          /\ u.dests = s.dests /\ u.procs = s.procs \cup {p} /\ u.labels = s.labels
          /\ u.pairs = s.pairs /\ u.geo = s.geo /\ u.volume = s.volume
          /\ u.alerts = Added(s, K, e.ts) /\ IsDb(u)
      <3>1. /\ r.idents = WithIdent(s.idents, p, e.flow.ident)
            /\ r.cur = WithCurrent(s.cur, p, e.flow.ident)
        BY IdentityFields
      <3>2. /\ u.idents = WithIdent(t.idents, p, e.flow.ident)
            /\ u.cur = WithCurrent(t.cur, p, e.flow.ident)
            /\ u.base = t.base /\ u.ends = t.ends
            /\ u.dests = t.dests /\ u.procs = t.procs /\ u.labels = t.labels
            /\ u.pairs = t.pairs /\ u.geo = t.geo /\ u.volume = t.volume
            /\ u.alerts = t.alerts /\ IsDb(u)
        BY <2>1, IdentityFields
      <3> HIDE DEF u, r
      <3> QED BY <2>1, <3>1, <3>2
    <2>4. AfterIdentity(t, e) = Alerting(u, L, e.ts)
      BY <1>2, <2>2 DEF AfterIdentity
    <2> HIDE DEF u, r, L
    <2>5. Alerting(u, L, e.ts) =
              [base |-> u.base, ends |-> u.ends, dests |-> u.dests, procs |-> u.procs,
               idents |-> u.idents, cur |-> u.cur, labels |-> u.labels,
               pairs |-> u.pairs, geo |-> u.geo, volume |-> u.volume,
               alerts |-> Added(s, K \cup L, e.ts)]
      BY <2>3, EmitAdds, SMTT(30)
    <2>6. Alerting(u, L, e.ts) = Known(s, e, TRUE, FALSE, FALSE, FALSE, K \cup L)
      BY <1>2, <2>3, <2>5 DEF Known, r
    <2> QED BY <2>4, <2>6 DEF t, L
  <1> QED BY <1>1, <1>2

\* note_label, touch_pair and signal 1, behind signal 5.
LEMMA LabelKnown ==
    ASSUME NEW s, IsDb(s), NEW e, NEW K
    PROVE  AfterLabel(Known(s, e, TRUE, FALSE, FALSE, FALSE, K), e) =
               Known(s, e, TRUE, TRUE, FALSE, FALSE, K \cup LabelKeys(s, e))
  <1> DEFINE p == e.flow.proc
             r == IF e.flow.ident # NoIdent THEN RecordIdentity(s, p, e.flow.ident) ELSE s
             t == Known(s, e, TRUE, FALSE, FALSE, FALSE, K)
             u == TouchPair(RecordLabel(t, p, e.flow.label), p, e.flow.dest)
             L == LabelKeys(s, e)
  <1>1. /\ t.base = s.base
        /\ t.ends = s.ends
        /\ t.dests = s.dests
        /\ t.procs = s.procs \cup {p}
        /\ t.idents = r.idents
        /\ t.cur = r.cur
        /\ t.labels = s.labels
        /\ t.pairs = s.pairs
        /\ t.geo = s.geo
        /\ t.volume = s.volume
        /\ t.alerts = Added(s, K, e.ts)
        /\ IsDb(t)
    <2> HIDE DEF r
    <2>1. t = [base |-> s.base, ends |-> s.ends, dests |-> s.dests,
               procs |-> s.procs \cup {p}, idents |-> r.idents, cur |-> r.cur,
               labels |-> s.labels,
               pairs |-> s.pairs,
               geo |-> s.geo,
               volume |-> s.volume, alerts |-> Added(s, K, e.ts)]
      BY DEF Known, r
    <2> HIDE DEF t
    <2> QED BY <2>1 DEF IsDb
  <1> HIDE DEF t, r
  <1>2. /\ u.base = s.base
        /\ u.ends = s.ends
        /\ u.dests = s.dests
        /\ u.procs = s.procs \cup {p}
        /\ u.idents = r.idents
        /\ u.cur = r.cur
        /\ u.labels = s.labels \cup {<<p, e.flow.label>>}
        /\ u.pairs = s.pairs \cup {<<p, e.flow.dest>>}
        /\ u.geo = s.geo
        /\ u.volume = s.volume
        /\ u.alerts = Added(s, K, e.ts)
        /\ IsDb(u)
    BY <1>1, LabelFields
  <1>3. AfterLabel(t, e) = Alerting(u, L, e.ts)
    BY <1>1, <1>2 DEF AfterLabel, LabelKeys
  <1> HIDE DEF u, L
  <1>4. Alerting(u, L, e.ts) =
            [base |-> u.base, ends |-> u.ends, dests |-> u.dests, procs |-> u.procs,
             idents |-> u.idents, cur |-> u.cur, labels |-> u.labels,
             pairs |-> u.pairs, geo |-> u.geo, volume |-> u.volume,
             alerts |-> Added(s, K \cup L, e.ts)]
    <2>1. IsDb(u) /\ u.base = s.base /\ u.alerts = Added(s, K, e.ts)
      BY <1>2
    <2> QED BY <2>1, EmitAdds
  <1>5. Alerting(u, L, e.ts) = Known(s, e, TRUE, TRUE, FALSE, FALSE, K \cup L)
    BY <1>2, <1>4 DEF Known, r
  <1> QED BY <1>3, <1>5 DEF t, L

\* note_country, note_asn and signal 3, behind signal 1.
LEMMA GeoKnown ==
    ASSUME NEW s, IsDb(s), NEW e, NEW K
    PROVE  AfterGeo(Known(s, e, TRUE, TRUE, FALSE, FALSE, K), e) =
               Known(s, e, TRUE, TRUE, TRUE, FALSE, K \cup GeoKeys(s, e))
  <1> DEFINE p == e.flow.proc
             r == IF e.flow.ident # NoIdent THEN RecordIdentity(s, p, e.flow.ident) ELSE s
             t == Known(s, e, TRUE, TRUE, FALSE, FALSE, K)
             u == RecordGeo(t, p, GeoOf[e.flow.dest])
             L == GeoKeys(s, e)
  <1>1. /\ t.base = s.base
        /\ t.ends = s.ends
        /\ t.dests = s.dests
        /\ t.procs = s.procs \cup {p}
        /\ t.idents = r.idents
        /\ t.cur = r.cur
        /\ t.labels = s.labels \cup {<<p, e.flow.label>>}
        /\ t.pairs = s.pairs \cup {<<p, e.flow.dest>>}
        /\ t.geo = s.geo
        /\ t.volume = s.volume
        /\ t.alerts = Added(s, K, e.ts)
        /\ IsDb(t)
    <2> HIDE DEF r
    <2>1. t = [base |-> s.base, ends |-> s.ends, dests |-> s.dests,
               procs |-> s.procs \cup {p}, idents |-> r.idents, cur |-> r.cur,
               labels |-> s.labels \cup {<<p, e.flow.label>>},
               pairs |-> s.pairs \cup {<<p, e.flow.dest>>},
               geo |-> s.geo,
               volume |-> s.volume, alerts |-> Added(s, K, e.ts)]
      BY DEF Known, r
    <2> HIDE DEF t
    <2> QED BY <2>1 DEF IsDb
  <1> HIDE DEF t, r
  <1>2. /\ u.base = s.base
        /\ u.ends = s.ends
        /\ u.dests = s.dests
        /\ u.procs = s.procs \cup {p}
        /\ u.idents = r.idents
        /\ u.cur = r.cur
        /\ u.labels = s.labels \cup {<<p, e.flow.label>>}
        /\ u.pairs = s.pairs \cup {<<p, e.flow.dest>>}
        /\ u.geo = s.geo \cup ({p} \X GeoOf[e.flow.dest])
        /\ u.volume = s.volume
        /\ u.alerts = Added(s, K, e.ts)
        /\ IsDb(u)
    BY <1>1, GeoFields
  <1>3. AfterGeo(t, e) = Alerting(u, L, e.ts)
    BY <1>1, <1>2 DEF AfterGeo, GeoKeys
  <1> HIDE DEF u, L
  <1>4. Alerting(u, L, e.ts) =
            [base |-> u.base, ends |-> u.ends, dests |-> u.dests, procs |-> u.procs,
             idents |-> u.idents, cur |-> u.cur, labels |-> u.labels,
             pairs |-> u.pairs, geo |-> u.geo, volume |-> u.volume,
             alerts |-> Added(s, K \cup L, e.ts)]
    <2>1. IsDb(u) /\ u.base = s.base /\ u.alerts = Added(s, K, e.ts)
      BY <1>2
    <2> QED BY <2>1, EmitAdds
  <1>5. Alerting(u, L, e.ts) = Known(s, e, TRUE, TRUE, TRUE, FALSE, K \cup L)
    BY <1>2, <1>4 DEF Known, r
  <1> QED BY <1>3, <1>5 DEF t, L

\* update_volume and signal 4, behind signal 3.
LEMMA VolumeKnown ==
    ASSUME NEW s, IsDb(s), NEW e, NEW K
    PROVE  AfterVolume(Known(s, e, TRUE, TRUE, TRUE, FALSE, K), e) =
               Known(s, e, TRUE, TRUE, TRUE, TRUE, K \cup VolumeKeys(s, e))
  <1> DEFINE p == e.flow.proc
             r == IF e.flow.ident # NoIdent THEN RecordIdentity(s, p, e.flow.ident) ELSE s
             t == Known(s, e, TRUE, TRUE, TRUE, FALSE, K)
             u == UpsertVolume(t, p)
             L == VolumeKeys(s, e)
  <1>1. /\ t.base = s.base
        /\ t.ends = s.ends
        /\ t.dests = s.dests
        /\ t.procs = s.procs \cup {p}
        /\ t.idents = r.idents
        /\ t.cur = r.cur
        /\ t.labels = s.labels \cup {<<p, e.flow.label>>}
        /\ t.pairs = s.pairs \cup {<<p, e.flow.dest>>}
        /\ t.geo = s.geo \cup ({p} \X GeoOf[e.flow.dest])
        /\ t.volume = s.volume
        /\ t.alerts = Added(s, K, e.ts)
        /\ IsDb(t)
    <2> HIDE DEF r
    <2>1. t = [base |-> s.base, ends |-> s.ends, dests |-> s.dests,
               procs |-> s.procs \cup {p}, idents |-> r.idents, cur |-> r.cur,
               labels |-> s.labels \cup {<<p, e.flow.label>>},
               pairs |-> s.pairs \cup {<<p, e.flow.dest>>},
               geo |-> s.geo \cup ({p} \X GeoOf[e.flow.dest]),
               volume |-> s.volume, alerts |-> Added(s, K, e.ts)]
      BY DEF Known, r
    <2> HIDE DEF t
    <2> QED BY <2>1 DEF IsDb
  <1> HIDE DEF t, r
  <1>2. /\ u.base = s.base
        /\ u.ends = s.ends
        /\ u.dests = s.dests
        /\ u.procs = s.procs \cup {p}
        /\ u.idents = r.idents
        /\ u.cur = r.cur
        /\ u.labels = s.labels \cup {<<p, e.flow.label>>}
        /\ u.pairs = s.pairs \cup {<<p, e.flow.dest>>}
        /\ u.geo = s.geo \cup ({p} \X GeoOf[e.flow.dest])
        /\ u.volume = s.volume \cup {p}
        /\ u.alerts = Added(s, K, e.ts)
        /\ IsDb(u)
    BY <1>1, VolumeFields
  <1>3. AfterVolume(t, e) = Alerting(u, L, e.ts)
    BY <1>1, <1>2 DEF AfterVolume, VolumeKeys
  <1> HIDE DEF u, L
  <1>4. Alerting(u, L, e.ts) =
            [base |-> u.base, ends |-> u.ends, dests |-> u.dests, procs |-> u.procs,
             idents |-> u.idents, cur |-> u.cur, labels |-> u.labels,
             pairs |-> u.pairs, geo |-> u.geo, volume |-> u.volume,
             alerts |-> Added(s, K \cup L, e.ts)]
    <2>1. IsDb(u) /\ u.base = s.base /\ u.alerts = Added(s, K, e.ts)
      BY <1>2
    <2> QED BY <2>1, EmitAdds
  <1>5. Alerting(u, L, e.ts) = Known(s, e, TRUE, TRUE, TRUE, TRUE, K \cup L)
    BY <1>2, <1>4 DEF Known, r
  <1> QED BY <1>3, <1>5 DEF t, L

\* The window is looked after and the destination recorded.
LEMMA AfterDestFields ==
    ASSUME NEW d, IsDb(d), d.base \in Phases, NEW e, NEW w
    PROVE  LET s == AfterDest(d, e, w)
           IN  /\ IsDb(s) /\ s.base \in Phases
               /\ s.procs = d.procs /\ s.idents = d.idents
               /\ s.cur = d.cur /\ s.labels = d.labels /\ s.pairs = d.pairs
               /\ s.geo = d.geo /\ s.volume = d.volume /\ s.alerts = d.alerts
  <1> DEFINE t == Started(d, e.ts, w)
             b == t.dests \cup {e.flow.dest}
             u == UpsertDestination(t, e.flow.dest)
  <1>1. /\ IsDb(t) /\ t.base \in Phases
        /\ t.procs = d.procs /\ t.idents = d.idents
        /\ t.cur = d.cur /\ t.labels = d.labels /\ t.pairs = d.pairs
        /\ t.geo = d.geo /\ t.volume = d.volume /\ t.alerts = d.alerts
    BY StartedKeeps
  <1>2. AfterDest(d, e, w) = u
    BY DEF AfterDest
  <1>3. u = [t EXCEPT !.dests = b]
    BY DEF UpsertDestination
  <1> HIDE DEF b, u, t
  <1>4. u = [base |-> t.base, ends |-> t.ends, dests |-> b, procs |-> t.procs,
             idents |-> t.idents, cur |-> t.cur, labels |-> t.labels,
             pairs |-> t.pairs, geo |-> t.geo, volume |-> t.volume, alerts |-> t.alerts]
    BY <1>1, <1>3 DEF IsDb
  <1> QED BY <1>1, <1>2, <1>4 DEF IsDb

AllKeys(s, e) ==
    EgressKeys(s, e) \cup IdentKeys(s, e) \cup LabelKeys(s, e)
        \cup GeoKeys(s, e) \cup VolumeKeys(s, e)

\* What the five signals look at is what Raised looks at.
LEMMA SameKeys ==
    ASSUME NEW s, NEW d, NEW e,
           s.procs = d.procs, s.idents = d.idents, s.cur = d.cur,
           s.labels = d.labels, s.geo = d.geo
    PROVE  AllKeys(s, e) = Raised(d, e.flow)
  <1> DEFINE p == e.flow.proc
             A == {<<"egress", x>> : x \in {p} \ s.procs}
             C == {<<"dest", x[1], x[2]>> : x \in {<<p, e.flow.label>>} \ s.labels}
             G == {<<"geo", x[1], x[2]>> : x \in ({p} \X GeoOf[e.flow.dest]) \ s.geo}
             B == {<<"identity", p, e.flow.ident.value>> :
                     i \in {j \in CurrentIdentity(s, p) : ChangedSince(j, e.flow.ident)}}
             D == {<<"identity", p, e.flow.ident.value>> :
                     i \in {j \in CurrentIdentity(d, p) :
                               e.flow.ident # NoIdent /\ ChangedSince(j, e.flow.ident)}}
             E == {<<"egress", p>> : x \in {p} \ d.procs}
             V == {<<"volume", p>>}
  <1>1. CurrentIdentity(s, p) = CurrentIdentity(d, p)
    BY DEF CurrentIdentity
  <1>2. D = IF e.flow.ident = NoIdent THEN {} ELSE B
    BY <1>1
  <1>3. A = E
    OBVIOUS
  <1>4. Deserved(d, e.flow) = E \cup D \cup C \cup G
    BY DEF Deserved
  <1>5. EgressKeys(s, e) = IF e.flow.out THEN A ELSE {}
    BY DEF EgressKeys, If
  <1>6. IdentKeys(s, e) = IF e.flow.out THEN D ELSE {}
    BY <1>2 DEF IdentKeys, ChangeKeys, If
  <1>7. LabelKeys(s, e) = IF e.flow.out THEN C ELSE {}
    BY DEF LabelKeys, If
  <1>8. GeoKeys(s, e) = IF e.flow.out THEN G ELSE {}
    BY DEF GeoKeys, If
  <1>9. VolumeKeys(s, e) = IF e.flow.spike THEN V ELSE {}
    BY DEF VolumeKeys, If
  <1>10. Raised(d, e.flow) = (IF e.flow.out THEN Deserved(d, e.flow) ELSE {})
                               \cup (IF e.flow.spike THEN V ELSE {})
    BY DEF Raised
  <1> HIDE DEF A, B, C, D, E, G, V
  <1>11. CASE e.flow.out
    BY <1>3, <1>4, <1>5, <1>6, <1>7, <1>8, <1>9, <1>10, <1>11 DEF AllKeys
  <1>12. CASE ~e.flow.out
    BY <1>5, <1>6, <1>7, <1>8, <1>9, <1>10, <1>12 DEF AllKeys
  <1> QED BY <1>11, <1>12

\* The whole chain, in that form.
LEMMA FinishedKnown ==
    ASSUME NEW d, IsDb(d), d.base \in Phases, NEW e, NEW w
    PROVE  Finished(d, e, w) =
               Known(AfterDest(d, e, w), e, TRUE, TRUE, TRUE, TRUE,
                     AllKeys(AfterDest(d, e, w), e))
  <1> DEFINE s == AfterDest(d, e, w)
  <1>1. IsDb(s)
    BY AfterDestFields
  <1>2. Processed(d, e, w) =
            Known(s, e, FALSE, FALSE, FALSE, FALSE, EgressKeys(s, e))
    BY <1>1, ProcessKnown DEF Processed, EgressKeys
  <1>3. Identified(d, e, w) =
            Known(s, e, TRUE, FALSE, FALSE, FALSE, EgressKeys(s, e) \cup IdentKeys(s, e))
    BY <1>1, <1>2, IdentityKnown DEF Identified
  <1>4. Labelled(d, e, w) =
            Known(s, e, TRUE, TRUE, FALSE, FALSE,
                  EgressKeys(s, e) \cup IdentKeys(s, e) \cup LabelKeys(s, e))
    BY <1>1, <1>3, LabelKnown DEF Labelled
  <1>5. Located(d, e, w) =
            Known(s, e, TRUE, TRUE, TRUE, FALSE,
                  EgressKeys(s, e) \cup IdentKeys(s, e) \cup LabelKeys(s, e)
                      \cup GeoKeys(s, e))
    BY <1>1, <1>4, GeoKnown DEF Located
  <1> QED BY <1>1, <1>5, VolumeKnown DEF Finished, AllKeys

\* What Learnt adds at once.
Grown(t, a, b, c, g, v) ==
    [t EXCEPT !.procs = a, !.volume = v, !.labels = b, !.pairs = c, !.geo = g]

\* The same, table by table.
LEMMA GrownFields ==
    ASSUME NEW t, IsDb(t), NEW a, NEW b, NEW c, NEW g, NEW v
    PROVE  Grown(t, a, b, c, g, v) =
               [base |-> t.base, ends |-> t.ends, dests |-> t.dests, procs |-> a,
                idents |-> t.idents, cur |-> t.cur, labels |-> b, pairs |-> c,
                geo |-> g, volume |-> v, alerts |-> t.alerts]
  <1> DEFINE t1 == [t EXCEPT !.procs = a]
             t2 == [t1 EXCEPT !.volume = v]
             t3 == [t2 EXCEPT !.labels = b]
             t4 == [t3 EXCEPT !.pairs = c]
             t5 == [t4 EXCEPT !.geo = g]
  <1>1. Grown(t, a, b, c, g, v) = t5
    BY DEF Grown
  <1>2. t1 = [base |-> t.base, ends |-> t.ends, dests |-> t.dests, procs |-> a, idents
             |-> t.idents, cur |-> t.cur, labels |-> t.labels, pairs |-> t.pairs, geo
             |-> t.geo, volume |-> t.volume, alerts |-> t.alerts]
    BY DEF IsDb
  <1> HIDE DEF t1
  <1>3. t2 = [base |-> t.base, ends |-> t.ends, dests |-> t.dests, procs |-> a, idents
             |-> t.idents, cur |-> t.cur, labels |-> t.labels, pairs |-> t.pairs, geo
             |-> t.geo, volume |-> v, alerts |-> t.alerts]
    BY <1>2
  <1> HIDE DEF t2
  <1>4. t3 = [base |-> t.base, ends |-> t.ends, dests |-> t.dests, procs |-> a, idents
             |-> t.idents, cur |-> t.cur, labels |-> b, pairs |-> t.pairs, geo |->
             t.geo, volume |-> v, alerts |-> t.alerts]
    BY <1>3
  <1> HIDE DEF t3
  <1>5. t4 = [base |-> t.base, ends |-> t.ends, dests |-> t.dests, procs |-> a, idents
             |-> t.idents, cur |-> t.cur, labels |-> b, pairs |-> c, geo |-> t.geo,
             volume |-> v, alerts |-> t.alerts]
    BY <1>4
  <1> HIDE DEF t4
  <1>6. t5 = [base |-> t.base, ends |-> t.ends, dests |-> t.dests, procs |-> a, idents
             |-> t.idents, cur |-> t.cur, labels |-> b, pairs |-> c, geo |-> g, volume
             |-> v, alerts |-> t.alerts]
    BY <1>5
  <1> HIDE DEF t5
  <1> QED BY <1>1, <1>6

\* The chain of statements does to the tables what Learnt does.
LEMMA FinishedIsLearnt ==
    ASSUME NEW d, IsDb(d), d.base \in Phases, NEW e, NEW w
    PROVE  Learnt(d, e, w) = IF e.flow.proc = NoProc THEN AfterDest(d, e, w)
                             ELSE Finished(d, e, w)
  <1> DEFINE f == e.flow
             p == e.flow.proc
             s == AfterDest(d, e, w)
             known == IF f.ident = NoIdent THEN s ELSE RecordIdentity(s, p, f.ident)
             procs == known.procs \cup {p}
             volume == known.volume \cup {p}
             labels == known.labels \cup {<<p, f.label>>}
             pairs == known.pairs \cup {<<p, f.dest>>}
             geo == known.geo \cup ({p} \X GeoOf[f.dest])
             grown == [known EXCEPT !.procs = procs, !.volume = volume,
                                    !.labels = labels, !.pairs = pairs, !.geo = geo]
             K == AllKeys(s, e)
  <1>1. Learnt(d, e, w) =
            IF p = NoProc THEN s
            ELSE IF Active(s) THEN InsertAlerts(grown, Raised(d, f), e.ts)
            ELSE grown
    BY DEF Learnt, AfterDest
  <1>2. /\ IsDb(s) /\ s.procs = d.procs /\ s.idents = d.idents
        /\ s.cur = d.cur /\ s.labels = d.labels /\ s.geo = d.geo
    BY AfterDestFields
  <1>3. K = Raised(d, f)
    BY <1>2, SameKeys
  <1>4. Finished(d, e, w) = Known(s, e, TRUE, TRUE, TRUE, TRUE, K)
    BY FinishedKnown
  <1>5. /\ IsDb(known) /\ known.base = s.base /\ known.ends = s.ends
        /\ known.dests = s.dests /\ known.procs = s.procs /\ known.labels = s.labels
        /\ known.pairs = s.pairs /\ known.geo = s.geo /\ known.volume = s.volume
        /\ known.alerts = s.alerts
    <2> HIDE DEF s
    <2>1. CASE f.ident = NoIdent
      BY <1>2, <2>1
    <2>2. CASE f.ident # NoIdent
      BY <1>2, <2>2, IdentityFields
    <2> QED BY <2>1, <2>2
  <1>6. Known(s, e, TRUE, TRUE, TRUE, TRUE, K) =
            [base |-> s.base, ends |-> s.ends, dests |-> s.dests,
             procs |-> s.procs \cup {p}, idents |-> known.idents, cur |-> known.cur,
             labels |-> s.labels \cup {<<p, f.label>>},
             pairs |-> s.pairs \cup {<<p, f.dest>>},
             geo |-> s.geo \cup ({p} \X GeoOf[f.dest]),
             volume |-> s.volume \cup {p}, alerts |-> Added(s, K, e.ts)]
    BY DEF Known
  <1> HIDE DEF s, known, K
  <1>7. grown =
            [base |-> s.base, ends |-> s.ends, dests |-> s.dests,
             procs |-> s.procs \cup {p}, idents |-> known.idents, cur |-> known.cur,
             labels |-> s.labels \cup {<<p, f.label>>},
             pairs |-> s.pairs \cup {<<p, f.dest>>},
             geo |-> s.geo \cup ({p} \X GeoOf[f.dest]),
             volume |-> s.volume \cup {p}, alerts |-> s.alerts]
    <2>1. grown = [base |-> known.base, ends |-> known.ends, dests |-> known.dests,
                   procs |-> procs, idents |-> known.idents, cur |-> known.cur,
                   labels |-> labels, pairs |-> pairs, geo |-> geo, volume |-> volume,
                   alerts |-> known.alerts]
      <3>1. IsDb(known)
        BY <1>5
      <3>2. grown = Grown(known, procs, labels, pairs, geo, volume)
        BY DEF Grown
      <3> HIDE DEF procs, volume, labels, pairs, geo, grown
      <3> QED BY <3>1, <3>2, GrownFields
    <2> QED BY <1>5, <2>1
  <1> HIDE DEF grown
  <1>8. CASE Active(s)
    <2> DEFINE A == grown.alerts \cup Inserted(grown, K, e.ts)
    <2>1. InsertAlerts(grown, K, e.ts) = [grown EXCEPT !.alerts = A]
      BY DEF InsertAlerts
    <2>2. A = Added(s, K, e.ts)
      BY <1>7, <1>8 DEF Added, Due, Inserted, Cooling
    <2> HIDE DEF A
    <2>3. [grown EXCEPT !.alerts = A] =
            [base |-> s.base, ends |-> s.ends, dests |-> s.dests,
             procs |-> s.procs \cup {p}, idents |-> known.idents, cur |-> known.cur,
             labels |-> s.labels \cup {<<p, f.label>>},
             pairs |-> s.pairs \cup {<<p, f.dest>>},
             geo |-> s.geo \cup ({p} \X GeoOf[f.dest]),
             volume |-> s.volume \cup {p}, alerts |-> A]
      <3> DEFINE a == s.procs \cup {p}
                 b == s.labels \cup {<<p, f.label>>}
                 c == s.pairs \cup {<<p, f.dest>>}
                 g == s.geo \cup ({p} \X GeoOf[f.dest])
                 v == s.volume \cup {p}
      <3>1. grown = [base |-> s.base, ends |-> s.ends, dests |-> s.dests, procs |-> a,
                     idents |-> known.idents, cur |-> known.cur, labels |-> b,
                     pairs |-> c, geo |-> g, volume |-> v, alerts |-> s.alerts]
        BY <1>7
      <3> HIDE DEF a, b, c, g, v
      <3>2. [grown EXCEPT !.alerts = A] =
              [base |-> s.base, ends |-> s.ends, dests |-> s.dests, procs |-> a,
               idents |-> known.idents, cur |-> known.cur, labels |-> b,
               pairs |-> c, geo |-> g, volume |-> v, alerts |-> A]
        BY <3>1
      <3> QED BY <3>2 DEF a, b, c, g, v
    <2> QED BY <1>1, <1>3, <1>4, <1>6, <1>8, <2>1, <2>2, <2>3 DEF s
  <1>9. CASE ~Active(s)
    <2>1. Added(s, K, e.ts) = s.alerts
      BY <1>9 DEF Added, Due, Inserted
    <2> QED BY <1>1, <1>4, <1>6, <1>7, <1>9, <2>1 DEF s
  <1> QED BY <1>8, <1>9

\* What was learnt is a value of the tables, too.
LEMMA LearntIsDb ==
    ASSUME NEW d, IsDb(d), d.base \in Phases, NEW e, NEW w
    PROVE  LET l == Learnt(d, e, w) IN IsDb(l) /\ l.base \in Phases
  <1> DEFINE s == AfterDest(d, e, w)
  <1>1. IsDb(s) /\ s.base \in Phases
    BY AfterDestFields
  <1>2. CASE e.flow.proc = NoProc
    BY <1>1, <1>2, FinishedIsLearnt
  <1>3. CASE e.flow.proc # NoProc
    <2> DEFINE K == AllKeys(s, e)
               k == Known(s, e, TRUE, TRUE, TRUE, TRUE, K)
    <2>1. Learnt(d, e, w) = k
      BY <1>3, FinishedIsLearnt, FinishedKnown, ZenonT(60)
    <2> HIDE DEF s, K
    <2>2. IsDb(k) /\ k.base = s.base
      BY DEF Known, IsDb
    <2> QED BY <1>1, <2>1, <2>2 DEF s
  <1> QED BY <1>2, <1>3

-----------------------------------------------------------------------------
(***************************************************************************)
(* The chain, step by step.                                                *)
(***************************************************************************)
\* No transaction is open at first.
LEMMA ChainStarts == EngineInit => ChainInv
  <1> SUFFICES ASSUME EngineInit PROVE ChainInv
    OBVIOUS
  <1>1. IsDb(db) /\ db.base \in Phases
    BY DEF EngineInit, Init, EmptyDb, IsDb, Phases
  <1> QED BY <1>1 DEF EngineInit, ChainInv, InTx, Progress

\* Each statement takes the transaction from one of these tables to the next.
LEMMA ChainSteps == ChainInv /\ [Next]_vars => ChainInv'
  <1> SUFFICES ASSUME ChainInv, [Next]_vars PROVE ChainInv'
    OBVIOUS
  <1> DEFINE Same == UNCHANGED <<db, window>>
  <1>1. ASSUME NEW e \in Event, Begin(e) PROVE ChainInv'
    <2>1. Same /\ UNCHANGED up /\ up /\ pc' = "baseline" /\ ev' = e /\ tx' = db
      BY <1>1 DEF Begin, daemonVars
    <2> QED BY <2>1 DEF ChainInv, InTx, Progress
  <1>2. CASE StartBaseline
    <2>1. Same /\ UNCHANGED <<up, ev>> /\ pc = "baseline" /\ pc' = "dest"
      BY <1>2 DEF StartBaseline, daemonVars
    <2>2. tx' = Started(tx, ev.ts, window)
      <3>1. IsDb(tx) /\ tx.base \in Phases
        BY <2>1 DEF ChainInv, Progress
      <3> QED BY <1>2, <3>1, StartedInTwo DEF StartBaseline
    <2> QED BY <2>1, <2>2 DEF ChainInv, InTx, Progress
  <1>3. CASE RecordDest
    <2>1. /\ Same /\ UNCHANGED <<up, ev>> /\ pc = "dest"
          /\ tx' = UpsertDestination(tx, ev.flow.dest)
          /\ pc' = IF ev.flow.proc = NoProc THEN "commit" ELSE "process"
      BY <1>3 DEF RecordDest, daemonVars
    <2>2. tx' = AfterDest(db, ev, window)
      BY <2>1 DEF ChainInv, Progress, AfterDest
    <2> QED BY <2>1, <2>2 DEF ChainInv, InTx, Progress
  <1>4. CASE RecordProcess
    <2>1. /\ Same /\ UNCHANGED <<up, ev>> /\ pc = "process" /\ pc' = "identity"
          /\ tx' = AfterProcess(tx, ev)
      BY <1>4 DEF RecordProcess, daemonVars, Raise, AfterProcess, Alerting, Due, WhenOut, If
    <2> QED BY <2>1 DEF ChainInv, InTx, Progress, Processed
  <1>5. CASE CheckIdentity
    <2>1. /\ Same /\ UNCHANGED <<up, ev>> /\ pc = "identity" /\ pc' = "label"
          /\ tx' = AfterIdentity(tx, ev)
      BY <1>5 DEF CheckIdentity, daemonVars, Raise, AfterIdentity, Alerting, Due,
                  WhenOut, If, IdentityChange, ChangeKeys
    <2> QED BY <2>1 DEF ChainInv, InTx, Progress, Identified
  <1>6. CASE NoteLabel
    <2>1. /\ Same /\ UNCHANGED <<up, ev>> /\ pc = "label" /\ pc' = "geo"
          /\ tx' = AfterLabel(tx, ev)
      BY <1>6 DEF NoteLabel, daemonVars, Raise, AfterLabel, Alerting, Due, WhenOut, If
    <2> QED BY <2>1 DEF ChainInv, InTx, Progress, Labelled
  <1>7. CASE NoteGeo
    <2>1. /\ Same /\ UNCHANGED <<up, ev>> /\ pc = "geo" /\ pc' = "volume"
          /\ tx' = AfterGeo(tx, ev)
      BY <1>7 DEF NoteGeo, daemonVars, Raise, AfterGeo, Alerting, Due, WhenOut, If
    <2> QED BY <2>1 DEF ChainInv, InTx, Progress, Located
  <1>8. CASE UpdateVolume
    <2>1. /\ Same /\ UNCHANGED <<up, ev>> /\ pc = "volume" /\ pc' = "commit"
          /\ tx' = AfterVolume(tx, ev)
      BY <1>8 DEF UpdateVolume, daemonVars, Raise, AfterVolume, Alerting, Due, WhenOut, If
    <2> QED BY <2>1 DEF ChainInv, InTx, Progress, Finished
  <1>9. CASE Commit
    <2>1. /\ UNCHANGED <<up, window>> /\ pc = "commit" /\ pc' = "notify" /\ db' = tx
      BY <1>9 DEF Commit, daemonVars
    <2>2. tx = Learnt(db, ev, window)
      BY <2>1, FinishedIsLearnt DEF ChainInv, Progress
    <2>3. IsDb(db') /\ db'.base \in Phases
      BY <2>1, <2>2, LearntIsDb DEF ChainInv
    <2>4. up
      BY <2>1 DEF ChainInv
    <2> QED BY <2>1, <2>3, <2>4 DEF ChainInv, InTx, Progress, IsDb
  <1>10. CASE Notify
    <2>1. Same /\ UNCHANGED up /\ pc' = "idle"
      BY <1>10 DEF Notify, daemonVars
    <2> QED BY <2>1 DEF ChainInv, InTx, Progress
  <1>11. CASE StatementFails \/ CommitFails
    <2>1. Same /\ UNCHANGED up /\ pc' = "idle"
      BY <1>11 DEF StatementFails, CommitFails, daemonVars
    <2> QED BY <2>1 DEF ChainInv, InTx, Progress
  <1>12. CASE Crash
    <2>1. Same /\ pc' = "idle"
      BY <1>12 DEF Crash
    <2> QED BY <2>1 DEF ChainInv, InTx, Progress
  <1>13. ASSUME NEW w \in Windows, Restart(w) PROVE ChainInv'
    <2>1. pc = "idle" /\ pc' = "idle" /\ db' = db /\ window' = w
      BY <1>13 DEF Restart, ChainInv
    <2> QED BY <2>1 DEF ChainInv, InTx, Progress
  <1>14. CASE UNCHANGED vars
    BY <1>14 DEF vars, daemonVars, ChainInv, InTx, Progress
  <1> QED BY <1>1, <1>2, <1>3, <1>4, <1>5, <1>6, <1>7, <1>8, <1>9, <1>10, <1>11,
             <1>12, <1>13, <1>14 DEF Next

\* Every step of the chain is one observation, or nothing, for the baseline.
LEMMA ChainRefines ==
    ChainInv /\ [Next]_vars
    => [\E e \in Event, w \in Windows : Observe(e, w)]_<<db, seen>>
  <1> SUFFICES ASSUME ChainInv, [Next]_vars
               PROVE  \/ \E e \in Event, w \in Windows : Observe(e, w)
                      \/ UNCHANGED <<db, seen>>
    OBVIOUS
  <1>1. CASE Commit
    <2>1. pc = "commit" /\ db' = tx /\ seen' = Append(seen, ev)
      BY <1>1 DEF Commit
    <2>2. tx = Learnt(db, ev, window)
      BY <2>1, FinishedIsLearnt DEF ChainInv, Progress
    <2>3. ev \in Event /\ window \in Windows
      BY <2>1 DEF ChainInv, InTx
    <2> QED BY <2>1, <2>2, <2>3 DEF Observe
  <1>2. CASE ~Commit
    BY <1>2 DEF Next, vars, Begin, StartBaseline, RecordDest, RecordProcess,
                CheckIdentity, NoteLabel, NoteGeo, UpdateVolume, Notify,
                StatementFails, CommitFails, Crash, Restart
  <1> QED BY <1>1, <1>2

\* So the open transaction always is what its statements made of db.
LEMMA ChainAlways == EngineSpec => []ChainInv
  BY ChainStarts, ChainSteps, PTL DEF EngineSpec

\* What the statements of a transaction do together is one step of the baseline
\* that reads the tables as they were before it, and a transaction that fails, is
\* rolled back or dies with the daemon is no step at all (evaluate_full, with_tx).
THEOREM EngineImplementsBaseline == EngineSpec => Implements
  <1>1. EngineInit => Init
    BY DEF EngineInit
  <1> QED BY <1>1, ChainAlways, ChainRefines, PTL DEF EngineSpec, Implements, Spec

-----------------------------------------------------------------------------
(***************************************************************************)
(* What one observation does to the alerts and to the window, and what     *)
(* follows for every alert there ever is.                                  *)
(***************************************************************************)
\* The row of an alert, and the rows of the keys of K that are not cooling down.
Row(k, ts) == [key |-> k, ts |-> ts]
Fresh(d, K, ts) == {Row(k, ts) : k \in {j \in K : ~Cooling(d, j, ts)}}

\* An observation adds the rows of the alerts Raised names that are not cooling
\* down, if the window is over by then.
LEMMA LearntAlerts ==
    ASSUME NEW d, IsDb(d), d.base \in Phases, NEW e, NEW w
    PROVE  LET l == Learnt(d, e, w)
           IN  /\ l.base = Started(d, e.ts, w).base
               /\ l.ends = Started(d, e.ts, w).ends
               /\ e.flow.proc # NoProc /\ l.base = "active"
                  => l.alerts = d.alerts \cup Fresh(d, Raised(d, e.flow), e.ts)
               /\ e.flow.proc = NoProc \/ l.base # "active" => l.alerts = d.alerts
  <1> DEFINE t == Started(d, e.ts, w)
             s == AfterDest(d, e, w)
             l == Learnt(d, e, w)
  <1>1. s.base = t.base /\ s.ends = t.ends /\ s.alerts = d.alerts
    <2>1. IsDb(t)
      BY StartedKeeps
    <2>2. s = UpsertDestination(t, e.flow.dest)
      BY DEF AfterDest
    <2>3. s.alerts = d.alerts
      BY AfterDestFields
    <2> HIDE DEF t, s
    <2>4. s.base = t.base /\ s.ends = t.ends
      BY <2>1, <2>2 DEF UpsertDestination, IsDb
    <2> QED BY <2>3, <2>4
  <1>2. CASE e.flow.proc = NoProc
    BY <1>1, <1>2, FinishedIsLearnt
  <1>3. CASE e.flow.proc # NoProc
    <2> DEFINE K == AllKeys(s, e)
    <2>1. l = Known(s, e, TRUE, TRUE, TRUE, TRUE, K)
      BY <1>3, FinishedIsLearnt, FinishedKnown, ZenonT(60)
    <2>2. K = Raised(d, e.flow)
      BY AfterDestFields, SameKeys
    <2> HIDE DEF s, K, l, t
    <2>3. l.base = s.base /\ l.ends = s.ends /\ l.alerts = Added(s, K, e.ts)
      BY <2>1 DEF Known
    <2>4. CASE Active(s)
      <3>1. Added(s, K, e.ts) = d.alerts \cup Fresh(d, K, e.ts)
        BY <1>1, <2>4 DEF Added, Due, Inserted, Cooling, Fresh, Row
      <3> QED BY <1>1, <1>3, <2>2, <2>3, <2>4, <3>1 DEF Active, l, t
    <2>5. CASE ~Active(s)
      <3>1. Added(s, K, e.ts) = d.alerts
        BY <1>1, <2>5 DEF Added, Due, Inserted
      <3> QED BY <1>1, <2>3, <2>5, <3>1 DEF l, t, Active
    <2> QED BY <2>4, <2>5
  <1> QED BY <1>2, <1>3

\* The window has an end once it was opened; alerts exist once it is over, and
\* carry the times of observations.
WindowInv ==
    /\ IsDb(db) /\ db.base \in Phases
    /\ seen \in Seq(Event)
    /\ db.ends \in Nat
    /\ db.base = "none" => db.alerts = {}
    /\ db.base = "active" => \E j \in DOMAIN seen : seen[j].ts >= db.ends
    /\ \A a \in db.alerts : a.ts \in Nat

LearnInv == WindowInv /\ CooldownKept /\ SilentWhileLearning

\* An empty store has no alerts.
LEMMA LearnStarts == Init => LearnInv
  <1> SUFFICES ASSUME Init PROVE LearnInv
    OBVIOUS
  <1>1. IsDb(db) /\ db.base = "none" /\ db.ends = 0 /\ db.alerts = {}
    BY DEF Init, EmptyDb, IsDb
  <1>2. seen \in Seq(Event)
    BY DEF Init
  <1> QED BY <1>1, <1>2 DEF LearnInv, WindowInv, Phases, CooldownKept, SilentWhileLearning

\* One observation, as far as the window, the alerts and what was seen go.
LEMMA Observed ==
    ASSUME WindowInv, NEW e \in Event, NEW w \in Windows, Observe(e, w)
    PROVE  /\ e.ts \in Nat
           /\ IsDb(db') /\ db'.base \in {"learning", "active"} /\ db'.ends \in Nat
           /\ db.base # "none" => db'.ends = db.ends
           /\ db'.base = "active" <=> db.base = "active" \/ e.ts >= db'.ends
           /\ e.flow.proc # NoProc /\ db'.base = "active"
              => db'.alerts = db.alerts \cup Fresh(db, Raised(db, e.flow), e.ts)
           /\ e.flow.proc = NoProc \/ db'.base # "active" => db'.alerts = db.alerts
           /\ seen' \in Seq(Event)
           /\ Len(seen) \in Nat /\ DOMAIN seen = 1..Len(seen)
           /\ DOMAIN seen' = 1..(Len(seen) + 1)
           /\ seen'[Len(seen) + 1] = e
           /\ \A j \in DOMAIN seen : j \in DOMAIN seen' /\ seen'[j] = seen[j]
  <1>1. e.ts \in Nat /\ w \in Nat
    BY BaselineAssumption DEF Event
  <1>2. IsDb(db) /\ db.base \in Phases /\ seen \in Seq(Event) /\ db.ends \in Nat
    BY DEF WindowInv
  <1>3. db' = Learnt(db, e, w) /\ seen' = Append(seen, e)
    BY DEF Observe
  <1> DEFINE t == Started(db, e.ts, w)
  <1>4. /\ db'.base = t.base /\ db'.ends = t.ends
        /\ e.flow.proc # NoProc /\ db'.base = "active"
           => db'.alerts = db.alerts \cup Fresh(db, Raised(db, e.flow), e.ts)
        /\ e.flow.proc = NoProc \/ db'.base # "active" => db'.alerts = db.alerts
    BY <1>2, <1>3, LearntAlerts
  <1>5. /\ t.base \in {"learning", "active"} /\ t.ends \in Nat
        /\ db.base # "none" => t.ends = db.ends
        /\ t.base = "active" <=> db.base = "active" \/ e.ts >= t.ends
    <2> DEFINE ends == IF db.base = "none" THEN e.ts + w ELSE db.ends
               base == IF db.base = "active" \/ e.ts >= ends THEN "active" ELSE "learning"
    <2>1. t = [db EXCEPT !.ends = ends, !.base = base]
      BY DEF Started
    <2>2. base \in {"learning", "active"} /\ ends \in Nat
          /\ (db.base # "none" => ends = db.ends)
          /\ (base = "active" <=> db.base = "active" \/ e.ts >= ends)
      BY <1>1, <1>2
    <2> HIDE DEF t, ends, base
    <2>3. t.base = base /\ t.ends = ends
      BY <2>1, <1>2, TwoFields
    <2> QED BY <2>2, <2>3
  <1> HIDE DEF t
  <1>6. /\ seen' \in Seq(Event)
        /\ Len(seen) \in Nat /\ DOMAIN seen = 1..Len(seen)
        /\ DOMAIN seen' = 1..(Len(seen) + 1)
        /\ seen'[Len(seen) + 1] = e
        /\ \A j \in DOMAIN seen : j \in DOMAIN seen' /\ seen'[j] = seen[j]
    BY <1>2, <1>3
  <1>7. IsDb(db')
    BY <1>2, <1>3, LearntIsDb
  <1> QED BY <1>1, <1>4, <1>5, <1>6, <1>7

\* A new alert is of an observation that came after the window's end, and a
\* cooldown after every earlier alert of its key.
LEMMA LearnSteps ==
    ASSUME LearnInv, NEW e \in Event, NEW w \in Windows, Observe(e, w)
    PROVE  LearnInv'
  <1>1. /\ e.ts \in Nat
        /\ IsDb(db') /\ db'.base \in {"learning", "active"} /\ db'.ends \in Nat
        /\ db.base # "none" => db'.ends = db.ends
        /\ db'.base = "active" <=> db.base = "active" \/ e.ts >= db'.ends
    BY Observed DEF LearnInv
  <1>2. /\ db.base = "none" => db.alerts = {}
        /\ db.base = "active" => \E j \in DOMAIN seen : seen[j].ts >= db.ends
        /\ \A a \in db.alerts : a.ts \in Nat
    BY DEF LearnInv, WindowInv
  <1>4. /\ e.flow.proc # NoProc /\ db'.base = "active"
           => db'.alerts = db.alerts \cup Fresh(db, Raised(db, e.flow), e.ts)
        /\ e.flow.proc = NoProc \/ db'.base # "active" => db'.alerts = db.alerts
    BY Observed DEF LearnInv
  <1>6. /\ seen' \in Seq(Event)
        /\ Len(seen) \in Nat /\ DOMAIN seen = 1..Len(seen)
        /\ DOMAIN seen' = 1..(Len(seen) + 1)
        /\ seen'[Len(seen) + 1] = e
        /\ \A j \in DOMAIN seen : j \in DOMAIN seen' /\ seen'[j] = seen[j]
    BY Observed DEF LearnInv
  <1>7. ASSUME NEW a \in db'.alerts
        PROVE  a \in db.alerts \/ /\ db'.base = "active"
                                  /\ a.ts = e.ts
                                  /\ \A b \in db.alerts :
                                        b.key = a.key => e.ts >= b.ts + Cooldown
    <2>1. CASE a \notin db.alerts
      <3>1. a \in Fresh(db, Raised(db, e.flow), e.ts)
        BY <1>4, <2>1
      <3>2. PICK k \in Raised(db, e.flow) : ~Cooling(db, k, e.ts) /\ a = Row(k, e.ts)
        BY <3>1 DEF Fresh
      <3>3. a.ts = e.ts /\ a.key = k
        BY <3>2 DEF Row
      <3>4. \A b \in db.alerts : b.key = a.key => e.ts >= b.ts + Cooldown
        BY <1>1, <1>2, <3>2, <3>3, StoreAssumption DEF Cooling
      <3> QED BY <1>4, <2>1, <3>3, <3>4
    <2> QED BY <2>1
  <1>8. ASSUME NEW a \in db'.alerts, NEW b \in db'.alerts,
               a \notin db.alerts, b \notin db.alerts, a.key = b.key
        PROVE  a = b
    <2>1. {a, b} \subseteq Fresh(db, Raised(db, e.flow), e.ts)
      BY <1>4, <1>8
    <2>2. PICK j \in Raised(db, e.flow) : a = Row(j, e.ts)
      BY <2>1 DEF Fresh
    <2>3. PICK k \in Raised(db, e.flow) : b = Row(k, e.ts)
      BY <2>1 DEF Fresh
    <2> QED BY <1>8, <2>2, <2>3 DEF Row
  <1>9. WindowInv'
    <2>2. db'.base = "active" => \E j \in DOMAIN seen' : seen'[j].ts >= db'.ends
      <3>1. CASE db.base = "active"
        BY <1>1, <1>2, <1>6, <3>1
      <3>2. CASE e.ts >= db'.ends
        BY <1>6, <3>2
      <3> QED BY <1>1, <3>1, <3>2
    <2>3. \A a \in db'.alerts : a.ts \in Nat
      BY <1>1, <1>2, <1>7
    <2> QED BY <1>1, <1>6, <2>2, <2>3 DEF WindowInv, IsDb, Phases
  <1>10. CooldownKept'
    <2> SUFFICES ASSUME NEW a \in db'.alerts, NEW b \in db'.alerts, a.key = b.key, a # b
                 PROVE  a.ts >= b.ts + Cooldown \/ b.ts >= a.ts + Cooldown
      BY DEF CooldownKept
    <2>1. CASE a \in db.alerts /\ b \in db.alerts
      BY <2>1 DEF LearnInv, CooldownKept
    <2>2. CASE a \in db.alerts /\ b \notin db.alerts
      BY <1>7, <2>2
    <2>3. CASE a \notin db.alerts /\ b \in db.alerts
      BY <1>7, <2>3
    <2>4. CASE a \notin db.alerts /\ b \notin db.alerts
      BY <1>8, <2>4
    <2> QED BY <2>1, <2>2, <2>3, <2>4
  <1>11. SilentWhileLearning'
    <2> SUFFICES ASSUME NEW a \in db'.alerts
                 PROVE  \E i \in DOMAIN seen' :
                            /\ seen'[i].ts = a.ts
                            /\ \E j \in 1..i : seen'[j].ts >= db'.ends
      BY DEF SilentWhileLearning, Judged
    <2>1. CASE a \in db.alerts
      <3>1. PICK i \in DOMAIN seen : seen[i].ts = a.ts /\ \E j \in 1..i : seen[j].ts >= db.ends
        BY <2>1 DEF LearnInv, SilentWhileLearning, Judged
      <3>2. PICK j \in 1..i : seen[j].ts >= db.ends
        BY <3>1
      <3>3. j \in DOMAIN seen
        BY <1>6, <3>1, <3>2
      <3>4. db'.ends = db.ends
        BY <1>1, <1>2, <2>1
      <3> QED BY <1>6, <3>1, <3>2, <3>3, <3>4
    <2>2. CASE a \notin db.alerts
      <3>1. db'.base = "active" /\ a.ts = e.ts
        BY <1>7, <2>2
      <3>2. PICK j \in DOMAIN seen' : seen'[j].ts >= db'.ends
        BY <1>9, <3>1 DEF WindowInv
      <3> QED BY <1>6, <3>1, <3>2
    <2> QED BY <2>1, <2>2
  <1> QED BY <1>9, <1>10, <1>11 DEF LearnInv

\* So both hold of the baseline.
LEMMA LearnAlways == Spec => []LearnInv
  <1>1. LearnInv /\ [\E e \in Event, w \in Windows : Observe(e, w)]_<<db, seen>>
        => LearnInv'
    <2> SUFFICES ASSUME LearnInv,
                        [\E e \in Event, w \in Windows : Observe(e, w)]_<<db, seen>>
                 PROVE  LearnInv'
      OBVIOUS
    <2>1. CASE UNCHANGED <<db, seen>>
      BY <2>1 DEF LearnInv, WindowInv, CooldownKept, SilentWhileLearning, Judged
    <2> QED BY <2>1, LearnSteps
  <1> QED BY <1>1, LearnStarts, PTL DEF Spec

\* Two alerts of one key are a cooldown apart, whatever fails and however often the
\* daemon is restarted (insert_alert).
THEOREM CooldownIsKept == EngineSpec => []CooldownKept
  <1>1. LearnInv => CooldownKept
    BY DEF LearnInv
  <1> QED BY <1>1, LearnAlways, EngineImplementsBaseline, PTL DEF Implements

\* Nothing is raised before the learning window is over (emit, ensure_started).
THEOREM LearningIsSilent == EngineSpec => []SilentWhileLearning
  <1>1. LearnInv => SilentWhileLearning
    BY DEF LearnInv
  <1> QED BY <1>1, LearnAlways, EngineImplementsBaseline, PTL DEF Implements

-----------------------------------------------------------------------------
(***************************************************************************)
(* What the tables know is what was seen, so that what was never seen      *)
(* before is judged to be new.                                             *)
(***************************************************************************)
\* What an observation adds to every other table.
LEMMA LearntTables ==
    ASSUME NEW d, IsDb(d), d.base \in Phases, NEW e, NEW w
    PROVE  LET l == Learnt(d, e, w)
               p == e.flow.proc
           IN  /\ p = NoProc =>
                     /\ l.procs = d.procs /\ l.volume = d.volume /\ l.labels = d.labels
                     /\ l.pairs = d.pairs /\ l.geo = d.geo
                     /\ l.idents = d.idents /\ l.cur = d.cur
               /\ p # NoProc =>
                     /\ l.procs = d.procs \cup {p} /\ l.volume = d.volume \cup {p}
                     /\ l.labels = d.labels \cup {<<p, e.flow.label>>}
                     /\ l.pairs = d.pairs \cup {<<p, e.flow.dest>>}
                     /\ l.geo = d.geo \cup ({p} \X GeoOf[e.flow.dest])
               /\ p # NoProc /\ e.flow.ident = NoIdent =>
                     l.idents = d.idents /\ l.cur = d.cur
               /\ p # NoProc /\ e.flow.ident # NoIdent =>
                     /\ l.idents = WithIdent(d.idents, p, e.flow.ident)
                     /\ l.cur = WithCurrent(d.cur, p, e.flow.ident)
               /\ l.dests = d.dests \cup {e.flow.dest}
  <1> DEFINE s == AfterDest(d, e, w)
             t == Started(d, e.ts, w)
             l == Learnt(d, e, w)
             p == e.flow.proc
             K == AllKeys(s, e)
             r == RecordIdentity(s, p, e.flow.ident)
  <1>1. /\ IsDb(s) /\ s.procs = d.procs /\ s.volume = d.volume /\ s.labels = d.labels
        /\ s.pairs = d.pairs /\ s.geo = d.geo /\ s.idents = d.idents /\ s.cur = d.cur
    BY AfterDestFields
  <1>2. s.dests = d.dests \cup {e.flow.dest}
    <2>1. IsDb(t) /\ t.dests = d.dests
      BY StartedKeeps
    <2>2. s = UpsertDestination(t, e.flow.dest)
      BY DEF AfterDest
    <2> HIDE DEF t, s
    <2> QED BY <2>1, <2>2 DEF UpsertDestination, IsDb
  <1>3. p = NoProc => l = s
    BY FinishedIsLearnt
  <1>4. p # NoProc => l = Known(s, e, TRUE, TRUE, TRUE, TRUE, K)
    BY FinishedIsLearnt, FinishedKnown, ZenonT(60)
  <1>5. r.idents = WithIdent(s.idents, p, e.flow.ident)
        /\ r.cur = WithCurrent(s.cur, p, e.flow.ident)
    BY <1>1, IdentityFields
  <1> DEFINE A == Added(s, K, e.ts)
  <1>6. p # NoProc /\ e.flow.ident = NoIdent =>
            l = [base |-> s.base, ends |-> s.ends, dests |-> s.dests,
                 procs |-> s.procs \cup {p}, idents |-> s.idents, cur |-> s.cur,
                 labels |-> s.labels \cup {<<p, e.flow.label>>},
                 pairs |-> s.pairs \cup {<<p, e.flow.dest>>},
                 geo |-> s.geo \cup ({p} \X GeoOf[e.flow.dest]),
                 volume |-> s.volume \cup {p}, alerts |-> A]
    <2> HIDE DEF s, K, l
    <2> QED BY <1>4 DEF Known
  <1>7. p # NoProc /\ e.flow.ident # NoIdent =>
            l = [base |-> s.base, ends |-> s.ends, dests |-> s.dests,
                 procs |-> s.procs \cup {p}, idents |-> r.idents, cur |-> r.cur,
                 labels |-> s.labels \cup {<<p, e.flow.label>>},
                 pairs |-> s.pairs \cup {<<p, e.flow.dest>>},
                 geo |-> s.geo \cup ({p} \X GeoOf[e.flow.dest]),
                 volume |-> s.volume \cup {p}, alerts |-> A]
    <2> HIDE DEF s, K, l
    <2> QED BY <1>4 DEF Known
  <1> HIDE DEF s, t, l, r, K, A
  <1>8. CASE p = NoProc
    BY <1>1, <1>2, <1>3, <1>8 DEF l
  <1>9. CASE p # NoProc /\ e.flow.ident = NoIdent
    BY <1>1, <1>2, <1>6, <1>9 DEF l
  <1>10. CASE p # NoProc /\ e.flow.ident # NoIdent
    BY <1>1, <1>2, <1>5, <1>7, <1>10 DEF l
  <1> QED BY <1>8, <1>9, <1>10

\* The latest identity of a process that could be told is its current one.
Latest(i) ==
    /\ seen[i].flow.proc # NoProc /\ seen[i].flow.ident # NoIdent
    /\ \A k \in DOMAIN seen : k > i /\ seen[k].flow.proc = seen[i].flow.proc
                              => seen[k].flow.ident = NoIdent

KnowInv ==
    /\ WindowInv
    /\ db.base = "none" => seen = <<>>
    /\ db.base # "active" => \A j \in DOMAIN seen : seen[j].ts < db.ends
    /\ \A x \in db.labels : \E i \in DOMAIN seen :
           x = <<seen[i].flow.proc, seen[i].flow.label>>
    /\ \A x \in db.geo : \E i \in DOMAIN seen :
           x \in {seen[i].flow.proc} \X GeoOf[seen[i].flow.dest]
    /\ db.idents \in [Procs -> SUBSET Idents]
    /\ db.cur \in [Procs -> {i.value : i \in Idents} \cup {NoValue}]
    /\ \A i \in DOMAIN seen :
           Latest(i) => seen[i].flow.ident \in CurrentIdentity(db, seen[i].flow.proc)
    /\ AlertsComplete

\* An empty store knows nothing.
LEMMA KnowStarts == Init => KnowInv
  <1> SUFFICES ASSUME Init PROVE KnowInv
    OBVIOUS
  <1>1. WindowInv
    BY LearnStarts DEF LearnInv
  <1>2. /\ seen = <<>> /\ DOMAIN seen = {}
        /\ db.labels = {} /\ db.geo = {}
        /\ db.idents = [p \in Procs |-> {}] /\ db.cur = [p \in Procs |-> NoValue]
    BY DEF Init, EmptyDb
  <1>3. AlertsComplete
    BY <1>2 DEF AlertsComplete, NoveltyAccounted, IdentityChangeAlerts
  <1> QED BY <1>1, <1>2, <1>3 DEF KnowInv

\* An alert that is due is in the table afterwards, now or from before.
LEMMA RaisedIsTold ==
    ASSUME NEW d, NEW K, NEW k \in K, NEW ts
    PROVE  \E a \in d.alerts \cup Fresh(d, K, ts) : a.key = k
  <1>1. CASE Cooling(d, k, ts)
    BY <1>1 DEF Cooling
  <1>2. CASE ~Cooling(d, k, ts)
    <2>1. Row(k, ts) \in Fresh(d, K, ts)
      BY <1>2 DEF Fresh
    <2> QED BY <2>1 DEF Row
  <1> QED BY <1>1, <1>2

\* The identity that was recorded is the current one.
LEMMA RecordedIsCurrent ==
    ASSUME NEW f \in [Procs -> SUBSET Idents], NEW c, DOMAIN c = Procs,
           NEW p \in Procs, NEW i \in Idents
    PROVE  /\ WithIdent(f, p, i) \in [Procs -> SUBSET Idents]
           /\ i \in WithIdent(f, p, i)[p] /\ WithCurrent(c, p, i)[p] = i.value
           /\ \A q \in Procs \ {p} : /\ WithIdent(f, p, i)[q] = f[q]
                                     /\ WithCurrent(c, p, i)[q] = c[q]
  <1>1. \A j \in f[p] : j.value = i.value => j = i
    BY BaselineAssumption
  <1> QED BY <1>1 DEF WithIdent, WithCurrent

\* An observation that is the first of its label or place finds it unknown, and
\* one whose binary changed finds the identity it had when it could last be told.
LEMMA KnowSteps ==
    ASSUME KnowInv, NEW e \in Event, NEW w \in Windows, Observe(e, w), WindowInv'
    PROVE  KnowInv'
  <1> DEFINE f == e.flow
             p == e.flow.proc
  <1>0. PICK n : n = Len(seen) + 1
    OBVIOUS
  <1>1. /\ e.ts \in Nat
        /\ IsDb(db') /\ db'.base \in {"learning", "active"} /\ db'.ends \in Nat
        /\ db.base # "none" => db'.ends = db.ends
        /\ db'.base = "active" <=> db.base = "active" \/ e.ts >= db'.ends
    BY Observed DEF KnowInv
  <1>2. /\ p # NoProc /\ db'.base = "active"
           => db'.alerts = db.alerts \cup Fresh(db, Raised(db, e.flow), e.ts)
        /\ p = NoProc \/ db'.base # "active" => db'.alerts = db.alerts
    BY Observed DEF KnowInv
  <1>3. /\ seen' \in Seq(Event)
        /\ Len(seen) \in Nat /\ DOMAIN seen = 1..Len(seen)
        /\ DOMAIN seen' = 1..n /\ n \in Nat
        /\ seen'[n] = e
        /\ \A j \in DOMAIN seen : j \in DOMAIN seen' /\ seen'[j] = seen[j]
    BY <1>0, Observed DEF KnowInv
  <1>4. /\ IsDb(db) /\ db.base \in Phases /\ seen \in Seq(Event) /\ db.ends \in Nat
        /\ db.base = "none" => seen = <<>>
        /\ db.base # "active" => \A j \in DOMAIN seen : seen[j].ts < db.ends
    BY DEF KnowInv, WindowInv
  <1>5. /\ f \in Flows /\ Flow(f) /\ p \in Procs \cup {NoProc}
        /\ f.ident \in Idents \cup {NoIdent} /\ (p = NoProc => f.ident = NoIdent)
    <2>1. f \in Flows
      BY DEF Event
    <2>2. Flow(f)
      BY <2>1, BaselineAssumption
    <2> QED BY <2>1, <2>2 DEF Flow
  <1>6. \A j \in DOMAIN seen : seen[j].flow \in Flows /\ Flow(seen[j].flow)
    <2> SUFFICES ASSUME NEW j \in DOMAIN seen
                 PROVE  seen[j].flow \in Flows /\ Flow(seen[j].flow)
      OBVIOUS
    <2>1. seen[j] \in Event
      BY <1>4
    <2>2. seen[j].flow \in Flows
      BY <2>1 DEF Event
    <2> QED BY <2>2, BaselineAssumption
  <1>7. db' = Learnt(db, e, w)
    BY DEF Observe
  <1>8. n \in DOMAIN seen' /\ \A j \in DOMAIN seen' : j = n \/ j \in DOMAIN seen
    BY <1>0, <1>3
  <1>9. \A k \in Keys : k \in Keys'
    BY <1>2 DEF Keys
  \* the window was over before the new observation, or is with it
  <1>10. ASSUME NEW i \in DOMAIN seen, Judged(i)' PROVE Judged(i)
    <2>1. PICK j \in 1..i : seen'[j].ts >= db'.ends
      BY <1>10 DEF Judged
    <2>2. j \in DOMAIN seen
      BY <1>3
    <2>3. db'.ends = db.ends
      BY <1>1, <1>3, <1>4
    <2> QED BY <1>3, <2>1, <2>2, <2>3 DEF Judged
  <1>11. Judged(n)' => db'.base = "active"
    <2> SUFFICES ASSUME Judged(n)' PROVE db'.base = "active"
      OBVIOUS
    <2>1. PICK j \in 1..n : seen'[j].ts >= db'.ends
      BY DEF Judged
    <2>2. CASE j = n
      BY <1>1, <1>3, <2>1, <2>2
    <2>3. CASE j # n
      <3>1. j \in DOMAIN seen
        BY <1>0, <1>3, <2>3
      <3>2. seen[j].ts >= db.ends /\ seen[j].ts \in Nat
        <4>1. db'.ends = db.ends
          BY <1>1, <1>3, <1>4, <3>1
        <4>2. seen[j] \in Event
          BY <1>4, <3>1
        <4>3. seen[j].ts \in Times
          BY <4>2 DEF Event
        <4> QED BY <1>3, <2>1, <3>1, <4>1, <4>3, BaselineAssumption
      <3> QED BY <1>1, <1>4, <3>1, <3>2
    <2> QED BY <2>2, <2>3
  \* what Raised says is told
  <1>12. ASSUME p # NoProc, Judged(n)', NEW k \in Raised(db, f) PROVE k \in Keys'
    BY <1>2, <1>11, <1>12, RaisedIsTold DEF Keys
  <1>13. f.out => Deserved(db, f) \subseteq Raised(db, f)
    BY DEF Raised
  <1>14. db'.base # "active" => \A j \in DOMAIN seen' : seen'[j].ts < db'.ends
    <2> SUFFICES ASSUME db'.base # "active", NEW j \in DOMAIN seen'
                 PROVE  seen'[j].ts < db'.ends
      OBVIOUS
    <2>1. CASE j = n
      BY <1>1, <1>3, <2>1
    <2>2. CASE j \in DOMAIN seen
      <3>1. db'.ends = db.ends
        BY <1>1, <1>3, <1>4, <2>2
      <3> QED BY <1>1, <1>3, <1>4, <2>2, <3>1
    <2> QED BY <1>8, <2>1, <2>2
  <1>15. \A x \in db'.labels : \E i \in DOMAIN seen' :
             x = <<seen'[i].flow.proc, seen'[i].flow.label>>
    <2> SUFFICES ASSUME NEW x \in db'.labels
                 PROVE  \E i \in DOMAIN seen' :
                            x = <<seen'[i].flow.proc, seen'[i].flow.label>>
      OBVIOUS
    <2>1. x \in db.labels \/ x = <<p, f.label>>
      BY <1>4, <1>7, LearntTables
    <2>2. CASE x \in db.labels
      BY <1>3, <2>2 DEF KnowInv
    <2>3. CASE x = <<p, f.label>>
      BY <1>3, <1>8, <2>3
    <2> QED BY <2>1, <2>2, <2>3
  <1>16. \A x \in db'.geo : \E i \in DOMAIN seen' :
             x \in {seen'[i].flow.proc} \X GeoOf[seen'[i].flow.dest]
    <2> SUFFICES ASSUME NEW x \in db'.geo
                 PROVE  \E i \in DOMAIN seen' :
                            x \in {seen'[i].flow.proc} \X GeoOf[seen'[i].flow.dest]
      OBVIOUS
    <2>1. x \in db.geo \/ x \in {p} \X GeoOf[f.dest]
      BY <1>4, <1>7, LearntTables
    <2>2. CASE x \in db.geo
      <3>1. PICK i \in DOMAIN seen : x \in {seen[i].flow.proc} \X GeoOf[seen[i].flow.dest]
        BY <2>2 DEF KnowInv
      <3>2. i \in DOMAIN seen' /\ seen'[i] = seen[i]
        BY <1>3
      <3> QED BY <3>1, <3>2
    <2>3. CASE x \in {p} \X GeoOf[f.dest]
      BY <1>3, <1>8, <2>3
    <2> QED BY <2>1, <2>2, <2>3
  \* the identities
  <1>17. /\ p # NoProc /\ f.ident # NoIdent =>
               /\ db'.idents = WithIdent(db.idents, p, f.ident)
               /\ db'.cur = WithCurrent(db.cur, p, f.ident)
         /\ p = NoProc \/ f.ident = NoIdent =>
               db'.idents = db.idents /\ db'.cur = db.cur
    BY <1>4, <1>7, LearntTables
  <1>18. /\ db.idents \in [Procs -> SUBSET Idents]
         /\ db.cur \in [Procs -> {i.value : i \in Idents} \cup {NoValue}]
    BY DEF KnowInv
  <1>19. /\ db'.idents \in [Procs -> SUBSET Idents]
         /\ db'.cur \in [Procs -> {i.value : i \in Idents} \cup {NoValue}]
    <2>1. CASE p = NoProc \/ f.ident = NoIdent
      BY <1>17, <1>18, <2>1
    <2>2. CASE p # NoProc /\ f.ident # NoIdent
      <3>1. p \in Procs /\ f.ident \in Idents /\ DOMAIN db.cur = Procs
        BY <1>5, <1>18, <2>2
      <3>2. WithIdent(db.idents, p, f.ident) \in [Procs -> SUBSET Idents]
        BY <1>18, <3>1, RecordedIsCurrent
      <3>3. WithCurrent(db.cur, p, f.ident)
                \in [Procs -> {i.value : i \in Idents} \cup {NoValue}]
        BY <1>18, <3>1 DEF WithCurrent
      <3> QED BY <1>17, <2>2, <3>2, <3>3
    <2> QED BY <2>1, <2>2
  <1>20. ASSUME NEW i \in DOMAIN seen', Latest(i)'
         PROVE  seen'[i].flow.ident \in CurrentIdentity(db', seen'[i].flow.proc)
    <2> DEFINE q == seen'[i].flow.proc
               d == seen'[i].flow.ident
    <2>1. q # NoProc /\ d # NoIdent
      BY <1>20 DEF Latest
    <2>2. \A k \in DOMAIN seen' : k > i /\ seen'[k].flow.proc = q
                                  => seen'[k].flow.ident = NoIdent
      BY <1>20 DEF Latest
    <2>3. CASE i = n
      <3>1. p \in Procs /\ f.ident \in Idents /\ q = p /\ d = f.ident
        BY <1>3, <1>5, <2>1, <2>3
      <3>2. d \in db'.idents[q] /\ db'.cur[q] = d.value
        BY <1>17, <1>18, <2>1, <3>1, RecordedIsCurrent
      <3> QED BY <3>2 DEF CurrentIdentity
    <2>4. CASE i \in DOMAIN seen
      <3>1. q = seen[i].flow.proc /\ d = seen[i].flow.ident
        BY <1>3, <2>4
      <3>2. Latest(i)
        <4>1. ASSUME NEW k \in DOMAIN seen, k > i, seen[k].flow.proc = q
              PROVE  seen[k].flow.ident = NoIdent
          BY <1>3, <2>2, <4>1
        <4> QED BY <2>1, <3>1, <4>1 DEF Latest
      <3>3. d \in db.idents[q] /\ db.cur[q] = d.value
        BY <2>4, <3>1, <3>2 DEF KnowInv, CurrentIdentity
      <3>4. q = p => f.ident = NoIdent
        <4>1. n > i
          BY <1>0, <1>3, <2>4
        <4> QED BY <1>3, <1>8, <2>2, <4>1
      <3>5. q \in Procs
        BY <1>6, <2>1, <2>4, <3>1 DEF Flow
      <3>6. db'.idents[q] = db.idents[q] /\ db'.cur[q] = db.cur[q]
        <4>1. CASE p = NoProc \/ f.ident = NoIdent
          BY <1>17, <4>1
        <4>2. CASE p # NoProc /\ f.ident # NoIdent
          BY <1>5, <1>17, <1>18, <3>4, <3>5, <4>2, RecordedIsCurrent
        <4> QED BY <4>1, <4>2
      <3> QED BY <3>3, <3>6 DEF CurrentIdentity
    <2> QED BY <1>8, <2>3, <2>4
  <1>21. NoveltyAccounted'
    <2> DEFINE Before(i, s) == {s[j].flow : j \in {k \in 1..(i - 1) :
                                                  s[k].flow.proc = s[i].flow.proc}}
               Good(i, s, K) ==
                   /\ (\A b \in Before(i, s) : b.label # s[i].flow.label)
                      => <<"dest", s[i].flow.proc, s[i].flow.label>> \in K
                   /\ \A g \in GeoOf[s[i].flow.dest] :
                          (\A b \in Before(i, s) : g \notin GeoOf[b.dest])
                          => <<"geo", s[i].flow.proc, g>> \in K
    <2> SUFFICES ASSUME NEW i \in DOMAIN seen', seen'[i].flow.proc # NoProc,
                        seen'[i].flow.out, Judged(i)'
                 PROVE  Good(i, seen', Keys')
      BY DEF NoveltyAccounted
    <2>1. CASE i \in DOMAIN seen
      <3>1. Good(i, seen, Keys)
        BY <1>3, <1>10, <2>1 DEF KnowInv, AlertsComplete, NoveltyAccounted
      <3>2. seen'[i] = seen[i]
        BY <1>3, <2>1
      <3>3. Before(i, seen') = Before(i, seen)
        BY <1>3, <2>1, <3>2
      <3> QED BY <1>9, <3>1, <3>2, <3>3
    <2>2. CASE i = n
      <3>1. seen'[i] = e /\ p # NoProc /\ f.out
        BY <1>3, <2>2
      <3>2. ASSUME \A b \in Before(i, seen') : b.label # f.label
            PROVE  <<"dest", p, f.label>> \in Keys'
        <4>1. <<p, f.label>> \notin db.labels
          <5> SUFFICES ASSUME <<p, f.label>> \in db.labels PROVE FALSE
            OBVIOUS
          <5>1. PICK j \in DOMAIN seen : <<p, f.label>> = <<seen[j].flow.proc, seen[j].flow.label>>
            BY DEF KnowInv
          <5>2. j \in 1..(i - 1) /\ seen'[j] = seen[j] /\ seen[j].flow.proc = p
                /\ seen[j].flow.label = f.label
            BY <1>0, <1>3, <2>2, <5>1
          <5>3. seen'[j].flow \in Before(i, seen')
            BY <3>1, <5>2
          <5> QED BY <3>2, <5>2, <5>3
        <4>2. <<"dest", p, f.label>> \in Deserved(db, f)
          BY <4>1 DEF Deserved
        <4> QED BY <1>12, <1>13, <2>2, <3>1, <4>2
      <3>3. ASSUME NEW g \in GeoOf[f.dest],
                   \A b \in Before(i, seen') : g \notin GeoOf[b.dest]
            PROVE  <<"geo", p, g>> \in Keys'
        <4>1. <<p, g>> \notin db.geo
          <5> SUFFICES ASSUME <<p, g>> \in db.geo PROVE FALSE
            OBVIOUS
          <5>1. PICK j \in DOMAIN seen :
                    <<p, g>> \in {seen[j].flow.proc} \X GeoOf[seen[j].flow.dest]
            BY DEF KnowInv
          <5>2. j \in 1..(i - 1) /\ seen'[j] = seen[j] /\ seen[j].flow.proc = p
                /\ g \in GeoOf[seen[j].flow.dest]
            BY <1>0, <1>3, <2>2, <5>1
          <5>3. seen'[j].flow \in Before(i, seen')
            BY <3>1, <5>2
          <5> QED BY <3>3, <5>2, <5>3
        <4>2. <<"geo", p, g>> \in Deserved(db, f)
          <5>1. <<p, g>> \in ({p} \X GeoOf[f.dest]) \ db.geo
            BY <4>1
          <5>2. <<"geo", <<p, g>>[1], <<p, g>>[2]>> \in Deserved(db, f)
            BY <5>1 DEF Deserved
          <5> QED BY <5>2
        <4> QED BY <1>12, <1>13, <2>2, <3>1, <4>2
      <3> QED BY <3>1, <3>2, <3>3
    <2> QED BY <1>8, <2>1, <2>2
  <1>22. IdentityChangeAlerts'
    <2> SUFFICES ASSUME NEW i \in DOMAIN seen', NEW j \in DOMAIN seen', i < j,
                        seen'[i].flow.proc = seen'[j].flow.proc, seen'[j].flow.out,
                        Judged(j)',
                        seen'[i].flow.ident # NoIdent, seen'[j].flow.ident # NoIdent,
                        \A k \in (i + 1)..(j - 1) :
                            seen'[k].flow.proc = seen'[j].flow.proc
                            => seen'[k].flow.ident = NoIdent,
                        ChangedSince(seen'[i].flow.ident, seen'[j].flow.ident)
                 PROVE  <<"identity", seen'[j].flow.proc, seen'[j].flow.ident.value>>
                            \in Keys'
      BY DEF IdentityChangeAlerts
    <2>1. i \in DOMAIN seen /\ seen'[i] = seen[i]
      BY <1>0, <1>3, <1>8
    <2>2. CASE j \in DOMAIN seen
      <3>1. seen'[j] = seen[j] /\ Judged(j)
        BY <1>3, <1>10, <2>2
      <3>2. \A k \in (i + 1)..(j - 1) : seen[k].flow.proc = seen[j].flow.proc
                                        => seen[k].flow.ident = NoIdent
        <4>1. \A k \in (i + 1)..(j - 1) : k \in DOMAIN seen
          BY <1>3, <2>1, <2>2
        <4> QED BY <1>3, <3>1, <4>1
      <3>3. <<"identity", seen[j].flow.proc, seen[j].flow.ident.value>> \in Keys
        BY <2>1, <2>2, <3>1, <3>2 DEF KnowInv, AlertsComplete, IdentityChangeAlerts
      <3> QED BY <1>9, <3>1, <3>3
    <2>3. CASE j = n
      <3>1. seen'[j] = e /\ f.out /\ seen[i].flow.proc = p /\ f.ident # NoIdent
            /\ ChangedSince(seen[i].flow.ident, f.ident) /\ seen[i].flow.ident # NoIdent
        BY <1>3, <2>1, <2>3
      <3>2. p # NoProc
        BY <1>5, <3>1
      <3>3. Latest(i)
        <4>1. ASSUME NEW k \in DOMAIN seen, k > i, seen[k].flow.proc = p
              PROVE  seen[k].flow.ident = NoIdent
          <5>1. k \in (i + 1)..(j - 1) /\ seen'[k] = seen[k]
            BY <1>0, <1>3, <2>1, <2>3, <4>1
          <5> QED BY <3>1, <4>1, <5>1
        <4> QED BY <3>1, <3>2, <4>1 DEF Latest
      <3>4. seen[i].flow.ident \in CurrentIdentity(db, p)
        BY <2>1, <3>1, <3>3 DEF KnowInv
      <3>5. <<"identity", p, f.ident.value>> \in Deserved(db, f)
        BY <3>1, <3>4 DEF Deserved
      <3> QED BY <1>12, <1>13, <2>3, <3>1, <3>2, <3>5
    <2> QED BY <1>8, <2>2, <2>3
  <1> QED BY <1>3, <1>14, <1>15, <1>16, <1>19, <1>20, <1>21, <1>22, <1>1
          DEF KnowInv, AlertsComplete

\* So the baseline misses none of them.
LEMMA KnowAlways == Spec => []KnowInv
  <1>1. KnowInv /\ WindowInv'
        /\ [\E e \in Event, w \in Windows : Observe(e, w)]_<<db, seen>> => KnowInv'
    <2> SUFFICES ASSUME KnowInv, WindowInv',
                        [\E e \in Event, w \in Windows : Observe(e, w)]_<<db, seen>>
                 PROVE  KnowInv'
      OBVIOUS
    <2>1. CASE UNCHANGED <<db, seen>>
      <3>1. NoveltyAccounted'
        <4>1. NoveltyAccounted
          BY DEF KnowInv, AlertsComplete
        <4>2. db' = db /\ seen' = seen
          BY <2>1
        <4>3. Keys' = Keys /\ \A i : Judged(i)' = Judged(i)
          BY <4>2 DEF Judged, Keys
        <4> QED BY <4>1, <4>2, <4>3 DEF NoveltyAccounted
      <3>2. IdentityChangeAlerts'
        BY <2>1, ZenonT(60) DEF KnowInv, AlertsComplete, IdentityChangeAlerts, Judged, Keys
      <3>3. \A i \in DOMAIN seen' :
                Latest(i)' => seen'[i].flow.ident \in CurrentIdentity(db', seen'[i].flow.proc)
        BY <2>1 DEF KnowInv, Latest
      <3> QED BY <2>1, <3>1, <3>2, <3>3 DEF KnowInv, AlertsComplete
    <2> QED BY <2>1, KnowSteps
  <1>2. LearnInv => WindowInv
    BY DEF LearnInv
  <1> QED BY <1>1, <1>2, KnowStarts, LearnAlways, PTL DEF Spec

\* Every novelty, and every change of a binary, that a committed evaluation met
\* after the learning window is in the alerts, whatever failed before and after it
\* (evaluate_full).
THEOREM AlertsAreComplete == EngineSpec => []AlertsComplete
  <1>1. KnowInv => AlertsComplete
    BY DEF KnowInv
  <1> QED BY <1>1, KnowAlways, EngineImplementsBaseline, PTL DEF Implements

-----------------------------------------------------------------------------
(***************************************************************************)
(* The rows of the store, and what clients were told of them.              *)
(***************************************************************************)
RowsInv ==
    /\ WindowInv
    /\ db.procs \subseteq Procs /\ db.dests \subseteq Dests
    /\ db.labels \subseteq Procs \X Labels
    /\ db.pairs \subseteq Procs \X Dests
    /\ db.geo \subseteq Procs \X Geo
    /\ RowsComplete

\* An empty store has no row that lacks another.
LEMMA RowsStart == Init => RowsInv
  <1> SUFFICES ASSUME Init PROVE RowsInv
    OBVIOUS
  <1>1. WindowInv
    BY LearnStarts DEF LearnInv
  <1>2. /\ db = EmptyDb /\ db.procs = {} /\ db.dests = {} /\ db.labels = {}
        /\ db.pairs = {} /\ db.geo = {} /\ db.volume = {}
    BY DEF Init, EmptyDb
  <1> QED BY <1>1, <1>2 DEF RowsInv, RowsComplete

Firsts(S) == {x[1] : x \in S}

\* The processes of a table of pairs, with one row more.
LEMMA FirstOfMore ==
    ASSUME NEW S, NEW p, NEW l
    PROVE  Firsts(S \cup {<<p, l>>}) = Firsts(S) \cup {p}
  <1>1. <<p, l>>[1] = p
    OBVIOUS
  <1> QED BY <1>1 DEF Firsts

\* An observation adds a row of every table at once.
LEMMA RowsStep ==
    ASSUME RowsInv, NEW e \in Event, NEW w \in Windows, Observe(e, w), WindowInv'
    PROVE  RowsInv'
  <1> DEFINE f == e.flow
             p == e.flow.proc
  <1>1. db'.base \in {"learning", "active"}
    BY Observed DEF RowsInv
  <1>2. IsDb(db) /\ db.base \in Phases /\ db' = Learnt(db, e, w)
    BY DEF RowsInv, WindowInv, Observe
  <1>3. p \in Procs \cup {NoProc} /\ f.dest \in Dests /\ f.label \in Labels
    <2>1. f \in Flows
      BY DEF Event
    <2>2. Flow(f)
      BY <2>1, BaselineAssumption
    <2> QED BY <2>2 DEF Flow
  <1>4. db'.dests = db.dests \cup {f.dest}
    BY <1>2, LearntTables
  <1>5. /\ db.procs \subseteq Procs /\ db.dests \subseteq Dests
        /\ db.labels \subseteq Procs \X Labels
        /\ db.pairs \subseteq Procs \X Dests
        /\ db.geo \subseteq Procs \X Geo
        /\ db.volume = db.procs
        /\ Firsts(db.labels) = db.procs /\ Firsts(db.pairs) = db.procs
        /\ {x[2] : x \in db.pairs} \subseteq db.dests
    BY DEF RowsInv, RowsComplete, Firsts
  <1>6. CASE p = NoProc
    <2>1. /\ db'.procs = db.procs /\ db'.volume = db.volume /\ db'.labels = db.labels
          /\ db'.pairs = db.pairs /\ db'.geo = db.geo
      BY <1>2, <1>6, LearntTables
    <2> QED BY <1>1, <1>3, <1>4, <1>5, <2>1 DEF RowsInv, RowsComplete, Firsts
  <1>7. CASE p # NoProc
    <2>1. /\ db'.procs = db.procs \cup {p} /\ db'.volume = db.volume \cup {p}
          /\ db'.labels = db.labels \cup {<<p, f.label>>}
          /\ db'.pairs = db.pairs \cup {<<p, f.dest>>}
          /\ db'.geo = db.geo \cup ({p} \X GeoOf[f.dest])
      BY <1>2, <1>7, LearntTables
    <2>2. Firsts(db'.labels) = db'.procs
      <3>1. Firsts(db.labels \cup {<<p, f.label>>}) = Firsts(db.labels) \cup {p}
        BY FirstOfMore
      <3> QED BY <1>5, <2>1, <3>1
    <2>3. Firsts(db'.pairs) = db'.procs
      <3>1. Firsts(db.pairs \cup {<<p, f.dest>>}) = Firsts(db.pairs) \cup {p}
        BY FirstOfMore
      <3> QED BY <1>5, <2>1, <3>1
    <2>4. {x[2] : x \in db'.pairs} \subseteq db'.dests
      BY <1>4, <1>5, <2>1
    <2>5. GeoOf[f.dest] \subseteq Geo
      BY <1>3 DEF Geo
    <2>6. db'.geo \subseteq Procs \X Geo
      BY <1>3, <1>5, <1>7, <2>1, <2>5
    <2>7. RowsComplete'
      BY <1>1, <1>5, <2>1, <2>2, <2>3, <2>4 DEF RowsComplete, Firsts
    <2> QED BY <1>3, <1>4, <1>5, <1>7, <2>1, <2>6, <2>7 DEF RowsInv
  <1> QED BY <1>3, <1>6, <1>7

\* So no row of the baseline lacks another.
LEMMA RowsAlways == Spec => []RowsInv
  <1>1. RowsInv /\ WindowInv'
        /\ [\E e \in Event, w \in Windows : Observe(e, w)]_<<db, seen>> => RowsInv'
    BY RowsStep DEF RowsInv, RowsComplete
  <1>2. LearnInv => WindowInv
    BY DEF LearnInv
  <1> QED BY <1>1, <1>2, RowsStart, LearnAlways, PTL DEF Spec

\* Of the transaction: it is open between BEGIN and its end, and holds the alerts
\* collected; once it is over they are in the store.
TxInv ==
    /\ pc \in {"idle", "baseline", "dest", "process", "identity", "label", "geo",
               "volume", "commit", "notify"}
    /\ ev \in Event \cup {NoEvent}
    /\ up \in BOOLEAN /\ stuck \in BOOLEAN /\ faults \in 0..MaxFaults
    /\ InTx => IsDb(tx) /\ tx.base \in Phases /\ fired \subseteq tx.alerts
    /\ ~InTx => tx = NoTx
    /\ pc = "idle" => fired = {}
    /\ pc = "notify" => fired \subseteq db.alerts
    /\ sent \subseteq db.alerts

\* emit, of the tables and of the outcome.
LEMMA RaiseKeeps ==
    ASSUME NEW t, IsDb(t), t.base \in Phases, fired \subseteq t.alerts, NEW K,
           Raise(t, K)
    PROVE  IsDb(tx') /\ tx'.base \in Phases /\ fired' \subseteq tx'.alerts
  <1> DEFINE N == Inserted(t, Due(t, K), ev.ts)
             A == t.alerts \cup N
  <1>1. tx' = [t EXCEPT !.alerts = A] /\ fired' = fired \cup N
    BY DEF Raise, InsertAlerts, Due
  <1>2. fired' \subseteq A
    BY <1>1
  <1> HIDE DEF A, N
  <1> QED BY <1>1, <1>2 DEF IsDb

\* The daemon starts between two transactions.
LEMMA TxStarts == EngineInit => TxInv
  <1> SUFFICES ASSUME EngineInit PROVE TxInv
    OBVIOUS
  <1>1. 0 \in 0..MaxFaults
    BY BoundAssumption
  <1> QED BY <1>1 DEF EngineInit, TxInv, InTx

\* Every statement keeps the alerts collected in the tables, and the daemon
\* forgets them whenever it loses the transaction.
LEMMA TxSteps == TxInv /\ ChainInv /\ [Next]_vars => TxInv'
  <1> SUFFICES ASSUME TxInv, ChainInv, [Next]_vars PROVE TxInv'
    OBVIOUS
  <1> DEFINE Open == /\ UNCHANGED <<db, daemonVars, ev, sent, faults, stuck>>
                     /\ pc' \in {"dest", "process", "identity", "label", "geo",
                                 "volume", "commit"}
                     /\ IsDb(tx') /\ tx'.base \in Phases /\ fired' \subseteq tx'.alerts
  <1>a. Open => TxInv'
    BY DEF TxInv, InTx, daemonVars, IsDb
  <1>b. InTx => IsDb(tx) /\ tx.base \in Phases /\ fired \subseteq tx.alerts
    BY DEF TxInv
  <1> HIDE DEF Open
  <1>1. ASSUME NEW e \in Event, Begin(e) PROVE TxInv'
    <2>1. /\ pc = "idle" /\ ev' = e /\ tx' = db /\ pc' = "baseline"
          /\ UNCHANGED <<db, up, window, fired, sent, faults, stuck>>
      BY <1>1 DEF Begin, daemonVars
    <2>2. IsDb(tx') /\ tx'.base \in Phases /\ fired' \subseteq tx'.alerts
      BY <2>1 DEF TxInv, ChainInv
    <2> QED BY <2>1, <2>2 DEF TxInv, InTx, IsDb
  <1>2. CASE StartBaseline
    <2>1. InTx /\ tx' = Started(db, ev.ts, window)
      <3>1. pc = "baseline"
        BY <1>2 DEF StartBaseline
      <3>2. pc' = "dest"
        BY <1>2 DEF StartBaseline
      <3>3. ChainInv'
        BY ChainSteps
      <3> QED BY <1>2, <3>1, <3>2, <3>3 DEF StartBaseline, ChainInv, Progress, InTx, daemonVars
    <2>2. IsDb(tx') /\ tx'.base \in Phases /\ tx'.alerts = db.alerts
      BY <2>1, StartedKeeps DEF ChainInv
    <2>3. tx = db
      BY <1>2 DEF StartBaseline, ChainInv, Progress
    <2> QED BY <1>2, <1>a, <1>b, <2>1, <2>2, <2>3 DEF StartBaseline, Open
  <1>3. CASE RecordDest
    <2>1. InTx /\ tx' = UpsertDestination(tx, ev.flow.dest) /\ fired' = fired
          /\ pc' \in {"commit", "process"}
          /\ UNCHANGED <<db, daemonVars, ev, sent, faults, stuck>>
      BY <1>3 DEF RecordDest, InTx
    <2>2. IsDb(tx') /\ tx'.base = tx.base /\ tx'.alerts = tx.alerts
      BY <1>b, <2>1 DEF UpsertDestination, IsDb
    <2> QED BY <1>a, <1>b, <2>1, <2>2 DEF Open
  <1>4. CASE RecordProcess
    <2> DEFINE t == UpsertProcess(tx, ev.flow.proc)
    <2>1. InTx
      BY <1>4 DEF RecordProcess, InTx
    <2>2. IsDb(t) /\ t.base = tx.base /\ t.alerts = tx.alerts
      BY <1>b, <2>1 DEF UpsertProcess, IsDb
    <2>3. \E K : Raise(t, K)
      BY <1>4 DEF RecordProcess
    <2> HIDE DEF t
    <2>4. IsDb(tx') /\ tx'.base \in Phases /\ fired' \subseteq tx'.alerts
      BY <1>b, <2>1, <2>2, <2>3, RaiseKeeps
    <2> QED BY <1>4, <1>a, <2>4 DEF RecordProcess, Open
  <1>5. CASE CheckIdentity
    <2> DEFINE t == RecordIdentity(tx, ev.flow.proc, ev.flow.ident)
    <2>1. InTx
      BY <1>5 DEF CheckIdentity, InTx
    <2>2. IsDb(t) /\ t.base = tx.base /\ t.alerts = tx.alerts
      BY <1>b, <2>1, IdentityFields
    <2>3. UNCHANGED <<tx, fired>> \/ \E K : Raise(t, K)
      BY <1>5 DEF CheckIdentity
    <2> HIDE DEF t
    <2>4. IsDb(tx') /\ tx'.base \in Phases /\ fired' \subseteq tx'.alerts
      BY <1>b, <2>1, <2>2, <2>3, RaiseKeeps
    <2> QED BY <1>5, <1>a, <2>4 DEF CheckIdentity, Open
  <1>6. CASE NoteLabel
    <2> DEFINE t == TouchPair(RecordLabel(tx, ev.flow.proc, ev.flow.label),
                              ev.flow.proc, ev.flow.dest)
    <2>1. InTx
      BY <1>6 DEF NoteLabel, InTx
    <2>2. IsDb(t) /\ t.base = tx.base /\ t.alerts = tx.alerts
      BY <1>b, <2>1, LabelFields
    <2>3. \E K : Raise(t, K)
      BY <1>6 DEF NoteLabel
    <2> HIDE DEF t
    <2>4. IsDb(tx') /\ tx'.base \in Phases /\ fired' \subseteq tx'.alerts
      BY <1>b, <2>1, <2>2, <2>3, RaiseKeeps
    <2> QED BY <1>6, <1>a, <2>4 DEF NoteLabel, Open
  <1>7. CASE NoteGeo
    <2> DEFINE t == RecordGeo(tx, ev.flow.proc, GeoOf[ev.flow.dest])
    <2>1. InTx
      BY <1>7 DEF NoteGeo, InTx
    <2>2. IsDb(t) /\ t.base = tx.base /\ t.alerts = tx.alerts
      BY <1>b, <2>1, GeoFields
    <2>3. \E K : Raise(t, K)
      BY <1>7 DEF NoteGeo
    <2> HIDE DEF t
    <2>4. IsDb(tx') /\ tx'.base \in Phases /\ fired' \subseteq tx'.alerts
      BY <1>b, <2>1, <2>2, <2>3, RaiseKeeps
    <2> QED BY <1>7, <1>a, <2>4 DEF NoteGeo, Open
  <1>8. CASE UpdateVolume
    <2> DEFINE t == UpsertVolume(tx, ev.flow.proc)
    <2>1. InTx
      BY <1>8 DEF UpdateVolume, InTx
    <2>2. IsDb(t) /\ t.base = tx.base /\ t.alerts = tx.alerts
      BY <1>b, <2>1, VolumeFields
    <2>3. \E K : Raise(t, K)
      BY <1>8 DEF UpdateVolume
    <2> HIDE DEF t
    <2>4. IsDb(tx') /\ tx'.base \in Phases /\ fired' \subseteq tx'.alerts
      BY <1>b, <2>1, <2>2, <2>3, RaiseKeeps
    <2> QED BY <1>8, <1>a, <2>4 DEF UpdateVolume, Open
  <1>9. CASE Commit
    <2>1. /\ pc = "commit" /\ pc' = "notify" /\ db' = tx /\ tx' = NoTx
          /\ UNCHANGED <<up, window, ev, fired, sent, faults, stuck>>
      BY <1>9 DEF Commit, daemonVars
    <2>2. tx = Learnt(db, ev, window)
      BY <2>1, FinishedIsLearnt DEF ChainInv, Progress
    <2>3. db.alerts \subseteq tx.alerts
      BY <2>2, LearntAlerts DEF ChainInv
    <2> QED BY <2>1, <2>3 DEF TxInv, InTx
  <1>10. CASE Notify
    <2>1. pc = "notify"
      BY <1>10 DEF Notify
    <2> QED BY <1>10, <2>1 DEF Notify, daemonVars, TxInv, InTx
  <1>11. CASE StatementFails \/ CommitFails
    <2>1. /\ UNCHANGED <<db, up, sent>> /\ stuck' \in {stuck, TRUE}
          /\ tx' = NoTx /\ ev' = NoEvent /\ fired' = {} /\ pc' = "idle"
          /\ faults < MaxFaults /\ faults' = faults + 1
      BY <1>11 DEF StatementFails, CommitFails, daemonVars
    <2>2. faults' \in 0..MaxFaults
      BY <2>1, BoundAssumption DEF TxInv
    <2> QED BY <2>1, <2>2 DEF TxInv, InTx
  <1>12. CASE Crash
    <2>1. /\ UNCHANGED <<db, sent>> /\ up' = FALSE /\ stuck' = FALSE
          /\ tx' = NoTx /\ ev' = NoEvent /\ fired' = {} /\ pc' = "idle"
          /\ faults < MaxFaults /\ faults' = faults + 1
      BY <1>12 DEF Crash
    <2>2. faults' \in 0..MaxFaults
      BY <2>1, BoundAssumption DEF TxInv
    <2> QED BY <2>1, <2>2 DEF TxInv, InTx
  <1>13. ASSUME NEW w \in Windows, Restart(w) PROVE TxInv'
    <2>1. pc = "idle" /\ up' = TRUE
          /\ UNCHANGED <<db, pc, ev, tx, fired, sent, faults, stuck>>
      BY <1>13 DEF Restart, ChainInv
    <2> QED BY <2>1 DEF TxInv, InTx
  <1>14. CASE UNCHANGED vars
    <2>1. UNCHANGED <<db, up, window, pc, ev, tx, fired, sent, stuck, faults>>
      BY <1>14 DEF vars, daemonVars
    <2> QED BY <2>1 DEF TxInv, InTx, IsDb
  <1> QED BY <1>1, <1>2, <1>3, <1>4, <1>5, <1>6, <1>7, <1>8, <1>9, <1>10, <1>11,
             <1>12, <1>13, <1>14 DEF Next

\* Whatever fails, and however often the daemon dies: every process of the store has
\* all its rows, nothing is stored before the window was opened, and what clients
\* were told is in the store (with_tx, handle_update).
THEOREM EngineIsSound == EngineSpec => []EngineInv
  <1>1. TxInv /\ ChainInv /\ RowsInv => EngineInv
    <2> SUFFICES ASSUME TxInv, ChainInv, RowsInv PROVE EngineInv
      OBVIOUS
    <2>1. InTx <=> tx # NoTx
      <3>1. NoTx.base \notin Phases
        BY DEF NoTx, Phases
      <3> QED BY <3>1 DEF TxInv
    <2> QED BY <2>1 DEF EngineInv, EngineTypeOK, SentIsStored, TxInv, ChainInv,
                        RowsInv, WindowInv, Phases
  <1>2. EngineSpec => []TxInv
    BY TxStarts, TxSteps, ChainAlways, PTL DEF EngineSpec
  <1> QED BY <1>1, <1>2, ChainAlways, RowsAlways, EngineImplementsBaseline, PTL
          DEF Implements

=============================================================================
