--------------------------- MODULE MonitorProofs ---------------------------
(***************************************************************************)
(* Proofs about the monitor worker, for any set of connections, any table  *)
(* capacity and any number of packets.                                     *)
(***************************************************************************)
EXTENDS Monitor, FiniteSetTheorems, SequenceTheorems, WellFoundedInduction, TLAPS

(***************************************************************************)
(* Facts about the data the model is built from.                           *)
(***************************************************************************)

\* A nonempty set of naturals has a least element.
LEMMA NatMin ==
    ASSUME NEW T, T \subseteq Nat, T # {}
    PROVE  \E x \in T : \A y \in T : x <= y
<1>1. \E x \in T : \A y \in T : ~ (<<y, x>> \in OpToRel(<,Nat))
  BY WFMin, NatLessThanWellFounded
<1>2. \A x \in T, y \in T : ~ (<<y, x>> \in OpToRel(<,Nat)) => x <= y
  BY DEF OpToRel
<1> QED BY <1>1, <1>2

\* Joining two sequences of one element.
LEMMA PairConcat ==
    ASSUME NEW S, NEW a \in S, NEW b \in S
    PROVE  <<a>> \o <<b>> = <<a, b>>
<1>1. <<a>> \in Seq(S) /\ <<b>> \in Seq(S) /\ <<a, b>> \in Seq(S)
  OBVIOUS
<1>2. <<a>> \o <<b>> \in Seq(S) /\ Len(<<a>> \o <<b>>) = 2
  BY <1>1, ConcatProperties
<1>3. \A i \in 1..2 : (<<a>> \o <<b>>)[i] = <<a, b>>[i]
  <2>1. (<<a>> \o <<b>>)[1] = a /\ (<<a>> \o <<b>>)[2] = b
    OBVIOUS
  <2> QED BY <2>1
<1> QED BY <1>1, <1>2, <1>3, SeqEqual

\* A table with a flow in it has a flow that was touched longest ago.
LEMMA LruMember ==
    ASSUME flows \in [DOMAIN flows -> FlowState], DOMAIN flows # {}
    PROVE  Lru \in DOMAIN flows
<1> DEFINE T == {flows[k].touch : k \in DOMAIN flows}
<1>1. T \subseteq Nat /\ T # {}
  BY DEF FlowState
<1>2. PICK x \in T : \A y \in T : x <= y
  BY <1>1, NatMin
<1>3. \E k \in DOMAIN flows : \A j \in DOMAIN flows : flows[k].touch <= flows[j].touch
  BY <1>2
<1> QED BY <1>3 DEF Lru

\* What a new flow evicts is a flow of the table.
LEMMA EvictedMember ==
    ASSUME flows \in [DOMAIN flows -> FlowState], IsFiniteSet(DOMAIN flows),
           FlowAssumption, NEW k
    PROVE  /\ Evicted(k) \subseteq DOMAIN flows \ {k}
           /\ MustEvict(k) => Evicted(k) = {Lru} /\ Lru \in DOMAIN flows \ {k}
           /\ ~MustEvict(k) => Evicted(k) = {}
<1>1. CASE MustEvict(k)
  <2>1. Cardinality(DOMAIN flows) # 0
    BY <1>1, FS_CardinalityType DEF MustEvict, FlowAssumption
  <2>2. DOMAIN flows # {}
    BY <2>1, FS_EmptySet
  <2>3. Lru \in DOMAIN flows
    BY <2>2, LruMember
  <2> QED BY <1>1, <2>3 DEF MustEvict, Evicted
<1>2. CASE ~MustEvict(k)
  BY <1>2 DEF Evicted
<1> QED BY <1>1, <1>2

\* Accounting a packet keeps a flow state well-formed.
LEMMA AccountType ==
    ASSUME NEW st \in FlowState, NEW p \in Packet, FlowAssumption, clock \in Nat
    PROVE  Account(st, p) \in FlowState
BY DEF Account, Ends, FlowState, Packet, Dirs, FlowAssumption

\* A flow touched by a packet is a flow of the table.
LEMMA TouchedType ==
    ASSUME flows \in [DOMAIN flows -> FlowState], NEW p \in Packet,
           FlowAssumption, clock \in Nat
    PROVE  Touched(p) \in FlowState
<1>1. NewFlow \in FlowState
  BY DEF NewFlow, FlowState
<1>2. CASE p.key \in DOMAIN flows
  BY <1>2, AccountType DEF Touched
<1>3. CASE p.key \notin DOMAIN flows
  BY <1>1, <1>3, AccountType DEF Touched
<1> QED BY <1>2, <1>3

\* A snapshot of the table is a row of updates.
LEMMA SnapshotType ==
    ASSUME NEW k \in Keys, NEW st \in FlowState
    PROVE  Snapshot(k, st) \in Snapshots
BY DEF Snapshot, Snapshots, FlowState

\* The table never grows beyond its capacity.
LEMMA KeptBounded ==
    ASSUME FlowAssumption, flows \in [DOMAIN flows -> FlowState],
           IsFiniteSet(DOMAIN flows), Cardinality(DOMAIN flows) <= MaxFlows,
           NEW p \in Packet
    PROVE  IsFiniteSet(Kept(p)) /\ Cardinality(Kept(p)) <= MaxFlows
<1> DEFINE D == DOMAIN flows
<1> DEFINE S == D \ Evicted(p.key)
<1>1. IsFiniteSet(S) /\ Cardinality(S) \in Nat /\ Cardinality(S) <= MaxFlows
      /\ (p.key \notin S => Cardinality(S) < MaxFlows)
  <2>0. Cardinality(D) \in Nat /\ MaxFlows \in Nat \ {0}
    BY FS_CardinalityType DEF FlowAssumption
  <2>1. CASE MustEvict(p.key)
    <3>1. Lru \in D /\ S = D \ {Lru}
      BY <2>1, EvictedMember
    <3>2. IsFiniteSet(S) /\ Cardinality(S) = Cardinality(D) - 1
      BY <3>1, FS_RemoveElement
    <3> QED BY <3>2, <2>0, FS_CardinalityType
  <2>2. CASE ~MustEvict(p.key)
    <3>1. S = D
      BY <2>2 DEF Evicted
    <3> QED BY <3>1, <2>0, <2>2 DEF MustEvict
  <2> QED BY <2>1, <2>2
<1>2. MaxFlows \in Nat
  BY DEF FlowAssumption
<1> HIDE DEF S
<1>3. CASE ShouldClose(Touched(p))
  <2>1. Kept(p) = S \ {p.key}
    BY <1>3 DEF Kept, S
  <2>2. /\ IsFiniteSet(S \ {p.key})
        /\ Cardinality(S \ {p.key}) = IF p.key \in S THEN Cardinality(S) - 1
                                      ELSE Cardinality(S)
    BY <1>1, FS_RemoveElement
  <2> QED BY <2>1, <2>2, <1>1, <1>2
<1>4. CASE ~ShouldClose(Touched(p))
  <2>1. Kept(p) = S \cup {p.key}
    BY <1>4 DEF Kept, S
  <2>2. /\ IsFiniteSet(S \cup {p.key})
        /\ Cardinality(S \cup {p.key}) = IF p.key \in S THEN Cardinality(S)
                                         ELSE Cardinality(S) + 1
    BY <1>1, FS_AddElement
  <2> QED BY <2>1, <2>2, <1>1, <1>2
<1> QED BY <1>3, <1>4

\* The flow table after a packet.
LEMMA FlowsAfter ==
    ASSUME flows \in [DOMAIN flows -> FlowState], DOMAIN flows \subseteq Keys,
           FlowAssumption, clock \in Nat, NEW p \in Packet, Update(p)
    PROVE  /\ DOMAIN flows' = Kept(p)
           /\ flows' \in [DOMAIN flows' -> FlowState]
           /\ DOMAIN flows' \subseteq Keys
           /\ \A x \in DOMAIN flows' :
                 flows'[x] = IF x = p.key THEN Touched(p) ELSE flows[x]
           /\ \A x \in DOMAIN flows' : x = p.key \/ x \in DOMAIN flows
<1>1. Touched(p) \in FlowState
  BY TouchedType
<1>2. p.key \in Keys
  BY DEF Packet
<1>3. Kept(p) \subseteq DOMAIN flows \cup {p.key}
  BY DEF Kept
<1>4. flows' = [k \in Kept(p) |-> IF k = p.key THEN Touched(p) ELSE flows[k]]
  BY DEF Update
<1> QED BY <1>1, <1>2, <1>3, <1>4

\* The queue after a packet that finds it empty: the evicted flow, if any, then
\* the packet's own flow, if it closes.
LEMMA QueueAfter ==
    ASSUME flows \in [DOMAIN flows -> FlowState], DOMAIN flows \subseteq Keys,
           IsFiniteSet(DOMAIN flows), FlowAssumption, clock \in Nat,
           done = <<>>, NEW p \in Packet, Update(p)
    PROVE  /\ done' \in Seq(Snapshots)
           /\ \A i \in DOMAIN done' :
                 \/ /\ done'[i].key \in Evicted(p.key)
                    /\ done'[i].key \in DOMAIN flows \ {p.key}
                    /\ done'[i] = Snapshot(done'[i].key, flows[done'[i].key])
                 \/ /\ ShouldClose(Touched(p))
                    /\ done'[i].key = p.key
                    /\ done'[i] = Snapshot(p.key, Touched(p))
           /\ \A i, j \in DOMAIN done' : done'[i].key = done'[j].key => i = j
           /\ Pending' = Evicted(p.key)
                         \cup (IF ShouldClose(Touched(p)) THEN {p.key} ELSE {})
<1> DEFINE t == Touched(p)
<1> DEFINE old == Snapshot(Lru, flows[Lru])
<1> DEFINE new == Snapshot(p.key, t)
<1>1. p.key \in Keys /\ t \in FlowState
  BY TouchedType DEF Packet
<1>2. new \in Snapshots /\ new.key = p.key
  BY <1>1, SnapshotType DEF Snapshot
<1>3. ASSUME MustEvict(p.key)
      PROVE  /\ Lru \in DOMAIN flows \ {p.key}
             /\ old \in Snapshots
             /\ old.key = Lru
             /\ Evicted(p.key) = {Lru}
  BY <1>1, <1>3, EvictedMember, SnapshotType DEF Snapshot
<1>4. done' = EvictionSnapshots(p) \o CloseSnapshots(p)
  <2>1. EvictionSnapshots(p) \in Seq(Snapshots)
    BY <1>3 DEF EvictionSnapshots
  <2> QED BY <2>1 DEF Update
<1> HIDE DEF t, old, new
<1>5. CASE MustEvict(p.key) /\ ShouldClose(t)
  <2>1. EvictionSnapshots(p) = <<old>> /\ CloseSnapshots(p) = <<new>>
    BY <1>5 DEF EvictionSnapshots, CloseSnapshots, t, old, new
  <2>2. done' = <<old, new>>
    <3>1. old \in Snapshots /\ new \in Snapshots
      BY <1>2, <1>3, <1>5
    <3>2. <<old>> \o <<new>> = <<old, new>>
      BY <3>1, PairConcat
    <3> QED BY <1>4, <2>1, <3>2
  <2> QED BY <1>2, <1>3, <1>5, <2>2 DEF Pending, t, old, new
<1>6. CASE MustEvict(p.key) /\ ~ShouldClose(t)
  <2>1. EvictionSnapshots(p) = <<old>> /\ CloseSnapshots(p) = <<>>
    BY <1>6 DEF EvictionSnapshots, CloseSnapshots, t, old, new
  <2>2. done' = <<old>>
    BY <1>2, <1>3, <1>4, <1>6, <2>1
  <2> QED BY <1>2, <1>3, <1>6, <2>2 DEF Pending, t, old, new
<1>7. CASE ~MustEvict(p.key) /\ ShouldClose(t)
  <2>1. EvictionSnapshots(p) = <<>> /\ CloseSnapshots(p) = <<new>>
    BY <1>7 DEF EvictionSnapshots, CloseSnapshots, t, old, new
  <2>2. done' = <<new>>
    BY <1>2, <1>4, <2>1
  <2> QED BY <1>2, <1>7, <2>2 DEF Pending, Evicted, t, old, new
<1>8. CASE ~MustEvict(p.key) /\ ~ShouldClose(t)
  <2>1. EvictionSnapshots(p) = <<>> /\ CloseSnapshots(p) = <<>>
    BY <1>8 DEF EvictionSnapshots, CloseSnapshots, t, old, new
  <2>2. done' = <<>>
    BY <1>4, <2>1
  <2> QED BY <1>8, <2>2 DEF Pending, Evicted, t, old, new
<1> QED BY <1>5, <1>6, <1>7, <1>8

WireRecord == [key : Keys, lh : Nat, hl : Nat]

\* The id of a packet's connection, and what the wire has carried for it.
LEMMA WireAfter ==
    ASSUME IInv, Idle, FlowAssumption, NEW p \in Packet, Receive(p)
    PROVE  /\ wire' \in Seq(WireRecord)
           /\ nextId' = Len(wire') + 1
           /\ IdFor(p.key) \in 1..Len(wire')
           /\ 1..Len(wire') = 1..Len(wire) \cup {IdFor(p.key)}
           /\ \A i \in 1..Len(wire) : i # IdFor(p.key) => wire'[i] = wire[i]
           /\ wire'[IdFor(p.key)] =
                 [key |-> p.key, lh |-> Touched(p).lh, hl |-> Touched(p).hl]
<1> DEFINE id == IdFor(p.key)
<1>1. /\ wire \in Seq(WireRecord) /\ nextId = Len(wire) + 1
      /\ DOMAIN metas = DOMAIN flows
      /\ \A k \in DOMAIN metas : metas[k].id \in 1..Len(wire) /\ wire[metas[k].id].key = k
      /\ \A k \in DOMAIN flows : /\ flows[k].lh = wire[metas[k].id].lh
                                 /\ flows[k].hl = wire[metas[k].id].hl
  <2>1. wire \in Seq(WireRecord)
    BY DEF IInv, TypeOK, WireRecord
  <2>2. Pending = {}
    BY DEF IInv, HandInv, Pending
  <2> QED BY <2>1, <2>2 DEF IInv, MetaInv, TotalsInv
<1>2. p.key \in Keys /\ p.size \in Nat
  BY DEF Packet, FlowAssumption
<1>3. wire' = Credited(p)
  BY DEF Receive
<1>4. CASE p.key \in DOMAIN metas
  <2> DEFINE new == Credit(wire[id], p)
  <2>1. id \in 1..Len(wire) /\ id = metas[p.key].id
    BY <1>1, <1>4 DEF IdFor
  <2>2. wire[id] \in WireRecord
    BY <1>1, <2>1, ElementOfSeq
  <2>3. new \in WireRecord
    BY <1>2, <2>2 DEF Credit, WireRecord
  <2>4. wire' = [wire EXCEPT ![id] = new]
    BY <1>3, <1>4 DEF Credited
  <2>5. /\ wire' \in Seq(WireRecord) /\ Len(wire') = Len(wire)
        /\ \A j \in 1..Len(wire) : wire'[j] = IF j = id THEN new ELSE wire[j]
    BY <1>1, <2>1, <2>3, <2>4, ExceptSeq
  <2>6. new = [key |-> p.key, lh |-> Touched(p).lh, hl |-> Touched(p).hl]
    <3>1. wire[id].key = p.key /\ wire[id].lh = flows[p.key].lh /\ wire[id].hl = flows[p.key].hl
      BY <1>1, <1>4, <2>1
    <3>2. Touched(p) = Account(flows[p.key], p)
      BY <1>1, <1>4 DEF Touched
    <3> QED BY <3>1, <3>2 DEF Account, Credit
  <2>7. nextId' = nextId
    BY <1>4 DEF Receive
  <2> QED BY <1>1, <2>1, <2>5, <2>6, <2>7
<1>5. CASE p.key \notin DOMAIN metas
  <2> DEFINE new == Credit([key |-> p.key, lh |-> 0, hl |-> 0], p)
  <2>1. id = Len(wire) + 1
    BY <1>1, <1>5 DEF IdFor
  <2>2. new \in WireRecord
    BY <1>2 DEF Credit, WireRecord
  <2>3. wire' = Append(wire, new)
    BY <1>3, <1>5 DEF Credited
  <2>4. new = [key |-> p.key, lh |-> Touched(p).lh, hl |-> Touched(p).hl]
    <3>1. Touched(p) = Account(NewFlow, p)
      BY <1>1, <1>5 DEF Touched
    <3> QED BY <3>1 DEF Account, Credit, NewFlow
  <2>5. nextId' = nextId + 1
    BY <1>5 DEF Receive
  <2> HIDE DEF new, id
  <2>6. /\ wire' \in Seq(WireRecord) /\ Len(wire') = Len(wire) + 1
        /\ wire'[Len(wire) + 1] = new
        /\ \A i \in 1..Len(wire) : wire'[i] = wire[i]
    BY <1>1, <2>2, <2>3, AppendProperties
  <2>7. Len(wire) \in Nat
    BY <1>1, LenProperties
  <2> QED BY <1>1, <2>1, <2>4, <2>5, <2>6, <2>7 DEF id
<1> QED BY <1>4, <1>5

\* The FlowMetas after a packet.
LEMMA MetasAfter ==
    ASSUME IInv, NEW p \in Packet, Receive(p)
    PROVE  /\ DOMAIN metas' = DOMAIN metas \cup {p.key}
           /\ metas' \in [DOMAIN metas' -> Meta]
           /\ metas'[p.key].id = IdFor(p.key)
           /\ \A k \in DOMAIN metas : metas'[k] = metas[k]
<1>1. metas \in [DOMAIN metas -> Meta] /\ nextId \in Nat
  BY DEF IInv, TypeOK
<1>2. CASE p.key \in DOMAIN metas
  <2>1. metas' = metas
    BY <1>2 DEF Receive
  <2> QED BY <1>1, <1>2, <2>1 DEF IdFor
<1>3. CASE p.key \notin DOMAIN metas
  <2>1. metas' = Put(metas, p.key, [id |-> nextId, proc |-> NoProc])
    BY <1>3 DEF Receive
  <2>2. [id |-> nextId, proc |-> NoProc] \in Meta
    BY <1>1 DEF Meta, Lookup
  <2> QED BY <1>1, <1>3, <2>1, <2>2 DEF Put, IdFor
<1> QED BY <1>2, <1>3
(***************************************************************************)
(* The inductive invariant.                                                *)
(***************************************************************************)

\* A packet reaches the worker: the step that touches every table.
LEMMA ReceiveInv ==
    ASSUME IInv, FlowAssumption, ProcAssumption, NEW p \in Packet, Receive(p)
    PROVE  IInv'
<1> DEFINE k == p.key
<1> DEFINE id == IdFor(p.key)
<1> DEFINE t == Touched(p)
<1>1. /\ pc = "recv" /\ pc' = "evaluate" /\ done = <<>> /\ Update(p)
      /\ snap = NoSnap /\ Pending = {}
      /\ UNCHANGED <<snap, live, rows, feed, lost, stop, captureUp, leaving>>
  <2>1. done = <<>> /\ snap = NoSnap
    BY DEF Receive, IInv, HandInv, Idle, Closing
  <2> QED BY <2>1 DEF Receive, Pending
<1>2. /\ flows \in [DOMAIN flows -> FlowState] /\ DOMAIN flows \subseteq Keys
      /\ IsFiniteSet(DOMAIN flows) /\ Cardinality(DOMAIN flows) <= MaxFlows
      /\ clock \in 0..MaxPackets /\ clock < MaxPackets /\ clock \in Nat
      /\ MaxPackets \in Nat
  BY DEF IInv, TypeOK, QueueInv, Receive, FlowAssumption
<1>3. /\ DOMAIN metas = DOMAIN flows /\ DOMAIN live = DOMAIN metas
      /\ \A x \in DOMAIN metas : metas[x].id \in 1..Len(wire) /\ wire[metas[x].id].key = x
      /\ \A x \in DOMAIN live : live[x].id = metas[x].id
      /\ \A x \in DOMAIN flows : /\ flows[x].lh = wire[metas[x].id].lh
                                 /\ flows[x].hl = wire[metas[x].id].hl
  BY <1>1 DEF IInv, MetaInv, LiveInv, TotalsInv
<1>4. k \in Keys /\ p.size \in Nat /\ t \in FlowState
  BY <1>2, TouchedType DEF Packet, FlowAssumption
<1>5. /\ DOMAIN flows' = Kept(p)
      /\ flows' \in [DOMAIN flows' -> FlowState]
      /\ DOMAIN flows' \subseteq Keys
      /\ \A x \in DOMAIN flows' : flows'[x] = IF x = k THEN t ELSE flows[x]
      /\ \A x \in DOMAIN flows' : x = k \/ x \in DOMAIN flows
  BY <1>1, <1>2, FlowsAfter
<1>6. /\ done' \in Seq(Snapshots)
      /\ \A i \in DOMAIN done' :
            \/ /\ done'[i].key \in Evicted(k)
               /\ done'[i].key \in DOMAIN flows \ {k}
               /\ done'[i] = Snapshot(done'[i].key, flows[done'[i].key])
            \/ /\ ShouldClose(t)
               /\ done'[i].key = k
               /\ done'[i] = Snapshot(k, t)
      /\ \A i, j \in DOMAIN done' : done'[i].key = done'[j].key => i = j
      /\ Pending' = Evicted(k) \cup (IF ShouldClose(t) THEN {k} ELSE {})
  BY <1>1, <1>2, QueueAfter
<1>7. IsFiniteSet(Kept(p)) /\ Cardinality(Kept(p)) <= MaxFlows
  BY <1>2, KeptBounded
<1>8. /\ wire' \in Seq(WireRecord)
      /\ nextId' = Len(wire') + 1
      /\ id \in 1..Len(wire')
      /\ 1..Len(wire') = 1..Len(wire) \cup {id}
      /\ \A i \in 1..Len(wire) : i # id => wire'[i] = wire[i]
      /\ wire'[id] = [key |-> k, lh |-> t.lh, hl |-> t.hl]
  BY <1>1, WireAfter DEF Idle
<1>9. /\ DOMAIN metas' = DOMAIN metas \cup {k}
      /\ metas' \in [DOMAIN metas' -> Meta]
      /\ metas'[k].id = id
      /\ \A x \in DOMAIN metas : metas'[x] = metas[x]
  BY MetasAfter
<1>10. Len(wire) \in Nat /\ DOMAIN wire = 1..Len(wire) /\ DOMAIN wire' = 1..Len(wire')
       /\ Len(wire') \in Nat
  BY <1>8, LenProperties DEF IInv, TypeOK
<1>11. /\ \A x \in DOMAIN metas \ {k} : metas'[x].id \in 1..Len(wire) /\ metas'[x].id # id
       /\ k \in DOMAIN metas => id = metas[k].id
       /\ k \notin DOMAIN metas => id = Len(wire) + 1
  <2>1. k \in DOMAIN metas => id = metas[k].id
    BY DEF IdFor
  <2>2. k \notin DOMAIN metas => id = Len(wire) + 1
    BY DEF IdFor, IInv, MetaInv
  <2>3. \A x \in DOMAIN metas \ {k} : metas[x].id \in 1..Len(wire) /\ metas[x].id # id
    BY <1>3, <1>10, <2>1, <2>2
  <2> QED BY <1>9, <2>1, <2>2, <2>3
<1>12. id \notin RowIds \cup lost /\ RowIds \subseteq 1..Len(wire) /\ lost \subseteq 1..Len(wire)
       /\ \A i \in DOMAIN rows : rows[i].id \in RowIds
  <2>1. RowIds \subseteq 1..Len(wire) /\ lost \subseteq 1..Len(wire)
    BY <1>10 DEF IInv, LedgerInv, HistoryExact, RowIds
  <2> HIDE DEF k, id
  <2>2. CASE k \in DOMAIN metas
    <3>1. RowIds \cap MetaIds = {} /\ lost \cap MetaIds = {}
      BY DEF IInv, LedgerInv
    <3>2. id \in MetaIds
      BY <1>11, <2>2 DEF MetaIds
    <3> QED BY <2>1, <3>1, <3>2 DEF RowIds
  <2>3. CASE k \notin DOMAIN metas
    <3>1. id = Len(wire) + 1
      BY <1>11, <2>3
    <3> QED BY <1>10, <2>1, <3>1 DEF RowIds
  <2> QED BY <2>2, <2>3
<1>13. /\ DOMAIN flows' \cup Pending' = DOMAIN flows \cup {k}
       /\ DOMAIN flows' \cap Pending' = {}
  <2>1. Evicted(k) \subseteq DOMAIN flows \ {k}
    BY <1>2, EvictedMember
  <2> QED BY <1>5, <1>6, <2>1 DEF Kept
<1> HIDE DEF k, id, t
<1>14. TypeOK'
  <2>1. cur' \in [key : Keys, id : Nat, up : Nat, down : Nat, proc : Lookup]
    <3>1. cur' = [key  |-> k, id |-> id, proc |-> NoProc,
                  up   |-> IF Outbound(p) THEN p.size ELSE 0,
                  down |-> IF Outbound(p) THEN 0 ELSE p.size]
      BY DEF Receive, k, id
    <3> QED BY <3>1, <1>4, <1>8 DEF Lookup
  <2>2. clock' \in 0..MaxPackets
    BY <1>1, <1>2 DEF Update
  <2>4. DOMAIN metas' \subseteq Keys
    BY <1>3, <1>2, <1>4, <1>9
  <2>5. nextId' \in Nat
    BY <1>8, <1>10
  <2>6. /\ snap' \in Row \cup {NoSnap}
        /\ live' \in [DOMAIN live' -> Conn]
        /\ DOMAIN live' \subseteq Keys
        /\ rows' \in Seq(Row)
        /\ feed' \in Seq(Event)
        /\ lost' \subseteq Nat
        /\ stop' \in BOOLEAN
        /\ captureUp' \in BOOLEAN
        /\ leaving' \in BOOLEAN
    BY <1>1 DEF IInv, TypeOK
  <2>7. wire' \in Seq([key : Keys, lh : Nat, hl : Nat])
    BY <1>8 DEF WireRecord
  <2> QED BY <1>1, <1>5, <1>6, <1>7, <1>9, <2>1, <2>2, <2>4, <2>5, <2>6, <2>7
          DEF TypeOK
<1>15. HandInv'
  <2>1. cur' \in [key : Keys, id : Nat, up : Nat, down : Nat, proc : Lookup]
    BY <1>1, <1>14 DEF TypeOK, NoUpdate, Receive
  <2>2. cur'.key = k /\ cur'.id = id
    BY DEF Receive, k, id
  <2> QED BY <1>1, <1>9, <2>1, <2>2 DEF HandInv, Handling, Closing, Idle
<1>16. QueueInv'
  BY <1>5, <1>6, <1>7, <1>13 DEF QueueInv, Pending
<1>17. MetaInv'
  <2>1. DOMAIN metas' = DOMAIN flows' \cup Pending'
    BY <1>3, <1>9, <1>13
  <2>2. \A x \in DOMAIN metas' : metas'[x].id \in 1..Len(wire') /\ wire'[metas'[x].id].key = x
    BY <1>3, <1>8, <1>9, <1>11
  <2> QED BY <1>8, <2>1, <2>2 DEF MetaInv
<1>18. TotalsInv'
  <2>1. \A x \in DOMAIN flows' : /\ flows'[x].lh = wire'[metas'[x].id].lh
                                 /\ flows'[x].hl = wire'[metas'[x].id].hl
    BY <1>3, <1>5, <1>8, <1>9, <1>11, SMTT(30)
  <2>2. ASSUME NEW i \in DOMAIN done'
        PROVE  /\ done'[i].up = Totals(metas[done[i].key].id)'.up
               /\ done'[i].down = Totals(metas[done[i].key].id)'.down
    <3>1. CASE done'[i].key = k /\ done'[i] = Snapshot(k, t)
      BY <1>8, <1>9, <3>1 DEF Snapshot, Totals, LocalLow
    <3>2. CASE /\ done'[i].key \in DOMAIN flows \ {k}
               /\ done'[i] = Snapshot(done'[i].key, flows[done'[i].key])
      BY <1>3, <1>8, <1>9, <1>11, <3>2 DEF Snapshot, Totals, LocalLow
    <3> QED BY <1>6, <3>1, <3>2
  <2> QED BY <2>1, <2>2 DEF TotalsInv
<1>19. LiveInv'
  <2>1. cur'.key = k
    BY DEF Receive, k
  <2> QED BY <1>1, <1>3, <1>9, <1>11, <2>1 DEF LiveInv
<1>20. LedgerInv'
  <2>1. HistoryExact'
    <3>1. ASSUME NEW i \in DOMAIN rows
          PROVE  /\ rows[i].id \in DOMAIN wire'
                 /\ wire'[rows[i].id] = wire[rows[i].id]
      BY <1>8, <1>10, <1>12
    <3>2. ASSUME NEW i \in DOMAIN rows
          PROVE  Totals(rows[i].id)' = Totals(rows[i].id)
      BY <1>1, <3>1 DEF Totals
    <3>3. HistoryExact
      BY DEF IInv, LedgerInv
    <3> QED BY <1>1, <3>1, <3>2, <3>3 DEF HistoryExact
  <2>2. MetaIds' = MetaIds \cup {id}
    BY <1>9, <1>11 DEF MetaIds
  <2>3. RowIds' = RowIds /\ lost' = lost /\ ~Closing /\ ~Closing'
    BY <1>1 DEF RowIds, Closing
  <2>4. /\ RowIds \cap MetaIds = {} /\ lost \cap MetaIds = {}
        /\ DOMAIN wire = MetaIds \cup RowIds \cup lost
    BY <2>3 DEF IInv, LedgerInv
  <2>5. lost' \subseteq DOMAIN wire'
    BY <1>8, <1>10, <1>12, <2>3
  <2>6. DOMAIN wire' = MetaIds' \cup RowIds' \cup lost'
    BY <1>8, <1>10, <2>2, <2>3, <2>4
  <2> QED BY <1>12, <2>1, <2>2, <2>3, <2>4, <2>5, <2>6 DEF LedgerInv
<1> QED BY <1>14, <1>15, <1>16, <1>17, <1>18, <1>19, <1>20 DEF IInv
\* The tables of the worker stay as they are.
LEMMA TablesUnchanged ==
    ASSUME UNCHANGED <<trackerVars, metas, nextId, wire>>, QueueInv, MetaInv, TotalsInv
    PROVE  QueueInv' /\ MetaInv' /\ TotalsInv'
<1>1. /\ flows' = flows /\ done' = done /\ metas' = metas /\ nextId' = nextId
      /\ wire' = wire /\ Pending' = Pending
  BY DEF trackerVars, Pending
<1> QED BY <1>1 DEF QueueInv, MetaInv, TotalsInv, Totals

\* The ledger stays as it is while no snapshot is taken up or put down.
LEMMA LedgerUnchanged ==
    ASSUME UNCHANGED <<rows, lost, wire, snap>>, MetaIds' = MetaIds,
           (Closing' <=> Closing), LedgerInv
    PROVE  LedgerInv'
<1>1. rows' = rows /\ lost' = lost /\ wire' = wire /\ snap' = snap /\ RowIds' = RowIds
  BY DEF RowIds
<1>2. HistoryExact'
  BY <1>1 DEF LedgerInv, HistoryExact, Totals
<1> QED BY <1>1, <1>2 DEF LedgerInv

\* Steps that only move the worker along its loop, or set a flag.
LEMMA ControlInv ==
    ASSUME IInv,
           \/ CheckStop \/ ReceiveTimeout \/ ReceiveDisconnected \/ Drained
           \/ RequestStop \/ CaptureEnds \/ UNCHANGED vars
    PROVE  IInv'
<1>1. UNCHANGED <<trackerVars, cur, snap, metas, nextId, live, rows, feed, lost, wire>>
  BY DEF CheckStop, ReceiveTimeout, ReceiveDisconnected, Drained, RequestStop,
         CaptureEnds, vars, workerVars
<1>2. \/ pc' = pc
      \/ pc \in {"check", "recv", "drain"} /\ pc' \in {"check", "recv", "drain", "stopped"}
  BY DEF CheckStop, ReceiveTimeout, ReceiveDisconnected, Drained, RequestStop,
         CaptureEnds, vars, workerVars
<1>3. Idle' => done = <<>>
  BY DEF CheckStop, ReceiveTimeout, ReceiveDisconnected, Drained, RequestStop,
         CaptureEnds, vars, workerVars, Idle, IInv, HandInv
<1>4. stop' \in BOOLEAN /\ captureUp' \in BOOLEAN /\ leaving' \in BOOLEAN
  BY DEF CheckStop, ReceiveTimeout, ReceiveDisconnected, Drained, RequestStop,
         CaptureEnds, vars, workerVars, IInv, TypeOK
<1>5. (Closing' <=> Closing) /\ (Handling' <=> Handling)
  BY <1>2 DEF Closing, Handling
<1>6. TypeOK'
  BY <1>1, <1>2, <1>4 DEF IInv, TypeOK, trackerVars
<1>7. HandInv'
  BY <1>1, <1>3, <1>5 DEF IInv, HandInv, trackerVars, Totals, MetaIds, RowIds
<1>8. QueueInv' /\ MetaInv' /\ TotalsInv'
  BY <1>1, TablesUnchanged DEF IInv
<1>9. LiveInv'
  BY <1>1, <1>2 DEF IInv, LiveInv
<1>10. LedgerInv'
  BY <1>1, <1>5, LedgerUnchanged DEF IInv, MetaIds
<1> QED BY <1>6, <1>7, <1>8, <1>9, <1>10 DEF IInv

\* evaluate_full resolves, or fails to resolve, the row ids of one FlowMeta.
LEMMA EvaluateInv ==
    ASSUME IInv, ProcAssumption, NEW who \in Lookup, NEW ok \in StoreOutcomes,
           Evaluate(who, ok)
    PROVE  IInv'
<1>1. /\ pc = "evaluate" /\ pc' = "publish"
      /\ cur' = [cur EXCEPT !.proc = who]
      /\ metas' = IF ok THEN [metas EXCEPT ![cur.key].proc = who] ELSE metas
      /\ UNCHANGED <<trackerVars, snap, nextId, live, rows, feed, lost, wire,
                     stop, captureUp, leaving>>
  BY DEF Evaluate
<1>2. /\ cur \in [key : Keys, id : Nat, up : Nat, down : Nat, proc : Lookup]
      /\ cur.key \in DOMAIN metas /\ cur.id = metas[cur.key].id
      /\ metas \in [DOMAIN metas -> Meta]
  BY <1>1 DEF IInv, HandInv, Handling, TypeOK
<1>3. /\ DOMAIN metas' = DOMAIN metas
      /\ metas' \in [DOMAIN metas -> Meta]
      /\ \A k \in DOMAIN metas : metas'[k].id = metas[k].id
  BY <1>1, <1>2 DEF Meta
<1>4. /\ cur' \in [key : Keys, id : Nat, up : Nat, down : Nat, proc : Lookup]
      /\ cur'.key = cur.key /\ cur'.id = cur.id
  BY <1>1, <1>2
<1>5. MetaIds' = MetaIds /\ Pending' = Pending /\ done' = done /\ flows' = flows
  BY <1>1, <1>3 DEF MetaIds, Pending, trackerVars
<1>6. ~Closing /\ ~Closing' /\ Handling'
  BY <1>1 DEF Closing, Handling
<1>7. TypeOK'
  BY <1>1, <1>3, <1>4 DEF IInv, TypeOK, trackerVars
<1>8. HandInv'
  BY <1>1, <1>2, <1>3, <1>4, <1>6 DEF IInv, HandInv, Idle
<1>9. QueueInv' /\ MetaInv'
  BY <1>1, <1>3, <1>5 DEF IInv, QueueInv, MetaInv
<1>10. TotalsInv'
  <2>1. \A i \in DOMAIN done : done[i].key \in DOMAIN metas
    BY DEF IInv, MetaInv, Pending
  <2>2. DOMAIN flows \subseteq DOMAIN metas
    BY DEF IInv, MetaInv
  <2> QED BY <1>1, <1>3, <1>5, <2>1, <2>2 DEF IInv, TotalsInv, Totals
<1>11. LiveInv'
  BY <1>1, <1>3, <1>4 DEF IInv, LiveInv
<1>12. LedgerInv'
  BY <1>1, <1>5, <1>6, LedgerUnchanged DEF IInv
<1> QED BY <1>7, <1>8, <1>9, <1>10, <1>11, <1>12 DEF IInv

\* The connection in hand enters, or is updated in, the live table.
LEMMA PublishInv ==
    ASSUME IInv, Publish
    PROVE  IInv'
<1>1. /\ pc = "publish" /\ pc' = "announce"
      /\ live' = Put(live, cur.key, Dto)
      /\ UNCHANGED <<trackerVars, cur, snap, metas, nextId, rows, feed, lost,
                     wire, stop, captureUp, leaving>>
  BY DEF Publish
<1>2. /\ cur \in [key : Keys, id : Nat, up : Nat, down : Nat, proc : Lookup]
      /\ cur.key \in DOMAIN metas /\ cur.id = metas[cur.key].id
  BY <1>1 DEF IInv, HandInv, Handling
<1>3. Dto \in Conn /\ Dto.id = metas[cur.key].id
  <2>1. /\ live \in [DOMAIN live -> Conn]
        /\ \A k \in DOMAIN live : live[k].id = metas[k].id
    BY DEF IInv, TypeOK, LiveInv
  <2>2. CASE cur.key \in DOMAIN live
    BY <1>2, <2>1, <2>2 DEF Dto, Conn
  <2>3. CASE cur.key \notin DOMAIN live
    BY <1>2, <2>3 DEF Dto, Conn, Lookup
  <2> QED BY <2>2, <2>3
<1>4. /\ DOMAIN live' = DOMAIN live \cup {cur.key}
      /\ live' \in [DOMAIN live' -> Conn]
      /\ \A k \in DOMAIN live' : live'[k] = IF k = cur.key THEN Dto ELSE live[k]
  BY <1>1, <1>3 DEF Put, IInv, TypeOK
<1>5. MetaIds' = MetaIds /\ ~Closing /\ ~Closing' /\ Handling'
  BY <1>1 DEF MetaIds, Closing, Handling
<1>6. TypeOK'
  BY <1>1, <1>2, <1>4 DEF IInv, TypeOK, trackerVars
<1>7. HandInv'
  BY <1>1, <1>2, <1>5 DEF IInv, HandInv, Idle, trackerVars
<1>8. QueueInv' /\ MetaInv' /\ TotalsInv'
  BY <1>1, TablesUnchanged DEF IInv
<1>9. LiveInv'
  BY <1>1, <1>2, <1>3, <1>4 DEF IInv, LiveInv
<1>10. LedgerInv'
  BY <1>1, <1>5, LedgerUnchanged DEF IInv
<1> QED BY <1>6, <1>7, <1>8, <1>9, <1>10 DEF IInv

\* The update of the connection in hand is broadcast.
LEMMA AnnounceInv ==
    ASSUME IInv, Announce
    PROVE  IInv'
<1>1. /\ pc = "announce" /\ pc' = "drain"
      /\ feed' = Append(feed, [type |-> "flow", id |-> live[cur.key].id])
      /\ cur' = NoUpdate
      /\ UNCHANGED <<trackerVars, snap, metas, nextId, live, rows, lost, wire,
                     stop, captureUp, leaving>>
  BY DEF Announce
<1>2. cur.key \in DOMAIN live
  BY <1>1 DEF IInv, HandInv, Handling, LiveInv
<1>3. feed' \in Seq(Event)
  <2>1. feed \in Seq(Event) /\ live[cur.key] \in Conn
    BY <1>2 DEF IInv, TypeOK
  <2>2. [type |-> "flow", id |-> live[cur.key].id] \in Event
    BY <2>1 DEF Event, Conn
  <2> QED BY <1>1, <2>1, <2>2, AppendProperties
<1>4. /\ MetaIds' = MetaIds /\ ~Closing /\ ~Closing' /\ ~Handling' /\ ~Idle'
  BY <1>1 DEF MetaIds, Closing, Handling, Idle
<1>5. TypeOK'
  BY <1>1, <1>3 DEF IInv, TypeOK, trackerVars
<1>6. HandInv'
  BY <1>1, <1>4 DEF IInv, HandInv
<1>7. QueueInv' /\ MetaInv' /\ TotalsInv'
  BY <1>1, TablesUnchanged DEF IInv
<1>8. LiveInv'
  BY <1>1 DEF IInv, LiveInv
<1>9. LedgerInv'
  BY <1>1, <1>4, LedgerUnchanged DEF IInv
<1> QED BY <1>5, <1>6, <1>7, <1>8, <1>9 DEF IInv

\* The end of the connection being persisted is broadcast.
LEMMA RetireInv ==
    ASSUME IInv, Retire
    PROVE  IInv'
<1>1. /\ pc = "retire" /\ pc' = "insert"
      /\ feed' = IF snap.id = 0 THEN feed
                 ELSE Append(feed, [type |-> "closed", id |-> snap.id])
      /\ UNCHANGED <<trackerVars, cur, snap, metas, nextId, live, rows, lost,
                     wire, stop, captureUp, leaving>>
  BY DEF Retire
<1>2. snap \in Row
  BY <1>1 DEF IInv, HandInv, Closing
<1>3. feed' \in Seq(Event)
  <2>1. feed \in Seq(Event)
    BY DEF IInv, TypeOK
  <2>2. [type |-> "closed", id |-> snap.id] \in Event
    BY <1>2 DEF Event, Row
  <2> QED BY <1>1, <2>1, <2>2, AppendProperties
<1>4. /\ MetaIds' = MetaIds /\ RowIds' = RowIds /\ Closing /\ Closing'
      /\ ~Handling' /\ ~Idle'
  BY <1>1 DEF MetaIds, RowIds, Closing, Handling, Idle
<1>5. TypeOK'
  BY <1>1, <1>3 DEF IInv, TypeOK, trackerVars
<1>6. HandInv'
  BY <1>1, <1>4 DEF IInv, HandInv, Totals
<1>7. QueueInv' /\ MetaInv' /\ TotalsInv'
  BY <1>1, TablesUnchanged DEF IInv
<1>8. LiveInv'
  BY <1>1 DEF IInv, LiveInv
<1>9. LedgerInv'
  BY <1>1, <1>4, LedgerUnchanged DEF IInv
<1> QED BY <1>5, <1>6, <1>7, <1>8, <1>9 DEF IInv

\* persist_closed forgets the connection at the head of the queue.
LEMMA TakeClosedInv ==
    ASSUME IInv, TakeClosed
    PROVE  IInv'
<1> DEFINE s == Head(done)
<1> DEFINE k == s.key
<1> DEFINE id == metas[k].id
<1>1. /\ pc = "drain" /\ pc' = "retire" /\ done # <<>>
      /\ done' = Tail(done)
      /\ snap' = [key |-> s.key, up |-> s.up, down |-> s.down,
                  id |-> IF s.key \in DOMAIN metas THEN metas[s.key].id ELSE 0,
                  proc |-> IF s.key \in DOMAIN metas THEN metas[s.key].proc ELSE NoProc]
      /\ metas' = Drop(metas, k)
      /\ live' = Drop(live, k)
      /\ flows' = flows /\ clock' = clock
      /\ UNCHANGED <<cur, nextId, rows, feed, lost, wire, stop,
                     captureUp, leaving>>
  BY DEF TakeClosed
<1>2. /\ done \in Seq(Snapshots) /\ Len(done) \in Nat \ {0}
      /\ 1 \in DOMAIN done /\ s = done[1]
      /\ Len(done') = Len(done) - 1 /\ done' \in Seq(Snapshots)
      /\ \A i \in 1..Len(done') : done'[i] = done[i + 1]
      /\ DOMAIN done = 1..Len(done) /\ DOMAIN done' = 1..Len(done')
  <2>1. done \in Seq(Snapshots)
    BY DEF IInv, TypeOK
  <2> QED BY <1>1, <2>1, EmptySeq, LenProperties, HeadTailProperties
<1>3. s \in Snapshots /\ k \in Keys /\ k \in Pending /\ k \in DOMAIN metas
      /\ k \notin DOMAIN flows
  <2>1. s \in Snapshots
    BY <1>2
  <2>2. k \in Keys
    BY <2>1 DEF Snapshots
  <2>3. k \in Pending
    BY <1>2 DEF Pending
  <2>4. k \in DOMAIN metas
    BY <2>3 DEF IInv, MetaInv
  <2>5. k \notin DOMAIN flows
    BY <1>2 DEF IInv, QueueInv
  <2> QED BY <2>1, <2>2, <2>3, <2>4, <2>5
<1>4. metas \in [DOMAIN metas -> Meta] /\ live \in [DOMAIN live -> Conn]
      /\ metas[k] \in Meta
  BY <1>3 DEF IInv, TypeOK
<1>5. /\ DOMAIN metas' = DOMAIN metas \ {k} /\ metas' \in [DOMAIN metas' -> Meta]
      /\ \A x \in DOMAIN metas' : metas'[x] = metas[x]
      /\ DOMAIN live' = DOMAIN live \ {k} /\ live' \in [DOMAIN live' -> Conn]
      /\ \A x \in DOMAIN live' : live'[x] = live[x]
  BY <1>1, <1>4 DEF Drop
<1>6. snap' = [key |-> k, up |-> s.up, down |-> s.down, id |-> id, proc |-> metas[k].proc]
      /\ snap' \in Row
  BY <1>1, <1>3, <1>4 DEF Row, Snapshots, Meta
<1>7. /\ \A i \in DOMAIN done' : i + 1 \in DOMAIN done /\ i + 1 # 1
      /\ \A i \in DOMAIN done' : done'[i].key # k
      /\ Pending' = Pending \ {k}
  <2>1. \A i \in DOMAIN done' : i + 1 \in DOMAIN done /\ i + 1 # 1 /\ i \in Nat
    BY <1>2
  <2>2. \A i \in DOMAIN done' : done'[i].key # k
    BY <1>2, <2>1 DEF IInv, QueueInv
  <2>3. \A i \in DOMAIN done : i # 1 => i - 1 \in DOMAIN done' /\ done[i] = done'[i - 1]
    BY <1>2
  <2>4. Pending' \subseteq Pending \ {k}
    BY <1>2, <2>1, <2>2 DEF Pending
  <2>5. Pending \ {k} \subseteq Pending'
    <3>1. SUFFICES ASSUME NEW i \in DOMAIN done, done[i].key # k
                   PROVE  done[i].key \in Pending'
      BY DEF Pending
    <3>2. i # 1
      BY <1>2, <3>1
    <3> QED BY <2>3, <3>2 DEF Pending
  <2> QED BY <2>1, <2>2, <2>4, <2>5
<1>8. /\ DOMAIN metas = DOMAIN flows \cup Pending
      /\ \A x \in DOMAIN metas : metas[x].id \in 1..Len(wire) /\ wire[metas[x].id].key = x
      /\ nextId = Len(wire) + 1
  BY DEF IInv, MetaInv
<1>9. id \in MetaIds /\ MetaIds' = MetaIds \ {id}
  <2>1. \A x \in DOMAIN metas : metas[x].id = id => x = k
    BY <1>3, <1>8
  <2> QED BY <1>3, <1>5, <2>1 DEF MetaIds
<1>10. ~Closing /\ Closing' /\ ~Handling' /\ ~Idle' /\ RowIds' = RowIds
  BY <1>1 DEF Closing, Handling, Idle, RowIds
<1> HIDE DEF s, k, id
<1>11. TypeOK'
  BY <1>1, <1>2, <1>5, <1>6 DEF IInv, TypeOK
<1>12. HandInv'
  <2>1. snap'.id \in 1..Len(wire)' /\ wire'[snap'.id].key = snap'.key
    BY <1>1, <1>3, <1>6, <1>8 DEF id
  <2>2. snap'.id \notin MetaIds' \cup RowIds' \cup lost'
    <3>1. RowIds \cap MetaIds = {} /\ lost \cap MetaIds = {}
      BY DEF IInv, LedgerInv
    <3> QED BY <1>1, <1>6, <1>9, <1>10, <3>1
  <2>3. s.up = Totals(id).up /\ s.down = Totals(id).down
    BY <1>2 DEF IInv, TotalsInv, k, id
  <2>4. snap'.up = Totals(snap.id)'.up /\ snap'.down = Totals(snap.id)'.down
    BY <1>1, <1>6, <2>3 DEF Totals
  <2> QED BY <1>6, <1>10, <2>1, <2>2, <2>4 DEF HandInv
<1>13. QueueInv'
  <2>1. IsFiniteSet(DOMAIN flows')
    BY <1>1 DEF IInv, QueueInv
  <2>2. \A i \in DOMAIN done' : done'[i].key \notin DOMAIN flows'
    BY <1>1, <1>2, <1>7 DEF IInv, QueueInv
  <2>3. ASSUME NEW i \in DOMAIN done', NEW j \in DOMAIN done', done'[i].key = done'[j].key
        PROVE  i = j
    <3>1. i \in Nat /\ j \in Nat /\ i + 1 \in DOMAIN done /\ j + 1 \in DOMAIN done
      BY <1>2, <1>7
    <3>2. done[i + 1].key = done[j + 1].key
      BY <1>2, <2>3
    <3>3. i + 1 = j + 1
      BY <3>1, <3>2 DEF IInv, QueueInv
    <3> QED BY <3>1, <3>3
  <2> QED BY <2>1, <2>2, <2>3 DEF QueueInv
<1>14. MetaInv'
  <2>1. DOMAIN metas' = DOMAIN flows' \cup Pending'
    BY <1>1, <1>3, <1>5, <1>7, <1>8
  <2>2. \A x \in DOMAIN metas' : metas'[x].id \in 1..Len(wire') /\ wire'[metas'[x].id].key = x
    BY <1>1, <1>5, <1>8
  <2> QED BY <1>1, <1>8, <2>1, <2>2 DEF MetaInv
<1>15. TotalsInv'
  <2>1. \A x \in DOMAIN flows : x \in DOMAIN metas /\ x # k
    BY <1>3, <1>8
  <2>2. \A x \in DOMAIN flows' : /\ flows'[x].lh = wire'[metas'[x].id].lh
                                 /\ flows'[x].hl = wire'[metas'[x].id].hl
    BY <1>1, <1>5, <2>1 DEF IInv, TotalsInv
  <2>3. ASSUME NEW i \in DOMAIN done'
        PROVE  /\ done'[i].up = Totals(metas[done[i].key].id)'.up
               /\ done'[i].down = Totals(metas[done[i].key].id)'.down
    <3>1. i + 1 \in DOMAIN done /\ done'[i] = done[i + 1]
      BY <1>2, <1>7
    <3>2. done'[i].key \in DOMAIN metas /\ done'[i].key # k
      BY <1>7, <1>8, <3>1 DEF Pending
    <3>3. metas'[done'[i].key] = metas[done'[i].key]
      BY <1>5, <3>2
    <3>4. /\ done[i + 1].up = Totals(metas[done[i + 1].key].id).up
          /\ done[i + 1].down = Totals(metas[done[i + 1].key].id).down
      BY <3>1 DEF IInv, TotalsInv
    <3> QED BY <1>1, <3>1, <3>3, <3>4 DEF Totals
  <2> QED BY <2>2, <2>3 DEF TotalsInv
<1>16. LiveInv'
  <2>1. /\ DOMAIN live = DOMAIN metas
        /\ \A x \in DOMAIN live : live[x].id = metas[x].id
    BY <1>1 DEF IInv, LiveInv
  <2> QED BY <1>5, <2>1 DEF LiveInv
<1>17. LedgerInv'
  <2>1. HistoryExact'
    BY <1>1 DEF IInv, LedgerInv, HistoryExact, Totals
  <2>2. /\ RowIds \cap MetaIds = {} /\ lost \cap MetaIds = {}
        /\ lost \subseteq DOMAIN wire
        /\ DOMAIN wire = MetaIds \cup RowIds \cup lost
    BY <1>10 DEF IInv, LedgerInv
  <2>3. snap'.id = id
    BY <1>6
  <2>4. /\ RowIds' \cap MetaIds' = {} /\ lost' \cap MetaIds' = {}
        /\ lost' \subseteq DOMAIN wire'
        /\ DOMAIN wire' = MetaIds' \cup RowIds' \cup lost' \cup {snap'.id}
    BY <1>1, <1>9, <1>10, <2>2, <2>3
  <2> QED BY <1>10, <2>1, <2>4 DEF LedgerInv
<1> QED BY <1>11, <1>12, <1>13, <1>14, <1>15, <1>16, <1>17 DEF IInv

\* The closed connection becomes a row, or its insert fails and is logged.
LEMMA InsertRowInv ==
    ASSUME IInv, NEW ok \in StoreOutcomes, InsertRow(ok)
    PROVE  IInv'
<1>1. /\ pc = "insert" /\ pc' = "drain" /\ snap' = NoSnap
      /\ rows' = IF ok THEN Append(rows, snap) ELSE rows
      /\ lost' = IF ok THEN lost ELSE lost \cup {snap.id}
      /\ UNCHANGED <<trackerVars, cur, metas, nextId, live, feed, wire, stop,
                     captureUp, leaving>>
  BY DEF InsertRow
<1>2. /\ snap \in Row /\ snap.id \in 1..Len(wire)
      /\ snap.id \notin MetaIds \cup RowIds \cup lost
      /\ snap.key = wire[snap.id].key
      /\ snap.up = Totals(snap.id).up /\ snap.down = Totals(snap.id).down
  BY <1>1 DEF IInv, HandInv, Closing
<1>3. /\ rows \in Seq(Row) /\ lost \subseteq Nat
      /\ wire \in Seq(WireRecord) /\ DOMAIN wire = 1..Len(wire)
  BY LenProperties DEF IInv, TypeOK, WireRecord
<1>4. /\ RowIds \cap MetaIds = {} /\ lost \cap MetaIds = {}
      /\ lost \subseteq DOMAIN wire /\ HistoryExact
      /\ DOMAIN wire = MetaIds \cup RowIds \cup lost \cup {snap.id}
  BY <1>1 DEF IInv, LedgerInv, Closing
<1>5. /\ Len(rows) \in Nat /\ DOMAIN rows = 1..Len(rows)
      /\ Append(rows, snap) \in Seq(Row)
      /\ DOMAIN Append(rows, snap) = 1..(Len(rows) + 1)
      /\ Append(rows, snap)[Len(rows) + 1] = snap
      /\ \A i \in 1..Len(rows) : Append(rows, snap)[i] = rows[i]
  BY <1>2, <1>3, LenProperties, AppendProperties
<1>6. MetaIds' = MetaIds /\ ~Closing' /\ ~Handling' /\ ~Idle'
  BY <1>1 DEF MetaIds, Closing, Handling, Idle
<1>7. rows' \in Seq(Row) /\ RowIds' = RowIds \cup (IF ok THEN {snap.id} ELSE {})
  <2>1. CASE ok
    <3>1. rows' = Append(rows, snap)
      BY <1>1, <2>1
    <3>2. RowIds' = {rows'[i].id : i \in 1..(Len(rows) + 1)}
      BY <1>5, <3>1 DEF RowIds
    <3>3. 1..(Len(rows) + 1) = 1..Len(rows) \cup {Len(rows) + 1}
      BY <1>5
    <3>4. RowIds = {rows[i].id : i \in 1..Len(rows)}
      BY <1>5 DEF RowIds
    <3>5. \A i \in 1..Len(rows) : rows'[i].id = rows[i].id
      BY <1>5, <3>1
    <3>6. rows'[Len(rows) + 1].id = snap.id
      BY <1>5, <3>1
    <3>7. RowIds' = RowIds \cup {snap.id}
      BY <3>2, <3>3, <3>4, <3>5, <3>6
    <3> QED BY <1>5, <2>1, <3>1, <3>7
  <2>2. CASE ~ok
    BY <1>1, <1>3, <2>2 DEF RowIds
  <2> QED BY <2>1, <2>2
<1>8. TypeOK'
  <2>1. lost' \subseteq Nat
    BY <1>1, <1>2, <1>3 DEF Row
  <2> QED BY <1>1, <1>7, <2>1 DEF IInv, TypeOK, trackerVars
<1>9. HandInv'
  BY <1>1, <1>6 DEF HandInv
<1>10. QueueInv' /\ MetaInv' /\ TotalsInv'
  BY <1>1, TablesUnchanged DEF IInv
<1>11. LiveInv'
  BY <1>1 DEF IInv, LiveInv
<1>12. HistoryExact'
  <2>1. \A i \in DOMAIN rows : rows[i].id # snap.id
    BY <1>2 DEF RowIds
  <2>2. CASE ok
    <3>1. rows' = Append(rows, snap) /\ wire' = wire /\ DOMAIN rows' = 1..(Len(rows) + 1)
      BY <1>1, <1>5, <2>2
    <3>2. \A i \in DOMAIN rows' : \/ i \in DOMAIN rows /\ rows'[i] = rows[i]
                                  \/ i = Len(rows) + 1 /\ rows'[i] = snap
      BY <1>5, <3>1
    <3>3. ASSUME NEW i \in DOMAIN rows'
          PROVE  /\ rows'[i].id \in DOMAIN wire
                 /\ rows'[i].key = wire[rows'[i].id].key
                 /\ rows'[i].up = Totals(rows'[i].id).up
                 /\ rows'[i].down = Totals(rows'[i].id).down
      BY <1>2, <1>3, <1>4, <3>2 DEF HistoryExact
    <3>4. ASSUME NEW i \in DOMAIN rows', NEW j \in DOMAIN rows', rows'[j].id = rows'[i].id
          PROVE  j = i
      BY <1>4, <2>1, <3>2, <3>4 DEF HistoryExact
    <3>5. \A i \in DOMAIN rows' : Totals(rows[i].id)' = Totals(rows'[i].id)
      BY <3>1 DEF Totals
    <3> QED BY <3>1, <3>3, <3>4, <3>5 DEF HistoryExact
  <2>3. CASE ~ok
    BY <1>1, <1>4, <2>3 DEF HistoryExact, Totals
  <2> QED BY <2>2, <2>3
<1>13. LedgerInv'
  <2>1. lost' = lost \cup (IF ok THEN {} ELSE {snap.id}) /\ DOMAIN wire' = DOMAIN wire
    BY <1>1
  <2>2. /\ RowIds' \cap MetaIds' = {} /\ lost' \cap MetaIds' = {}
        /\ lost' \subseteq DOMAIN wire'
        /\ DOMAIN wire' = MetaIds' \cup RowIds' \cup lost'
    BY <1>2, <1>3, <1>4, <1>6, <1>7, <2>1
  <2> QED BY <1>6, <1>12, <2>2 DEF LedgerInv
<1> QED BY <1>8, <1>9, <1>10, <1>11, <1>13 DEF IInv

\* A monitor that has just started satisfies the invariant.
LEMMA InitInv ==
    ASSUME Init, FlowAssumption, ProcAssumption
    PROVE  IInv
<1>1. /\ DOMAIN flows = {} /\ DOMAIN metas = {} /\ DOMAIN live = {}
      /\ done = <<>> /\ clock = 0 /\ pc = "check" /\ cur = NoUpdate /\ snap = NoSnap
      /\ nextId = 1 /\ rows = <<>> /\ feed = <<>> /\ lost = {} /\ wire = <<>>
      /\ stop = FALSE /\ captureUp = TRUE /\ leaving = FALSE
  BY DEF Init, TrackerInit
<1>2. IsFiniteSet({}) /\ Cardinality({}) = 0
  BY FS_EmptySet
<1>3. /\ flows \in [DOMAIN flows -> FlowState]
      /\ metas \in [DOMAIN metas -> Meta]
      /\ live \in [DOMAIN live -> Conn]
  BY <1>1 DEF Init, TrackerInit
<1>4. MetaIds = {} /\ RowIds = {} /\ Pending = {} /\ Len(wire) = 0
  BY <1>1 DEF MetaIds, RowIds, Pending
<1>5. Idle /\ ~Handling /\ ~Closing
  BY <1>1 DEF Idle, Handling, Closing
<1>6. TypeOK
  <2>1. Cardinality(DOMAIN flows) <= MaxFlows /\ clock \in 0..MaxPackets
    BY <1>1, <1>2 DEF FlowAssumption
  <2>2. /\ done \in Seq(Snapshots) /\ rows \in Seq(Row) /\ feed \in Seq(Event)
        /\ wire \in Seq([key : Keys, lh : Nat, hl : Nat])
    BY <1>1, EmptySeq
  <2>3. /\ stop \in BOOLEAN /\ captureUp \in BOOLEAN /\ leaving \in BOOLEAN
    BY <1>1
  <2> QED BY <1>1, <1>3, <2>1, <2>2, <2>3 DEF TypeOK
<1>7. HandInv
  BY <1>1, <1>5 DEF HandInv
<1>8. QueueInv /\ MetaInv /\ TotalsInv /\ LiveInv
  BY <1>1, <1>2, <1>4 DEF QueueInv, MetaInv, TotalsInv, LiveInv
<1>9. LedgerInv
  BY <1>1, <1>4, <1>5 DEF LedgerInv, HistoryExact
<1> QED BY <1>6, <1>7, <1>8, <1>9 DEF IInv

(***************************************************************************)
(* The theorems.                                                           *)
(***************************************************************************)

\* Every step of the worker, of a client that asks it to stop and of the
\* capture thread keeps the facts of IInv, for any number of connections, any
\* table capacity and any packets (run_worker, handle_update, persist_closed).
THEOREM WorkerInvariant == Spec => []IInv
<1> USE FlowAssumption, ProcAssumption
<1>1. Init => IInv
  BY InitInv
<1>2. IInv /\ [Next]_vars => IInv'
  <2> SUFFICES ASSUME IInv, [Next]_vars PROVE IInv'
    OBVIOUS
  <2>1. CASE CheckStop \/ ReceiveTimeout \/ ReceiveDisconnected \/ Drained
             \/ RequestStop \/ CaptureEnds \/ UNCHANGED vars
    BY <2>1, ControlInv
  <2>2. CASE \E p \in Packet : Receive(p)
    BY <2>2, ReceiveInv
  <2>3. CASE \E who \in Lookup, ok \in StoreOutcomes : Evaluate(who, ok)
    BY <2>3, EvaluateInv
  <2>4. CASE Publish
    BY <2>4, PublishInv
  <2>5. CASE Announce
    BY <2>5, AnnounceInv
  <2>6. CASE TakeClosed
    BY <2>6, TakeClosedInv
  <2>7. CASE Retire
    BY <2>7, RetireInv
  <2>8. CASE \E ok \in StoreOutcomes : InsertRow(ok)
    BY <2>8, InsertRowInv
  <2> QED BY <2>1, <2>2, <2>3, <2>4, <2>5, <2>6, <2>7, <2>8 DEF Next, Worker
<1> QED BY <1>1, <1>2, PTL DEF Spec

\* The tables have their types and the flow table never exceeds MAX_FLOWS
\* (FlowTracker::update evicts before it inserts).
THEOREM TypeCorrect == Spec => []TypeOK
<1>1. IInv => TypeOK
  BY DEF IInv
<1> QED BY <1>1, WorkerInvariant, PTL

\* A connection id names one connection: live, in the worker's hand or in the
\* history (metas.entry(..).or_insert_with, next_id).
THEOREM IdsAreUnique == Spec => []IdsUnique
<1>1. IInv => IdsUnique
  <2> SUFFICES ASSUME IInv PROVE IdsUnique
    OBVIOUS
  <2>1. \A j, k \in DOMAIN metas : metas[j].id = metas[k].id => j = k
    BY DEF IInv, MetaInv
  <2>2. \A k \in DOMAIN metas : metas[k].id # snap.id
    <3>1. CASE Closing
      BY <3>1 DEF IInv, HandInv, MetaIds
    <3>2. CASE ~Closing
      <4>1. snap.id = 0
        BY <3>2 DEF IInv, HandInv, NoSnap
      <4>2. \A k \in DOMAIN metas : metas[k].id \in 1..Len(wire)
        BY DEF IInv, MetaInv
      <4>3. Len(wire) \in Nat
        BY LenProperties DEF IInv, TypeOK
      <4> QED BY <4>1, <4>2, <4>3
    <3> QED BY <3>1, <3>2
  <2>3. \A k \in DOMAIN metas : metas[k].id \notin RowIds
    BY DEF IInv, LedgerInv, MetaIds
  <2> QED BY <2>1, <2>2, <2>3 DEF IdsUnique
<1> QED BY <1>1, WorkerInvariant, PTL

\* Flow table, FlowMetas and live table hold the same connections between
\* packets, each under an id of its own (run_worker, handle_update,
\* persist_closed).
THEOREM TablesAlwaysAgree == Spec => []TablesAgree
<1>1. IInv /\ IdsUnique => TablesAgree
  <2> SUFFICES ASSUME IInv, IdsUnique, Idle PROVE TablesAgree
    BY DEF TablesAgree
  <2>1. done = <<>> /\ Pending = {}
    BY DEF IInv, HandInv, Pending
  <2>2. pc \notin {"evaluate", "publish"}
    BY DEF Idle
  <2> QED BY <2>1, <2>2 DEF TablesAgree, IInv, MetaInv, LiveInv
<1> QED BY <1>1, WorkerInvariant, IdsAreUnique, PTL

\* Each row of the history states the bytes the wire carried for one
\* connection, and no connection has two rows (make_snapshot, persist_closed).
THEOREM HistoryIsExact == Spec => []HistoryExact
<1>1. IInv => HistoryExact
  BY DEF IInv, LedgerInv
<1> QED BY <1>1, WorkerInvariant, PTL

\* A connection once seen is live, in the history, or its insert failed and
\* was logged (handle_update, persist_closed).
THEOREM NothingIsForgotten == Spec => []NothingForgotten
<1>1. IInv => NothingForgotten
  <2> SUFFICES ASSUME IInv, Idle PROVE DOMAIN wire = LiveIds \cup RowIds \cup lost
    BY DEF NothingForgotten
  <2>1. ~Closing /\ pc \notin {"evaluate", "publish"}
    BY DEF Idle, Closing
  <2>2. DOMAIN live = DOMAIN metas /\ \A k \in DOMAIN live : live[k].id = metas[k].id
    BY <2>1 DEF IInv, LiveInv
  <2>3. LiveIds = MetaIds
    BY <2>2 DEF LiveIds, MetaIds
  <2> QED BY <2>1, <2>3 DEF IInv, LedgerInv
<1> QED BY <1>1, WorkerInvariant, PTL

-----------------------------------------------------------------------------
(***************************************************************************)
(* What the clients of the worker see, for every table size, packet and    *)
(* failure of the store: the event stream is in order and tells the live   *)
(* table (FeedExact), and the live table shows the bytes of the flow table *)
(* (LiveAgrees).  Both rest on IInv.                                       *)
(***************************************************************************)

(***************************************************************************)
(* The strengthening: the same two facts for every point of the loop.      *)
(***************************************************************************)
Told == {feed[i].id : i \in DOMAIN feed}
Closed == {i \in DOMAIN feed : feed[i].type = "closed"}
Over == {feed[i].id : i \in Closed}

\* What is announced and not closed is live, except for the connection that
\* is being retired; what is live is announced, except for the connection
\* whose first packet is in hand; and no closed id is known any more.
FeedInv ==
    /\ FeedOrder
    /\ Told \subseteq 1..Len(wire)
    /\ Over \cap MetaIds = {}
    /\ pc = "retire" => snap.id \in Told \ Over
    /\ \A k \in DOMAIN live :
           live[k].id \in Told \/ (pc = "announce" /\ k = cur.key)
    /\ \A id \in Told \ Over : id \in LiveIds \/ (pc = "retire" /\ id = snap.id)

\* The bytes clients are shown for a connection, with those in hand.
InHand(k) == pc \in {"evaluate", "publish"} /\ cur.key = k
ShownUp(k) == (IF k \in DOMAIN live THEN live[k].up ELSE 0)
              + (IF InHand(k) THEN cur.up ELSE 0)
ShownDown(k) == (IF k \in DOMAIN live THEN live[k].down ELSE 0)
                + (IF InHand(k) THEN cur.down ELSE 0)

\* They are the bytes seen on the wire.
ShownInv ==
    \A k \in DOMAIN metas :
        LET w == wire[metas[k].id]
        IN  /\ ShownUp(k) + ShownDown(k) = w.lh + w.hl
            /\ LocalSide[k] \in {"low", "high"} =>
                   /\ ShownUp(k) = IF LocalSide[k] = "high" THEN w.hl ELSE w.lh
                   /\ ShownDown(k) = IF LocalSide[k] = "high" THEN w.lh ELSE w.hl

-----------------------------------------------------------------------------
(***************************************************************************)
(* The event stream.                                                       *)
(***************************************************************************)

\* One more event: whose id may be any open one, and an announced one if the
\* event closes it.
LEMMA FeedAppend ==
    ASSUME feed \in Seq(Event), NEW e \in Event, feed' = Append(feed, e)
    PROVE  /\ Told' = Told \cup {e.id}
           /\ Over' = IF e.type = "closed" THEN Over \cup {e.id} ELSE Over
           /\ FeedOrder /\ e.id \notin Over /\ (e.type = "closed" => e.id \in Told)
                  => FeedOrder'
<1> DEFINE n == Len(feed)
<1>1. /\ n \in Nat /\ DOMAIN feed = 1..n
      /\ feed' \in Seq(Event) /\ Len(feed') = n + 1 /\ DOMAIN feed' = 1..(n + 1)
      /\ \A i \in 1..n : feed'[i] = feed[i]
      /\ feed'[n + 1] = e
  BY AppendProperties, LenProperties
<1>2. Told' = Told \cup {e.id}
  <2>1. \A x \in Told' : x \in Told \cup {e.id}
    <3> SUFFICES ASSUME NEW i \in 1..(n + 1)
                 PROVE  feed'[i].id \in Told \cup {e.id}
      BY <1>1 DEF Told
    <3>1. i \in 1..n \/ i = n + 1
      BY <1>1
    <3> QED BY <1>1, <3>1 DEF Told
  <2>2. \A x \in Told : x \in Told'
    <3> SUFFICES ASSUME NEW i \in 1..n PROVE feed[i].id \in Told'
      BY <1>1 DEF Told
    <3>1. i \in 1..(n + 1) /\ feed'[i] = feed[i]
      BY <1>1
    <3> QED BY <1>1, <3>1 DEF Told
  <2>3. e.id \in Told'
    <3>1. n + 1 \in 1..(n + 1)
      BY <1>1
    <3> QED BY <1>1, <3>1 DEF Told
  <2> QED BY <2>1, <2>2, <2>3
<1>3. Over' = IF e.type = "closed" THEN Over \cup {e.id} ELSE Over
  <2>1. \A i \in 1..n : i \in Closed' <=> i \in Closed
    <3> TAKE i \in 1..n
    <3>1. i \in 1..(n + 1) /\ feed'[i] = feed[i]
      BY <1>1
    <3> QED BY <1>1, <3>1 DEF Closed
  <2>2. n + 1 \in Closed' <=> e.type = "closed"
    <3>1. n + 1 \in 1..(n + 1)
      BY <1>1
    <3> QED BY <1>1, <3>1 DEF Closed
  <2>3. Closed \subseteq 1..n /\ Closed' \subseteq 1..(n + 1)
    BY <1>1 DEF Closed
  <2>4. \A x \in Over : x \in Over'
    <3> SUFFICES ASSUME NEW i \in Closed PROVE feed[i].id \in Over'
      BY DEF Over
    <3>1. i \in 1..n /\ i \in Closed' /\ feed'[i] = feed[i]
      BY <1>1, <2>1, <2>3
    <3> QED BY <3>1 DEF Over
  <2>5. \A x \in Over' : x \in Over \/ (e.type = "closed" /\ x = e.id)
    <3> SUFFICES ASSUME NEW i \in Closed'
                 PROVE  feed'[i].id \in Over \/ (e.type = "closed" /\ feed'[i].id = e.id)
      BY DEF Over
    <3>1. i \in 1..n \/ i = n + 1
      BY <1>1, <2>3
    <3>2. CASE i \in 1..n
      BY <1>1, <2>1, <3>2 DEF Over
    <3>3. CASE i = n + 1
      BY <1>1, <2>2, <3>3
    <3> QED BY <3>1, <3>2, <3>3
  <2>6. e.type = "closed" => e.id \in Over'
    BY <1>1, <2>2 DEF Over
  <2> QED BY <2>4, <2>5, <2>6
<1>4. ASSUME FeedOrder, e.id \notin Over, e.type = "closed" => e.id \in Told
      PROVE  FeedOrder'
  <2> SUFFICES ASSUME NEW i \in 1..(n + 1), feed'[i].type = "closed"
               PROVE  /\ \E j \in 1..(i - 1) :
                             feed'[j] = [type |-> "flow", id |-> feed'[i].id]
                      /\ \A j \in (i + 1)..(n + 1) : feed'[j].id # feed'[i].id
    BY <1>1 DEF FeedOrder
  <2>1. CASE i \in 1..n
    <3>1. feed'[i] = feed[i] /\ feed[i].type = "closed" /\ i \in DOMAIN feed
      BY <1>1, <2>1
    <3>2. PICK j \in 1..(i - 1) : feed[j] = [type |-> "flow", id |-> feed[i].id]
      BY <1>4, <3>1 DEF FeedOrder
    <3>3. j \in 1..n /\ feed'[j] = feed[j]
      BY <1>1, <2>1
    <3>4. \A m \in (i + 1)..n : feed[m].id # feed[i].id
      BY <1>1, <1>4, <3>1 DEF FeedOrder
    <3>5. feed[i].id \in Over
      BY <3>1 DEF Over, Closed
    <3>6. ASSUME NEW m \in (i + 1)..(n + 1) PROVE feed'[m].id # feed'[i].id
      <4>1. CASE m = n + 1
        BY <1>1, <1>4, <3>1, <3>5, <4>1
      <4>2. CASE m # n + 1
        <5>1. m \in (i + 1)..n /\ m \in 1..n
          BY <1>1, <2>1, <4>2
        <5> QED BY <1>1, <3>1, <3>4, <5>1
      <4> QED BY <4>1, <4>2
    <3> QED BY <3>1, <3>2, <3>3, <3>6
  <2>2. CASE i = n + 1
    <3>1. feed'[i] = e /\ e.type = "closed"
      BY <1>1, <2>2
    <3>2. PICK j \in 1..n : feed[j].id = e.id
      BY <1>1, <1>4, <3>1 DEF Told
    <3>3. feed[j].type # "closed"
      BY <1>1, <1>4, <3>2 DEF Over, Closed
    <3>4. feed[j] \in Event
      BY <1>1, ElementOfSeq
    <3>5. feed[j] = [type |-> "flow", id |-> e.id]
      BY <3>2, <3>3, <3>4 DEF Event
    <3>6. j \in 1..(i - 1) /\ feed'[j] = feed[j]
      BY <1>1, <2>2
    <3>7. (i + 1)..(n + 1) = {}
      BY <1>1, <2>2
    <3> QED BY <3>1, <3>5, <3>6, <3>7
  <2> QED BY <1>1, <2>1, <2>2
<1> QED BY <1>2, <1>3, <1>4

\* While the stream stays as it is, its facts do.
LEMMA FeedSame ==
    ASSUME feed' = feed
    PROVE  /\ Told' = Told /\ Over' = Over
           /\ FeedOrder => FeedOrder'
<1>1. Told' = Told
  BY DEF Told
<1>2. Over' = Over
  <2>1. Closed' = Closed
    BY DEF Closed
  <2> QED BY <2>1 DEF Over
<1>3. FeedOrder => FeedOrder'
  BY DEF FeedOrder
<1> QED BY <1>1, <1>2, <1>3

\* Steps that touch neither the stream nor the tables it tells of.
LEMMA FeedControl ==
    ASSUME FeedInv, IInv,
           \/ CheckStop \/ ReceiveTimeout \/ ReceiveDisconnected \/ Drained
           \/ RequestStop \/ CaptureEnds \/ UNCHANGED vars
           \/ \E ok \in StoreOutcomes : InsertRow(ok)
    PROVE  FeedInv'
<1>1. /\ feed' = feed /\ wire' = wire /\ live' = live /\ metas' = metas /\ cur' = cur
      /\ \/ pc' = pc /\ snap' = snap
         \/ pc \notin {"announce", "retire"} /\ pc' \notin {"announce", "retire"}
  <2>1. CASE \E ok \in StoreOutcomes : InsertRow(ok)
    BY <2>1 DEF InsertRow
  <2>2. CASE CheckStop \/ ReceiveTimeout \/ ReceiveDisconnected \/ Drained
    BY <2>2 DEF CheckStop, ReceiveTimeout, ReceiveDisconnected, Drained
  <2>3. CASE RequestStop \/ CaptureEnds \/ UNCHANGED vars
    BY <2>3 DEF RequestStop, CaptureEnds, vars, workerVars
  <2> QED BY <2>1, <2>2, <2>3
<1>2. MetaIds' = MetaIds /\ LiveIds' = LiveIds
  BY <1>1 DEF MetaIds, LiveIds
<1>3. Told' = Told /\ Over' = Over /\ FeedOrder'
  BY <1>1, FeedSame DEF FeedInv
<1> QED BY <1>1, <1>2, <1>3 DEF FeedInv

\* Steps between the arrival of a packet and its announcement.
LEMMA FeedReceive ==
    ASSUME FeedInv, IInv, FlowAssumption, NEW p \in Packet, Receive(p)
    PROVE  FeedInv'
<1>1. /\ feed' = feed /\ live' = live /\ pc = "recv" /\ pc' = "evaluate"
  BY DEF Receive
<1>2. Told' = Told /\ Over' = Over /\ FeedOrder' /\ LiveIds' = LiveIds
  BY <1>1, FeedSame DEF FeedInv, LiveIds
<1>3. 1..Len(wire) \subseteq 1..Len(wire')
  BY <1>1, WireAfter DEF Idle
<1>4. \A k \in DOMAIN metas' : metas'[k].id \in MetaIds \/ metas'[k].id \notin 1..Len(wire)
  <2>1. /\ DOMAIN metas' = DOMAIN metas \cup {p.key}
        /\ metas'[p.key].id = IdFor(p.key)
        /\ \A k \in DOMAIN metas : metas'[k] = metas[k]
    BY MetasAfter
  <2>2. nextId = Len(wire) + 1 /\ Len(wire) \in Nat
    BY LenProperties DEF IInv, MetaInv, TypeOK
  <2>3. p.key \notin DOMAIN metas => IdFor(p.key) \notin 1..Len(wire)
    BY <2>2 DEF IdFor
  <2> QED BY <2>1, <2>3 DEF MetaIds
<1>5. Over \subseteq Told
  BY DEF Over, Told, Closed
<1>6. Over' \cap MetaIds' = {}
  <2>1. Over \subseteq 1..Len(wire) /\ Over \cap MetaIds = {}
    BY <1>5 DEF FeedInv
  <2>2. \A x \in MetaIds' : x \in MetaIds \/ x \notin 1..Len(wire)
    BY <1>4 DEF MetaIds
  <2> QED BY <1>2, <2>1, <2>2
<1> QED BY <1>1, <1>2, <1>3, <1>6 DEF FeedInv

\* An evaluation renames no connection (evaluate_full overwrites row ids only).
LEMMA FeedEvaluate ==
    ASSUME FeedInv, IInv, NEW who, NEW ok, Evaluate(who, ok)
    PROVE  FeedInv'
<1>1. /\ feed' = feed /\ live' = live /\ wire' = wire
      /\ pc = "evaluate" /\ pc' = "publish"
  BY DEF Evaluate
<1>2. Told' = Told /\ Over' = Over /\ FeedOrder' /\ LiveIds' = LiveIds
  BY <1>1, FeedSame DEF FeedInv, LiveIds
<1>3. /\ DOMAIN metas' = DOMAIN metas
      /\ \A k \in DOMAIN metas : metas'[k].id = metas[k].id
  <2>1. metas \in [DOMAIN metas -> Meta]
    BY DEF IInv, TypeOK
  <2>2. metas' = IF ok THEN [metas EXCEPT ![cur.key].proc = who] ELSE metas
    BY DEF Evaluate
  <2>3. CASE ok
    BY <2>1, <2>2, <2>3 DEF Meta
  <2>4. CASE ~ok
    BY <2>2, <2>4
  <2> QED BY <2>3, <2>4
<1>4. MetaIds' = MetaIds
  BY <1>3 DEF MetaIds
<1> QED BY <1>1, <1>2, <1>4 DEF FeedInv

\* What Publish shows keeps the id the connection has.
LEMMA PublishedId ==
    ASSUME IInv, Publish
    PROVE  /\ DOMAIN live' = DOMAIN live \cup {cur.key}
           /\ \A k \in DOMAIN live \ {cur.key} : live'[k] = live[k]
           /\ live'[cur.key] = Dto
           /\ \A k \in DOMAIN live : live'[k].id = live[k].id
<1>1. live' = Put(live, cur.key, Dto)
  BY DEF Publish
<1>2. cur.key \in DOMAIN live => Dto.id = live[cur.key].id
  BY DEF Dto
<1> QED BY <1>1, <1>2 DEF Put

\* A connection may be shown before it is announced, until the next step.
LEMMA FeedPublish ==
    ASSUME FeedInv, IInv, Publish
    PROVE  FeedInv'
<1>1. /\ feed' = feed /\ wire' = wire /\ metas' = metas /\ cur' = cur
      /\ pc = "publish" /\ pc' = "announce"
  BY DEF Publish
<1>2. Told' = Told /\ Over' = Over /\ FeedOrder' /\ MetaIds' = MetaIds
  BY <1>1, FeedSame DEF FeedInv, MetaIds
<1>3. \A k \in DOMAIN live' : live'[k].id \in Told \/ k = cur.key
  BY <1>1, PublishedId DEF FeedInv
<1>4. LiveIds \subseteq LiveIds'
  BY PublishedId DEF LiveIds
<1> QED BY <1>1, <1>2, <1>3, <1>4 DEF FeedInv

\* The announced connection is known, so its id was never closed.
LEMMA FeedAnnounce ==
    ASSUME FeedInv, IInv, Announce
    PROVE  FeedInv'
<1> DEFINE id == live[cur.key].id
<1> DEFINE e == [type |-> "flow", id |-> id]
<1>1. /\ feed' = Append(feed, e) /\ wire' = wire /\ metas' = metas /\ live' = live
      /\ pc = "announce" /\ pc' = "drain"
  BY DEF Announce
<1>2. cur.key \in DOMAIN live /\ cur.key \in DOMAIN metas /\ id = metas[cur.key].id
  BY <1>1 DEF IInv, HandInv, Handling, LiveInv
<1>3. id \in MetaIds /\ id \in LiveIds /\ id \in 1..Len(wire) /\ id \notin Over
  BY <1>2 DEF MetaIds, LiveIds, IInv, MetaInv, FeedInv
<1>4. feed \in Seq(Event) /\ e \in Event
  BY <1>3 DEF IInv, TypeOK, Event
<1>5. Told' = Told \cup {id} /\ Over' = Over /\ FeedOrder'
  BY <1>1, <1>3, <1>4, FeedAppend DEF FeedInv
<1>6. MetaIds' = MetaIds /\ LiveIds' = LiveIds
  BY <1>1 DEF MetaIds, LiveIds
<1> QED BY <1>1, <1>3, <1>5, <1>6 DEF FeedInv

\* The retired connection is announced, not closed, and no longer known.
LEMMA FeedRetire ==
    ASSUME FeedInv, IInv, Retire
    PROVE  FeedInv'
<1> DEFINE e == [type |-> "closed", id |-> snap.id]
<1>1. /\ feed' = IF snap.id = 0 THEN feed ELSE Append(feed, e)
      /\ wire' = wire /\ metas' = metas /\ live' = live
      /\ pc = "retire" /\ pc' = "insert"
  BY DEF Retire
<1>2. /\ snap.id \in 1..Len(wire) /\ snap.id \notin MetaIds /\ Len(wire) \in Nat
      /\ snap.id \in Told \ Over
  BY <1>1, LenProperties DEF IInv, HandInv, Closing, TypeOK, FeedInv
<1>3. feed' = Append(feed, e) /\ feed \in Seq(Event) /\ e \in Event
  BY <1>1, <1>2, SMTT(30) DEF IInv, TypeOK, Event
<1>4. Told' = Told /\ Over' = Over \cup {snap.id} /\ FeedOrder'
  BY <1>2, <1>3, FeedAppend DEF FeedInv
<1>5. MetaIds' = MetaIds /\ LiveIds' = LiveIds
  BY <1>1 DEF MetaIds, LiveIds
<1> QED BY <1>1, <1>2, <1>4, <1>5 DEF FeedInv

\* The connection TakeClosed takes up is one clients have been told of.
LEMMA Taken ==
    ASSUME IInv, TakeClosed
    PROVE  LET k == Head(done).key
           IN  /\ k \in DOMAIN metas /\ k \in DOMAIN live
               /\ live[k].id = metas[k].id
               /\ snap'.id = metas[k].id
               /\ metas' = Drop(metas, k) /\ live' = Drop(live, k)
<1> DEFINE k == Head(done).key
<1>1. pc = "drain" /\ done # <<>> /\ done \in Seq(Snapshots)
  BY DEF TakeClosed, IInv, TypeOK
<1>2. 1 \in DOMAIN done /\ Head(done) = done[1]
  BY <1>1, EmptySeq, LenProperties, HeadTailProperties
<1>3. k \in DOMAIN metas
  BY <1>2 DEF Pending, IInv, MetaInv
<1>4. k \in DOMAIN live /\ live[k].id = metas[k].id
  BY <1>1, <1>3 DEF IInv, LiveInv
<1> QED BY <1>3, <1>4 DEF TakeClosed

\* The connection that leaves the live table is the one about to be retired.
LEMMA FeedTakeClosed ==
    ASSUME FeedInv, IInv, TakeClosed
    PROVE  FeedInv'
<1> DEFINE k == Head(done).key
<1>1. /\ feed' = feed /\ wire' = wire /\ pc = "drain" /\ pc' = "retire"
  BY DEF TakeClosed
<1>2. /\ k \in DOMAIN metas /\ k \in DOMAIN live /\ live[k].id = metas[k].id
      /\ snap'.id = metas[k].id
      /\ metas' = Drop(metas, k) /\ live' = Drop(live, k)
  BY Taken
<1>3. Told' = Told /\ Over' = Over /\ FeedOrder'
  BY <1>1, FeedSame DEF FeedInv
<1>4. MetaIds' \subseteq MetaIds
  BY <1>2 DEF MetaIds, Drop
<1>5. snap'.id \in Told \ Over
  BY <1>1, <1>2 DEF FeedInv, MetaIds
<1>6. \A j \in DOMAIN live' : live'[j].id \in Told
  BY <1>1, <1>2 DEF FeedInv, Drop
<1>7. \A id \in LiveIds : id \in LiveIds' \/ id = snap'.id
  BY <1>2 DEF LiveIds, Drop
<1> QED BY <1>1, <1>3, <1>4, <1>5, <1>6, <1>7 DEF FeedInv

-----------------------------------------------------------------------------
(***************************************************************************)
(* The bytes clients are shown.                                            *)
(***************************************************************************)

\* A connection whose entry and whose bytes in hand stay as they are.
LEMMA ShownSame ==
    ASSUME NEW k, live' = live, cur' = cur, InHand(k)' <=> InHand(k)
    PROVE  ShownUp(k)' = ShownUp(k) /\ ShownDown(k)' = ShownDown(k)
BY DEF ShownUp, ShownDown

\* Steps that leave the live table, the metas and the packet in hand alone.
LEMMA ShownControl ==
    ASSUME ShownInv,
           \/ CheckStop \/ ReceiveTimeout \/ ReceiveDisconnected \/ Drained
           \/ RequestStop \/ CaptureEnds \/ UNCHANGED vars
           \/ \E ok \in StoreOutcomes : InsertRow(ok)
           \/ Retire
    PROVE  ShownInv'
<1>1. /\ wire' = wire /\ live' = live /\ metas' = metas /\ cur' = cur
      /\ \/ pc' = pc
         \/ pc \notin {"evaluate", "publish"} /\ pc' \notin {"evaluate", "publish"}
  <2>1. CASE \E ok \in StoreOutcomes : InsertRow(ok)
    BY <2>1 DEF InsertRow
  <2>2. CASE CheckStop \/ ReceiveTimeout \/ ReceiveDisconnected \/ Drained \/ Retire
    BY <2>2 DEF CheckStop, ReceiveTimeout, ReceiveDisconnected, Drained, Retire
  <2>3. CASE RequestStop \/ CaptureEnds \/ UNCHANGED vars
    BY <2>3 DEF RequestStop, CaptureEnds, vars, workerVars
  <2> QED BY <2>1, <2>2, <2>3
<1>2. \A k : InHand(k)' <=> InHand(k)
  BY <1>1 DEF InHand
<1>3. \A k : ShownUp(k)' = ShownUp(k) /\ ShownDown(k)' = ShownDown(k)
  BY <1>1, <1>2, ShownSame
<1> QED BY <1>1, <1>3 DEF ShownInv

\* An evaluation names a process and leaves the bytes in hand alone.
LEMMA ShownEvaluate ==
    ASSUME ShownInv, IInv, NEW who, NEW ok, Evaluate(who, ok)
    PROVE  ShownInv'
<1>1. /\ wire' = wire /\ live' = live /\ pc = "evaluate" /\ pc' = "publish"
      /\ cur' = [cur EXCEPT !.proc = who]
      /\ metas' = IF ok THEN [metas EXCEPT ![cur.key].proc = who] ELSE metas
  BY DEF Evaluate
<1>2. /\ DOMAIN metas' = DOMAIN metas
      /\ \A k \in DOMAIN metas : metas'[k].id = metas[k].id
  <2>1. metas \in [DOMAIN metas -> Meta]
    BY DEF IInv, TypeOK
  <2>2. CASE ok
    BY <1>1, <2>1, <2>2 DEF Meta
  <2>3. CASE ~ok
    BY <1>1, <2>3
  <2> QED BY <2>2, <2>3
<1>3. cur'.key = cur.key /\ cur'.up = cur.up /\ cur'.down = cur.down
  <2>1. cur \in [key : Keys, id : Nat, up : Nat, down : Nat, proc : Lookup]
    BY <1>1 DEF IInv, HandInv, Handling
  <2> QED BY <1>1, <2>1
<1>4. \A k : ShownUp(k)' = ShownUp(k) /\ ShownDown(k)' = ShownDown(k)
  BY <1>1, <1>3 DEF ShownUp, ShownDown, InHand
<1> QED BY <1>1, <1>2, <1>4 DEF ShownInv

\* The packet's bytes go from the worker's hand into the live table.
LEMMA ShownPublish ==
    ASSUME ShownInv, IInv, Publish
    PROVE  ShownInv'
<1>1. /\ wire' = wire /\ metas' = metas /\ cur' = cur
      /\ pc = "publish" /\ pc' = "announce"
  BY DEF Publish
<1>2. /\ DOMAIN live' = DOMAIN live \cup {cur.key}
      /\ \A k \in DOMAIN live \ {cur.key} : live'[k] = live[k]
      /\ live'[cur.key] = Dto
  BY PublishedId
<1>3. /\ cur.up \in Nat /\ cur.down \in Nat
      /\ \A k \in DOMAIN live : live[k].up \in Nat /\ live[k].down \in Nat
  BY <1>1 DEF IInv, HandInv, Handling, TypeOK, Conn
<1>4. ASSUME NEW k PROVE ShownUp(k)' = ShownUp(k) /\ ShownDown(k)' = ShownDown(k)
  <2>1. CASE k = cur.key
    <3>1. /\ ShownUp(k)' = Dto.up + 0 /\ ShownDown(k)' = Dto.down + 0
      BY <1>1, <1>2, <2>1 DEF ShownUp, ShownDown, InHand
    <3>2. CASE k \in DOMAIN live
      BY <1>1, <1>3, <2>1, <3>1, <3>2 DEF Dto, ShownUp, ShownDown, InHand
    <3>3. CASE k \notin DOMAIN live
      BY <1>1, <1>3, <2>1, <3>1, <3>3 DEF Dto, ShownUp, ShownDown, InHand
    <3> QED BY <3>2, <3>3
  <2>2. CASE k # cur.key
    BY <1>1, <1>2, <2>2 DEF ShownUp, ShownDown, InHand
  <2> QED BY <2>1, <2>2
<1> QED BY <1>1, <1>4 DEF ShownInv

\* The packet's bytes are in the table before its update is dropped.
LEMMA ShownAnnounce ==
    ASSUME ShownInv, Announce
    PROVE  ShownInv'
<1>1. /\ wire' = wire /\ metas' = metas /\ live' = live
      /\ pc = "announce" /\ pc' = "drain"
  BY DEF Announce
<1>2. \A k : ShownUp(k)' = ShownUp(k) /\ ShownDown(k)' = ShownDown(k)
  BY <1>1 DEF ShownUp, ShownDown, InHand
<1> QED BY <1>1, <1>2 DEF ShownInv

\* Closing one connection leaves the entries of the others alone.
LEMMA ShownTakeClosed ==
    ASSUME ShownInv, IInv, TakeClosed
    PROVE  ShownInv'
<1> DEFINE j == Head(done).key
<1>1. /\ wire' = wire /\ cur' = cur /\ pc = "drain" /\ pc' = "retire"
      /\ metas' = Drop(metas, j) /\ live' = Drop(live, j)
  BY Taken DEF TakeClosed
<1>2. ASSUME NEW k \in DOMAIN metas'
      PROVE  /\ k \in DOMAIN metas /\ metas'[k] = metas[k]
             /\ ShownUp(k)' = ShownUp(k) /\ ShownDown(k)' = ShownDown(k)
  <2>1. k \in DOMAIN metas /\ k # j /\ metas'[k] = metas[k]
    BY <1>1 DEF Drop
  <2>2. (k \in DOMAIN live' <=> k \in DOMAIN live)
        /\ (k \in DOMAIN live => live'[k] = live[k])
    BY <1>1, <2>1 DEF Drop
  <2>3. ~InHand(k) /\ ~InHand(k)'
    BY <1>1 DEF InHand
  <2> QED BY <2>1, <2>2, <2>3 DEF ShownUp, ShownDown
<1> QED BY <1>1, <1>2 DEF ShownInv

\* A packet's bytes enter the worker's hand as they enter the flow table, and
\* go the same way in both wherever one end is local.
LEMMA ShownReceive ==
    ASSUME ShownInv, IInv, FlowAssumption, NEW p \in Packet, Receive(p)
    PROVE  ShownInv'
<1> DEFINE h == p.key
<1> DEFINE id == IdFor(h)
<1>1. /\ pc = "recv" /\ pc' = "evaluate" /\ live' = live
      /\ cur'.key = h
      /\ cur'.up = IF Outbound(p) THEN p.size ELSE 0
      /\ cur'.down = IF Outbound(p) THEN 0 ELSE p.size
  BY DEF Receive
<1>2. /\ h \in Keys /\ p.size \in Nat /\ p.dir \in {"lh", "hl"}
      /\ LocalSide[h] \in {"low", "high", "both", "none"}
  BY DEF Packet, Dirs, FlowAssumption
<1>3. /\ \A i \in 1..Len(wire) : i # id => wire'[i] = wire[i]
      /\ wire'[id] = [key |-> h, lh |-> Touched(p).lh, hl |-> Touched(p).hl]
  BY <1>1, WireAfter DEF Idle
<1>4. /\ DOMAIN metas' = DOMAIN metas \cup {h}
      /\ metas'[h].id = id
      /\ \A k \in DOMAIN metas : metas'[k] = metas[k]
  BY MetasAfter
<1>5. /\ DOMAIN metas = DOMAIN flows
      /\ \A k \in DOMAIN metas : metas[k].id \in 1..Len(wire) /\ wire[metas[k].id].key = k
      /\ DOMAIN live \subseteq DOMAIN metas
      /\ \A k \in DOMAIN flows : /\ flows[k].lh = wire[metas[k].id].lh
                                 /\ flows[k].hl = wire[metas[k].id].hl
  <2>1. done = <<>>
    BY <1>1 DEF IInv, HandInv, Idle
  <2>2. Pending = {}
    BY <2>1 DEF Pending
  <2> QED BY <2>2 DEF IInv, MetaInv, LiveInv, TotalsInv
<1>6. /\ \A k \in DOMAIN live : live[k].up \in Nat /\ live[k].down \in Nat
      /\ \A k \in DOMAIN flows : flows[k].lh \in Nat /\ flows[k].hl \in Nat
  BY DEF IInv, TypeOK, Conn, FlowState
<1> DEFINE U == IF h \in DOMAIN live THEN live[h].up ELSE 0
<1> DEFINE D == IF h \in DOMAIN live THEN live[h].down ELSE 0
<1> DEFINE L == IF h \in DOMAIN flows THEN flows[h].lh ELSE 0
<1> DEFINE H == IF h \in DOMAIN flows THEN flows[h].hl ELSE 0
<1>7. U \in Nat /\ D \in Nat /\ L \in Nat /\ H \in Nat
  BY <1>6
<1>8. /\ U + D = L + H
      /\ LocalSide[h] = "low" => U = L /\ D = H
      /\ LocalSide[h] = "high" => U = H /\ D = L
  <2>1. CASE h \in DOMAIN metas
    <3>1. ~InHand(h)
      BY <1>1 DEF InHand
    <3>2. ShownUp(h) = U /\ ShownDown(h) = D
      BY <1>7, <3>1 DEF ShownUp, ShownDown
    <3>3. wire[metas[h].id].lh = L /\ wire[metas[h].id].hl = H
      BY <1>5, <2>1
    <3> QED BY <2>1, <3>2, <3>3 DEF ShownInv
  <2>2. CASE h \notin DOMAIN metas
    <3>1. h \notin DOMAIN live /\ h \notin DOMAIN flows
      BY <1>5, <2>2
    <3> QED BY <3>1
  <2> QED BY <2>1, <2>2
<1>9. /\ Touched(p).lh = L + (IF p.dir = "lh" THEN p.size ELSE 0)
      /\ Touched(p).hl = H + (IF p.dir = "hl" THEN p.size ELSE 0)
  BY <1>2, <1>7 DEF Touched, Account, NewFlow
<1>10. /\ ShownUp(h)' = U + (IF Outbound(p) THEN p.size ELSE 0)
       /\ ShownDown(h)' = D + (IF Outbound(p) THEN 0 ELSE p.size)
  BY <1>1 DEF ShownUp, ShownDown, InHand
<1>11. ASSUME NEW k \in DOMAIN metas'
       PROVE  LET w == wire'[metas'[k].id]
              IN  /\ ShownUp(k)' + ShownDown(k)' = w.lh + w.hl
                  /\ LocalSide[k] \in {"low", "high"} =>
                       /\ ShownUp(k)' = IF LocalSide[k] = "high" THEN w.hl ELSE w.lh
                       /\ ShownDown(k)' = IF LocalSide[k] = "high" THEN w.lh ELSE w.hl
  <2>1. CASE k = h
    <3>1. wire'[metas'[h].id].lh = Touched(p).lh /\ wire'[metas'[h].id].hl = Touched(p).hl
      BY <1>3, <1>4
    <3>2. ShownUp(h)' + ShownDown(h)' = Touched(p).lh + Touched(p).hl
      <4>1. Touched(p).lh + Touched(p).hl = L + H + p.size
        BY <1>2, <1>7, <1>9
      <4>2. CASE Outbound(p)
        BY <1>2, <1>7, <1>8, <1>10, <4>1, <4>2
      <4>3. CASE ~Outbound(p)
        BY <1>2, <1>7, <1>8, <1>10, <4>1, <4>3
      <4> QED BY <4>2, <4>3
    <3>3. LocalSide[h] = "low" =>
             ShownUp(h)' = Touched(p).lh /\ ShownDown(h)' = Touched(p).hl
      BY <1>2, <1>7, <1>8, <1>9, <1>10 DEF Outbound
    <3>4. LocalSide[h] = "high" =>
             ShownUp(h)' = Touched(p).hl /\ ShownDown(h)' = Touched(p).lh
      BY <1>2, <1>7, <1>8, <1>9, <1>10 DEF Outbound
    <3> QED BY <2>1, <3>1, <3>2, <3>3, <3>4
  <2>2. CASE k # h
    <3>1. k \in DOMAIN metas /\ metas'[k] = metas[k] /\ metas[k].id \in 1..Len(wire)
      BY <1>4, <1>5, <2>2
    <3>2. metas[k].id # id
      <4>1. CASE h \in DOMAIN metas
        BY <1>5, <2>2, <3>1, <4>1 DEF IdFor
      <4>2. CASE h \notin DOMAIN metas
        <5>1. nextId = Len(wire) + 1 /\ Len(wire) \in Nat
          BY LenProperties DEF IInv, MetaInv, TypeOK
        <5> QED BY <3>1, <4>2, <5>1 DEF IdFor
      <4> QED BY <4>1, <4>2
    <3>3. wire'[metas'[k].id] = wire[metas[k].id]
      BY <1>3, <3>1, <3>2
    <3>4. ~InHand(k) /\ ~InHand(k)'
      BY <1>1, <2>2 DEF InHand
    <3>5. ShownUp(k)' = ShownUp(k) /\ ShownDown(k)' = ShownDown(k)
      BY <1>1, <3>4 DEF ShownUp, ShownDown
    <3> QED BY <3>1, <3>3, <3>5 DEF ShownInv
  <2> QED BY <2>1, <2>2
<1> QED BY <1>11 DEF ShownInv

-----------------------------------------------------------------------------
(***************************************************************************)
(* The theorems.                                                           *)
(***************************************************************************)

\* Every step keeps the stream and the live table in agreement with what the
\* worker knows, whoever stops it and whatever call of the store fails.
THEOREM FeedInvariant == Spec => [](FeedInv /\ ShownInv)
<1> USE FlowAssumption, ProcAssumption
<1>1. Init => FeedInv /\ ShownInv
  <2> SUFFICES ASSUME Init PROVE FeedInv /\ ShownInv
    OBVIOUS
  <2>1. feed = <<>> /\ pc = "check" /\ DOMAIN live = {} /\ DOMAIN metas = {}
    BY DEF Init
  <2>2. DOMAIN feed = {}
    BY <2>1
  <2>3. Told = {} /\ Over = {}
    BY <2>2 DEF Told, Over, Closed
  <2> QED BY <2>1, <2>2, <2>3 DEF FeedInv, FeedOrder, MetaIds, ShownInv
<1>2. IInv /\ FeedInv /\ ShownInv /\ [Next]_vars => (FeedInv /\ ShownInv)'
  <2> SUFFICES ASSUME IInv, FeedInv, ShownInv, [Next]_vars
               PROVE  FeedInv' /\ ShownInv'
    OBVIOUS
  <2>1. CASE CheckStop \/ ReceiveTimeout \/ ReceiveDisconnected \/ Drained
             \/ RequestStop \/ CaptureEnds \/ UNCHANGED vars
             \/ \E ok \in StoreOutcomes : InsertRow(ok)
    BY <2>1, FeedControl, ShownControl
  <2>2. CASE \E p \in Packet : Receive(p)
    BY <2>2, FeedReceive, ShownReceive
  <2>3. CASE \E who \in Lookup, ok \in StoreOutcomes : Evaluate(who, ok)
    BY <2>3, FeedEvaluate, ShownEvaluate
  <2>4. CASE Publish
    BY <2>4, FeedPublish, ShownPublish
  <2>5. CASE Announce
    BY <2>5, FeedAnnounce, ShownAnnounce
  <2>6. CASE TakeClosed
    BY <2>6, FeedTakeClosed, ShownTakeClosed
  <2>7. CASE Retire
    BY <2>7, FeedRetire, ShownControl
  <2> QED BY <2>1, <2>2, <2>3, <2>4, <2>5, <2>6, <2>7 DEF Next, Worker
<1> QED BY <1>1, <1>2, WorkerInvariant, PTL DEF Spec

\* A client that follows the events sees each connection announced, closed at
\* most once and never again, and knows between packets exactly the live ones
\* (handle_update, persist_closed, EventBus::broadcast).
THEOREM FeedIsExact == Spec => []FeedExact
<1>1. IInv /\ FeedInv => FeedExact
  <2> SUFFICES ASSUME IInv, FeedInv PROVE FeedOrder /\ FeedTellsLive
    BY DEF FeedExact
  <2>1. FeedOrder
    BY DEF FeedInv
  <2>2. ASSUME Idle PROVE LiveIds = Told \ Over
    <3>1. LiveIds \subseteq Told
      BY <2>2 DEF FeedInv, LiveIds, Idle
    <3>2. LiveIds \subseteq MetaIds
      BY DEF IInv, LiveInv, LiveIds, MetaIds
    <3>3. \A id \in Told \ Over : id \in LiveIds
      BY <2>2 DEF FeedInv, Idle
    <3> QED BY <3>1, <3>2, <3>3 DEF FeedInv
  <2>3. FeedTellsLive
    BY <2>2 DEF FeedTellsLive, Told, Over, Closed
  <2> QED BY <2>1, <2>3
<1> QED BY <1>1, WorkerInvariant, FeedInvariant, PTL

\* Between packets the live table shows the bytes of the flow table, though
\* handle_update and make_snapshot orient them by different code.
THEOREM LiveTableAgrees == Spec => []LiveAgrees
<1>1. IInv /\ ShownInv => LiveAgrees
  <2> SUFFICES ASSUME IInv, ShownInv, Idle, NEW k \in DOMAIN live
               PROVE  /\ live[k].up + live[k].down = flows[k].lh + flows[k].hl
                      /\ LocalSide[k] \in {"low", "high"} =>
                             /\ live[k].up = Snapshot(k, flows[k]).up
                             /\ live[k].down = Snapshot(k, flows[k]).down
    BY DEF LiveAgrees
  <2>1. done = <<>>
    BY DEF IInv, HandInv
  <2>2. Pending = {}
    BY <2>1 DEF Pending
  <2>3. k \in DOMAIN metas /\ k \in DOMAIN flows
    BY <2>2 DEF IInv, LiveInv, MetaInv
  <2>4. flows[k].lh = wire[metas[k].id].lh /\ flows[k].hl = wire[metas[k].id].hl
    BY <2>3 DEF IInv, TotalsInv
  <2>5. live[k].up \in Nat /\ live[k].down \in Nat /\ ~InHand(k)
    BY DEF IInv, TypeOK, Conn, InHand, Idle
  <2>6. ShownUp(k) = live[k].up /\ ShownDown(k) = live[k].down
    BY <2>5 DEF ShownUp, ShownDown
  <2> QED BY <2>3, <2>4, <2>6 DEF ShownInv, Snapshot, LocalLow
<1> QED BY <1>1, WorkerInvariant, FeedInvariant, PTL

-----------------------------------------------------------------------------
(***************************************************************************)
(* The book of accounts.                                                   *)
(***************************************************************************)
\* Ids of different connections differ.
LEMMA MetaIdsDiffer ==
    ASSUME IInv, NEW j \in DOMAIN metas, NEW k \in DOMAIN metas, metas[j].id = metas[k].id
    PROVE  j = k
BY DEF IInv, MetaInv

\* There are as many open accounts as flows.
LEMMA OpenCount ==
    ASSUME IInv
    PROVE  IsFiniteSet(OpenIds) /\ Cardinality(OpenIds) = Cardinality(DOMAIN flows)
<1> DEFINE f == [k \in DOMAIN flows |-> metas[k].id]
<1>1. DOMAIN flows \subseteq DOMAIN metas
  BY DEF IInv, MetaInv
<1>2. \A j, k \in DOMAIN flows : f[j] = f[k] => j = k
  BY <1>1, MetaIdsDiffer
<1>3. f \in [DOMAIN flows -> OpenIds]
  BY DEF OpenIds
<1>4. \A i \in OpenIds : \E k \in DOMAIN flows : f[k] = i
  BY DEF OpenIds
<1>5. f \in Bijection(DOMAIN flows, OpenIds)
  BY <1>2, <1>3, <1>4 DEF Bijection, Injection, Surjection, IsInjective
<1>6. ExistsBijection(DOMAIN flows, OpenIds)
  BY <1>5 DEF ExistsBijection
<1>7. IsFiniteSet(DOMAIN flows)
  BY DEF IInv, QueueInv
<1> QED BY <1>6, <1>7, FS_Bijection

\* A row appended is an entry appended.
LEMMA EntriesAppend ==
    ASSUME rows \in Seq(Row), NEW r \in Row, rows' = Append(rows, r)
    PROVE  Entries' = Append(Entries, [id |-> r.id, key |-> r.key, up |-> r.up, down |-> r.down])
<1> DEFINE E == [id : Nat, key : Keys, up : Nat, down : Nat]
<1> DEFINE e == [id |-> r.id, key |-> r.key, up |-> r.up, down |-> r.down]
<1>1. /\ Len(rows) \in Nat /\ DOMAIN rows = 1..Len(rows)
      /\ DOMAIN rows' = 1..(Len(rows) + 1) /\ rows'[Len(rows) + 1] = r
      /\ \A i \in 1..Len(rows) : rows'[i] = rows[i]
  BY LenProperties, AppendProperties
<1>2. e \in E /\ \A i \in DOMAIN rows : rows[i] \in Row
  BY <1>1, ElementOfSeq DEF Row
<1>3. Entries \in Seq(E) /\ Len(Entries) = Len(rows)
  <2>1. Entries \in [1..Len(rows) -> E]
    BY <1>1, <1>2 DEF Entries, Row
  <2> HIDE DEF E
  <2>2. Entries \in Seq(E)
    BY <1>1, <2>1, SeqDef
  <2>3. DOMAIN Entries = 1..Len(rows)
    BY <1>1 DEF Entries
  <2>4. Len(Entries) \in Nat /\ DOMAIN Entries = 1..Len(Entries)
    BY <2>2, LenProperties
  <2> QED BY <1>1, <2>2, <2>3, <2>4
<1>4. Entries' \in [1..(Len(rows) + 1) -> E]
  BY <1>1, <1>2 DEF Entries, Row
<1> HIDE DEF E
<1>5. /\ Append(Entries, e) \in Seq(E) /\ Len(Append(Entries, e)) = Len(rows) + 1
      /\ Append(Entries, e)[Len(rows) + 1] = e
      /\ \A i \in 1..Len(rows) : Append(Entries, e)[i] = Entries[i]
  BY <1>2, <1>3, AppendProperties
<1>6. Entries' \in Seq(E) /\ Len(Entries') = Len(rows) + 1
  <2>1. Entries' \in Seq(E)
    BY <1>1, <1>4, SeqDef
  <2>2. DOMAIN Entries' = 1..(Len(rows) + 1)
    BY <1>4
  <2>3. Len(Entries') \in Nat /\ DOMAIN Entries' = 1..Len(Entries')
    BY <2>1, LenProperties
  <2> QED BY <1>1, <2>1, <2>2, <2>3
<1>7. Entries'[Len(rows) + 1] = e
  BY <1>1 DEF Entries
<1>8. \A i \in 1..Len(rows) : Entries'[i] = Entries[i]
  BY <1>1 DEF Entries
<1>9. \A i \in 1..(Len(rows) + 1) : Entries'[i] = Append(Entries, e)[i]
  BY <1>1, <1>5, <1>7, <1>8
<1> QED BY <1>5, <1>6, <1>9, SeqEqual

\* A packet is an observation of its 5-tuple.
LEMMA ReceiveObserves ==
    ASSUME IInv, FlowAssumption, NEW p \in Packet, Receive(p)
    PROVE  Book!Observe(p.key, p.dir, p.size)
<1> DEFINE k == p.key
<1> DEFINE id == IdFor(k)
<1> DEFINE D == DOMAIN flows
<1>1. /\ pc = "recv" /\ done = <<>> /\ Pending = {} /\ Update(p)
      /\ wire' = Credited(p) /\ UNCHANGED <<rows, lost>>
  <2>1. done = <<>>
    BY DEF Receive, IInv, HandInv, Idle
  <2> QED BY <2>1 DEF Receive, Pending
<1>2. /\ DOMAIN metas = D /\ flows \in [D -> FlowState] /\ IsFiniteSet(D)
      /\ Cardinality(D) <= MaxFlows /\ Cardinality(D) \in Nat /\ MaxFlows \in Nat
      /\ nextId = Len(wire) + 1 /\ Len(wire) \in Nat
      /\ \A x \in D : metas[x].id \in 1..Len(wire) /\ wire[metas[x].id].key = x
  <2>1. wire \in Seq(WireRecord)
    BY DEF IInv, TypeOK, WireRecord
  <2> QED BY <1>1, <2>1, LenProperties, FS_CardinalityType
          DEF IInv, TypeOK, QueueInv, MetaInv, FlowAssumption
<1>3. DOMAIN flows' = Kept(p)
  BY <1>1 DEF Update
<1>4. /\ DOMAIN metas' = D \cup {k} /\ metas'[k].id = id
      /\ \A x \in D : metas'[x].id = metas[x].id
  BY <1>2, MetasAfter
<1>5. /\ Evicted(k) \subseteq D \ {k}
      /\ MustEvict(k) => Evicted(k) = {Lru} /\ Lru \in D \ {k}
      /\ ~MustEvict(k) => Evicted(k) = {}
  BY <1>2, EvictedMember
<1>6. /\ Kept(p) \subseteq (D \ Evicted(k)) \cup {k}
      /\ D \ Kept(p) \subseteq Evicted(k) \cup {k}
      /\ k \notin D => D \ Kept(p) = Evicted(k)
  BY <1>5 DEF Kept
<1>7. \A x \in D : metas[x].id = id => x = k
  <2>1. CASE k \in D
    BY <1>2, <2>1, MetaIdsDiffer DEF IdFor
  <2>2. CASE k \notin D
    BY <1>2, <2>2 DEF IdFor
  <2> QED BY <2>1, <2>2
<1>8. OpenIds = {metas[x].id : x \in D} /\ OpenIds' = {metas'[x].id : x \in Kept(p)}
  BY <1>3 DEF OpenIds
<1> HIDE DEF D, id
<1>9. OpenIds' \subseteq OpenIds \cup {id}
  BY <1>4, <1>6, <1>8
<1>10. k \in D => /\ id \in OpenIds /\ wire[id].key = k
                  /\ OpenIds \ OpenIds' \subseteq {id}
                  /\ wire' = [wire EXCEPT ![id] = Credit(wire[id], p)]
  <2> SUFFICES ASSUME k \in D
               PROVE  /\ id \in OpenIds /\ wire[id].key = k
                      /\ OpenIds \ OpenIds' \subseteq {id}
                      /\ wire' = [wire EXCEPT ![id] = Credit(wire[id], p)]
    OBVIOUS
  <2>1. id = metas[k].id
    BY <1>2 DEF IdFor, id
  <2>2. ~MustEvict(k)
    BY DEF MustEvict, D
  <2>3. D \ Kept(p) \subseteq {k}
    BY <1>5, <1>6, <2>2
  <2>4. \A x \in D : metas[x].id \in OpenIds' \/ x = k
    BY <1>4, <1>8, <2>3
  <2>5. wire' = [wire EXCEPT ![id] = Credit(wire[id], p)]
    BY <1>1, <1>2 DEF Credited, id
  <2> QED BY <1>2, <1>8, <2>1, <2>4, <2>5
<1>11. k \notin D => /\ id = Len(wire) + 1 /\ id \notin OpenIds
                     /\ \A i \in OpenIds : wire[i].key # k
                     /\ wire' = Append(wire, Credit([key |-> k, lh |-> 0, hl |-> 0], p))
                     /\ IF Cardinality(OpenIds) = MaxFlows
                        THEN \E i \in OpenIds : OpenIds \ OpenIds' = {i}
                        ELSE OpenIds \ OpenIds' \subseteq {id}
  <2> SUFFICES ASSUME k \notin D
               PROVE  /\ id = Len(wire) + 1 /\ id \notin OpenIds
                      /\ \A i \in OpenIds : wire[i].key # k
                      /\ wire' = Append(wire, Credit([key |-> k, lh |-> 0, hl |-> 0], p))
                      /\ IF Cardinality(OpenIds) = MaxFlows
                         THEN \E i \in OpenIds : OpenIds \ OpenIds' = {i}
                         ELSE OpenIds \ OpenIds' \subseteq {id}
    OBVIOUS
  <2>1. id = Len(wire) + 1 /\ id \notin OpenIds
    BY <1>2, <1>8 DEF IdFor, id
  <2>2. \A i \in OpenIds : wire[i].key # k
    BY <1>2, <1>8
  <2>3. wire' = Append(wire, Credit([key |-> k, lh |-> 0, hl |-> 0], p))
    BY <1>1, <1>2 DEF Credited
  <2>4. Cardinality(OpenIds) = Cardinality(D)
    BY OpenCount DEF D
  <2>5. CASE Cardinality(OpenIds) = MaxFlows
    <3>1. MustEvict(k)
      BY <1>2, <2>4, <2>5 DEF MustEvict, D
    <3>2. Lru \in D /\ D \ Kept(p) = {Lru} /\ Lru # k
      BY <1>5, <1>6, <3>1
    <3>3. metas[Lru].id \in OpenIds
      BY <1>8, <3>2
    <3>4. \A x \in D \ {Lru} : metas[x].id \in OpenIds'
      BY <1>4, <1>8, <3>2
    <3>5. metas[Lru].id \notin OpenIds'
      <4>1. SUFFICES ASSUME NEW x \in Kept(p), metas'[x].id = metas[Lru].id PROVE FALSE
        BY <1>8
      <4>2. CASE x = k
        BY <1>4, <1>7, <3>2, <4>1, <4>2
      <4>3. CASE x # k
        <5>1. x \in D /\ x # Lru
          BY <1>6, <3>2, <4>3, <4>1
        <5> QED BY <1>2, <1>4, <3>2, <4>1, <5>1, MetaIdsDiffer
      <4> QED BY <4>2, <4>3
    <3>6. OpenIds \ OpenIds' = {metas[Lru].id}
      BY <1>8, <3>3, <3>4, <3>5
    <3> QED BY <2>1, <2>2, <2>3, <2>5, <3>3, <3>6
  <2>6. CASE Cardinality(OpenIds) # MaxFlows
    <3>1. ~MustEvict(k)
      BY <1>2, <2>4, <2>6 DEF MustEvict, D
    <3>2. D \subseteq Kept(p)
      BY <1>5, <1>6, <3>1
    <3>3. OpenIds \subseteq OpenIds'
      BY <1>4, <1>8, <3>2
    <3> QED BY <2>1, <2>2, <2>3, <2>6, <3>3
  <2> QED BY <2>5, <2>6
<1>12. UNCHANGED <<Entries, lost>>
  BY <1>1 DEF Entries
<1>13. \A w : Credit(w, p) = Book!Credit(w, p.dir, p.size)
  BY DEF Credit, Book!Credit
<1>14. Book!Cardinality(OpenIds) = Cardinality(OpenIds)
  BY DEF Book!Cardinality, Cardinality
<1>15. CASE k \in D
  BY <1>9, <1>10, <1>12, <1>13, <1>15
     DEF Book!Observe, Book!AccountOf, Book!Keeping, Book!Full
<1>16. CASE k \notin D
  BY <1>9, <1>11, <1>12, <1>13, <1>16, <1>14
     DEF Book!Observe, Book!AccountOf, Book!Keeping, Book!Full
<1> QED BY <1>15, <1>16

\* The insert of a row enters a due account, or misses it.
LEMMA InsertEnters ==
    ASSUME IInv, NEW ok \in StoreOutcomes, InsertRow(ok)
    PROVE  \E i \in DOMAIN wire : Book!Enter(i) \/ Book!Miss(i)
<1>1. /\ pc = "insert"
      /\ rows' = IF ok THEN Append(rows, snap) ELSE rows
      /\ lost' = IF ok THEN lost ELSE lost \cup {snap.id}
      /\ flows' = flows /\ metas' = metas /\ wire' = wire
  BY DEF InsertRow, trackerVars
<1>2. /\ snap \in Row /\ snap.id \in 1..Len(wire)
      /\ snap.id \notin MetaIds \cup RowIds \cup lost
      /\ snap.key = wire[snap.id].key
      /\ snap.up = Totals(snap.id).up /\ snap.down = Totals(snap.id).down
      /\ rows \in Seq(Row) /\ wire \in Seq(WireRecord)
  BY <1>1 DEF IInv, HandInv, Closing, TypeOK, WireRecord
<1>3. OpenIds \subseteq MetaIds /\ OpenIds' = OpenIds
  BY <1>1 DEF OpenIds, MetaIds, IInv, MetaInv
<1>4. RowIds = {Entries[i].id : i \in DOMAIN Entries}
  BY DEF RowIds, Entries
<1>5. Book!Due(snap.id) /\ snap.id \in DOMAIN wire
  BY <1>2, <1>3, <1>4, LenProperties DEF Book!Due, Book!Ids, Book!Entered
<1>6. CASE ok
  <2>1. Entries' = Append(Entries, [id |-> snap.id, key |-> snap.key,
                                    up |-> snap.up, down |-> snap.down])
    BY <1>1, <1>2, <1>6, EntriesAppend
  <2>2. Book!Entry(snap.id) = [id |-> snap.id, key |-> snap.key,
                               up |-> snap.up, down |-> snap.down]
    BY <1>2 DEF Book!Entry, Totals
  <2>3. Book!Enter(snap.id)
    BY <1>1, <1>3, <1>5, <1>6, <2>1, <2>2 DEF Book!Enter
  <2> QED BY <1>5, <2>3
<1>7. CASE ~ok
  <2>1. rows' = rows /\ lost' = lost \cup {snap.id}
    BY <1>1, <1>7
  <2>2. Entries' = Entries
    BY <2>1 DEF Entries
  <2>3. Book!Miss(snap.id)
    BY <1>1, <1>3, <1>5, <2>1, <2>2 DEF Book!Miss
  <2> QED BY <1>5, <2>3
<1> QED BY <1>6, <1>7

\* No other step of the daemon shows in the book.
LEMMA OthersStutter ==
    ASSUME IInv,
           \/ CheckStop \/ ReceiveTimeout \/ ReceiveDisconnected \/ Drained
           \/ RequestStop \/ CaptureEnds \/ UNCHANGED vars
           \/ Publish \/ Announce \/ Retire \/ TakeClosed
           \/ \E who \in Lookup, ok \in StoreOutcomes : Evaluate(who, ok)
    PROVE  UNCHANGED <<wire, OpenIds, Entries, lost>>
<1>1. UNCHANGED <<wire, flows, rows, lost>>
  BY DEF CheckStop, ReceiveTimeout, ReceiveDisconnected, Drained, RequestStop, CaptureEnds,
         Publish, Announce, Retire, TakeClosed, Evaluate, vars, trackerVars, workerVars
<1>2. Entries' = Entries
  BY <1>1 DEF Entries
<1>3. DOMAIN flows \subseteq DOMAIN metas /\ metas \in [DOMAIN metas -> Meta]
  BY DEF IInv, MetaInv, TypeOK
<1>4. CASE metas' = metas
  BY <1>1, <1>2, <1>4 DEF OpenIds
<1>5. CASE TakeClosed
  <2>1. metas' = Drop(metas, Head(done).key) /\ done # <<>>
    BY <1>5 DEF TakeClosed
  <2>2. Head(done).key \notin DOMAIN flows
    <3>1. done \in Seq(Snapshots)
      BY DEF IInv, TypeOK
    <3>2. 1 \in DOMAIN done /\ Head(done) = done[1]
      BY <2>1, <3>1, EmptySeq, LenProperties, HeadTailProperties
    <3> QED BY <3>2 DEF IInv, QueueInv
  <2>3. \A x \in DOMAIN flows : metas'[x] = metas[x]
    BY <1>3, <2>1, <2>2 DEF Drop
  <2> QED BY <1>1, <1>2, <2>3 DEF OpenIds
<1>6. ASSUME NEW who \in Lookup, NEW ok \in StoreOutcomes, Evaluate(who, ok)
      PROVE  UNCHANGED <<wire, OpenIds, Entries, lost>>
  <2>1. metas' = IF ok THEN [metas EXCEPT ![cur.key].proc = who] ELSE metas
    BY <1>6 DEF Evaluate
  <2>2. \A x \in DOMAIN flows : metas'[x].id = metas[x].id
    BY <1>3, <2>1 DEF Meta
  <2> QED BY <1>1, <1>2, <2>2 DEF OpenIds
<1>7. CASE \/ CheckStop \/ ReceiveTimeout \/ ReceiveDisconnected \/ Drained
           \/ RequestStop \/ CaptureEnds \/ UNCHANGED vars
           \/ Publish \/ Announce \/ Retire
  <2>1. metas' = metas
    BY <1>7 DEF CheckStop, ReceiveTimeout, ReceiveDisconnected, Drained, RequestStop,
                CaptureEnds, Publish, Announce, Retire, vars, workerVars
  <2> QED BY <1>4, <2>1
<1> QED BY <1>5, <1>6, <1>7

(***************************************************************************)
(* The theorem.                                                            *)
(***************************************************************************)

\* The worker keeps the book: every packet is credited to the one open account
\* of its connection, an account leaves the table only at its end or for want
\* of room, and is entered once, with its totals, or missed by a failed insert
\* (FlowTracker::update, run_worker, persist_closed).
THEOREM BookIsKept == Spec => KeepsBook
<1> USE FlowAssumption, ProcAssumption
<1>1. Init => Book!Init
  BY DEF Init, TrackerInit, Book!Init, OpenIds, Entries
<1>2. IInv /\ [Next]_vars => [Book!Next]_Book!ledgerVars
  <2> SUFFICES ASSUME IInv, [Next]_vars PROVE [Book!Next]_Book!ledgerVars
    OBVIOUS
  <2>1. CASE \E p \in Packet : Receive(p)
    <3>1. PICK p \in Packet : Receive(p)
      BY <2>1
    <3>2. Book!Observe(p.key, p.dir, p.size)
      BY <3>1, ReceiveObserves
    <3>3. p.key \in Keys /\ p.dir \in {"lh", "hl"} /\ p.size \in Sizes
      BY DEF Packet, Dirs
    <3> QED BY <3>2, <3>3 DEF Book!Next
  <2>2. CASE \E ok \in StoreOutcomes : InsertRow(ok)
    BY <2>2, InsertEnters DEF Book!Next, Book!Ids
  <2>3. CASE \/ CheckStop \/ ReceiveTimeout \/ ReceiveDisconnected \/ Drained
             \/ RequestStop \/ CaptureEnds \/ UNCHANGED vars
             \/ Publish \/ Announce \/ Retire \/ TakeClosed
             \/ \E who \in Lookup, ok \in StoreOutcomes : Evaluate(who, ok)
    BY <2>3, OthersStutter DEF Book!ledgerVars
  <2> QED BY <2>1, <2>2, <2>3 DEF Next, Worker
<1> QED BY <1>1, <1>2, WorkerInvariant, PTL DEF Spec, KeepsBook, Book!Spec
=============================================================================
