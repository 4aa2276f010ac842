---------------------------- MODULE FlowTracker ----------------------------
(***************************************************************************)
(* The flow table of rust-shark-core (src/flow/tracker.rs): an LRU map     *)
(* from normalised 5-tuples to per-flow totals, and the completion queue   *)
(* that receives the final snapshot of every flow that leaves the table.   *)
(*                                                                         *)
(* A 5-tuple is a model value; its two ends are "low" and "high" as        *)
(* FlowKey::new orders them, so a packet runs from low to high ("lh") or   *)
(* back ("hl").  LocalSide says which ends are addresses of the captured   *)
(* interface.  Sequence numbers and round-trip times, which never decide   *)
(* what this table does, are the subject of SegmentTracker.                *)
(***************************************************************************)
EXTENDS Naturals, Sequences, FiniteSets

CONSTANTS
    Keys,        \* normalised 5-tuples
    TcpKeys,     \* those whose protocol is TCP: only they carry FIN and RST
    LocalSide,   \* which ends of a key are local addresses
    MaxFlows,    \* MAX_FLOWS, capacity of the table
    Sizes,       \* wire lengths a packet may have
    Flags,       \* TCP flags a packet may have, the one that decides
    MaxPackets   \* bound of the model: packets captured in one behaviour

ASSUME FlowAssumption ==
    /\ TcpKeys \subseteq Keys
    /\ LocalSide \in [Keys -> {"low", "high", "both", "none"}]
    /\ MaxFlows \in Nat \ {0}
    /\ Sizes \subseteq Nat
    /\ Flags \subseteq {"none", "fin", "rst"}
    /\ MaxPackets \in Nat

VARIABLES
    flows,       \* the LRU table: key -> FlowState
    done,        \* completion queue: snapshots not yet taken by the worker
    clock        \* packets accounted so far; also the recency stamp

trackerVars == <<flows, done, clock>>

Dirs == {"lh", "hl"}

\* What extract_pkt_flow_info yields: endpoints, wire length, TCP flags.
\* A segment that carries both flags acts as RST; UDP carries none.
Packet == {p \in [key : Keys, dir : Dirs, size : Sizes, flag : Flags] :
              p.key \in TcpKeys \/ p.flag = "none"}

\* ends stands for fin_low ("lh"), fin_high ("hl") and rst_seen ("rst").
FlowState == [lh : Nat, hl : Nat, ends : SUBSET (Dirs \cup {"rst"}), touch : Nat]

NewFlow == [lh |-> 0, hl |-> 0, ends |-> {}, touch |-> 0]

Snapshots == [key : Keys, up : Nat, down : Nat]

(***************************************************************************)
(* Accounting of one packet in one flow.                                   *)
(***************************************************************************)
Ends(p) == CASE p.flag = "fin" -> {p.dir}
             [] p.flag = "rst" -> {"rst"}
             [] OTHER -> {}

Account(st, p) ==
    [lh    |-> IF p.dir = "lh" THEN st.lh + p.size ELSE st.lh,
     hl    |-> IF p.dir = "hl" THEN st.hl + p.size ELSE st.hl,
     ends  |-> st.ends \cup Ends(p),
     touch |-> clock + 1]

\* A connection is over once either side resets it or both have sent FIN.
ShouldClose(st) == "rst" \in st.ends \/ Dirs \subseteq st.ends

\* Faulty variant: the low end is always taken for the local one.
LowIsLocal(k) == TRUE

\* The low end is taken for the local one unless only the high end is local.
LocalLow(k) == LocalSide[k] # "high"

\* make_snapshot: totals oriented local -> remote (up) and back (down).
Snapshot(k, st) ==
    [key  |-> k,
     up   |-> IF LocalLow(k) THEN st.lh ELSE st.hl,
     down |-> IF LocalLow(k) THEN st.hl ELSE st.lh]

(***************************************************************************)
(* Eviction: a new flow in a full table takes the place of the flow that   *)
(* was touched longest ago.                                                *)
(***************************************************************************)
Lru == CHOOSE k \in DOMAIN flows :
          \A j \in DOMAIN flows : flows[k].touch <= flows[j].touch

\* Faulty variant: makes room one flow too late.
MustEvictLate(k) == k \notin DOMAIN flows /\ Cardinality(DOMAIN flows) > MaxFlows

MustEvict(k) == k \notin DOMAIN flows /\ Cardinality(DOMAIN flows) >= MaxFlows

Evicted(k) == IF MustEvict(k) THEN {Lru} ELSE {}

\* The flow the packet belongs to, with the packet accounted.
Touched(p) ==
    Account(IF p.key \in DOMAIN flows THEN flows[p.key] ELSE NewFlow, p)

\* Keys in the table after packet p.
Kept(p) ==
    IF ShouldClose(Touched(p))
    THEN (DOMAIN flows \ Evicted(p.key)) \ {p.key}
    ELSE (DOMAIN flows \ Evicted(p.key)) \cup {p.key}

\* Faulty variant: an evicted flow leaves silently.
NoEvictionSnapshots(p) == <<>>

\* Snapshots packet p sends to the completion queue, in order.
EvictionSnapshots(p) ==
    IF MustEvict(p.key) THEN <<Snapshot(Lru, flows[Lru])>> ELSE <<>>

CloseSnapshots(p) ==
    IF ShouldClose(Touched(p)) THEN <<Snapshot(p.key, Touched(p))>> ELSE <<>>

\* FlowTracker::update
Update(p) ==
    /\ clock' = clock + 1
    /\ flows' = [k \in Kept(p) |-> IF k = p.key THEN Touched(p) ELSE flows[k]]
    /\ done' = done \o EvictionSnapshots(p) \o CloseSnapshots(p)

TrackerInit ==
    /\ flows = [k \in {} |-> NewFlow]
    /\ done = <<>>
    /\ clock = 0

=============================================================================
