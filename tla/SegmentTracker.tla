--------------------------- MODULE SegmentTracker ---------------------------
(***************************************************************************)
(* What FlowTracker makes of the TCP segments of a flow, apart from its    *)
(* totals (src/flow/tracker.rs, update and record_rtt): it marks           *)
(* retransmissions and times the acknowledgements.  This module follows    *)
(* the data of one end and the acknowledgements of the other; the opposite *)
(* direction has variables of its own in the code and is the same.         *)
(*                                                                         *)
(* A segment is the range of stream bytes it carries, in a stream of any   *)
(* length: behind SeqSpan bytes the numbers come round again.  Segments    *)
(* are captured in any order, repeated, cut in other ways, or not at all.  *)
(* In place of send times and of the average over the samples the model    *)
(* keeps which bytes a sample is about.  The handshake's round trip is     *)
(* left out.                                                               *)
(***************************************************************************)
EXTENDS SeqSpace, FiniteSets

CONSTANTS
    MaxUnacked,  \* MAX_UNACKED, entries of the send-time table
    Sendings,    \* segments: [off, len] of the sender's stream
    Acks,        \* positions the other end acknowledges
    MaxTracked   \* bound of the model: segments and acknowledgements seen

ASSUME TrackerAssumption ==
    /\ MaxUnacked \in Nat \ {0}
    /\ \A s \in Sendings : s.off \in Nat /\ s.len \in Nat \ {0}
    /\ Acks \subseteq Nat /\ MaxTracked \in Nat

VARIABLES
    maxSeq,      \* max_seq_low or max_seq_high; NoSeq for None
    unacked,     \* unacked_low or unacked_high: sequence number of a segment's
                 \* end -> the stream position it was entered for
    marked,      \* the last segment was marked as a retransmission
    samples,     \* round trips timed: [end, ack], the positions of the
                 \* segment's end and of the acknowledgement (history variable)
    tracked,     \* segments seen so far (history variable)
    near,        \* each of them ended within half of the space from the
                 \* farthest end seen before it (history variable)
    seen         \* segments and acknowledgements seen

trackVars == <<maxSeq, unacked, marked, samples, tracked, near, seen>>

NoSeq == SeqSpan

TrackInit ==
    /\ maxSeq = NoSeq
    /\ unacked = [k \in {} |-> 0]
    /\ marked = FALSE
    /\ samples = {}
    /\ tracked = {} /\ near = TRUE /\ seen = 0

\* The segment ends less than half of the space behind or ahead of whatever of
\* those before it ended last.
Near(s) ==
    \A z \in tracked :
        (\A t \in tracked : End(t) <= End(z))
            => /\ End(s) < End(z) + SeqSpan \div 2
               /\ End(z) <= End(s) + SeqSpan \div 2

\* pop_first: the smallest numbers go when there are too many.
Trimmed(f) ==
    LET kept == {k \in DOMAIN f :
                    Cardinality({j \in DOMAIN f : j > k}) < MaxUnacked}
    IN  [k \in kept |-> f[k]]

\* entry(seq_end).or_insert(ts)
Entered(k, end) ==
    [j \in DOMAIN unacked \cup {k} |-> IF j \in DOMAIN unacked THEN unacked[j] ELSE end]

\* update and record_rtt on a segment with payload.
Track(s) ==
    LET end == SeqAt(End(s))
        again == maxSeq # NoSeq /\ SeqLeq(end, maxSeq)
    IN  /\ seen < MaxTracked
        /\ marked' = again
        /\ maxSeq' = IF again THEN maxSeq ELSE end
        /\ unacked' = Trimmed(Entered(end, End(s)))
        /\ tracked' = tracked \cup {s}
        /\ near' = (near /\ Near(s))
        /\ seen' = seen + 1
        /\ UNCHANGED samples

\* record_rtt on an acknowledgement of the bytes before position a: entries up
\* to its number, compared as plain integers, are timed and leave the table.
TrackAck(a) ==
    LET acked == {k \in DOMAIN unacked : k <= SeqAt(a)}
    IN  /\ seen < MaxTracked
        /\ samples' = samples \cup {[end |-> unacked[k], ack |-> a] : k \in acked}
        /\ unacked' = [k \in DOMAIN unacked \ acked |-> unacked[k]]
        /\ seen' = seen + 1
        /\ UNCHANGED <<maxSeq, marked, tracked, near>>

TrackNext ==
    \/ \E s \in Sendings : Track(s)
    \/ \E a \in Acks : TrackAck(a)

TrackSpec == TrackInit /\ [][TrackNext]_trackVars

-----------------------------------------------------------------------------
(***************************************************************************)
(* Properties.                                                             *)
(***************************************************************************)
\* Types, and the table of send times keeps its bound.
TrackTypeOK ==
    /\ maxSeq \in SeqNums \cup {NoSeq}
    /\ DOMAIN unacked \subseteq SeqNums /\ Cardinality(DOMAIN unacked) <= MaxUnacked
    /\ tracked \subseteq Sendings /\ near \in BOOLEAN

\* A segment is marked exactly if the stream was captured to its end or further
\* before, in a stream of any length, as long as captured segments end within
\* half of the space from one another, in time ("retransmission detection
\* survives sequence wrap on 4GB+ flows").
MarkExact ==
    [][\A s \in Sendings : Track(s) /\ near'
          => (marked' <=> \E t \in tracked : End(t) >= End(s))]_trackVars

\* A round trip is never timed on an acknowledgement of earlier bytes, as long
\* as both lie on one side of a boundary of the number space (record_rtt).
SameLap(i, j) == (Isn + i) \div SeqSpan = (Isn + j) \div SeqSpan

TimedWhenAcked ==
    \A x \in samples : SameLap(x.end, x.ack) => x.end <= x.ack

\* Retransmissions and round trips are told from the right segments.
TrackingExact == MarkExact /\ [](TrackTypeOK /\ TimedWhenAcked)
=============================================================================
