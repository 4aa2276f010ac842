----------------------------- MODULE Reassembly -----------------------------
(***************************************************************************)
(* ReassemblyBuffer (src/flow/reassembly.rs): puts the captured segments   *)
(* of one direction of a TCP connection back into a byte stream.  The      *)
(* stream begins with the first segment inserted.  A byte is the position  *)
(* it has in the sender's stream, so that one that is misplaced, lost or   *)
(* doubled shows.                                                          *)
(***************************************************************************)
EXTENDS SeqSpace, Sequences, FiniteSets, FiniteSetsExt

CONSTANTS
    MaxBuffer,   \* MAX_STREAM_BUFFER
    MaxGap       \* MAX_FORWARD_GAP, a quarter of the sequence space

ASSUME BufferAssumption ==
    /\ MaxBuffer \in Nat
    /\ MaxGap \in Nat /\ 4 * MaxGap <= SeqSpan

VARIABLES
    begun,       \* base_seq is Some
    nextSeq,     \* next_seq
    pending,     \* bytes in order, not drained yet
    held,        \* segments ahead of a gap: sequence number -> bytes
    total,       \* total_buffered
    capped,      \* the cap was met once: nothing is stored any more
    drained      \* bytes handed out so far (history variable)

bufferVars == <<begun, nextSeq, pending, held, total, capped, drained>>

BufferInit ==
    /\ begun = FALSE
    /\ nextSeq = 0
    /\ pending = <<>>
    /\ held = [k \in {} |-> <<>>]
    /\ total = 0
    /\ capped = FALSE
    /\ drained = <<>>

\* The first segment says where the stream begins.
Expected(seq) == IF begun THEN nextSeq ELSE seq

\* Farther ahead than any window: taken for garbage.
Implausible(seq) ==
    SeqLt(Expected(seq), seq) /\ Minus(seq, Expected(seq)) > MaxGap

\* Faulty variant: what overlaps the bytes consumed already is not cut off.
Untrimmed(seq, data) == data

\* The part of the segment that is not consumed yet, if any.
Fresh(seq, data) ==
    IF SeqLt(seq, Expected(seq))
    THEN SubSeq(data, Minus(Expected(seq), seq) + 1, Len(data))
    ELSE data

\* insert_segment returns Duplicate before it looks at the cap.
Consumed(seq, data) ==
    \/ Implausible(seq)
    \/ ~SeqLt(Expected(seq), Plus(seq, Len(data)))
    \/ Fresh(seq, data) = <<>>

Refused(seq, data) == capped \/ total + Len(Fresh(seq, data)) > MaxBuffer

\* Faulty variant: held segments stay where they are.
PullNothing(n) == [next |-> n, bytes |-> <<>>, used |-> {}]

\* The loop at the end of a contiguous insertion: held segments that begin at
\* the next byte follow, one by one.
Pull(n) ==
    LET steps == Cardinality(DOMAIN held)
        pull[i \in 0..steps] ==
            IF i = 0 THEN [next |-> n, bytes |-> <<>>, used |-> {}]
            ELSE LET p == pull[i - 1]
                 IN  IF p.next \notin DOMAIN held \ p.used THEN p
                     ELSE [next  |-> Plus(p.next, Len(held[p.next])),
                           bytes |-> p.bytes \o held[p.next],
                           used  |-> p.used \cup {p.next}]
    IN  pull[steps]

\* insert_segment, for a segment with data: its outcomes in order.
Ignore(seq, data) ==
    /\ Consumed(seq, data)
    /\ UNCHANGED <<pending, held, total, capped>>
    /\ nextSeq' = Expected(seq)

Refuse(seq, data) ==
    /\ ~Consumed(seq, data) /\ Refused(seq, data)
    /\ capped' = TRUE
    /\ nextSeq' = Expected(seq)
    /\ UNCHANGED <<pending, held, total>>

Continue(seq, data) ==
    /\ ~Consumed(seq, data) /\ ~Refused(seq, data)
    /\ ~SeqLt(Expected(seq), seq)
    /\ LET new == Fresh(seq, data)
           after == Pull(Plus(Expected(seq), Len(new)))
       IN  /\ pending' = pending \o new \o after.bytes
           /\ nextSeq' = after.next
           /\ held' = [k \in DOMAIN held \ after.used |-> held[k]]
           /\ total' = total + Len(new)
    /\ UNCHANGED capped

\* Of two segments with the same number the first one stays.
Hold(seq, data) ==
    /\ ~Consumed(seq, data) /\ ~Refused(seq, data)
    /\ SeqLt(Expected(seq), seq)
    /\ IF seq \in DOMAIN held THEN UNCHANGED <<held, total>>
       ELSE /\ held' = [k \in DOMAIN held \cup {seq} |->
                           IF k = seq THEN data ELSE held[k]]
            /\ total' = total + Len(data)
    /\ nextSeq' = Expected(seq)
    /\ UNCHANGED <<pending, capped>>

InsertSegment(seq, data) ==
    /\ \/ Ignore(seq, data) \/ Refuse(seq, data)
       \/ Continue(seq, data) \/ Hold(seq, data)
    /\ begun' = TRUE
    /\ UNCHANGED drained

\* Faulty variant: what is held is taken for drained as well.
DrainAll ==
    /\ pending # <<>>
    /\ drained' = drained \o pending
    /\ pending' = <<>>
    /\ total' = 0
    /\ UNCHANGED <<begun, nextSeq, held, capped>>

\* try_drain, when there is something to hand out.
Drain ==
    /\ pending # <<>>
    /\ drained' = drained \o pending
    /\ pending' = <<>>
    /\ total' = total - Len(pending)
    /\ UNCHANGED <<begun, nextSeq, held, capped>>

\* Bytes held behind a gap.
HeldBytes == MapThenSumSet(LAMBDA k : Len(held[k]), DOMAIN held)
=============================================================================
