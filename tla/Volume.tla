------------------------------- MODULE Volume -------------------------------
(***************************************************************************)
(* The volume baseline of one process (update_volume in alert/baseline.rs) *)
(* and the spike it raises (signal 4 in alert/detectors.rs), over the row  *)
(* of volume_stats.                                                        *)
(*                                                                         *)
(* Floating-point arithmetic is that of multiples here: a mean is one of   *)
(* 1/Unit, a variance of 1/Unit^2, exact where AlphaDen^MaxSamples divides *)
(* Unit, else rounded down.  Times are the packets' own and may go back.   *)
(* Learning window, cooldown and transaction are AlertEngine's: a spike    *)
(* here is one it would raise.                                             *)
(***************************************************************************)
EXTENDS Integers, Sequences, FiniteSets, SequencesExt

CONSTANTS
    VolumeInterval, \* volume_interval, 0 for none
    AlphaNum,    \* volume_alpha = AlphaNum / AlphaDen
    AlphaDen,
    Unit,        \* parts of a byte in a mean
    Z,           \* volume_z_threshold
    Floor,       \* volume_abs_floor_bytes
    MinSamples,  \* volume_min_samples
    Sizes,       \* bytes a packet sends out, 0 for one that comes in
    Clock,       \* times of packets
    MaxPackets,  \* bound: packets
    MaxSamples   \* bound: closed intervals

\* With one sample asked for, the first interval would be a spike over
\* nothing: the configuration asks for eight.
ASSUME VolumeAssumption ==
    /\ VolumeInterval \in Nat /\ Floor \in Nat
    /\ AlphaDen \in Nat \ {0} /\ AlphaNum \in 0..AlphaDen /\ Unit \in Nat \ {0}
    /\ Z \in Nat \ {0} /\ MinSamples \in Nat \ {0, 1}
    /\ Sizes \subseteq Nat /\ Clock \subseteq Int
    /\ MaxPackets \in Nat /\ MaxSamples \in Nat

VARIABLES
    volume,      \* the row of volume_stats
    closed,      \* history: bytes of each closed interval
    spikes,      \* history: closed intervals a spike was raised for
    sentUp,      \* history: bytes sent out
    span,        \* history: first and latest time
    packets      \* number of packets

volumeVars == <<volume, closed, spikes, sentUp, span, packets>>

NoRow == [samples |-> -1]
Row(mean, var, acc, start, samples) ==
    [mean |-> mean, var |-> var, acc |-> acc, start |-> start, samples |-> samples]

\* get_volume_stat, or a fresh row.
Known(now) == IF volume = NoRow THEN Row(0, 0, 0, now, 0) ELSE volume

\* Faulty variant: the first sample is folded against a zero mean.
FoldedCold(v, x) ==
    LET delta == x * Unit - v.mean
    IN  [v EXCEPT !.mean = @ + (AlphaNum * delta) \div AlphaDen,
                  !.var = ((AlphaDen - AlphaNum)
                           * (@ + (AlphaNum * delta * delta) \div AlphaDen)) \div AlphaDen]

\* The EWMA of mean and variance; the first sample seeds it.
Folded(v, x) ==
    LET delta == x * Unit - v.mean
    IN  IF v.samples = 0 THEN [v EXCEPT !.mean = x * Unit, !.var = 0]
        ELSE [v EXCEPT !.mean = @ + (AlphaNum * delta) \div AlphaDen,
                       !.var = ((AlphaDen - AlphaNum)
                                * (@ + (AlphaNum * delta * delta) \div AlphaDen)) \div AlphaDen]

Elapsed(v, now) == VolumeInterval > 0 /\ now - v.start >= VolumeInterval

\* A closed interval starts over at the latest boundary.
Closed(v, now) ==
    [Folded(v, v.acc) EXCEPT
        !.acc = 0,
        !.samples = @ + 1,
        !.start = @ + ((now - v.start) \div VolumeInterval) * VolumeInterval]

\* run_detectors, signal 4: sample x against the mean and variance before it,
\* the sample itself counted.  Without a variance any excess will do.
IsSpike(v) ==
    LET excess == v.acc * Unit - v.mean
    IN  /\ v.samples + 1 >= MinSamples
        /\ v.acc >= Floor
        /\ excess > 0 /\ excess * excess >= Z * Z * v.var

VolumeInit ==
    /\ volume = NoRow
    /\ closed = <<>> /\ spikes = {}
    /\ sentUp = 0 /\ span = <<>> /\ packets = 0

\* update_volume: the packet that finds the interval over still counts in it.
UpdateVolume(now, bytes) ==
    /\ packets < MaxPackets
    /\ Len(closed) < MaxSamples
    /\ packets' = packets + 1
    /\ sentUp' = sentUp + bytes
    /\ span' = IF span = <<>> THEN <<now, now>>
               ELSE <<span[1], IF now > span[2] THEN now ELSE span[2]>>
    /\ LET old == Known(now)
           v == [old EXCEPT !.acc = @ + bytes]
       IN  IF Elapsed(v, now)
           THEN /\ volume' = Closed(v, now)
                /\ closed' = Append(closed, v.acc)
                /\ spikes' = IF IsSpike(v) THEN spikes \cup {v.samples + 1} ELSE spikes
           ELSE /\ volume' = v
                /\ UNCHANGED <<closed, spikes>>

VolumeNext == \E now \in Clock, bytes \in Sizes : UpdateVolume(now, bytes)

-----------------------------------------------------------------------------
(***************************************************************************)
(* Properties.                                                             *)
(***************************************************************************)
\* Every byte sent out is in one closed interval or in the open one, whatever
\* the clock does and however long nothing was sent.
BytesCounted == sentUp = FoldLeft(LAMBDA a, x : a + x, volume.acc, closed)

\* The open interval starts at a boundary counted from the first packet, and
\* holds the latest time ("the boundary stays stable").
PhaseKept ==
    VolumeInterval > 0 =>
        /\ (volume.start - span[1]) % VolumeInterval = 0
        /\ span[2] < volume.start + VolumeInterval
        /\ volume.start <= span[2]

\* The mean lies between the least and the largest interval, from the first
\* on, and the variance is none while all are equal ("would otherwise inflate
\* the variance and make early z-scores meaningless").
MeanWithin ==
    closed # <<>> =>
        /\ \E i \in DOMAIN closed : closed[i] * Unit <= volume.mean
        /\ \E i \in DOMAIN closed : volume.mean <= closed[i] * Unit
        /\ volume.var >= 0
        /\ (\A i, j \in DOMAIN closed : closed[i] = closed[j]) => volume.var = 0

\* A spike exceeds an earlier interval, is no smaller than the floor, and does
\* not come before enough intervals are closed: even traffic never raises one.
SpikesAreHigher ==
    \A n \in spikes :
        /\ n >= MinSamples /\ closed[n] >= Floor
        /\ \E i \in 1..(n - 1) : closed[i] < closed[n]

\* The volume row accounts for what was sent, and spikes stand out of it.
VolumeExact ==
    volume # NoRow => BytesCounted /\ PhaseKept /\ MeanWithin /\ SpikesAreHigher
=============================================================================
