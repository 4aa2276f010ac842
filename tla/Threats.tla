------------------------------ MODULE Threats ------------------------------
(***************************************************************************)
(* ThreatTracker (src/analysis/threat.rs): port scans and host sweeps in a *)
(* sliding window per source, and cleartext to uncommon public ports.      *)
(*                                                                         *)
(* Windows are pruned from the front only, by the time of the packet that  *)
(* arrives.  Times are the packets' own and may go back: a clock is set,   *)
(* or a file holds packets of several interfaces.                          *)
(***************************************************************************)
EXTENDS Naturals, Integers, Sequences, FiniteSets

CONSTANTS
    Sources,     \* source addresses
    Targets,     \* <<destination, port>>, port 0 for ICMP echo
    Public,      \* destinations that are public
    CommonPorts, \* COMMON_PORTS
    Window,      \* SCAN_WINDOW_MS
    MinPorts,    \* PORT_SCAN_MIN_PORTS
    MinHosts,    \* HOST_SWEEP_MIN_HOSTS
    Times,       \* times of packets
    MaxProbes    \* bound: connection attempts and echo requests

ASSUME ThreatAssumption ==
    /\ Window \in Nat /\ MinPorts \in Nat \ {0} /\ MinHosts \in Nat \ {0}
    /\ Times \subseteq Int /\ MaxProbes \in Nat

VARIABLES
    window,      \* SrcWindow.events by source
    verdict,     \* the annotation of the last packet
    past,        \* history: all probes, in the order of arrival
    probed       \* history: whether the last packet was a probe

threatVars == <<window, verdict, past, probed>>

Benign == [kind |-> "none", count |-> 0]

ThreatInit ==
    /\ window = [s \in Sources |-> <<>>]
    /\ verdict = Benign
    /\ past = <<>>
    /\ probed = FALSE

\* Faulty variant: events are compared with the packet, not with the window.
PrunedEarly(events, now) ==
    LET first == CHOOSE i \in 1..Len(events) :
                   /\ events[i].ts >= now
                   /\ \A j \in 1..(i - 1) : events[j].ts < now
    IN  SubSeq(events, first, Len(events))

\* SrcWindow::record behind push_back: events that are too old leave from the
\* front, up to the first that is not.
Pruned(events, now) ==
    LET first == CHOOSE i \in 1..Len(events) :
                   /\ events[i].ts >= now - Window
                   /\ \A j \in 1..(i - 1) : events[j].ts < now - Window
    IN  SubSeq(events, first, Len(events))

Elements(seq) == {seq[i] : i \in DOMAIN seq}
PortsOf(events, d) == {e.port : e \in {x \in events : x.dst = d}}
HostsOf(events) == {e.dst : e \in events}

\* SrcWindow::busiest_dst: how many ports of the host that was probed most.
Busiest(events) ==
    LET counts == {Cardinality(PortsOf(events, d)) : d \in HostsOf(events)}
    IN  CHOOSE n \in counts : \A m \in counts : m <= n

\* The last check, of any packet without an encrypted layer.
Exposed(target, clear) ==
    IF clear /\ target[2] # 0 /\ target[1] \in Public /\ target[2] \notin CommonPorts
    THEN [kind |-> "rare", count |-> 1]
    ELSE Benign

\* observe of a pure SYN or an echo request.
Probe(src, target, ts, clear) ==
    /\ Len(past) < MaxProbes
    /\ probed' = TRUE
    /\ LET probe == [src |-> src, dst |-> target[1], port |-> target[2], ts |-> ts]
           events == Pruned(Append(window[src], probe), ts)
           ports == Busiest(Elements(events))
           hosts == Cardinality(HostsOf(Elements(events)))
       IN /\ past' = Append(past, probe)
          /\ window' = [window EXCEPT ![src] = events]
          /\ verdict' = IF ports >= MinPorts THEN [kind |-> "port scan", count |-> ports]
                        ELSE IF hosts >= MinHosts
                        THEN [kind |-> "host sweep", count |-> hosts]
                        ELSE Exposed(target, clear)

\* observe of any other packet: no window is touched.
Other(target, clear) ==
    /\ verdict' = Exposed(target, clear)
    /\ probed' = FALSE
    /\ UNCHANGED <<window, past>>

ThreatNext ==
    \/ \E src \in Sources, target \in Targets, ts \in Times, clear \in BOOLEAN :
         Probe(src, target, ts, clear)
    \/ \E target \in Targets, clear \in BOOLEAN : Other(target, clear)

-----------------------------------------------------------------------------
(***************************************************************************)
(* Properties.                                                             *)
(***************************************************************************)
ThreatTypeOK ==
    /\ \A s \in Sources : Elements(window[s]) \subseteq Elements(past)
    /\ verdict.kind \in {"none", "port scan", "host sweep", "rare"}
    /\ Len(past) <= MaxProbes
    /\ probed \in BOOLEAN

LastProbe == past[Len(past)]
SameSource == {i \in DOMAIN past : past[i].src = LastProbe.src}
Ordered == \A i, j \in SameSource : i < j => past[i].ts <= past[j].ts

\* The probes of the source within the window that ends with the last one.
Recent ==
    {past[i] : i \in {j \in SameSource : past[j].ts >= LastProbe.ts - Window}}

\* Those that no probe since has been later than by more than the window.
Lasting ==
    {past[i] : i \in {j \in SameSource :
        \A k \in SameSource : k > j => past[j].ts >= past[k].ts - Window}}

\* While the packets of a source come in the order of their times, its scans
\* and sweeps are told exactly: with as many ports or hosts as the last window
\* holds ("probed N ports on H within 10s"), none below the threshold and none
\* missed.  Times that go back make it miss no scan and no sweep among the
\* probes that no packet has left behind by more than a window.
ScansTold ==
    /\ ThreatTypeOK
    /\ probed =>
         /\ Busiest(Lasting) >= MinPorts => verdict.kind = "port scan"
         /\ Cardinality(HostsOf(Lasting)) >= MinHosts =>
              verdict.kind \in {"port scan", "host sweep"}
         /\ Ordered /\ verdict.kind = "port scan" =>
              verdict.count = Busiest(Recent)
         /\ Ordered /\ verdict.kind = "host sweep" =>
              verdict.count = Cardinality(HostsOf(Recent))
    /\ probed \/ verdict.kind \in {"none", "rare"}
=============================================================================
