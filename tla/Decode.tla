------------------------------- MODULE Decode -------------------------------
(***************************************************************************)
(* How a captured packet is taken apart (rust-shark-core/src/decode/):     *)
(* decode_layers runs one decoder after another, each on what the one      *)
(* before it left, and compute_summary says what the packet list shows.    *)
(*                                                                         *)
(* A frame is what was sent: headers, the bytes behind them, the padding   *)
(* a short Ethernet frame is filled up with.  The capture holds its first  *)
(* caplen bytes.  A decoder that looks where a header of its kind begins   *)
(* reads that header; anywhere else the bytes may mean anything (Junk).    *)
(* Positions and lengths are in bytes, as in the code.  Of a header's      *)
(* fields there are those that steer the decoding; what the application    *)
(* decoders make of the payload is in Http2, DnsMessage and TlsHello, here *)
(* they recognise it or not.                                               *)
(***************************************************************************)
EXTENDS Integers, Sequences, FiniteSets, SequencesExt

CONSTANTS
    Frames,      \* [link, headers, body, content, fragment, padding]
    Junk,        \* headers that other bytes may be read as
    Contents,    \* what a payload may be recognised as, or not ("opaque")
    LocalIps,    \* addresses of the interface, none for a file
    PrivateIps   \* is_private_ip

Chain == {"ethernet", "ipv4", "ipv6", "arp", "tcp", "udp", "icmp", "icmpv6"}
Applications == {"dns", "quic", "hello", "handshake", "http2", "http"}

\* len is what the header says of its own length (IHL, data offset); type is
\* the EtherType or protocol number, named after the decoder it selects.
IsHeader(h) ==
    /\ DOMAIN h = {"kind", "len", "version", "type", "ports", "from", "to"}
    /\ h.len \in Nat

ASSUME DecodeAssumption ==
    /\ \A h \in Junk : IsHeader(h)
    /\ \A f \in Frames :
          /\ f.headers \in Seq(UNION {Range(g.headers) : g \in Frames})
          /\ \A i \in DOMAIN f.headers : IsHeader(f.headers[i])
          /\ f.body \in Nat /\ f.padding \in Nat

VARIABLES
    frame,       \* what was sent
    caplen,      \* data.len()
    next,        \* next_decode, "none" for None
    offset,
    layers,
    touched      \* number of leading bytes looked at (history)

decodeVars == <<frame, caplen, next, offset, layers, touched>>

\* Where header i of a frame begins, and the frame's bytes.
StartOf(f, i) == FoldLeft(LAMBDA n, h : n + h.len, 0, SubSeq(f.headers, 1, i - 1))
BodyOf(f) == StartOf(f, Len(f.headers) + 1)
Extent(f) == BodyOf(f) + f.body + f.padding

\* What may stand at position o for a decoder of the given kind.
HeadersAt(kind, o) ==
    LET own == {i \in DOMAIN frame.headers :
                   frame.headers[i].kind = kind /\ StartOf(frame, i) = o}
    IN  IF own # {} THEN {frame.headers[i] : i \in own} ELSE Junk

\* A payload that was cut may no longer be recognised.
ContentsAt(o) ==
    IF o # BodyOf(frame) \/ frame.fragment THEN Contents
    ELSE IF caplen < o + frame.body THEN {frame.content, "opaque"}
    ELSE {frame.content}

-----------------------------------------------------------------------------
(***************************************************************************)
(* The decoders: DecodeResult, or none.                                    *)
(***************************************************************************)
Layer(kind, start, end, h) ==
    [kind |-> kind, start |-> start, end |-> end, head |-> h]

Fail == [ok |-> FALSE]
Result(kind, o, n, h, following) ==
    [ok |-> TRUE, layer |-> Layer(kind, o, o + n, h), next |-> following]

\* The protocols behind a header that there is a decoder for.
Carries ==
    [ethernet |-> {"ipv4", "arp", "ipv6"},
     ipv4 |-> {"icmp", "tcp", "udp"},
     ipv6 |-> {"tcp", "udp", "icmpv6"}]

Following(kind, type) == IF type \in Carries[kind] THEN type ELSE "none"

\* Bytes from position o on.
Remaining(o) == caplen - o

decode_ethernet(h, o) ==
    IF Remaining(o) < 14 THEN Fail
    ELSE Result("ethernet", o, 14, h, Following("ethernet", h.type))

decode_arp(h, o) ==
    IF Remaining(o) < 28 THEN Fail ELSE Result("arp", o, 28, h, "none")

\* Neither the total length nor the fragment offset is looked at.
decode_ipv4(h, o) ==
    IF \/ Remaining(o) < 20 \/ h.version # 4
       \/ h.len < 20 \/ Remaining(o) < h.len
    THEN Fail
    ELSE Result("ipv4", o, h.len, h, Following("ipv4", h.type))

decode_ipv6(h, o) ==
    IF Remaining(o) < 40 \/ h.version # 6 THEN Fail
    ELSE Result("ipv6", o, 40, h, Following("ipv6", h.type))

\* Faulty variant: the length a header states of itself is believed.
decode_tcp_trusting(h, o) ==
    IF Remaining(o) < 20 \/ h.len < 20 THEN Fail
    ELSE Result("tcp", o, h.len, h, IF Remaining(o) > h.len THEN "application" ELSE "none")

\* payload_len is what the capture holds behind the header.
decode_tcp(h, o) ==
    IF Remaining(o) < 20 \/ h.len < 20 \/ Remaining(o) < h.len THEN Fail
    ELSE Result("tcp", o, h.len, h, IF Remaining(o) > h.len THEN "application" ELSE "none")

decode_udp(h, o) ==
    IF Remaining(o) < 8 THEN Fail
    ELSE Result("udp", o, 8, h, IF Remaining(o) > 8 THEN "application" ELSE "none")

decode_icmp(h, o) ==
    IF Remaining(o) < 8 THEN Fail ELSE Result("icmp", o, 8, h, "none")

decode_icmpv6(h, o) ==
    IF Remaining(o) < 8 THEN Fail ELSE Result("icmpv6", o, 8, h, "none")

Decoded(kind, h, o) ==
    CASE kind = "ethernet" -> decode_ethernet(h, o)
      [] kind = "arp" -> decode_arp(h, o)
      [] kind = "ipv4" -> decode_ipv4(h, o)
      [] kind = "ipv6" -> decode_ipv6(h, o)
      [] kind = "tcp" -> decode_tcp(h, o)
      [] kind = "udp" -> decode_udp(h, o)
      [] kind = "icmp" -> decode_icmp(h, o)
      [] kind = "icmpv6" -> decode_icmpv6(h, o)

\* The bytes a decoder indexes once its first length check has passed.
Fixed ==
    [ethernet |-> 14, arp |-> 28, ipv4 |-> 20, ipv6 |-> 40,
     tcp |-> 20, udp |-> 8, icmp |-> 8, icmpv6 |-> 8]

\* A header as it is sent, and the headers of a frame: each announces the one
\* behind it, and the last one none that there is a decoder for.
IsSent(h) ==
    /\ h.kind \in Chain /\ Fixed[h.kind] <= h.len
    /\ h.kind \notin {"ipv4", "tcp"} => h.len = Fixed[h.kind]
    /\ h.kind = "ipv4" => h.version = 4
    /\ h.kind = "ipv6" => h.version = 6

AreSent(f) ==
    /\ f.link = "ethernet" => f.headers # <<>> /\ f.headers[1].kind = "ethernet"
    /\ f.link = "raw" => f.headers # <<>> /\ f.headers[1].kind \in {"ipv4", "ipv6"}
    /\ \A i \in DOMAIN f.headers :
          LET h == f.headers[i]
          IN  /\ IsSent(h)
              /\ IF i = Len(f.headers)
                 THEN h.kind \in DOMAIN Carries /\ ~f.fragment => h.type \notin Carries[h.kind]
                 ELSE /\ h.kind \in DOMAIN Carries /\ h.type \in Carries[h.kind]
                      /\ f.headers[i + 1].kind = h.type

ASSUME SentAssumption ==
    \A f \in Frames : f.link \in {"ethernet", "raw", "other"} /\ AreSent(f)

-----------------------------------------------------------------------------
(***************************************************************************)
(* The chain.                                                              *)
(***************************************************************************)
\* Without a link header the version nibble of the first byte decides.
Initial(f, n) ==
    CASE f.link = "ethernet" -> "ethernet"
      [] f.link = "raw" ->
            IF n > 0 /\ f.headers[1].version = 4 THEN "ipv4"
            ELSE IF n > 0 /\ f.headers[1].version = 6 THEN "ipv6" ELSE "none"
      [] OTHER -> "none"

NoFrame == [link |-> "none", headers |-> <<>>, body |-> 0, content |-> "opaque",
            fragment |-> FALSE, padding |-> 0]

DecodeInit ==
    /\ frame = NoFrame /\ caplen = 0
    /\ next = "none" /\ offset = 0 /\ layers = <<>> /\ touched = 0

\* decode_packet is handed the first n bytes of frame f.
Arrive(f, n) ==
    /\ frame = NoFrame
    /\ frame' = f /\ caplen' = n
    /\ next' = Initial(f, n)
    /\ UNCHANGED <<offset, layers, touched>>

DecodeLayer ==
    /\ next \in Chain
    /\ \E h \in HeadersAt(next, offset) :
          LET r == Decoded(next, h, offset)
          IN  IF r.ok
              THEN /\ layers' = Append(layers, r.layer)
                   /\ offset' = r.layer.end
                   /\ next' = r.next
              ELSE next' = "none" /\ UNCHANGED <<layers, offset>>
    /\ touched' = IF Remaining(offset) >= Fixed[next] /\ touched < offset + Fixed[next]
                  THEN offset + Fixed[next] ELSE touched
    /\ UNCHANGED <<frame, caplen>>

\* The decoders tried on the payload behind transport layer t.
Attempted(t) ==
    IF 53 \in t.head.ports THEN {"dns"}
    ELSE IF t.kind = "udp" THEN {"quic"}
    ELSE {"hello", "handshake", "http2", "http"}

DecodeApplication ==
    /\ next = "application"
    /\ \E c \in ContentsAt(offset) :
          LET t == layers[Len(layers)]
              app == IF c \in Attempted(t) THEN <<Layer(c, offset, caplen, t.head)>> ELSE <<>>
          IN  layers' = layers \o app \o <<Layer("payload", offset, caplen, t.head)>>
    /\ next' = "none"
    /\ UNCHANGED <<frame, caplen, offset, touched>>

DecodeNext ==
    \/ \E f \in Frames : \E n \in 0..Extent(f) : Arrive(f, n)
    \/ DecodeLayer
    \/ DecodeApplication

DecodeSpec == DecodeInit /\ [][DecodeNext]_decodeVars

-----------------------------------------------------------------------------
(***************************************************************************)
(* What is read off the layers.                                            *)
(***************************************************************************)
OfKind(kinds) == {i \in DOMAIN layers : layers[i].kind \in kinds}

\* ip_pair: the first IP layer.
IpPair ==
    LET ip == OfKind({"ipv4", "ipv6"})
    IN  IF ip = {} THEN <<>>
        ELSE <<layers[Min(ip)].head.from, layers[Min(ip)].head.to>>

\* direction, for a pair of addresses and the addresses that are ours.
Way(pair, ours) ==
    IF (pair[1] \in ours) = (pair[2] \in ours) THEN "unknown"
    ELSE IF pair[1] \in ours THEN "out" ELSE "in"

Direction ==
    IF IpPair = <<>> THEN "unknown"
    ELSE Way(IpPair, IF LocalIps # {} THEN LocalIps ELSE PrivateIps)

\* compute_summary, layer by layer: later ones overwrite what they know; the
\* link addresses only fill an empty source.  (The text of info is left out.)
Shade(kind, before) ==
    CASE kind = "arp" -> "arp"
      [] kind \in {"tcp", "udp", "dns"} -> kind
      [] kind \in {"icmp", "icmpv6"} -> "icmp"
      [] kind \in {"hello", "handshake"} -> "tls"
      [] OTHER -> before

Summary ==
    FoldLeft(LAMBDA s, l :
                [source |-> IF l.kind \in {"arp", "ipv4", "ipv6"} \/ s.source = <<>>
                            THEN <<l.head.from, l.head.to>> ELSE s.source,
                 protocol |-> IF l.kind \in {"ethernet", "payload"} THEN s.protocol ELSE l.kind,
                 color |-> Shade(l.kind, s.color)],
             [source |-> <<>>, protocol |-> "???", color |-> "other"], layers)

-----------------------------------------------------------------------------
(***************************************************************************)
(* Properties.                                                             *)
(***************************************************************************)
\* The headers tile the data from its first byte: each begins where the one
\* before it ends, none is empty, none reaches beyond what was captured, and
\* no byte beyond it was looked at (an index out of range is a panic in the
\* decode thread).  The payload is the rest.
IsTile(i) ==
    LET l == layers[i]
    IN  l.kind \in Chain =>
            /\ l.start = (IF i = 1 THEN 0 ELSE layers[i - 1].end)
            /\ l.start < l.end /\ l.end <= caplen

RangesTile ==
    /\ touched <= caplen /\ offset <= caplen
    /\ \A i \in DOMAIN layers :
          /\ IsTile(i)
          /\ layers[i].kind = "payload" => layers[i].start = offset /\ layers[i].end = caplen

Finished == frame # NoFrame /\ next = "none"

\* The headers that were sent and lie within the capture.
Captured(f) == {i \in DOMAIN f.headers : StartOf(f, i + 1) <= caplen}

\* A chain that was sent is found: every header that was captured whole, in
\* order, and no other, however short the capture.  Behind TCP and UDP the
\* payload is what was sent, as long as the frame was not filled up.  A later
\* fragment has no transport header, and nothing is claimed of what its bytes
\* are taken for.
ChainExact ==
    Finished /\ ~frame.fragment /\ frame.link # "other" =>
        LET end == BodyOf(frame)
        IN  /\ OfKind(Chain) = Captured(frame)
            /\ \A i \in Captured(frame) :
                  /\ layers[i].head = frame.headers[i]
                  /\ layers[i].start = StartOf(frame, i)
                  /\ layers[i].end = StartOf(frame, i + 1)
            /\ \A i \in OfKind({"payload"}) :
                  /\ layers[i].start = end
                  /\ frame.padding = 0 => layers[i].end <= end + frame.body

\* An application layer stands on the right transport and port, before the
\* payload it was found in.
ApplicationPlaced ==
    \A i \in DOMAIN layers :
        layers[i].kind \in Applications =>
            /\ i = Len(layers) - 1 /\ i > 1 /\ layers[i + 1].kind = "payload"
            /\ layers[i].kind \in Attempted(layers[i - 1])

\* The list names the addresses the packet travels between, filters and
\* directions use the same ones, and the packet back has the other direction.
SummaryExact ==
    /\ IpPair # <<>> =>
          /\ Summary.source = IpPair
          /\ Direction = "in" <=>
                Way(<<IpPair[2], IpPair[1]>>, IF LocalIps # {} THEN LocalIps ELSE PrivateIps) = "out"
    /\ Summary.protocol = "tcp" => Summary.color = "tcp"
    /\ OfKind({"dns", "hello", "handshake"}) # {} => Summary.color \notin {"tcp", "udp"}

\* What a packet is taken for is what was sent.
DecodeExact == RangesTile /\ ChainExact /\ ApplicationPlaced /\ SummaryExact
=============================================================================
