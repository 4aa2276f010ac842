---------------------------- MODULE MCDissection ----------------------------
(***************************************************************************)
(* Small instances, for TLC, of what turns captured bytes into what the    *)
(* packet list and the stream view show: Decode, DnsMessage, TlsHello,     *)
(* Http2, SegmentTracker, Conversation and the packet list, PacketView.    *)
(* They share nothing but the packet, so a behaviour runs one of them and  *)
(* leaves the others as they began.                                        *)
(***************************************************************************)
EXTENDS MCConversation, MCTracking, MCHttp2, Decode, DnsMessage, TlsHello, PacketView

CONSTANTS d1, d2

(***************************************************************************)
(* Decode: every chain of decoders, with and without a link header, with   *)
(* options, padding, nothing behind the headers, and later fragments.      *)
(***************************************************************************)
HeaderHere(kind, len, version, type, ports) ==
    [kind |-> kind, len |-> len, version |-> version, type |-> type, ports |-> ports,
     from |-> d1, to |-> d2]

Networks(type) ==
    (IF type = "icmpv6" THEN {}
     ELSE {HeaderHere("ipv4", 20, 4, type, {}), HeaderHere("ipv4", 24, 4, type, {})})
    \cup (IF type = "icmp" THEN {} ELSE {HeaderHere("ipv6", 40, 6, type, {})})

Transports ==
    {<<HeaderHere("tcp", 20, 0, "", {443}), "hello">>,
     <<HeaderHere("tcp", 32, 0, "", {80}), "http">>,
     <<HeaderHere("udp", 8, 0, "", {53}), "dns">>,
     <<HeaderHere("udp", 8, 0, "", {443}), "quic">>,
     <<HeaderHere("icmp", 8, 0, "", {}), "opaque">>,
     <<HeaderHere("icmpv6", 8, 0, "", {}), "opaque">>}

FrameOf(link, headers, body, content, fragment, padding) ==
    [link |-> link,
     headers |-> (IF link = "ethernet"
                  THEN <<HeaderHere("ethernet", 14, 0, headers[1].kind, {})>> ELSE <<>>) \o headers,
     body |-> body, content |-> content, fragment |-> fragment, padding |-> padding]

Linked == {<<"ethernet", 0>>, <<"ethernet", 3>>, <<"raw", 0>>}

FramesHere ==
    UNION {{FrameOf(l[1], <<ip, t[1]>>, body, t[2], FALSE, l[2]) :
                l \in Linked, body \in {0, 2}, ip \in Networks(t[1].kind)} : t \in Transports}
    \cup {FrameOf(l[1], <<ip>>, 30, "opaque", TRUE, l[2]) :
              l \in Linked, ip \in Networks("tcp") \cup Networks("other")}
    \cup {FrameOf("ethernet", <<HeaderHere("arp", 28, 0, "", {})>>, 0, "opaque", FALSE, 3),
          FrameOf("other", <<HeaderHere("ipv4", 20, 4, "other", {})>>, 1, "opaque", FALSE, 0)}

JunkHere ==
    {HeaderHere("junk", 16, 4, "tcp", {443}), HeaderHere("junk", 20, 6, "udp", {53}),
     HeaderHere("junk", 60, 4, "", {80})}

(***************************************************************************)
(* DnsMessage: the names a and b.a.                                        *)
(***************************************************************************)
NamesHere == {<<<<97>>>>, <<<<98>>, <<97>>>>}

(***************************************************************************)
(* TlsHello: GREASE among the ciphers and groups, a name of another kind   *)
(* before the host name, a protocol name that is not text, certificates    *)
(* of no length; more of the flight in the same record.                    *)
(***************************************************************************)
HelloHere(kind, session, ciphers, certs) ==
    [kind |-> kind, version |-> 771, session |-> session, ciphers |-> ciphers,
     certs |-> certs, exts |-> <<>>]

HellosHere ==
    {HelloHere("client", 1, <<4866, 2570, 4865>>, <<>>), HelloHere("client", 0, <<>>, <<>>),
     HelloHere("server", 1, <<4865>>, <<>>), HelloHere("certificate", 0, <<>>, <<1, 0, 2>>)}

ExtensionHere(type, value) == [type |-> type, value |-> value]

ExtensionsHere ==
    {ExtensionHere(0, <<<<1, <<120>>>>, <<0, <<97, 46>>>>>>),
     ExtensionHere(16, <<<<104, 50>>, <<0>>>>), ExtensionHere(10, <<6682, 29>>),
     ExtensionHere(11, <<0>>), ExtensionHere(13, <<1027>>),
     ExtensionHere(43, <<772, 2570>>), ExtensionHere(21, <<7>>)}

TailsHere == {<<>>, <<2, 0, 0>>}

(***************************************************************************)
(* PacketView: two kinds of packets; a filter or a search finds one kind   *)
(* or the other.                                                           *)
(***************************************************************************)
TwoTexts == {"a", "b"}
TwoKinds == {[text |-> "a", dir |-> "in"], [text |-> "b", dir |-> "unknown"]}

-----------------------------------------------------------------------------
VARIABLE part

dissectionVars == <<vars, trackVars, decodeVars, dnsVars, helloVars, http2Vars, listVars, part>>

DissectionInit ==
    /\ Init /\ TrackInit /\ DecodeInit /\ DnsInit /\ HelloInit /\ Http2Init /\ ListInit
    /\ part \in {"conversation", "tracking", "decode", "dns", "tls", "http2", "list"}
    /\ part # "tls" => hello = [CHOOSE h \in Hellos : TRUE EXCEPT !.exts = <<>>]

Conversing ==
    /\ part = "conversation" /\ Next
    /\ UNCHANGED <<trackVars, decodeVars, dnsVars, helloVars, http2Vars, listVars, part>>

Tracking ==
    /\ part = "tracking" /\ TrackNext
    /\ UNCHANGED <<vars, decodeVars, dnsVars, helloVars, http2Vars, listVars, part>>

Layering ==
    /\ part = "decode" /\ DecodeNext
    /\ UNCHANGED <<vars, trackVars, dnsVars, helloVars, http2Vars, listVars, part>>

Asking ==
    /\ part = "dns" /\ DnsNext
    /\ UNCHANGED <<vars, trackVars, decodeVars, helloVars, http2Vars, listVars, part>>

Greeting ==
    /\ part = "tls" /\ HelloNext
    /\ UNCHANGED <<vars, trackVars, decodeVars, dnsVars, http2Vars, listVars, part>>

Multiplexing ==
    /\ part = "http2" /\ Http2Next
    /\ UNCHANGED <<vars, trackVars, decodeVars, dnsVars, helloVars, listVars, part>>

Listing ==
    /\ part = "list" /\ ListNext
    /\ UNCHANGED <<vars, trackVars, decodeVars, dnsVars, helloVars, http2Vars, part>>

DissectionNext ==
    Conversing \/ Tracking \/ Layering \/ Asking \/ Greeting \/ Multiplexing \/ Listing

DissectionSpec == DissectionInit /\ [][DissectionNext]_dissectionVars
=============================================================================
