---------------------------- MODULE MCAnnotations ----------------------------
(***************************************************************************)
(* Small instances of SocketCache, IdentityCache, Threats, Names, Volume   *)
(* and Filters for TLC.  They share nothing but the packets they are asked *)
(* about, so a behaviour runs one of them and leaves the others as they    *)
(* began.                                                                  *)
(***************************************************************************)
EXTENDS SocketCache, IdentityCache, Threats, Names, Volume, Filters

CONSTANTS p1, p2, e1, s1, s2, d1, d2, n1, n2, unnamed

\* Processes, and the paths of their binaries, are interchangeable.
Alike == Permutations({p1, p2})

FamilyHere == [e \in Ends |-> "ipv4"]

TargetsHere == {<<d1, 0>>, <<d1, 22>>, <<d1, 9000>>, <<d2, 0>>}

\* An answer, and one to a message without a question.
AnswersHere == {<<n1, {d1}>>, <<unnamed, {d1}>>}

\* Connectives and parentheses at some length, comparisons of every kind.
LexiconsHere ==
    {<<{"(", ")", "and", "or", "tcp", "threat"}, 6>>,
     <<{"(", ")", "not", "and", "or", "tcp", "threat"}, 5>>,
     <<{"not", "or", ")", "contains", "==", "!=", "tcp.port", "ip.src", "10.0.0.1", "443"}, 5>>,
     <<{"and", "contains", "==", "!=", "dns.qname", "udp.port", "443", "com"}, 4>>}

ProtosHere == {"tcp", "ip"}
LayersHere == [p \in ProtosHere |-> IF p = "ip" THEN {"ipv4", "ipv6"} ELSE {p}]
DottedHere == {"tcp.port", "udp.port", "ip.src", "dns.qname", "10.0.0.1"}
WithinHere == {<<"com", "a.com">>, <<"443", "443">>}

Transport(k, numbers) ==
    [kind |-> k, fields |-> [f \in {} |-> NoValue], ports |-> {<<"int", n>> : n \in numbers}]
Layer(k, field, value) ==
    [kind |-> k, fields |-> [f \in {field} |-> value], ports |-> {}]
PacketOf(layers, threat, says) == [layers |-> layers, threat |-> threat, says |-> says]

\* Over one address and a tunnel, a name, a name missing before one, and a
\* packet with no field at all.
PacketsHere ==
    {PacketOf(<<Layer("ipv4", "ip.src", <<"ip", "10.0.0.1">>), Transport("tcp", {"443", "9"})>>,
              FALSE, {<<"443">>, <<"10.0.0.1">>}),
     PacketOf(<<Layer("ipv4", "ip.src", <<"ip", "10.0.0.2">>),
                Layer("ipv4", "ip.src", <<"ip", "10.0.0.1">>), Transport("tcp", {"9"})>>,
              TRUE, {<<"threat", "threat">>}),
     PacketOf(<<Transport("udp", {"443", "53"}), Layer("dns", "dns.qname", <<"str", "a.com">>)>>,
              FALSE, {<<"com">>}),
     PacketOf(<<Transport("udp", {"53"}), Layer("dns", "dns.qname", NoValue),
                Layer("dns", "dns.qname", <<"str", "443">>)>>,
              TRUE, {}),
     PacketOf(<<Transport("arp", {})>>, FALSE, {})}

VARIABLE part

vars == <<socketVars, identityVars, threatVars, nameVars, volumeVars, filterVars, part>>

Init ==
    /\ SocketInit /\ IdentityInit /\ ThreatInit /\ NameInit /\ VolumeInit /\ FilterInit
    /\ part \in {"sockets", "identities", "threats", "names", "volume", "filters"}
    /\ part # "identities" => file = [x \in Paths |-> 1]
    /\ part # "filters" => lexicon = CHOOSE x \in Lexicons : TRUE

Sockets ==
    /\ part = "sockets" /\ SocketNext
    /\ UNCHANGED <<identityVars, threatVars, nameVars, volumeVars, filterVars, part>>

Identities ==
    /\ part = "identities" /\ IdentityNext
    /\ UNCHANGED <<socketVars, threatVars, nameVars, volumeVars, filterVars, part>>

Scans ==
    /\ part = "threats" /\ ThreatNext
    /\ UNCHANGED <<socketVars, identityVars, nameVars, volumeVars, filterVars, part>>

Resolving ==
    /\ part = "names" /\ NameNext
    /\ UNCHANGED <<socketVars, identityVars, threatVars, volumeVars, filterVars, part>>

Volumes ==
    /\ part = "volume" /\ VolumeNext
    /\ UNCHANGED <<socketVars, identityVars, threatVars, nameVars, filterVars, part>>

Filtering ==
    /\ part = "filters" /\ FilterNext
    /\ UNCHANGED <<socketVars, identityVars, threatVars, nameVars, volumeVars, part>>

Next == Sockets \/ Identities \/ Scans \/ Resolving \/ Volumes \/ Filtering

Spec == Init /\ [][Next]_vars
=============================================================================
