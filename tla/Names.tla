------------------------------- MODULE Names -------------------------------
(***************************************************************************)
(* What is learnt from names on the wire: NameResolver (enrich/names.rs),  *)
(* which names addresses, and DnsTracker (flow/dns_tracker.rs), which      *)
(* pairs responses with queries by transaction id.                         *)
(*                                                                         *)
(* Both see the same packets.  An id is reused, a query repeated, a        *)
(* response lost, repeated or never asked for; a packet's position in what *)
(* was heard is its number.                                                *)
(***************************************************************************)
EXTENDS Naturals, Sequences, FiniteSets

CONSTANTS
    Ids,         \* transaction ids
    Names,       \* host names
    NoName,      \* a message without a question, or an address not named
    Hosts,       \* addresses
    Answers,     \* <<question or NoName, answered addresses>> of responses
    Capacity,    \* of the table of pending queries
    MaxHeard     \* bound: packets

ASSUME NameAssumption ==
    /\ NoName \notin Names
    /\ Answers \subseteq (Names \cup {NoName}) \X SUBSET Hosts
    /\ Capacity \in Nat \ {0} /\ MaxHeard \in Nat

VARIABLES
    byIp,        \* NameResolver.by_ip: name and priority, or NoEntry
    pending,     \* DnsTracker.pending, least recently used first
    pairs,       \* pairings returned: response and query, by packet number
    heard        \* history: the packets, in order

nameVars == <<byIp, pending, pairs, heard>>

NoEntry == [name |-> NoName, priority |-> 0]

\* NameSource::priority
Priority == [dns |-> 2, hello |-> 2, http |-> 1]

NameInit ==
    /\ byIp = [h \in Hosts |-> NoEntry]
    /\ pending = <<>>
    /\ pairs = {}
    /\ heard = <<>>

\* Faulty variant: the last name wins, wherever it came from.
InsertAlways(h, n, source) == [name |-> n, priority |-> Priority[source]]

\* insert: a name is replaced unless it came from a better source.
Insert(h, n, source) ==
    IF byIp[h].priority > Priority[source] THEN byIp[h]
    ELSE [name |-> n, priority |-> Priority[source]]

\* Where the table has the query of an id.
Places(id) == {k \in DOMAIN pending : pending[k].id = id}

\* The table without the query of an id: the others keep their order.
Without(id) ==
    IF Places(id) = {} THEN pending
    ELSE LET place == CHOOSE k \in Places(id) : TRUE
         IN  [i \in 1..(Len(pending) - 1) |-> pending[IF i < place THEN i ELSE i + 1]]

Number == Len(heard) + 1

Hear(m) ==
    /\ Len(heard) < MaxHeard
    /\ heard' = Append(heard, m)

\* observe, for a query: put moves a known id to the end, and drops the
\* oldest if the table is full.
Query(id) ==
    /\ Hear([is |-> "query", id |-> id])
    /\ LET rest == Without(id)
           kept == IF Len(rest) = Capacity THEN Tail(rest) ELSE rest
       IN  pending' = Append(kept, [id |-> id, number |-> Number])
    /\ UNCHANGED <<byIp, pairs>>

\* A response: every answered address gets the name that was asked for; the
\* pending query is popped and paired.
Response(id, n, answers) ==
    /\ Hear([is |-> "dns", id |-> id, name |-> n, hosts |-> answers])
    /\ byIp' = [h \in Hosts |->
                   IF h \in answers /\ n # NoName THEN Insert(h, n, "dns") ELSE byIp[h]]
    /\ pairs' = pairs \cup {<<Number, pending[k].number>> : k \in Places(id)}
    /\ pending' = Without(id)

\* A ClientHello with an SNI, or an HTTP request with a Host, to address h.
Named(source, h, n) ==
    /\ Hear([is |-> source, name |-> n, hosts |-> {h}])
    /\ byIp' = [byIp EXCEPT ![h] = Insert(h, n, source)]
    /\ UNCHANGED <<pending, pairs>>

NameNext ==
    \/ \E id \in Ids :
         \/ Query(id)
         \/ \E a \in Answers : Response(id, a[1], a[2])
    \/ \E h \in Hosts, n \in Names : Named("hello", h, n) \/ Named("http", h, n)

-----------------------------------------------------------------------------
(***************************************************************************)
(* Properties.                                                             *)
(***************************************************************************)
\* The packets that named h, by sources of at least this priority.
Naming(h, least) ==
    {i \in DOMAIN heard :
        /\ heard[i].is # "query" /\ h \in heard[i].hosts
        /\ heard[i].name # NoName /\ Priority[heard[i].is] >= least}

Latest(numbers) == CHOOSE i \in numbers : \A j \in numbers : j <= i

\* An address bears the last name that DNS or TLS gave it, also when names
\* move between addresses; only where neither ever named it the last Host of a
\* request ("Don't downgrade to a lower-priority source").
NamesKept ==
    \A h \in Hosts :
        LET strong == Naming(h, 2)
            all == Naming(h, 1)
        IN  byIp[h].name = IF strong # {} THEN heard[Latest(strong)].name
                           ELSE IF all # {} THEN heard[Latest(all)].name ELSE NoName

\* The queries of a response's id since the last response of that id.
Waiting(r) ==
    {i \in 1..(r - 1) :
        /\ heard[i] = [is |-> "query", id |-> heard[r].id]
        /\ \A j \in (i + 1)..(r - 1) : heard[j].is = "dns" => heard[j].id # heard[r].id}

\* Ids that were asked about behind query i and before response r.
AskedBehind(i, r) ==
    {heard[j].id : j \in {k \in (i + 1)..(r - 1) : heard[k].is = "query"}}

\* A response is paired with the latest query that waits under its id; a
\* repeated or unasked response with none; and a query is lost only behind
\* Capacity fresher ones ("preserving the freshest queries for pairing").
PairsExact ==
    /\ \A p \in pairs : Waiting(p[1]) # {} /\ p[2] = Latest(Waiting(p[1]))
    /\ \A r \in {k \in DOMAIN heard : heard[k].is = "dns" /\ Waiting(k) # {}} :
          Cardinality(AskedBehind(Latest(Waiting(r)), r)) < Capacity
            => \E p \in pairs : p[1] = r

\* Names and pairings are what the packets say.
NamingExact == NamesKept /\ PairsExact
=============================================================================
