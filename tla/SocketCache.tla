---------------------------- MODULE SocketCache ----------------------------
(***************************************************************************)
(* Which process a packet belongs to: the socket table cache of            *)
(* src/process/linux.rs, asked for each packet by the one thread that      *)
(* handles packets, while processes open and close sockets.                *)
(*                                                                         *)
(* Closed sockets stay in `sockets` with the time of closing.  A process   *)
(* that exits closes its sockets.  Any file of /proc may be unreadable:    *)
(* the tables of a protocol (one per address family) when the cache is     *)
(* read anew, the descriptors of a process when an owner is searched (a    *)
(* daemon that is not root sees those of its own user).                    *)
(***************************************************************************)
EXTENDS Naturals, FiniteSets

CONSTANTS
    Procs,       \* processes
    Ends,        \* local addresses with their ports
    Family,      \* of each end: the address family, hence the file, it is in
    Interval,    \* REFRESH_INTERVAL
    MaxSockets,  \* bound: sockets ever opened
    MaxTime      \* bound: last instant

NoProc == "no process"

ASSUME SocketAssumption ==
    /\ NoProc \notin Procs
    /\ Interval \in Nat \ {0} /\ MaxSockets \in Nat
    /\ MaxTime \in Nat /\ 2 * Interval <= MaxTime

Protocols == {"tcp", "udp"}
Asked == Protocols \cup {"other"}
Open == 0           \* the time of closing of an open socket

Families == {Family[e] : e \in Ends}

VARIABLES
    clock,
    sockets,     \* the kernel's, open and closed; an inode is used once
    entries,     \* ProcNetCache.entries: end -> inode, 0 for none
    refreshed,   \* ProcNetCache.last_refresh
    kind,        \* history: the protocol the entries were read for
    unread,      \* history: the families whose file could not be read then
    finding,     \* whether a lookup has left the lock and searches the owner
    job          \* the lookup in progress, or the last one, with the families
                 \* and processes it could not look into

socketVars == <<clock, sockets, entries, refreshed, kind, unread, finding, job>>

IsOpen(s) == s.closed = Open

\* A cache that was just made counts as older than the interval.
SocketInit ==
    /\ clock = 2 * Interval
    /\ sockets = {}
    /\ entries = [e \in Ends |-> 0]
    /\ refreshed = 0
    /\ kind = "none"
    /\ unread = {}
    /\ finding = FALSE
    /\ job = [proto |-> "other", end |-> 0, at |-> 0, kind |-> "none", unread |-> {},
              inode |-> 0, hidden |-> {}, owner |-> NoProc]

OpenSocket(proto, e, p) ==
    /\ Cardinality(sockets) < MaxSockets
    /\ ~\E s \in sockets : IsOpen(s) /\ s.proto = proto /\ s.end = e
    /\ sockets' = sockets \cup {[inode |-> Cardinality(sockets) + 1, proto |-> proto,
                                 end |-> e, owner |-> p, since |-> clock,
                                 closed |-> Open]}
    /\ UNCHANGED <<clock, entries, refreshed, kind, unread, finding, job>>

CloseSocket(s) ==
    /\ IsOpen(s)
    /\ sockets' = (sockets \ {s}) \cup {[s EXCEPT !.closed = clock]}
    /\ UNCHANGED <<clock, entries, refreshed, kind, unread, finding, job>>

Tick ==
    /\ clock < MaxTime
    /\ clock' = clock + 1
    /\ UNCHANGED <<sockets, entries, refreshed, kind, unread, finding, job>>

\* The inodes of one protocol's sockets at a local end.
Listed(proto, e) ==
    {s.inode : s \in {x \in sockets : IsOpen(x) /\ x.proto = proto /\ x.end = e}}

\* Faulty variant: entries.clear() is forgotten.
ReadTableKeeping(proto, failed) ==
    [e \in Ends |-> IF Family[e] \in failed \/ Listed(proto, e) = {} THEN entries[e]
                    ELSE CHOOSE i \in Listed(proto, e) : TRUE]

\* entries.clear(), and parse_proc_net over those files of one protocol that
\* can be read.
ReadTable(proto, failed) ==
    [e \in Ends |-> IF Family[e] \in failed \/ Listed(proto, e) = {} THEN 0
                    ELSE CHOOSE i \in Listed(proto, e) : TRUE]

\* lookup_socket_proc_linux, under the lock of the cache.  The table is read
\* again once it is older than the interval, for the protocol asked for, and
\* counts as read whatever files failed; it is searched whatever protocol it
\* was read for.  A third protocol (the next header of an IPv6 packet with
\* extensions) empties an old table and leaves it old.
Lookup(proto, e, failed) ==
    /\ ~finding
    /\ LET old == clock - refreshed > Interval
           table == IF old THEN ReadTable(proto, failed) ELSE entries
       IN /\ (old /\ proto \in Protocols) \/ failed = {}
          /\ entries' = table
          /\ refreshed' = IF old /\ proto \in Protocols THEN clock ELSE refreshed
          /\ kind' = IF old THEN proto ELSE kind
          /\ unread' = IF old THEN failed ELSE unread
          /\ job' = [proto |-> proto, end |-> e, at |-> clock, kind |-> kind',
                     unread |-> unread', inode |-> table[e], hidden |-> {}, owner |-> NoProc]
          /\ finding' = (table[e] # 0)
    /\ UNCHANGED <<clock, sockets>>

\* find_pid_for_inode, without the lock: the process that has the socket now,
\* unless its descriptors cannot be read.
FindPid(hidden) ==
    /\ finding
    /\ LET owners == {s.owner : s \in {x \in sockets : IsOpen(x) /\ x.inode = job.inode}}
           searched == [job EXCEPT !.hidden = hidden]
       IN /\ hidden \subseteq owners
          /\ \/ owners \ hidden = {} /\ job' = searched
             \/ \E p \in owners \ hidden : job' = [searched EXCEPT !.owner = p]
    /\ finding' = FALSE
    /\ UNCHANGED <<clock, sockets, entries, refreshed, kind, unread>>

SocketNext ==
    \/ \E proto \in Protocols, e \in Ends, p \in Procs : OpenSocket(proto, e, p)
    \/ \E s \in sockets : CloseSocket(s)
    \/ Tick
    \/ \E proto \in Asked, e \in Ends, failed \in SUBSET Families : Lookup(proto, e, failed)
    \/ \E hidden \in SUBSET Procs : FindPid(hidden)

-----------------------------------------------------------------------------
(***************************************************************************)
(* Properties.                                                             *)
(***************************************************************************)
SocketTypeOK ==
    /\ clock \in 0..MaxTime /\ refreshed \in 0..clock
    /\ Cardinality(sockets) <= MaxSockets
    /\ \A s \in sockets : s.proto \in Protocols /\ s.end \in Ends /\ s.owner \in Procs
    /\ entries \in [Ends -> 0..Cardinality(sockets)]
    /\ kind \in Asked \cup {"none"}
    /\ unread \subseteq Families
    /\ finding \in BOOLEAN
    /\ job.owner \in Procs \cup {NoProc}

\* The process that was named held a socket of the given protocol at the end
\* that was asked for, at the time it was asked.
Held(proto) ==
    \E s \in sockets : /\ s.proto = proto /\ s.end = job.end /\ s.owner = job.owner
                       /\ s.since <= job.at
                       /\ IsOpen(s) \/ s.closed >= job.at

\* The table is up to an interval old, a port changes hands within that time,
\* and the owner is searched for after the lock is gone.  Still the process that
\* is named held the port when the packet was looked up, in the protocol the
\* table was read for, whatever could not be read; and a socket older than the
\* interval is found, if the table was read for its protocol, its file then
\* and its owner's descriptors now ("cached per platform").
OwnerExact ==
    /\ SocketTypeOK
    /\ job.owner # NoProc => Held(job.kind)
    /\ ~finding /\ job.owner = NoProc =>
         ~\E s \in sockets : /\ IsOpen(s) /\ s.end = job.end
                             /\ s.proto = job.proto /\ s.proto = job.kind
                             /\ s.since + Interval < job.at
                             /\ Family[s.end] \notin job.unread
                             /\ s.owner \notin job.hidden

\* process/mod.rs: "Map a flow's local (addr, port) to the owning process.
\* `protocol` is 6 (TCP) or 17 (UDP)": the process held the port in the protocol
\* of the flow.
ProtocolExact == job.owner # NoProc => Held(job.proto)
=============================================================================
