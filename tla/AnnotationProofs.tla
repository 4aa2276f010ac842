-------------------------- MODULE AnnotationProofs --------------------------
(***************************************************************************)
(* Theorems about what the program adds to a packet.  The process it is    *)
(* attributed to by the socket table cache, and the identity of the binary *)
(* that process runs, for any number of processes, sockets, files and      *)
(* versions; the scans and sweeps it belongs to, whatever the window, the  *)
(* thresholds and the number of probes; the names of its addresses and the *)
(* query a DNS response answers, for any capacity of the table of queries; *)
(* the volume baseline of the process, for any interval, weight and        *)
(* thresholds and any precision of the mean.                               *)
(***************************************************************************)
EXTENDS SocketCache, IdentityCache, Threats, Names, Volume,
        FiniteSetTheorems, SequenceTheorems, WellFoundedInduction, TLAPS

SocketSpec == SocketInit /\ [][SocketNext]_socketVars
IdentitySpec == IdentityInit /\ [][IdentityNext]_identityVars
VolumeSpec == VolumeInit /\ [][VolumeNext]_volumeVars

-----------------------------------------------------------------------------
(***************************************************************************)
(* The socket table cache.                                                 *)
(***************************************************************************)
Socket == [inode : Nat, proto : Protocols, end : Ends, owner : Procs,
           since : Nat, closed : Nat]

Before(s, t) == ~IsOpen(s) /\ s.closed <= t.since

\* An inode is one socket's, and two sockets of one protocol follow each other
\* at an end.
KernelInv ==
    /\ IsFiniteSet(sockets) /\ clock > 0
    /\ \A s \in sockets : /\ s \in Socket
                          /\ s.inode \in 1..Cardinality(sockets)
                          /\ s.since <= clock
                          /\ s.closed <= clock
    /\ \A s, t \in sockets : s.inode = t.inode => s = t
    /\ \A s, t \in sockets :
          s # t /\ s.proto = t.proto /\ s.end = t.end => Before(s, t) \/ Before(t, s)

\* The entries are those of the protocol they were read for when they were read,
\* but for the files that could not be read.
EntriesInv ==
    \A e \in Ends :
        /\ entries[e] # 0 =>
              \E s \in sockets : /\ s.inode = entries[e] /\ s.proto = kind /\ s.end = e
                                 /\ s.since <= refreshed
                                 /\ IsOpen(s) \/ s.closed >= refreshed
        /\ entries[e] = 0 /\ Family[e] \notin unread =>
              ~\E s \in sockets : /\ IsOpen(s) /\ s.proto = kind /\ s.end = e
                                  /\ s.since < refreshed

\* A socket the lookup should have found.
Overdue(s) == /\ IsOpen(s) /\ s.end = job.end
              /\ s.proto = job.proto /\ s.proto = job.kind
              /\ s.since + Interval < job.at
              /\ Family[s.end] \notin job.unread /\ s.owner \notin job.hidden

Jobs == [proto : Asked, end : Ends \cup {0}, at : Nat, kind : Asked \cup {"none"},
         unread : SUBSET Families, inode : Nat, hidden : SUBSET Procs,
         owner : Procs \cup {NoProc}]

\* The lookup in progress has an inode of the protocol the table was read for,
\* and no other socket is the one it should find.
JobInv ==
    /\ job \in Jobs
    /\ job.at <= clock
    /\ finding =>
         /\ job.owner = NoProc /\ job.hidden = {}
         /\ \E s \in sockets : /\ s.inode = job.inode /\ s.end = job.end
                               /\ s.proto = job.kind /\ s.since <= job.at
         /\ \A s \in sockets : Overdue(s) => s.inode = job.inode
    /\ job.owner # NoProc => Held(job.kind)
    /\ ~finding /\ job.owner = NoProc => \A s \in sockets : ~Overdue(s)

SocketInv == SocketTypeOK /\ KernelInv /\ EntriesInv /\ JobInv

\* What a new socket changes: nothing for those that are there.
LEMMA OpenKeeps ==
    ASSUME SocketInv, SocketAssumption, NEW proto \in Protocols, NEW e \in Ends,
           NEW p \in Procs, OpenSocket(proto, e, p)
    PROVE  SocketInv'
<1> DEFINE n == Cardinality(sockets)
<1> DEFINE new == [inode |-> n + 1, proto |-> proto, end |-> e, owner |-> p,
                   since |-> clock, closed |-> Open]
<1>1. /\ n < MaxSockets /\ sockets' = sockets \cup {new}
      /\ ~\E s \in sockets : IsOpen(s) /\ s.proto = proto /\ s.end = e
      /\ clock' = clock /\ entries' = entries /\ refreshed' = refreshed
      /\ kind' = kind /\ unread' = unread /\ finding' = finding /\ job' = job
  BY DEF OpenSocket
<1>2. /\ IsFiniteSet(sockets) /\ n \in Nat /\ clock \in Nat /\ refreshed \in Nat
      /\ refreshed <= clock
  BY FS_CardinalityType DEF SocketInv, KernelInv, SocketTypeOK, SocketAssumption
<1>3. new \in Socket /\ IsOpen(new) /\ new.since = clock /\ new.closed = 0
      /\ new.inode = n + 1 /\ new.proto = proto /\ new.end = e /\ new.owner = p
  BY <1>2 DEF Socket, IsOpen, Open
<1>4. new \notin sockets
  BY <1>1, <1>3
<1>5. IsFiniteSet(sockets') /\ Cardinality(sockets') = n + 1
  BY <1>1, <1>2, <1>4, FS_AddElement
<1>6. KernelInv'
  <2>1. ASSUME NEW s \in sockets'
        PROVE  /\ s \in Socket /\ s.inode \in 1..(n + 1)
               /\ s.since <= clock /\ s.closed <= clock
    <3>1. CASE s \in sockets
      BY <1>2, <3>1 DEF SocketInv, KernelInv
    <3>2. CASE s = new
      BY <1>2, <1>3, <3>2
    <3> QED BY <1>1, <3>1, <3>2
  <2>2. \A s \in sockets : s.inode # n + 1
    BY <1>2 DEF SocketInv, KernelInv
  <2>3. ASSUME NEW s \in sockets', NEW t \in sockets', s.inode = t.inode PROVE s = t
    BY <1>1, <1>3, <2>2, <2>3 DEF SocketInv, KernelInv
  <2>4. ASSUME NEW s \in sockets, s.proto = proto, s.end = e PROVE Before(s, new)
    <3>1. ~IsOpen(s) /\ s.closed <= clock
      BY <1>1, <2>4 DEF SocketInv, KernelInv
    <3> QED BY <1>3, <3>1 DEF Before
  <2>5. ASSUME NEW s \in sockets', NEW t \in sockets', s # t,
               s.proto = t.proto, s.end = t.end
        PROVE  Before(s, t) \/ Before(t, s)
    <3>1. CASE s \in sockets /\ t \in sockets
      BY <2>5, <3>1 DEF SocketInv, KernelInv
    <3>2. CASE s = new \/ t = new
      BY <1>1, <1>3, <2>4, <2>5, <3>2
    <3> QED BY <1>1, <3>1, <3>2
  <2> QED BY <1>1, <1>5, <2>1, <2>3, <2>5
          DEF KernelInv, SocketInv, Before, IsOpen
<1>7. EntriesInv'
  <2> SUFFICES ASSUME NEW x \in Ends
               PROVE  /\ entries[x] # 0 =>
                           \E s \in sockets' :
                              /\ s.inode = entries[x] /\ s.proto = kind /\ s.end = x
                              /\ s.since <= refreshed
                              /\ IsOpen(s) \/ s.closed >= refreshed
                      /\ entries[x] = 0 /\ Family[x] \notin unread =>
                           ~\E s \in sockets' :
                              /\ IsOpen(s) /\ s.proto = kind /\ s.end = x
                              /\ s.since < refreshed
    BY <1>1 DEF EntriesInv, IsOpen
  <2>1. ~(new.since < refreshed)
    BY <1>2, <1>3
  <2> QED BY <1>1, <2>1 DEF SocketInv, EntriesInv
<1>8. JobInv'
  <2>1. /\ job.at \in Nat /\ job.at <= clock /\ Interval \in Nat
    BY DEF SocketInv, JobInv, Jobs, SocketAssumption
  <2>2. ~Overdue(new)
    BY <1>2, <1>3, <2>1 DEF Overdue
  <2>3. \A s : Overdue(s)' <=> Overdue(s)
    BY <1>1 DEF Overdue, IsOpen
  <2>4. Held(job.kind) => Held(job.kind)'
    BY <1>1 DEF Held, IsOpen
  <2> QED BY <1>1, <2>2, <2>3, <2>4 DEF SocketInv, JobInv
<1>9. SocketTypeOK'
  <2>1. entries \in [Ends -> 0..(n + 1)]
    BY <1>2 DEF SocketInv, SocketTypeOK
  <2>2. n + 1 <= MaxSockets
    BY <1>1, <1>2 DEF SocketAssumption
  <2> QED BY <1>1, <1>3, <1>5, <2>1, <2>2 DEF SocketInv, SocketTypeOK
<1> QED BY <1>6, <1>7, <1>8, <1>9 DEF SocketInv

\* A socket that closes stays what it was but for the time of closing, which is
\* now: later than whatever was read or asked.
LEMMA CloseKeeps ==
    ASSUME SocketInv, NEW c \in sockets, CloseSocket(c)
    PROVE  SocketInv'
<1> DEFINE shut == [c EXCEPT !.closed = clock]
<1>1. /\ IsOpen(c) /\ sockets' = (sockets \ {c}) \cup {shut}
      /\ clock' = clock /\ entries' = entries /\ refreshed' = refreshed
      /\ kind' = kind /\ unread' = unread /\ finding' = finding /\ job' = job
  BY DEF CloseSocket
<1>2. /\ IsFiniteSet(sockets) /\ Cardinality(sockets) \in Nat
      /\ clock \in Nat /\ clock > 0 /\ refreshed \in Nat /\ refreshed <= clock
      /\ c \in Socket /\ c.inode \in 1..Cardinality(sockets) /\ c.since <= clock
  BY FS_CardinalityType DEF SocketInv, KernelInv, SocketTypeOK
<1>3. /\ shut \in Socket /\ ~IsOpen(shut) /\ shut.closed = clock
      /\ shut.inode = c.inode /\ shut.proto = c.proto /\ shut.end = c.end
      /\ shut.owner = c.owner /\ shut.since = c.since
  BY <1>2 DEF Socket, IsOpen, Open
<1>4. \A s \in sockets : s.inode = c.inode => s = c
  BY DEF SocketInv, KernelInv
<1>5. shut \notin sockets
  BY <1>1, <1>3, <1>4
<1>6. IsFiniteSet(sockets') /\ Cardinality(sockets') = Cardinality(sockets)
  <2>1. IsFiniteSet(sockets \ {c}) /\ Cardinality(sockets \ {c}) = Cardinality(sockets) - 1
    BY <1>2, FS_RemoveElement
  <2>2. shut \notin sockets \ {c}
    BY <1>5
  <2>3. /\ IsFiniteSet((sockets \ {c}) \cup {shut})
        /\ Cardinality((sockets \ {c}) \cup {shut}) = Cardinality(sockets \ {c}) + 1
    BY <2>1, <2>2, FS_AddElement
  <2> QED BY <1>1, <1>2, <2>1, <2>3
<1>7. KernelInv'
  <2>1. ASSUME NEW s \in sockets'
        PROVE  /\ s \in Socket /\ s.inode \in 1..Cardinality(sockets)
               /\ s.since <= clock /\ s.closed <= clock
    <3>1. CASE s \in sockets
      BY <3>1 DEF SocketInv, KernelInv
    <3>2. CASE s = shut
      BY <1>2, <1>3, <3>2
    <3> QED BY <1>1, <3>1, <3>2
  <2>2. ASSUME NEW s \in sockets', NEW t \in sockets', s.inode = t.inode PROVE s = t
    <3>1. CASE s \in sockets /\ t \in sockets
      BY <2>2, <3>1 DEF SocketInv, KernelInv
    <3>2. CASE s = shut \/ t = shut
      BY <1>1, <1>3, <1>4, <2>2, <3>2
    <3> QED BY <1>1, <3>1, <3>2
  <2>3. ASSUME NEW s \in sockets, s # c, s.proto = c.proto, s.end = c.end
        PROVE  Before(s, shut)
    <3>1. Before(s, c) \/ Before(c, s)
      BY <2>3 DEF SocketInv, KernelInv
    <3> QED BY <1>1, <1>3, <3>1 DEF Before
  <2>4. ASSUME NEW s \in sockets', NEW t \in sockets', s # t,
               s.proto = t.proto, s.end = t.end
        PROVE  Before(s, t) \/ Before(t, s)
    <3>1. CASE s \in sockets /\ t \in sockets
      BY <2>4, <3>1 DEF SocketInv, KernelInv
    <3>2. CASE s = shut
      <4>1. t \in sockets /\ t # c
        BY <1>1, <1>3, <2>4, <3>2
      <4> QED BY <1>3, <2>3, <2>4, <3>2, <4>1
    <3>3. CASE t = shut
      <4>1. s \in sockets /\ s # c
        BY <1>1, <1>3, <2>4, <3>3
      <4> QED BY <1>3, <2>3, <2>4, <3>3, <4>1
    <3> QED BY <1>1, <3>1, <3>2, <3>3
  <2> QED BY <1>1, <1>2, <1>6, <2>1, <2>2, <2>4 DEF KernelInv, Before, IsOpen
<1>8. EntriesInv'
  <2> SUFFICES ASSUME NEW x \in Ends
               PROVE  /\ entries[x] # 0 =>
                           \E s \in sockets' :
                              /\ s.inode = entries[x] /\ s.proto = kind /\ s.end = x
                              /\ s.since <= refreshed
                              /\ IsOpen(s) \/ s.closed >= refreshed
                      /\ entries[x] = 0 /\ Family[x] \notin unread =>
                           ~\E s \in sockets' :
                              /\ IsOpen(s) /\ s.proto = kind /\ s.end = x
                              /\ s.since < refreshed
    BY <1>1 DEF EntriesInv, IsOpen
  <2>1. ASSUME entries[x] # 0
        PROVE  \E s \in sockets' :
                  /\ s.inode = entries[x] /\ s.proto = kind /\ s.end = x
                  /\ s.since <= refreshed
                  /\ IsOpen(s) \/ s.closed >= refreshed
    <3>1. PICK s \in sockets : /\ s.inode = entries[x] /\ s.proto = kind /\ s.end = x
                               /\ s.since <= refreshed
                               /\ IsOpen(s) \/ s.closed >= refreshed
      BY <2>1 DEF SocketInv, EntriesInv
    <3>2. CASE s = c
      <4>1. shut \in sockets' /\ shut.closed >= refreshed
        BY <1>1, <1>2, <1>3
      <4> QED BY <1>3, <3>1, <3>2, <4>1
    <3>3. CASE s # c
      BY <1>1, <3>1, <3>3
    <3> QED BY <3>2, <3>3
  <2>2. entries[x] = 0 /\ Family[x] \notin unread =>
           ~\E s \in sockets' : /\ IsOpen(s) /\ s.proto = kind /\ s.end = x
                                /\ s.since < refreshed
    BY <1>1, <1>3 DEF SocketInv, EntriesInv
  <2> QED BY <2>1, <2>2
<1>9. JobInv'
  <2>1. \A s : Overdue(s)' <=> Overdue(s)
    BY <1>1 DEF Overdue, IsOpen
  <2>2. ~Overdue(shut)
    BY <1>3 DEF Overdue
  <2>3. Held(job.kind) => Held(job.kind)'
    <3> SUFFICES ASSUME NEW s \in sockets, s.proto = job.kind, s.end = job.end,
                        s.owner = job.owner, s.since <= job.at,
                        IsOpen(s) \/ s.closed >= job.at
                 PROVE  \E t \in sockets' :
                           /\ t.proto = job.kind /\ t.end = job.end
                           /\ t.owner = job.owner /\ t.since <= job.at
                           /\ IsOpen(t) \/ t.closed >= job.at
      BY <1>1 DEF Held, IsOpen
    <3>1. CASE s = c
      <4>1. shut \in sockets' /\ shut.closed >= job.at
        BY <1>1, <1>2, <1>3 DEF SocketInv, JobInv
      <4> QED BY <1>3, <3>1, <4>1
    <3>2. CASE s # c
      BY <1>1, <3>2
    <3> QED BY <3>1, <3>2
  <2>4. ASSUME NEW s \in sockets
        PROVE  \E t \in sockets' : /\ t.inode = s.inode /\ t.end = s.end
                                   /\ t.proto = s.proto /\ t.since = s.since
    <3>1. CASE s = c
      BY <1>1, <1>3, <3>1
    <3>2. CASE s # c
      BY <1>1, <3>2
    <3> QED BY <3>1, <3>2
  <2>5. finding => \E s \in sockets' : /\ s.inode = job.inode /\ s.end = job.end
                                       /\ s.proto = job.kind /\ s.since <= job.at
    BY <2>4 DEF SocketInv, JobInv
  <2>6. \A s \in sockets' : Overdue(s) => s \in sockets
    BY <1>1, <2>2
  <2> QED BY <1>1, <2>1, <2>3, <2>5, <2>6 DEF SocketInv, JobInv
<1>10. SocketTypeOK'
  BY <1>1, <1>3, <1>6 DEF SocketInv, SocketTypeOK
<1> QED BY <1>7, <1>8, <1>9, <1>10 DEF SocketInv

\* Time passes.
LEMMA TickKeeps ==
    ASSUME SocketInv, SocketAssumption, Tick
    PROVE  SocketInv'
<1>1. /\ clock < MaxTime /\ clock' = clock + 1 /\ sockets' = sockets
      /\ entries' = entries /\ refreshed' = refreshed /\ kind' = kind
      /\ unread' = unread /\ finding' = finding /\ job' = job
  BY DEF Tick
<1>2. clock \in Nat /\ refreshed \in Nat /\ refreshed <= clock /\ MaxTime \in Nat
      /\ job.at \in Nat /\ job.at <= clock
  BY DEF SocketInv, SocketTypeOK, SocketAssumption, JobInv, Jobs
<1>3. KernelInv'
  <2>1. \A s \in sockets : s.since \in Nat /\ s.closed \in Nat
    BY DEF SocketInv, KernelInv, Socket
  <2> QED BY <1>1, <1>2, <2>1 DEF SocketInv, KernelInv, Before, IsOpen
<1>4. EntriesInv'
  BY <1>1 DEF SocketInv, EntriesInv, IsOpen
<1>5. JobInv'
  <2>1. \A s : Overdue(s)' <=> Overdue(s)
    BY <1>1 DEF Overdue, IsOpen
  <2>2. Held(job.kind)' <=> Held(job.kind)
    BY <1>1 DEF Held, IsOpen
  <2>3. job.at <= clock'
    BY <1>1, <1>2
  <2> QED BY <1>1, <2>1, <2>2, <2>3 DEF SocketInv, JobInv
<1>6. SocketTypeOK'
  BY <1>1, <1>2 DEF SocketInv, SocketTypeOK
<1> QED BY <1>3, <1>4, <1>5, <1>6 DEF SocketInv

\* A table that is read lists the socket that is open at each end, if any, unless
\* the file of its family could not be read.
LEMMA TableRead ==
    ASSUME SocketInv, NEW proto, NEW failed, NEW e \in Ends
    PROVE  LET i == ReadTable(proto, failed)[e]
           IN  /\ i \in 0..Cardinality(sockets)
               /\ i # 0 => \E s \in sockets : /\ s.inode = i /\ IsOpen(s)
                                              /\ s.proto = proto /\ s.end = e
               /\ i = 0 /\ Family[e] \notin failed =>
                     ~\E s \in sockets : IsOpen(s) /\ s.proto = proto /\ s.end = e
<1> DEFINE L == Listed(proto, e)
<1>1. ReadTable(proto, failed)[e] = IF Family[e] \in failed \/ L = {} THEN 0 ELSE CHOOSE i \in L : TRUE
  BY DEF ReadTable
<1>2. \A i \in L : \E s \in sockets : /\ s.inode = i /\ IsOpen(s)
                                      /\ s.proto = proto /\ s.end = e
  BY DEF Listed
<1>3. \A s \in sockets : IsOpen(s) /\ s.proto = proto /\ s.end = e => s.inode \in L
  BY DEF Listed
<1>4. \A s \in sockets : s.inode \in 1..Cardinality(sockets)
  BY DEF SocketInv, KernelInv
<1>5. Cardinality(sockets) \in Nat
  BY FS_CardinalityType DEF SocketInv, KernelInv
<1>6. CASE Family[e] \in failed \/ L = {}
  BY <1>1, <1>3, <1>5, <1>6
<1>7. CASE Family[e] \notin failed /\ L # {}
  <2>1. ReadTable(proto, failed)[e] \in L
    BY <1>1, <1>7
  <2>2. PICK s \in sockets : /\ s.inode = ReadTable(proto, failed)[e] /\ IsOpen(s)
                             /\ s.proto = proto /\ s.end = e
    BY <1>2, <2>1
  <2>3. ReadTable(proto, failed)[e] \in 1..Cardinality(sockets)
    BY <1>4, <2>2
  <2> QED BY <1>5, <2>2, <2>3
<1> QED BY <1>6, <1>7

\* The table a lookup searches, read again or not, has the facts of EntriesInv.
LEMMA LookupTable ==
    ASSUME SocketInv, SocketAssumption, NEW proto \in Asked, NEW e \in Ends,
           NEW failed \in SUBSET Families, Lookup(proto, e, failed)
    PROVE  /\ EntriesInv'
           /\ entries' \in [Ends -> 0..Cardinality(sockets)]
           /\ refreshed' \in 0..clock
           /\ kind' \in Asked \cup {"none"} /\ unread' \in SUBSET Families
           /\ kind' \in Protocols => clock - refreshed' <= Interval
<1>1. /\ sockets' = sockets /\ clock' = clock
      /\ clock \in Nat /\ refreshed \in 0..clock /\ Interval \in Nat
      /\ \A s \in sockets : s.since \in Nat /\ s.since <= clock /\ s.proto \in Protocols
  BY DEF Lookup, SocketInv, SocketTypeOK, KernelInv, Socket, SocketAssumption
<1>2. CASE clock - refreshed > Interval
  <2>1. /\ entries' = ReadTable(proto, failed) /\ kind' = proto /\ unread' = failed
        /\ refreshed' = IF proto \in Protocols THEN clock ELSE refreshed
    BY <1>2 DEF Lookup
  <2>2. entries' \in [Ends -> 0..Cardinality(sockets)]
    <3>1. \A x \in Ends : ReadTable(proto, failed)[x] \in 0..Cardinality(sockets)
      BY TableRead
    <3> QED BY <2>1, <3>1 DEF ReadTable
  <2>3. ASSUME NEW x \in Ends
        PROVE  /\ entries'[x] # 0 =>
                    \E s \in sockets :
                       /\ s.inode = entries'[x] /\ s.proto = proto /\ s.end = x
                       /\ s.since <= refreshed' /\ IsOpen(s)
               /\ entries'[x] = 0 /\ Family[x] \notin failed =>
                    ~\E s \in sockets : IsOpen(s) /\ s.proto = proto /\ s.end = x
    <3>1. /\ entries'[x] # 0 => \E s \in sockets :
                                   /\ s.inode = entries'[x] /\ IsOpen(s)
                                   /\ s.proto = proto /\ s.end = x
          /\ entries'[x] = 0 /\ Family[x] \notin failed =>
               ~\E s \in sockets : IsOpen(s) /\ s.proto = proto /\ s.end = x
      BY <2>1, TableRead
    <3>2. \A s \in sockets : s.proto = proto => s.since <= refreshed'
      BY <1>1, <2>1
    <3> QED BY <3>1, <3>2
  <2>4. EntriesInv'
    BY <1>1, <2>1, <2>3 DEF EntriesInv, IsOpen
  <2> QED BY <1>1, <2>1, <2>2, <2>4
<1>3. CASE ~(clock - refreshed > Interval)
  <2>1. /\ entries' = entries /\ kind' = kind /\ refreshed' = refreshed
        /\ unread' = unread
    BY <1>3 DEF Lookup
  <2>2. EntriesInv'
    BY <1>1, <2>1 DEF SocketInv, EntriesInv, IsOpen
  <2> QED BY <1>1, <1>3, <2>1, <2>2 DEF SocketInv, SocketTypeOK
<1> QED BY <1>2, <1>3

\* A lookup finds an inode that was the asked socket's when the table was read,
\* or nothing where no socket is overdue: one that is would have been open when
\* the table was read, and no two are open at one end at a time.
LEMMA LookupKeeps ==
    ASSUME SocketInv, SocketAssumption, NEW proto \in Asked, NEW e \in Ends,
           NEW failed \in SUBSET Families, Lookup(proto, e, failed)
    PROVE  SocketInv'
<1>1. /\ sockets' = sockets /\ clock' = clock
      /\ job' = [proto |-> proto, end |-> e, at |-> clock, kind |-> kind',
                 unread |-> unread', inode |-> entries'[e], hidden |-> {},
                 owner |-> NoProc]
      /\ finding' = (entries'[e] # 0)
  BY DEF Lookup
<1>2. /\ clock \in Nat /\ Interval \in Nat /\ refreshed' \in 0..clock
      /\ entries' \in [Ends -> 0..Cardinality(sockets)]
      /\ kind' \in Asked \cup {"none"} /\ unread' \in SUBSET Families
      /\ kind' \in Protocols => clock - refreshed' <= Interval
      /\ Cardinality(sockets) \in Nat
      /\ \A s \in sockets : s.since \in Nat /\ s.proto \in Protocols
  BY LookupTable, FS_CardinalityType
     DEF SocketInv, SocketTypeOK, KernelInv, Socket, SocketAssumption
<1>3. EntriesInv'
  BY LookupTable
<1>4. KernelInv'
  BY <1>1 DEF SocketInv, KernelInv, Before, IsOpen
<1>5. SocketTypeOK'
  BY <1>1, <1>2 DEF SocketInv, SocketTypeOK
<1>6. ASSUME NEW s \in sockets, Overdue(s)'
      PROVE  /\ IsOpen(s) /\ s.proto = kind' /\ s.end = e /\ s.since < refreshed'
             /\ Family[e] \notin unread'
  <2>1. /\ IsOpen(s) /\ s.proto = kind' /\ s.end = e /\ s.since + Interval < clock
        /\ Family[e] \notin unread'
    BY <1>1, <1>6 DEF Overdue, IsOpen
  <2>2. kind' \in Protocols
    <3>1. s.proto \in Protocols
      BY <1>2
    <3> QED BY <2>1, <3>1
  <2>3. clock - refreshed' <= Interval
    BY <1>2, <2>2
  <2>4. s.since \in Nat /\ refreshed' \in Nat /\ clock \in Nat /\ Interval \in Nat
    BY <1>2
  <2>5. s.since + Interval < clock
    BY <2>1
  <2>6. \A a, b, c, d \in Nat : a + b < c /\ c - d <= b => a < d
    OBVIOUS
  <2>7. s.since < refreshed'
    BY <2>3, <2>4, <2>5, <2>6
  <2> QED BY <2>1, <2>7
<1>7. /\ job' \in Jobs /\ job'.at = clock /\ job'.owner = NoProc /\ job'.end = e
      /\ job'.kind = kind' /\ job'.inode = entries'[e] /\ job'.hidden = {}
  <2>1. entries'[e] \in Nat
    BY <1>2
  <2> QED BY <1>1, <1>2, <2>1 DEF Jobs
<1>8. CASE entries'[e] # 0
  <2>1. PICK x \in sockets : /\ x.inode = entries'[e] /\ x.proto = kind' /\ x.end = e
                             /\ x.since <= refreshed'
                             /\ IsOpen(x) \/ x.closed >= refreshed'
    BY <1>1, <1>3, <1>8 DEF EntriesInv, IsOpen
  <2>2. x.since <= clock /\ x.closed \in Nat
    BY DEF SocketInv, KernelInv, Socket
  <2>3. ASSUME NEW s \in sockets, Overdue(s)' PROVE s = x
    <3>1. IsOpen(s) /\ s.proto = x.proto /\ s.end = x.end /\ s.since < refreshed'
      BY <1>6, <2>1, <2>3
    <3>2. ~Before(s, x)
      BY <3>1 DEF Before
    <3>3. ~Before(x, s)
      BY <1>2, <2>1, <2>2, <3>1 DEF Before
    <3> QED BY <3>1, <3>2, <3>3 DEF SocketInv, KernelInv
  <2>4. x.since <= clock
    BY <2>2
  <2>5. \A s \in sockets : Overdue(s)' => s.inode = job'.inode
    BY <1>7, <2>1, <2>3
  <2>6. /\ x.inode = job'.inode /\ x.end = job'.end /\ x.proto = job'.kind
        /\ x.since <= job'.at
    BY <1>7, <2>1, <2>4
  <2>7. finding'
    BY <1>1, <1>8, Zenon
  <2>9. job'.at <= clock
    BY <1>2, <1>7
  <2>8. JobInv'
    BY <1>1, <1>7, <2>5, <2>6, <2>7, <2>9 DEF JobInv
  <2> QED BY <1>3, <1>4, <1>5, <2>8 DEF SocketInv
<1>9. CASE entries'[e] = 0
  <2>1. Family[e] \notin unread' =>
          ~\E s \in sockets : /\ IsOpen(s) /\ s.proto = kind' /\ s.end = e
                              /\ s.since < refreshed'
    BY <1>1, <1>3, <1>9 DEF EntriesInv, IsOpen
  <2>2. \A s \in sockets : ~Overdue(s)'
    BY <1>6, <2>1
  <2>3. JobInv'
    <3>1. ~finding'
      BY <1>1, <1>9, Zenon
    <3>2. job'.at <= clock
      BY <1>2, <1>7
    <3> QED BY <1>1, <1>7, <2>2, <3>1, <3>2 DEF JobInv
  <2> QED BY <1>3, <1>4, <1>5, <2>3 DEF SocketInv
<1> QED BY <1>8, <1>9

\* The search for the owner: a socket that is still open has been there since
\* the table was read, and is found unless its owner cannot be looked into.
LEMMA FindKeeps ==
    ASSUME SocketInv, SocketAssumption, NEW hidden \in SUBSET Procs, FindPid(hidden)
    PROVE  SocketInv'
<1> DEFINE owners == {s.owner : s \in {x \in sockets : IsOpen(x) /\ x.inode = job.inode}}
<1> DEFINE searched == [job EXCEPT !.hidden = hidden]
<1>1. /\ finding /\ finding' = FALSE /\ clock' = clock /\ sockets' = sockets
      /\ entries' = entries /\ refreshed' = refreshed /\ kind' = kind /\ unread' = unread
      /\ \/ owners \ hidden = {} /\ job' = searched
         \/ \E p \in owners \ hidden : job' = [searched EXCEPT !.owner = p]
  BY DEF FindPid
<1>2. KernelInv' /\ EntriesInv'
  BY <1>1 DEF SocketInv, KernelInv, EntriesInv, Before, IsOpen
<1>3. /\ job \in Jobs
      /\ job.at <= clock /\ job.owner = NoProc /\ job.hidden = {}
      /\ \E s \in sockets : /\ s.inode = job.inode /\ s.end = job.end
                            /\ s.proto = job.kind /\ s.since <= job.at
      /\ \A s \in sockets : Overdue(s) => s.inode = job.inode
      /\ \A s, t \in sockets : s.inode = t.inode => s = t
  BY <1>1 DEF SocketInv, JobInv, KernelInv
<1>4. CASE owners \ hidden = {} /\ job' = searched
  <2>1. \A s \in sockets : IsOpen(s) /\ s.inode = job.inode => s.owner \in hidden
    BY <1>4
  <2>2. /\ job' \in Jobs /\ job'.hidden = hidden /\ job'.owner = job.owner
        /\ job'.at = job.at /\ job'.end = job.end /\ job'.kind = job.kind
        /\ job'.proto = job.proto /\ job'.unread = job.unread
    BY <1>3, <1>4 DEF Jobs
  <2>3. \A s \in sockets : ~Overdue(s)'
    BY <1>3, <2>1, <2>2 DEF Overdue, IsOpen
  <2>4. JobInv'
    BY <1>1, <1>3, <2>2, <2>3 DEF JobInv
  <2>5. SocketTypeOK'
    BY <1>1, <1>3, <2>2 DEF SocketInv, SocketTypeOK
  <2> QED BY <1>2, <2>4, <2>5 DEF SocketInv
<1>5. CASE \E p \in owners \ hidden : job' = [searched EXCEPT !.owner = p]
  <2>1. PICK x \in sockets : /\ IsOpen(x) /\ x.inode = job.inode
                             /\ job' = [searched EXCEPT !.owner = x.owner]
    BY <1>5
  <2>2. x.owner \in Procs
    BY DEF SocketInv, SocketTypeOK
  <2>3. /\ job' \in Jobs
        /\ job'.owner = x.owner /\ job'.at = job.at /\ job'.end = job.end
        /\ job'.kind = job.kind /\ job'.proto = job.proto
    BY <1>3, <2>1, <2>2 DEF Jobs
  <2>4. x.end = job.end /\ x.proto = job.kind /\ x.since <= job.at
    BY <1>3, <2>1
  <2>5. Held(job.kind)'
    BY <1>1, <2>1, <2>3, <2>4 DEF Held, IsOpen
  <2>6. job'.owner # NoProc
    BY <2>2, <2>3 DEF SocketAssumption
  <2>7. JobInv'
    BY <1>1, <1>3, <2>3, <2>5, <2>6 DEF JobInv
  <2>8. SocketTypeOK'
    BY <1>1, <2>2, <2>3 DEF SocketInv, SocketTypeOK
  <2> QED BY <1>2, <2>7, <2>8 DEF SocketInv
<1> QED BY <1>1, <1>4, <1>5

\* The process a packet is attributed to held the port when it was looked up,
\* in the protocol the table was read for, whatever of /proc could not be read;
\* and an older socket of that protocol is found if its file could be read when
\* the table was, and its owner's descriptors when they were searched
\* (lookup_socket_proc_linux, find_pid_for_inode).
THEOREM OwnerIsExact == SocketSpec => []OwnerExact
<1> USE SocketAssumption
<1>1. SocketInit => SocketInv
  <2> SUFFICES ASSUME SocketInit PROVE SocketInv
    OBVIOUS
  <2>1. /\ sockets = {} /\ clock = 2 * Interval /\ clock \in 0..MaxTime /\ clock > 0
        /\ refreshed = 0 /\ kind = "none" /\ finding = FALSE
        /\ unread = {}
        /\ entries \in [Ends -> {0}] /\ \A e \in Ends : entries[e] = 0
        /\ job = [proto |-> "other", end |-> 0, at |-> 0, kind |-> "none", unread |-> {},
                  inode |-> 0, hidden |-> {}, owner |-> NoProc]
    BY DEF SocketInit, SocketAssumption
  <2>2. IsFiniteSet(sockets) /\ Cardinality(sockets) = 0
    BY <2>1, FS_EmptySet
  <2>3. SocketTypeOK
    <3>1. entries \in [Ends -> 0..Cardinality(sockets)]
      BY <2>1, <2>2
    <3>2. refreshed \in 0..clock /\ Cardinality(sockets) <= MaxSockets
      BY <2>1, <2>2 DEF SocketAssumption
    <3> QED BY <2>1, <3>1, <3>2 DEF SocketTypeOK, Asked
  <2>4. KernelInv /\ EntriesInv
    BY <2>1, <2>2 DEF KernelInv, EntriesInv
  <2>5. JobInv
    BY <2>1 DEF JobInv, Jobs, Asked
  <2> QED BY <2>3, <2>4, <2>5 DEF SocketInv
<1>2. SocketInv /\ [SocketNext]_socketVars => SocketInv'
  <2> SUFFICES ASSUME SocketInv, [SocketNext]_socketVars PROVE SocketInv'
    OBVIOUS
  <2>1. CASE \E proto \in Protocols, e \in Ends, p \in Procs : OpenSocket(proto, e, p)
    BY <2>1, OpenKeeps
  <2>2. CASE \E s \in sockets : CloseSocket(s)
    BY <2>2, CloseKeeps
  <2>3. CASE Tick
    BY <2>3, TickKeeps
  <2>4. CASE \E proto \in Asked, e \in Ends, failed \in SUBSET Families :
                Lookup(proto, e, failed)
    BY <2>4, LookupKeeps
  <2>5. CASE \E hidden \in SUBSET Procs : FindPid(hidden)
    BY <2>5, FindKeeps
  <2>6. CASE UNCHANGED socketVars
    BY <2>6 DEF socketVars, SocketInv, SocketTypeOK, KernelInv, EntriesInv, JobInv,
                Before, Held, Overdue, IsOpen
  <2> QED BY <2>1, <2>2, <2>3, <2>4, <2>5, <2>6 DEF SocketNext
<1>3. SocketInv => OwnerExact
  BY DEF SocketInv, JobInv, Overdue, OwnerExact
<1> QED BY <1>1, <1>2, <1>3, PTL DEF SocketSpec

-----------------------------------------------------------------------------
(***************************************************************************)
(* The cache of identities.                                                *)
(***************************************************************************)
\* While an identity is worked out, what the file holds has been seen, and so
\* has the version its key was made from.
AskedInv ==
    /\ asked \in [path : Paths \cup {NoPath}, key : Versions \cup {NoFile},
                  idents : SUBSET (Versions \cup {Unreadable}),
                  seen : SUBSET (Versions \cup {NoFile})]
    /\ \A c \in cache : c.ident \in Versions \cup {Unreadable}
    /\ step # "link" => /\ asked.path \in Paths
                        /\ file[asked.path] \in asked.seen
                        /\ asked.idents = {}

IdentityInv == IdentityExact /\ AskedInv

\* A change of a file in between is seen.
LEMMA ReplaceKeeps ==
    ASSUME IdentityInv, IdentityAssumption, NEW x \in Paths,
           NEW v \in Versions \cup {NoFile}, Replace(x, v)
    PROVE  IdentityInv'
<1>1. /\ changes < MaxChanges /\ changes' = changes + 1
      /\ file' = [file EXCEPT ![x] = v]
      /\ image' = [image EXCEPT ![x] = IF @ = "intact" THEN "deleted" ELSE @]
      /\ asked' = IF step # "link" /\ asked.path = x
                  THEN [asked EXCEPT !.seen = @ \cup {v}] ELSE asked
      /\ cache' = cache /\ step' = step
  BY DEF Replace
<1>2. /\ asked'.path = asked.path /\ asked'.key = asked.key
      /\ asked'.idents = asked.idents /\ asked.seen \subseteq asked'.seen
      /\ step # "link" /\ asked.path = x => v \in asked'.seen
  BY <1>1 DEF IdentityInv, AskedInv
<1>3. AskedInv'
  <2>1. asked' \in [path : Paths \cup {NoPath}, key : Versions \cup {NoFile},
                    idents : SUBSET (Versions \cup {Unreadable}),
                    seen : SUBSET (Versions \cup {NoFile})]
    BY <1>1 DEF IdentityInv, AskedInv
  <2>2. step # "link" => file'[asked.path] \in asked'.seen
    BY <1>1, <1>2 DEF IdentityInv, AskedInv, IdentityExact, IdentityTypeOK
  <2> QED BY <1>1, <1>2, <2>1, <2>2 DEF IdentityInv, AskedInv
<1>4. IdentityTypeOK'
  <2>1. changes + 1 \in 0..MaxChanges
    BY <1>1 DEF IdentityInv, IdentityExact, IdentityTypeOK, IdentityAssumption
  <2>2. /\ image' \in [Paths -> {"none", "intact", "deleted"}]
        /\ file' \in [Paths -> Versions \cup {NoFile}]
    BY <1>1 DEF IdentityInv, IdentityExact, IdentityTypeOK
  <2> QED BY <1>1, <1>2, <2>1, <2>2 DEF IdentityInv, IdentityExact, IdentityTypeOK
<1>5. Torn(asked.path, asked.key)' <=> Torn(asked.path, asked.key)
  BY <1>1, <1>2 DEF Torn
<1> QED BY <1>2, <1>3, <1>4, <1>5 DEF IdentityInv, IdentityExact

\* The key is made from what the file holds now; a row under it tells that or
\* is torn.
LEMMA StatKeeps ==
    ASSUME IdentityInv, IdentityAssumption, Stat
    PROVE  IdentityInv'
<1> DEFINE key == file[asked.path]
<1> DEFINE hits == Cached(asked.path, key)
<1>1. /\ step = "stat" /\ image' = image /\ file' = file /\ cache' = cache
      /\ changes' = changes
      /\ \/ /\ hits = {} /\ asked' = [asked EXCEPT !.key = key] /\ step' = "hash"
         \/ \E i \in hits : /\ asked' = [asked EXCEPT !.key = key, !.idents = {i}]
                            /\ step' = "link"
  BY DEF Stat
<1>2. /\ asked.path \in Paths /\ key \in asked.seen /\ asked.idents = {}
      /\ key \in Versions \cup {NoFile}
      /\ asked \in [path : Paths \cup {NoPath}, key : Versions \cup {NoFile},
                    idents : SUBSET (Versions \cup {Unreadable}),
                    seen : SUBSET (Versions \cup {NoFile})]
  BY <1>1 DEF IdentityInv, AskedInv, IdentityExact, IdentityTypeOK
<1>3. CASE hits = {} /\ asked' = [asked EXCEPT !.key = key] /\ step' = "hash"
  <2>1. /\ asked'.path = asked.path /\ asked'.idents = {} /\ asked'.seen = asked.seen
    BY <1>2, <1>3
  <2>2. AskedInv'
    BY <1>1, <1>2, <1>3, <2>1 DEF IdentityInv, AskedInv
  <2>3. IdentityTypeOK'
    BY <1>1, <1>2, <1>3, <2>1 DEF IdentityInv, IdentityExact, IdentityTypeOK
  <2> QED BY <2>1, <2>2, <2>3 DEF IdentityInv, IdentityExact
<1>4. CASE \E i \in hits : /\ asked' = [asked EXCEPT !.key = key, !.idents = {i}]
                           /\ step' = "link"
  <2>1. PICK c \in cache : /\ c.path = asked.path /\ c.key = key
                           /\ asked' = [asked EXCEPT !.key = key, !.idents = {c.ident}]
                           /\ step' = "link"
    BY <1>4 DEF Cached
  <2>2. c.ident \in Versions \cup {Unreadable}
    BY DEF IdentityInv, AskedInv
  <2>3. /\ asked'.path = asked.path /\ asked'.key = key /\ asked'.idents = {c.ident}
        /\ asked'.seen = asked.seen
    BY <1>2, <2>1
  <2>4. AskedInv'
    BY <1>1, <1>2, <2>1, <2>2 DEF IdentityInv, AskedInv
  <2>5. IdentityTypeOK'
    BY <1>1, <1>2, <2>1, <2>2, <2>3 DEF IdentityInv, IdentityExact, IdentityTypeOK
  <2>6. asked'.idents \subseteq asked'.seen \cup {Unreadable}
        \/ Torn(asked.path, asked.key)'
    <3>1. CASE c.ident = key
      BY <1>2, <2>3, <3>1
    <3>2. CASE c.ident # key
      BY <1>1, <2>1, <2>3, <3>2 DEF Torn
    <3> QED BY <3>1, <3>2
  <2> QED BY <2>4, <2>5, <2>6 DEF IdentityInv, IdentityExact
<1> QED BY <1>1, <1>3, <1>4

\* What is computed is what the file holds by now, under whatever key.
LEMMA HashKeeps ==
    ASSUME IdentityInv, IdentityAssumption, Hash
    PROVE  IdentityInv'
<1>1. PICK ident \in {file[asked.path], Unreadable} :
         /\ asked' = [asked EXCEPT !.idents = {ident}]
         /\ cache' = IF asked.key = NoFile THEN cache
                     ELSE WithCached(asked.path, asked.key, ident)
  BY DEF Hash
<1>2. /\ step = "hash" /\ step' = "link" /\ image' = image /\ file' = file
      /\ changes' = changes
  BY DEF Hash
<1>3. /\ asked.path \in Paths /\ file[asked.path] \in asked.seen
      /\ ident \in Versions \cup {Unreadable} /\ asked.key \in Versions \cup {NoFile}
      /\ asked \in [path : Paths \cup {NoPath}, key : Versions \cup {NoFile},
                    idents : SUBSET (Versions \cup {Unreadable}),
                    seen : SUBSET (Versions \cup {NoFile})]
  BY <1>2 DEF IdentityInv, AskedInv, IdentityExact, IdentityTypeOK, NoFile, Unreadable
<1>4. /\ asked'.path = asked.path /\ asked'.idents = {ident}
      /\ asked'.seen = asked.seen
  BY <1>1, <1>3
<1> DEFINE row == [path |-> asked.path, key |-> asked.key, ident |-> ident]
<1>5. \A c \in cache' : \/ c \in cache
                        \/ c = row /\ asked.key # NoFile
  BY <1>1 DEF WithCached
<1>6. AskedInv'
  <2>1. \A c \in cache' : c.ident \in Versions \cup {Unreadable}
    BY <1>3, <1>5 DEF IdentityInv, AskedInv
  <2> QED BY <1>1, <1>2, <1>3, <2>1 DEF AskedInv
<1>7. IdentityTypeOK'
  <2>1. \A c \in cache' : c.path \in Paths /\ c.key \in Versions
    BY <1>3, <1>5 DEF IdentityInv, IdentityExact, IdentityTypeOK
  <2>2. ASSUME NEW c \in cache', NEW r \in cache', c.path = r.path, c.key = r.key
        PROVE  c = r
    <3>1. CASE asked.key = NoFile
      BY <1>1, <2>2, <3>1 DEF IdentityInv, IdentityExact, IdentityTypeOK
    <3>2. CASE asked.key # NoFile
      <4>1. \A d \in cache' : \/ d = row
                              \/ d \in cache /\ (d.path # asked.path \/ d.key # asked.key)
        BY <1>1, <3>2 DEF WithCached
      <4>2. CASE c = row \/ r = row
        BY <2>2, <4>1, <4>2
      <4>3. CASE c # row /\ r # row
        BY <2>2, <4>1, <4>3 DEF IdentityInv, IdentityExact, IdentityTypeOK
      <4> QED BY <4>2, <4>3
    <3> QED BY <3>1, <3>2
  <2> QED BY <1>2, <1>3, <1>4, <2>1, <2>2
          DEF IdentityInv, IdentityExact, IdentityTypeOK
<1>8. asked'.idents \subseteq asked'.seen \cup {Unreadable}
  BY <1>3, <1>4
<1> QED BY <1>6, <1>7, <1>8 DEF IdentityInv, IdentityExact

\* A new question forgets the last one; processes come and go.
LEMMA AskKeeps ==
    ASSUME IdentityInv, IdentityAssumption, NEW x \in Paths,
           Start(x) \/ Exit(x) \/ ReadExe(x)
    PROVE  IdentityInv'
<1>1. CASE Start(x) \/ Exit(x)
  <2>1. /\ file' = file /\ cache' = cache /\ asked' = asked /\ step' = step
        /\ changes' = changes
    BY <1>1 DEF Start, Exit
  <2>2. image' \in [Paths -> {"none", "intact", "deleted"}]
    BY <1>1 DEF Start, Exit, IdentityInv, IdentityExact, IdentityTypeOK
  <2> QED BY <2>1, <2>2 DEF IdentityInv, IdentityExact, IdentityTypeOK, AskedInv, Torn
<1>2. CASE ReadExe(x)
  <2>1. /\ image' = image /\ file' = file /\ cache' = cache /\ changes' = changes
        /\ step' \in {"link", "stat"}
        /\ \E i \in {{}, {Unreadable}}, s \in {{}, {file[x]}} :
              /\ asked' = [path |-> x, key |-> NoFile, idents |-> i, seen |-> s]
              /\ step' # "link" => i = {} /\ s = {file[x]}
    BY <1>2 DEF ReadExe
  <2>2. file[x] \in Versions \cup {NoFile}
    BY DEF IdentityInv, IdentityExact, IdentityTypeOK
  <2>3. asked'.path = x /\ asked'.idents \subseteq {Unreadable}
    BY <2>1
  <2>4. AskedInv'
    BY <2>1, <2>2 DEF IdentityInv, AskedInv
  <2>5. IdentityTypeOK'
    BY <2>1, <2>3 DEF IdentityInv, IdentityExact, IdentityTypeOK
  <2> QED BY <2>3, <2>4, <2>5 DEF IdentityInv, IdentityExact
<1> QED BY <1>1, <1>2

\* The identity of a binary is of a content it had while it was asked for,
\* through updates and rollbacks, unless its row in the cache is torn
\* (exe_path_for_pid, BinaryIdentity::identify).
THEOREM IdentityIsExact == IdentitySpec => []IdentityExact
<1> USE IdentityAssumption
<1>1. IdentityInit => IdentityInv
  BY DEF IdentityInit, IdentityInv, IdentityExact, IdentityTypeOK, AskedInv,
         IdentityAssumption
<1>2. IdentityInv /\ [IdentityNext]_identityVars => IdentityInv'
  <2> SUFFICES ASSUME IdentityInv, [IdentityNext]_identityVars PROVE IdentityInv'
    OBVIOUS
  <2>1. CASE \E x \in Paths : Start(x) \/ Exit(x) \/ ReadExe(x)
    BY <2>1, AskKeeps
  <2>2. CASE \E x \in Paths, v \in Versions \cup {NoFile} : Replace(x, v)
    BY <2>2, ReplaceKeeps
  <2>3. CASE Stat
    BY <2>3, StatKeeps
  <2>4. CASE Hash
    BY <2>4, HashKeeps
  <2>5. CASE UNCHANGED identityVars
    BY <2>5 DEF identityVars, IdentityInv, IdentityExact, IdentityTypeOK, AskedInv, Torn
  <2> QED BY <2>1, <2>2, <2>3, <2>4, <2>5 DEF IdentityNext
<1>3. IdentityInv => IdentityExact
  BY DEF IdentityInv
<1> QED BY <1>1, <1>2, <1>3, PTL DEF IdentitySpec

-----------------------------------------------------------------------------
(***************************************************************************)
(* Scans and sweeps.                                                       *)
(***************************************************************************)
ThreatSpec == ThreatInit /\ [][ThreatNext]_threatVars

ProbeEvent == [src : Sources, dst : {t[1] : t \in Targets},
               port : {t[2] : t \in Targets}, ts : Int]

\* The probes of a source, their times in order or not, and what is not left
\* behind by a later one.
Of(s) == {i \in DOMAIN past : past[i].src = s}
InOrder(s) == \A i, j \in Of(s) : i < j => past[i].ts <= past[j].ts
Lasts(i) == \A k \in Of(past[i].src) : k > i => past[i].ts >= past[k].ts - Window

Sorted(events) == \A i, j \in DOMAIN events : i < j => events[i].ts <= events[j].ts

\* A window holds probes of its source, all that last among them, in the order
\* of their times if the packets came in that order.
WindowInv ==
    /\ past \in Seq(ProbeEvent)
    /\ window \in [Sources -> Seq(ProbeEvent)]
    /\ \A s \in Sources :
         /\ \A e \in Elements(window[s]) : \E i \in Of(s) : e = past[i]
         /\ \A i \in Of(s) : Lasts(i) => past[i] \in Elements(window[s])
         /\ InOrder(s) => Sorted(window[s])

\* What the last probe was told is told of the window it left.
Told(events) ==
    LET ports == Busiest(events)
        hosts == Cardinality(HostsOf(events))
    IN  IF ports >= MinPorts THEN verdict = [kind |-> "port scan", count |-> ports]
        ELSE IF hosts >= MinHosts THEN verdict = [kind |-> "host sweep", count |-> hosts]
        ELSE verdict.kind \in {"none", "rare"}

VerdictInv ==
    /\ probed \in BOOLEAN
    /\ Len(past) <= MaxProbes
    /\ verdict.kind \in {"none", "port scan", "host sweep", "rare"}
    /\ ~probed => verdict.kind \in {"none", "rare"}
    /\ probed => /\ past # <<>>
                 /\ Told(Elements(window[LastProbe.src]))
                 /\ InOrder(LastProbe.src) =>
                      \A e \in Elements(window[LastProbe.src]) :
                          e.ts >= LastProbe.ts - Window

ThreatInv == WindowInv /\ VerdictInv

-----------------------------------------------------------------------------
(***************************************************************************)
(* Counting.                                                               *)
(***************************************************************************)

\* A nonempty set of naturals has a least element, and a largest if bounded.
LEMMA Extremes ==
    ASSUME NEW T, T \subseteq Nat, T # {}
    PROVE  /\ \E x \in T : \A y \in T : x <= y
           /\ \A n \in Nat : (\A y \in T : y <= n) => \E x \in T : \A y \in T : y <= x
<1>1. ASSUME NEW S, S \subseteq Nat, S # {} PROVE \E x \in S : \A y \in S : x <= y
  <2>1. \E x \in S : \A y \in S : ~ (<<y, x>> \in OpToRel(<, Nat))
    BY <1>1, WFMin, NatLessThanWellFounded
  <2>2. \A x \in S, y \in S : ~ (<<y, x>> \in OpToRel(<, Nat)) => x <= y
    BY <1>1 DEF OpToRel
  <2> QED BY <2>1, <2>2
<1>2. ASSUME NEW n \in Nat, \A y \in T : y <= n
      PROVE  \E x \in T : \A y \in T : y <= x
  <2> DEFINE B == {n - y : y \in T}
  <2>1. B \subseteq Nat /\ B # {}
    <3>1. \A y \in T : y \in Nat /\ y <= n
      BY <1>2
    <3>2. \A y \in T : n - y \in Nat
      BY <3>1
    <3> QED BY <3>2
  <2>2. PICK b \in B : \A c \in B : b <= c
    BY <1>1, <2>1
  <2>3. PICK x \in T : b = n - x
    BY <2>2
  <2>4. \A y \in T : n - x <= n - y
    BY <2>2, <2>3
  <2>5. \A y \in T : y <= x
    BY <1>2, <2>4
  <2> QED BY <2>5
<1> QED BY <1>1, <1>2

\* The elements of a sequence are finitely many.
LEMMA ElementsFinite ==
    ASSUME NEW S, NEW seq \in Seq(S)
    PROVE  IsFiniteSet(Elements(seq)) /\ Elements(seq) \subseteq S
<1>1. Len(seq) \in Nat /\ DOMAIN seq = 1..Len(seq) /\ \A i \in 1..Len(seq) : seq[i] \in S
  BY LenProperties, ElementOfSeq
<1> DEFINE f == [i \in 1..Len(seq) |-> seq[i]]
<1>2. f \in Surjection(1..Len(seq), Elements(seq))
  BY <1>1 DEF Surjection, Elements
<1>3. IsFiniteSet(1..Len(seq))
  BY <1>1, FS_Interval
<1> QED BY <1>1, <1>2, <1>3, FS_Surjection DEF Elements

\* Hosts and ports of finitely many probes are finitely many.
LEMMA CountsFinite ==
    ASSUME NEW E, IsFiniteSet(E)
    PROVE  /\ IsFiniteSet(HostsOf(E)) /\ Cardinality(HostsOf(E)) \in Nat
           /\ \A d : /\ IsFiniteSet(PortsOf(E, d))
                     /\ Cardinality(PortsOf(E, d)) \in Nat
                     /\ Cardinality(PortsOf(E, d)) <= Cardinality(E)
           /\ Cardinality(E) \in Nat
<1>1. IsFiniteSet(HostsOf(E))
  <2> DEFINE f == [e \in E |-> e.dst]
  <2>1. f \in Surjection(E, HostsOf(E))
    BY DEF Surjection, HostsOf
  <2> QED BY <2>1, FS_Surjection
<1>2. ASSUME NEW d
      PROVE  IsFiniteSet(PortsOf(E, d)) /\ Cardinality(PortsOf(E, d)) <= Cardinality(E)
  <2> DEFINE F == {x \in E : x.dst = d}
  <2> DEFINE f == [e \in F |-> e.port]
  <2>1. IsFiniteSet(F) /\ Cardinality(F) <= Cardinality(E)
    BY FS_Subset
  <2>2. f \in Surjection(F, PortsOf(E, d))
    BY DEF Surjection, PortsOf
  <2>3. IsFiniteSet(PortsOf(E, d)) /\ Cardinality(PortsOf(E, d)) <= Cardinality(F)
    BY <2>1, <2>2, FS_Surjection
  <2>4. /\ Cardinality(F) \in Nat /\ Cardinality(E) \in Nat
        /\ Cardinality(PortsOf(E, d)) \in Nat
    BY <2>1, <2>3, FS_CardinalityType
  <2> QED BY <2>1, <2>3, <2>4
<1> QED BY <1>1, <1>2, FS_CardinalityType

\* busiest_dst is the count of some host, and of none less.
LEMMA BusiestMax ==
    ASSUME NEW E, IsFiniteSet(E), E # {}
    PROVE  /\ Busiest(E) \in Nat
           /\ \E d \in HostsOf(E) : Busiest(E) = Cardinality(PortsOf(E, d))
           /\ \A d \in HostsOf(E) : Cardinality(PortsOf(E, d)) <= Busiest(E)
<1> DEFINE C == {Cardinality(PortsOf(E, d)) : d \in HostsOf(E)}
<1>1. HostsOf(E) # {}
  BY DEF HostsOf
<1>2. C \subseteq Nat /\ C # {} /\ Cardinality(E) \in Nat /\ \A c \in C : c <= Cardinality(E)
  BY <1>1, CountsFinite
<1>3. \E n \in C : \A m \in C : m <= n
  BY <1>2, Extremes
<1>4. Busiest(E) = CHOOSE n \in C : \A m \in C : m <= n
  BY DEF Busiest
<1>5. Busiest(E) \in C /\ \A m \in C : m <= Busiest(E)
  BY <1>3, <1>4
<1> QED BY <1>2, <1>5

\* More probes make no count smaller.
LEMMA CountsGrow ==
    ASSUME NEW E, IsFiniteSet(E), NEW F, F \subseteq E, F # {}
    PROVE  /\ Busiest(F) <= Busiest(E)
           /\ Cardinality(HostsOf(F)) <= Cardinality(HostsOf(E))
           /\ Busiest(F) \in Nat /\ Busiest(E) \in Nat
           /\ Cardinality(HostsOf(F)) \in Nat /\ Cardinality(HostsOf(E)) \in Nat
<1>1. IsFiniteSet(F) /\ E # {}
  BY FS_Subset
<1>2. HostsOf(F) \subseteq HostsOf(E) /\ \A d : PortsOf(F, d) \subseteq PortsOf(E, d)
  BY DEF HostsOf, PortsOf
<1>3. PICK d \in HostsOf(F) : Busiest(F) = Cardinality(PortsOf(F, d))
  BY <1>1, BusiestMax
<1>4. Cardinality(PortsOf(F, d)) <= Cardinality(PortsOf(E, d))
  BY <1>2, CountsFinite, FS_Subset
<1>5. Cardinality(PortsOf(E, d)) <= Busiest(E)
  BY <1>1, <1>2, BusiestMax
<1>6. /\ Cardinality(PortsOf(F, d)) \in Nat /\ Cardinality(PortsOf(E, d)) \in Nat
      /\ Busiest(E) \in Nat
  BY <1>1, CountsFinite, BusiestMax
<1>7. Busiest(F) <= Busiest(E)
  BY <1>3, <1>4, <1>5, <1>6
<1>8. Cardinality(HostsOf(F)) <= Cardinality(HostsOf(E))
  BY <1>2, CountsFinite, FS_Subset
<1> QED BY <1>1, <1>3, <1>6, <1>7, <1>8, CountsFinite

-----------------------------------------------------------------------------
(***************************************************************************)
(* The window.                                                             *)
(***************************************************************************)

\* Pruning keeps a tail that begins with a probe recent enough; what it drops
\* is too old.
LEMMA PrunedTail ==
    ASSUME ThreatAssumption, NEW events \in Seq(ProbeEvent), events # <<>>, NEW now,
           events[Len(events)].ts = now
    PROVE  LET kept == Pruned(events, now)
           IN  /\ kept \in Seq(ProbeEvent) /\ kept # <<>>
               /\ Elements(kept) \subseteq Elements(events)
               /\ \A e \in Elements(events) : e.ts >= now - Window => e \in Elements(kept)
               /\ Sorted(events) => /\ Sorted(kept)
                                    /\ \A e \in Elements(kept) : e.ts >= now - Window
<1> DEFINE n == Len(events)
<1> DEFINE kept == Pruned(events, now)
<1>1. /\ n \in Nat \ {0} /\ DOMAIN events = 1..n
      /\ \A i \in 1..n : events[i] \in ProbeEvent /\ events[i].ts \in Int
      /\ now \in Int /\ Window \in Nat
  <2>1. n \in Nat /\ DOMAIN events = 1..n /\ n # 0
    BY LenProperties, EmptySeq
  <2>2. \A i \in 1..n : events[i] \in ProbeEvent /\ events[i].ts \in Int
    <3> TAKE i \in 1..n
    <3>1. events[i] \in ProbeEvent
      BY ElementOfSeq
    <3> QED BY <3>1 DEF ProbeEvent
  <2>3. n \in 1..n
    BY <2>1
  <2> QED BY <2>1, <2>2, <2>3 DEF ThreatAssumption
<1> DEFINE Good(i) == /\ events[i].ts >= now - Window
                      /\ \A j \in 1..(i - 1) : events[j].ts < now - Window
<1>2. \E i \in 1..n : Good(i)
  <2> DEFINE T == {i \in 1..n : events[i].ts >= now - Window}
  <2>1. n \in T /\ T \subseteq Nat
    BY <1>1
  <2>2. PICK i \in T : \A j \in T : i <= j
    BY <2>1, Extremes
  <2>3. \A j \in 1..(i - 1) : events[j].ts < now - Window
    <3> TAKE j \in 1..(i - 1)
    <3>1. j \in 1..n /\ j \notin T
      BY <1>1, <2>2
    <3> QED BY <1>1, <3>1
  <2> QED BY <2>2, <2>3
<1> DEFINE first == CHOOSE i \in 1..n : Good(i)
<1>3. first \in 1..n /\ Good(first)
  BY <1>2
<1>4. kept = SubSeq(events, first, n)
  BY DEF Pruned
<1> HIDE DEF first
<1>5. /\ kept \in Seq(ProbeEvent) /\ Len(kept) = n - first + 1
      /\ \A i \in 1..(n - first + 1) : kept[i] = events[first + i - 1]
  <2>1. \A i \in first..n : events[i] \in ProbeEvent
    BY <1>1, <1>3
  <2>2. first \in Int /\ n \in Int /\ first <= n
    BY <1>1, <1>3
  <2>3. /\ SubSeq(events, first, n) \in Seq(ProbeEvent)
        /\ Len(SubSeq(events, first, n)) = n - first + 1
        /\ \A i \in 1..(n - first + 1) :
              SubSeq(events, first, n)[i] = events[first + i - 1]
    BY <2>1, <2>2, SubSeqProperties
  <2> QED BY <1>4, <2>3
<1> HIDE DEF kept
<1>6. /\ Len(kept) \in Nat \ {0} /\ DOMAIN kept = 1..Len(kept)
      /\ \A i \in 1..Len(kept) : first + i - 1 \in first..n /\ kept[i] = events[first + i - 1]
      /\ \A j \in first..n : \E i \in 1..Len(kept) : kept[i] = events[j]
  <2>1. /\ Len(kept) \in Nat \ {0} /\ DOMAIN kept = 1..Len(kept)
        /\ \A i \in 1..Len(kept) : first + i - 1 \in first..n
        /\ \A i \in 1..Len(kept) : kept[i] = events[first + i - 1]
    BY <1>1, <1>3, <1>5, LenProperties
  <2>2. ASSUME NEW j \in first..n
        PROVE  j - first + 1 \in 1..Len(kept) /\ first + (j - first + 1) - 1 = j
    BY <1>1, <1>3, <1>5
  <2> QED BY <2>1, <2>2
<1>7. kept # <<>>
  BY <1>6, EmptySeq
<1>8. Elements(kept) \subseteq Elements(events)
  <2>1. first..n \subseteq 1..n
    BY <1>1, <1>3
  <2> QED BY <1>1, <1>6, <2>1 DEF Elements
<1>9. ASSUME NEW e \in Elements(events), e.ts >= now - Window PROVE e \in Elements(kept)
  <2>1. PICK j \in 1..n : e = events[j]
    BY <1>1 DEF Elements
  <2>2. j \in first..n
    BY <1>1, <1>3, <1>9, <2>1
  <2> QED BY <1>6, <2>1, <2>2 DEF Elements
<1>10. ASSUME Sorted(events)
       PROVE  Sorted(kept) /\ \A e \in Elements(kept) : e.ts >= now - Window
  <2>1. ASSUME NEW i \in 1..Len(kept), NEW j \in 1..Len(kept), i < j
        PROVE  kept[i].ts <= kept[j].ts
    <3>1. /\ first + i - 1 \in 1..n /\ first + j - 1 \in 1..n
          /\ first + i - 1 < first + j - 1
      BY <1>1, <1>3, <1>6, <2>1
    <3> QED BY <1>1, <1>6, <1>10, <3>1 DEF Sorted
  <2>2. ASSUME NEW i \in 1..Len(kept) PROVE kept[i].ts >= now - Window
    <3>1. first + i - 1 \in 1..n /\ kept[i] = events[first + i - 1]
      <4>1. first + i - 1 \in first..n /\ kept[i] = events[first + i - 1]
        BY <1>6
      <4>2. first..n \subseteq 1..n
        BY <1>1, <1>3
      <4> QED BY <4>1, <4>2
    <3>2. events[first].ts <= events[first + i - 1].ts
      <4>1. CASE i = 1
        BY <1>1, <1>3, <4>1
      <4>2. CASE i # 1
        BY <1>1, <1>3, <1>10, <3>1, <4>2, SMTT(30) DEF Sorted
      <4> QED BY <4>1, <4>2
    <3> QED BY <1>1, <1>3, <3>1, <3>2
  <2> QED BY <1>6, <2>1, <2>2 DEF Sorted, Elements
<1> QED BY <1>5, <1>7, <1>8, <1>9, <1>10 DEF kept


\* A probe appended to what was heard.
LEMMA PastAfter ==
    ASSUME NEW q \in ProbeEvent, past \in Seq(ProbeEvent), past' = Append(past, q)
    PROVE  /\ past' \in Seq(ProbeEvent) /\ past' # <<>>
           /\ Len(past) \in Nat /\ Len(past') = Len(past) + 1
           /\ DOMAIN past = 1..Len(past) /\ DOMAIN past' = 1..(Len(past) + 1)
           /\ \A i \in 1..Len(past) : past'[i] = past[i] /\ past[i] \in ProbeEvent
           /\ past'[Len(past) + 1] = q
           /\ LastProbe' = q
           /\ \A s : Of(s)' = IF s = q.src THEN Of(s) \cup {Len(past) + 1} ELSE Of(s)
<1> DEFINE n == Len(past)
<1>1. /\ past' \in Seq(ProbeEvent) /\ past' # <<>> /\ n \in Nat /\ Len(past') = n + 1
      /\ DOMAIN past = 1..n /\ DOMAIN past' = 1..(n + 1)
      /\ \A i \in 1..n : past'[i] = past[i]
      /\ past'[n + 1] = q
  BY AppendProperties, LenProperties
<1>2. \A i \in 1..n : past[i] \in ProbeEvent
  BY ElementOfSeq
<1>3. ASSUME NEW s
      PROVE  Of(s)' = IF s = q.src THEN Of(s) \cup {n + 1} ELSE Of(s)
  <2>1. \A i \in 1..n : i \in Of(s)' <=> i \in Of(s)
    <3> TAKE i \in 1..n
    <3>1. i \in 1..(n + 1) /\ past'[i] = past[i]
      BY <1>1
    <3> QED BY <1>1, <3>1 DEF Of
  <2>2. n + 1 \in Of(s)' <=> s = q.src
    BY <1>1 DEF Of
  <2>3. /\ Of(s) \subseteq 1..n /\ Of(s)' \subseteq 1..(n + 1)
        /\ 1..(n + 1) = 1..n \cup {n + 1} /\ n + 1 \notin 1..n
    <3>1. 1..(n + 1) = 1..n \cup {n + 1} /\ n + 1 \notin 1..n
      BY <1>1
    <3> QED BY <1>1, <3>1 DEF Of
  <2>4. CASE s = q.src
    <3>1. Of(s)' = Of(s) \cup {n + 1}
      BY <2>1, <2>2, <2>3, <2>4
    <3> QED BY <2>4, <3>1
  <2>5. CASE s # q.src
    <3>1. Of(s)' = Of(s)
      BY <2>1, <2>2, <2>3, <2>5
    <3> QED BY <2>5, <3>1
  <2> QED BY <2>4, <2>5
<1> QED BY <1>1, <1>2, <1>3 DEF LastProbe

\* A probe of one source leaves what is known of the others.
LEMMA OthersStay ==
    ASSUME NEW q \in ProbeEvent, WindowInv, past' = Append(past, q),
           NEW s \in Sources, s # q.src, window'[s] = window[s]
    PROVE  /\ \A e \in Elements(window[s])' : \E i \in Of(s)' : e = past'[i]
           /\ \A i \in Of(s)' : Lasts(i)' => past'[i] \in Elements(window[s])'
           /\ InOrder(s)' => Sorted(window[s])'
<1>1. past \in Seq(ProbeEvent)
  BY DEF WindowInv
<1>2. /\ Of(s)' = Of(s) /\ Of(s) \subseteq 1..Len(past)
      /\ \A i \in 1..Len(past) : past'[i] = past[i]
  BY <1>1, PastAfter DEF Of
<1>3. \A i \in Of(s) : past[i].src = s /\ past'[i] = past[i]
  BY <1>2 DEF Of
<1>4. \A i \in Of(s) : Lasts(i)' => Lasts(i)
  BY <1>2, <1>3 DEF Lasts
<1>5. InOrder(s)' => InOrder(s)
  BY <1>2, <1>3 DEF InOrder
<1>6. Elements(window[s])' = Elements(window[s]) /\ (Sorted(window[s])' <=> Sorted(window[s]))
  BY DEF Elements, Sorted
<1> QED BY <1>2, <1>3, <1>4, <1>5, <1>6 DEF WindowInv

\* A probe enters the window of its source, and what it leaves behind goes.
LEMMA SourceFollows ==
    ASSUME NEW q \in ProbeEvent, WindowInv, ThreatAssumption, past' = Append(past, q),
           NEW s \in Sources, s = q.src,
           window'[s] = Pruned(Append(window[s], q), q.ts)
    PROVE  /\ window'[s] \in Seq(ProbeEvent) /\ window'[s] # <<>>
           /\ \A e \in Elements(window[s])' : \E i \in Of(s)' : e = past'[i]
           /\ \A i \in Of(s)' : Lasts(i)' => past'[i] \in Elements(window[s])'
           /\ InOrder(s)' => /\ Sorted(window[s])'
                             /\ \A e \in Elements(window[s])' : e.ts >= q.ts - Window
<1> DEFINE n == Len(past)
<1> DEFINE old == window[s]
<1> DEFINE events == Append(old, q)
<1> DEFINE kept == Pruned(events, q.ts)
<1>1. /\ past \in Seq(ProbeEvent) /\ old \in Seq(ProbeEvent) /\ Window \in Nat
      /\ q.ts \in Int
      /\ \A e \in Elements(old) : \E i \in Of(s) : e = past[i]
      /\ \A i \in Of(s) : Lasts(i) => past[i] \in Elements(old)
      /\ InOrder(s) => Sorted(old)
  BY DEF WindowInv, ThreatAssumption, ProbeEvent
<1>2. /\ n \in Nat /\ Of(s)' = Of(s) \cup {n + 1} /\ Of(s) \subseteq 1..n
      /\ \A i \in 1..n : past'[i] = past[i] /\ past[i].ts \in Int
      /\ past'[n + 1] = q
  <2>1. Of(s) \subseteq 1..n
    BY <1>1, PastAfter DEF Of
  <2>2. \A i \in 1..n : past[i].ts \in Int
    BY <1>1, PastAfter DEF ProbeEvent
  <2> QED BY <1>1, <2>1, <2>2, PastAfter
<1>3. /\ events \in Seq(ProbeEvent) /\ events # <<>> /\ Len(old) \in Nat
      /\ Len(events) = Len(old) + 1 /\ DOMAIN events = 1..(Len(old) + 1)
      /\ DOMAIN old = 1..Len(old)
      /\ \A i \in 1..Len(old) : events[i] = old[i]
      /\ events[Len(old) + 1] = q
  BY <1>1, AppendProperties, LenProperties
<1>4. Elements(events) = Elements(old) \cup {q}
  <2>1. 1..(Len(old) + 1) = 1..Len(old) \cup {Len(old) + 1}
    BY <1>3
  <2>2. \A e \in Elements(events) : e \in Elements(old) \cup {q}
    BY <1>3, <2>1 DEF Elements
  <2>3. \A e \in Elements(old) : e \in Elements(events)
    <3> SUFFICES ASSUME NEW i \in 1..Len(old) PROVE old[i] \in Elements(events)
      BY <1>3 DEF Elements
    <3>1. i \in 1..(Len(old) + 1) /\ events[i] = old[i]
      BY <1>3
    <3> QED BY <1>3, <3>1 DEF Elements
  <2>4. q \in Elements(events)
    BY <1>3, <2>1 DEF Elements
  <2> QED BY <2>2, <2>3, <2>4
<1>5. events[Len(events)].ts = q.ts
  BY <1>3
<1>6. /\ kept \in Seq(ProbeEvent) /\ kept # <<>>
      /\ Elements(kept) \subseteq Elements(events)
      /\ \A e \in Elements(events) : e.ts >= q.ts - Window => e \in Elements(kept)
      /\ Sorted(events) => /\ Sorted(kept)
                           /\ \A e \in Elements(kept) : e.ts >= q.ts - Window
  <2> HIDE DEF events
  <2> QED BY <1>3, <1>5, PrunedTail
<1>7. window'[s] = kept /\ Elements(window[s])' = Elements(kept)
      /\ (Sorted(window[s])' <=> Sorted(kept))
  <2>1. window'[s] = kept
    OBVIOUS
  <2> HIDE DEF kept
  <2> QED BY <2>1 DEF Elements, Sorted
<1> HIDE DEF kept, events
<1>8. ASSUME NEW e \in Elements(kept) PROVE \E i \in Of(s)' : e = past'[i]
  <2>1. CASE e \in Elements(old)
    BY <1>1, <1>2, <2>1
  <2>2. CASE e = q
    BY <1>2, <2>2
  <2> QED BY <1>4, <1>6, <1>8, <2>1, <2>2
<1>9. ASSUME NEW i \in Of(s)', Lasts(i)' PROVE past'[i] \in Elements(kept)
  <2>1. CASE i = n + 1
    <3>1. q.ts >= q.ts - Window
      BY <1>1
    <3> QED BY <1>2, <1>4, <1>6, <2>1, <3>1
  <2>2. CASE i \in Of(s)
    <3>1. i \in 1..n /\ past'[i] = past[i] /\ past[i].src = s
      BY <1>2, <2>2 DEF Of
    <3>2. \A k \in Of(s)' : k > i => past'[i].ts >= past'[k].ts - Window
      BY <1>9, <3>1 DEF Lasts
    <3>3. past[i].ts >= q.ts - Window
      <4>1. n + 1 \in Of(s)' /\ n + 1 > i
        BY <1>2, <3>1
      <4> QED BY <1>2, <3>1, <3>2, <4>1
    <3>4. Lasts(i)
      <4>1. \A k \in Of(s) : k \in Of(s)' /\ past'[k] = past[k]
        BY <1>2
      <4>2. \A k \in Of(s) : k > i => past[i].ts >= past[k].ts - Window
        BY <3>1, <3>2, <4>1
      <4> QED BY <3>1, <4>2 DEF Lasts
    <3>5. past[i] \in Elements(events)
      BY <1>1, <1>4, <2>2, <3>4
    <3> QED BY <1>6, <3>1, <3>3, <3>5
  <2> QED BY <1>2, <2>1, <2>2
<1>10. ASSUME InOrder(s)' PROVE Sorted(events)
  <2>1. \A k \in Of(s) : k \in Of(s)' /\ past'[k] = past[k]
    BY <1>2
  <2>2. \A i, j \in Of(s)' : i < j => past'[i].ts <= past'[j].ts
    BY <1>10 DEF InOrder
  <2>3. InOrder(s)
    BY <2>1, <2>2 DEF InOrder
  <2>4. \A i \in Of(s) : past[i].ts <= q.ts
    <3> TAKE i \in Of(s)
    <3>1. n + 1 \in Of(s)' /\ i < n + 1
      BY <1>2
    <3> QED BY <1>2, <2>1, <2>2, <3>1
  <2>5. \A e \in Elements(old) : e.ts <= q.ts
    BY <1>1, <2>4
  <2>6. ASSUME NEW i \in 1..(Len(old) + 1), NEW j \in 1..(Len(old) + 1), i < j
        PROVE  events[i].ts <= events[j].ts
    <3>1. i \in 1..Len(old)
      BY <1>3, <2>6
    <3>2. CASE j \in 1..Len(old)
      BY <1>1, <1>3, <2>3, <2>6, <3>1, <3>2 DEF Sorted
    <3>3. CASE j = Len(old) + 1
      BY <1>3, <2>5, <3>1, <3>3 DEF Elements
    <3>4. Len(old) \in Nat
      BY <1>3
    <3>5. j \in 1..Len(old) \/ j = Len(old) + 1
      <4> HIDE DEF old
      <4> QED BY <3>4
    <3> QED BY <3>2, <3>3, <3>5
  <2> QED BY <1>3, <2>6 DEF Sorted
<1> QED BY <1>6, <1>7, <1>8, <1>9, <1>10


-----------------------------------------------------------------------------
(***************************************************************************)
(* The theorem.                                                            *)
(***************************************************************************)

\* A probe keeps the windows, and is judged by the one it is in.
LEMMA ProbeKeeps ==
    ASSUME ThreatInv, ThreatAssumption, NEW src \in Sources, NEW target \in Targets,
           NEW ts \in Times, NEW clear \in BOOLEAN, Probe(src, target, ts, clear)
    PROVE  ThreatInv'
<1> DEFINE q == [src |-> src, dst |-> target[1], port |-> target[2], ts |-> ts]
<1> DEFINE kept == Pruned(Append(window[src], q), ts)
<1>1. /\ q \in ProbeEvent /\ q.src = src /\ q.ts = ts
  BY DEF ProbeEvent, ThreatAssumption
<1>2. /\ Len(past) < MaxProbes /\ probed' = TRUE
      /\ past' = Append(past, q)
      /\ window' = [window EXCEPT ![src] = kept]
      /\ verdict' = IF Busiest(Elements(kept)) >= MinPorts
                    THEN [kind |-> "port scan", count |-> Busiest(Elements(kept))]
                    ELSE IF Cardinality(HostsOf(Elements(kept))) >= MinHosts
                    THEN [kind |-> "host sweep",
                          count |-> Cardinality(HostsOf(Elements(kept)))]
                    ELSE Exposed(target, clear)
  BY DEF Probe
<1> HIDE DEF q
<1>3. /\ WindowInv /\ past \in Seq(ProbeEvent)
      /\ window \in [Sources -> Seq(ProbeEvent)]
  BY DEF ThreatInv, WindowInv
<1>4. window'[src] = kept /\ \A s \in Sources : s # src => window'[s] = window[s]
  BY <1>2, <1>3
<1>5. /\ window'[src] \in Seq(ProbeEvent) /\ window'[src] # <<>>
      /\ \A e \in Elements(window[src])' : \E i \in Of(src)' : e = past'[i]
      /\ \A i \in Of(src)' : Lasts(i)' => past'[i] \in Elements(window[src])'
      /\ InOrder(src)' => /\ Sorted(window[src])'
                          /\ \A e \in Elements(window[src])' : e.ts >= q.ts - Window
  BY <1>1, <1>2, <1>3, <1>4, SourceFollows
<1>6. /\ past' \in Seq(ProbeEvent) /\ past' # <<>> /\ LastProbe' = q
      /\ Len(past) \in Nat /\ Len(past') = Len(past) + 1
  BY <1>1, <1>2, <1>3, PastAfter
<1> HIDE DEF kept
<1>7. window' \in [Sources -> Seq(ProbeEvent)]
  <2>1. kept \in Seq(ProbeEvent)
    BY <1>4, <1>5
  <2> QED BY <1>2, <1>3, <2>1
<1>8. ASSUME NEW s \in Sources
      PROVE  /\ \A e \in Elements(window[s])' : \E i \in Of(s)' : e = past'[i]
             /\ \A i \in Of(s)' : Lasts(i)' => past'[i] \in Elements(window[s])'
             /\ InOrder(s)' => Sorted(window[s])'
  <2>1. CASE s = src
    BY <1>5, <2>1
  <2>2. CASE s # src
    BY <1>1, <1>2, <1>3, <1>4, <2>2, OthersStay
  <2> QED BY <2>1, <2>2
<1>9. WindowInv'
  BY <1>6, <1>7, <1>8 DEF WindowInv
<1>10. VerdictInv'
  <2>1. Exposed(target, clear).kind \in {"none", "rare"}
    BY DEF Exposed, Benign
  <2>2. Elements(window[LastProbe.src])' = Elements(kept)
    <3>1. LastProbe'.src = src
      BY <1>1, <1>6
    <3> QED BY <1>4, <3>1 DEF Elements
  <2>3. Told(Elements(window[LastProbe.src]))'
    BY <1>2, <2>1, <2>2 DEF Told
  <2>4. verdict'.kind \in {"none", "port scan", "host sweep", "rare"}
    BY <1>2, <2>1
  <2>5. InOrder(LastProbe.src)' =>
           \A e \in Elements(window[LastProbe.src])' : e.ts >= LastProbe'.ts - Window
    <3>1. LastProbe'.src = src /\ LastProbe' = q
      BY <1>1, <1>6
    <3>2. Elements(window[src])' = Elements(window[LastProbe.src])'
      BY <3>1
    <3>3. InOrder(LastProbe.src)' => InOrder(src)'
      BY <3>1
    <3> QED BY <1>5, <3>1, <3>2, <3>3
  <2>6. Len(past') <= MaxProbes
    <3>1. Len(past) \in Nat /\ MaxProbes \in Nat /\ Len(past) < MaxProbes
      BY <1>2, <1>6 DEF ThreatAssumption
    <3>2. Len(past') = Len(past) + 1
      BY <1>6
    <3> QED BY <3>1, <3>2
  <2> QED BY <1>2, <1>6, <2>3, <2>4, <2>5, <2>6 DEF VerdictInv
<1> QED BY <1>9, <1>10 DEF ThreatInv

\* Any other packet touches no window and is no scan.
LEMMA OtherKeeps ==
    ASSUME ThreatInv, NEW target, NEW clear, Other(target, clear)
    PROVE  ThreatInv'
<1>1. /\ window' = window /\ past' = past /\ probed' = FALSE
      /\ verdict' = Exposed(target, clear)
  BY DEF Other
<1>2. verdict'.kind \in {"none", "rare"}
  BY <1>1 DEF Exposed, Benign
<1>3. WindowInv'
  BY <1>1 DEF ThreatInv, WindowInv, Of, Lasts, InOrder, Elements, Sorted
<1>4. VerdictInv'
  BY <1>1, <1>2 DEF ThreatInv, VerdictInv
<1> QED BY <1>3, <1>4 DEF ThreatInv

\* What the windows hold is enough for the scans and sweeps there are, and
\* exact while times go forward.
LEMMA WindowTells ==
    ASSUME ThreatInv, ThreatAssumption, probed
    PROVE  LET E == Elements(window[LastProbe.src])
           IN  /\ IsFiniteSet(E) /\ Lasting \subseteq E /\ Lasting # {}
               /\ Ordered => Recent = E
<1> DEFINE s == LastProbe.src
<1> DEFINE n == Len(past)
<1> DEFINE E == Elements(window[s])
<1>1. /\ past \in Seq(ProbeEvent) /\ past # <<>> /\ window \in [Sources -> Seq(ProbeEvent)]
      /\ Window \in Nat
  BY DEF ThreatInv, WindowInv, VerdictInv, ThreatAssumption
<1>2. /\ n \in Nat \ {0} /\ n \in 1..n /\ DOMAIN past = 1..n
      /\ \A i \in 1..n : past[i].ts \in Int /\ past[i].src \in Sources
  <2>1. n \in Nat \ {0} /\ DOMAIN past = 1..n
    BY <1>1, LenProperties, EmptySeq
  <2>2. ASSUME NEW i \in 1..n PROVE past[i].ts \in Int /\ past[i].src \in Sources
    <3>1. past[i] \in ProbeEvent
      BY <1>1, ElementOfSeq
    <3> QED BY <3>1 DEF ProbeEvent
  <2> QED BY <2>1, <2>2
<1>3. s \in Sources /\ SameSource = Of(s) /\ n \in Of(s) /\ Of(s) \subseteq 1..n
  BY <1>2 DEF LastProbe, SameSource, Of
<1>4. IsFiniteSet(E)
  BY <1>1, <1>3, ElementsFinite
<1>5. /\ \A e \in E : \E i \in Of(s) : e = past[i]
      /\ \A i \in Of(s) : Lasts(i) => past[i] \in E
      /\ InOrder(s) => \A e \in E : e.ts >= LastProbe.ts - Window
  BY <1>3 DEF ThreatInv, WindowInv, VerdictInv
<1>6. \A i \in Of(s) : past[i].src = s
  BY DEF Of
<1>7. Lasting = {past[i] : i \in {j \in Of(s) : Lasts(j)}}
  BY <1>3, <1>6 DEF Lasting, Lasts
<1>8. Lasting \subseteq E
  BY <1>5, <1>7
<1>9. Lasts(n)
  <2>1. \A k \in Of(s) : ~(k > n)
    BY <1>2, <1>3
  <2> QED BY <1>3, <1>6, <2>1 DEF Lasts
<1>10. Lasting # {}
  BY <1>3, <1>7, <1>9
<1>11. ASSUME Ordered PROVE Recent = E
  <2>1. InOrder(s) /\ \A i, j \in Of(s) : i < j => past[i].ts <= past[j].ts
    BY <1>3, <1>11 DEF Ordered, InOrder
  <2>2. \A k \in Of(s) : past[k].ts <= past[n].ts
    <3> TAKE k \in Of(s)
    <3>1. k = n \/ k < n
      BY <1>2, <1>3
    <3> QED BY <1>2, <1>3, <2>1, <3>1
  <2>3. Recent = {past[i] : i \in {j \in Of(s) : past[j].ts >= LastProbe.ts - Window}}
    BY <1>3 DEF Recent
  <2>4. ASSUME NEW i \in Of(s), past[i].ts >= LastProbe.ts - Window
        PROVE  past[i] \in E
    <3>1. \A k \in Of(s) : past[i].ts >= past[k].ts - Window
      <4> TAKE k \in Of(s)
      <4>1. past[k].ts <= past[n].ts /\ past[i].ts >= past[n].ts - Window
        BY <2>2, <2>4 DEF LastProbe
      <4>2. past[k].ts \in Int /\ past[n].ts \in Int /\ past[i].ts \in Int
        BY <1>2, <1>3
      <4> QED BY <1>1, <4>1, <4>2
    <3>2. Lasts(i)
      BY <1>6, <3>1 DEF Lasts
    <3> QED BY <1>5, <3>2
  <2>5. \A e \in E : e \in Recent
    BY <1>5, <2>1, <2>3
  <2> QED BY <2>3, <2>4, <2>5
<1> QED BY <1>4, <1>8, <1>10, <1>11

\* Scans and sweeps are told whatever way the times go, and counted exactly
\* while they go forward (ThreatTracker::observe, SrcWindow::record).
THEOREM ScansAreTold == ThreatSpec => []ScansTold
<1> USE ThreatAssumption
<1>1. ThreatInit => ThreatInv
  <2> SUFFICES ASSUME ThreatInit PROVE ThreatInv
    OBVIOUS
  <2>1. /\ past = <<>> /\ probed = FALSE /\ verdict.kind = "none"
        /\ window = [s \in Sources |-> <<>>]
    BY DEF ThreatInit, Benign
  <2>2. past \in Seq(ProbeEvent) /\ Len(past) = 0 /\ DOMAIN past = {}
    BY <2>1
  <2>3. window \in [Sources -> Seq(ProbeEvent)]
    BY <2>1
  <2>4. \A s \in Sources : Of(s) = {} /\ Elements(window[s]) = {} /\ Sorted(window[s])
    BY <2>1, <2>2 DEF Of, Elements, Sorted
  <2>5. WindowInv
    BY <2>2, <2>3, <2>4 DEF WindowInv
  <2>6. VerdictInv
    <3>1. Len(past) <= MaxProbes
      BY <2>2 DEF ThreatAssumption
    <3> QED BY <2>1, <3>1 DEF VerdictInv
  <2> QED BY <2>5, <2>6 DEF ThreatInv
<1>2. ThreatInv /\ [ThreatNext]_threatVars => ThreatInv'
  <2> SUFFICES ASSUME ThreatInv, [ThreatNext]_threatVars PROVE ThreatInv'
    OBVIOUS
  <2>1. CASE \E src \in Sources, target \in Targets, ts \in Times, clear \in BOOLEAN :
                Probe(src, target, ts, clear)
    BY <2>1, ProbeKeeps
  <2>2. CASE \E target \in Targets, clear \in BOOLEAN : Other(target, clear)
    BY <2>2, OtherKeeps
  <2>3. CASE UNCHANGED threatVars
    <3>1. window' = window /\ past' = past /\ probed' = probed /\ verdict' = verdict
      BY <2>3 DEF threatVars
    <3>2. WindowInv'
      BY <3>1 DEF ThreatInv, WindowInv, Of, Lasts, InOrder, Elements, Sorted
    <3>3. VerdictInv'
      BY <3>1 DEF ThreatInv, VerdictInv, Told, LastProbe, InOrder, Of
    <3> QED BY <3>2, <3>3 DEF ThreatInv
  <2> QED BY <2>1, <2>2, <2>3 DEF ThreatNext
<1>3. ThreatInv => ScansTold
  <2> SUFFICES ASSUME ThreatInv PROVE ScansTold
    OBVIOUS
  <2> DEFINE E == Elements(window[LastProbe.src])
  <2>1. ThreatTypeOK
    <3>1. ASSUME NEW s \in Sources PROVE Elements(window[s]) \subseteq Elements(past)
      BY DEF ThreatInv, WindowInv, Of, Elements
    <3> QED BY <3>1 DEF ThreatTypeOK, ThreatInv, VerdictInv
  <2>2. ASSUME probed
        PROVE  /\ Busiest(Lasting) >= MinPorts => verdict.kind = "port scan"
               /\ Cardinality(HostsOf(Lasting)) >= MinHosts =>
                    verdict.kind \in {"port scan", "host sweep"}
               /\ Ordered /\ verdict.kind = "port scan" =>
                    verdict.count = Busiest(Recent)
               /\ Ordered /\ verdict.kind = "host sweep" =>
                    verdict.count = Cardinality(HostsOf(Recent))
    <3>1. /\ IsFiniteSet(E) /\ Lasting \subseteq E /\ Lasting # {}
          /\ Ordered => Recent = E
      BY <2>2, WindowTells
    <3>2. /\ Busiest(Lasting) <= Busiest(E)
          /\ Cardinality(HostsOf(Lasting)) <= Cardinality(HostsOf(E))
          /\ Busiest(Lasting) \in Nat /\ Busiest(E) \in Nat
          /\ Cardinality(HostsOf(Lasting)) \in Nat /\ Cardinality(HostsOf(E)) \in Nat
      BY <3>1, CountsGrow
    <3>3. Told(E)
      BY <2>2 DEF ThreatInv, VerdictInv
    <3>4. MinPorts \in Nat /\ MinHosts \in Nat
      BY DEF ThreatAssumption
    <3>5. CASE Busiest(E) >= MinPorts
      <4>1. verdict = [kind |-> "port scan", count |-> Busiest(E)]
        BY <3>3, <3>5 DEF Told
      <4> QED BY <3>1, <4>1
    <3>6. CASE ~(Busiest(E) >= MinPorts) /\ Cardinality(HostsOf(E)) >= MinHosts
      <4>1. verdict = [kind |-> "host sweep", count |-> Cardinality(HostsOf(E))]
        BY <3>3, <3>6 DEF Told
      <4>2. ~(Busiest(Lasting) >= MinPorts)
        BY <3>2, <3>4, <3>6
      <4> QED BY <3>1, <4>1, <4>2
    <3>7. CASE ~(Busiest(E) >= MinPorts) /\ ~(Cardinality(HostsOf(E)) >= MinHosts)
      <4>1. verdict.kind \in {"none", "rare"}
        BY <3>3, <3>7 DEF Told
      <4>2. ~(Busiest(Lasting) >= MinPorts)
        BY <3>2, <3>4, <3>7
      <4>3. ~(Cardinality(HostsOf(Lasting)) >= MinHosts)
        BY <3>2, <3>4, <3>7
      <4> QED BY <4>1, <4>2, <4>3
    <3> QED BY <3>5, <3>6, <3>7
  <2>3. probed \/ verdict.kind \in {"none", "rare"}
    BY DEF ThreatInv, VerdictInv
  <2> QED BY <2>1, <2>2, <2>3 DEF ScansTold
<1> QED BY <1>1, <1>2, <1>3, PTL DEF ThreatSpec

-----------------------------------------------------------------------------
(***************************************************************************)
(* Names and pairings.                                                     *)
(***************************************************************************)
NameSpec == NameInit /\ [][NameNext]_nameVars

Messages ==
    [is : {"query"}, id : Ids]
        \cup [is : {"dns"}, id : Ids, name : Names \cup {NoName}, hosts : SUBSET Hosts]
        \cup [is : {"hello", "http"}, name : Names, hosts : SUBSET Hosts]

Entry == [id : Ids, number : Nat]

\* i is the largest of S.
IsLast(i, S) == i \in S /\ \A j \in S : j <= i

\* The queries of an id that no response of that id has followed so far.
Waits(id) ==
    {i \in DOMAIN heard :
        /\ heard[i] = [is |-> "query", id |-> id]
        /\ \A j \in (i + 1)..Len(heard) : heard[j].is = "dns" => heard[j].id # id}

\* Ids that were asked about behind query i.
Behind(i) == {heard[j].id : j \in {k \in (i + 1)..Len(heard) : heard[k].is = "query"}}

\* The strengthening: what an address is called, and by which source, ...
KnowsName(h) ==
    \/ byIp[h] = NoEntry /\ Naming(h, 1) = {}
    \/ /\ Naming(h, 2) = {}
       /\ \E i \in Naming(h, 1) : /\ IsLast(i, Naming(h, 1))
                                  /\ byIp[h] = [name |-> heard[i].name, priority |-> 1]
    \/ \E i \in Naming(h, 2) : /\ IsLast(i, Naming(h, 2))
                               /\ byIp[h] = [name |-> heard[i].name, priority |-> 2]

\* ... the table, by age, holds the latest query of an id that waits, unless
\* Capacity ids were asked about behind it, ...
ByAge(s) ==
    /\ s \in Seq(Entry)
    /\ \A k, l \in DOMAIN s : k < l => s[k].number < s[l].number

Entries(s) == {s[k] : k \in DOMAIN s}

TableInv ==
    /\ ByAge(pending) /\ Len(pending) <= Capacity
    /\ \A q \in Entries(pending) : IsLast(q.number, Waits(q.id))
    /\ \A id \in Ids, i \in Nat :
         IsLast(i, Waits(id)) /\ (\A q \in Entries(pending) : q.id # id)
            => Cardinality(Behind(i)) >= Capacity

\* ... and the responses are paired so far.
PairsInv ==
    /\ \A p \in pairs : p[1] \in DOMAIN heard /\ IsLast(p[2], Waiting(p[1]))
    /\ \A r \in DOMAIN heard, i \in Nat :
          /\ heard[r].is = "dns" /\ IsLast(i, Waiting(r))
          /\ Cardinality(AskedBehind(i, r)) < Capacity
          => \E p \in pairs : p[1] = r

NamingInv ==
    /\ heard \in Seq(Messages) /\ DOMAIN byIp = Hosts
    /\ \A h \in Hosts : KnowsName(h)
    /\ TableInv /\ PairsInv

LEMMA LatestIs ==
    ASSUME NEW S \in SUBSET Nat, NEW i, IsLast(i, S)
    PROVE  Latest(S) = i
<1> DEFINE P(x) == x \in S /\ \A j \in S : j <= x
<1>1. P(i)
  BY DEF IsLast
<1>2. P(CHOOSE x : P(x))
  BY <1>1, Zenon
<1>3. Latest(S) = CHOOSE x : P(x)
  BY Zenon DEF Latest
<1>4. Latest(S) \in S /\ \A j \in S : j <= Latest(S)
  BY <1>2, <1>3, Zenon
<1> HIDE DEF P
<1>5. Latest(S) \in Nat /\ i \in Nat /\ i <= Latest(S) /\ Latest(S) <= i
  BY <1>4 DEF IsLast
<1> QED BY <1>5

\* A packet is heard: what follows for the numbers of those before.
LEMMA HeardGrows ==
    ASSUME heard \in Seq(Messages), NEW m \in Messages, Hear(m)
    PROVE  /\ heard' \in Seq(Messages) /\ Len(heard) \in Nat
           /\ Number = Len(heard) + 1 /\ Len(heard') = Number
           /\ DOMAIN heard = 1..Len(heard) /\ DOMAIN heard' = 1..Number
           /\ \A i \in 1..Len(heard) : heard'[i] = heard[i]
           /\ heard'[Number] = m
<1>1. heard' = Append(heard, m) /\ Number = Len(heard) + 1
  BY DEF Hear, Number
<1>2. /\ heard' \in Seq(Messages) /\ Len(heard') = Len(heard) + 1 /\ Len(heard) \in Nat
      /\ \A i \in 1..Len(heard) : heard'[i] = heard[i]
      /\ heard'[Len(heard) + 1] = m
  BY <1>1, AppendProperties, LenProperties
<1>3. DOMAIN heard = 1..Len(heard) /\ DOMAIN heard' = 1..Len(heard')
  BY <1>2, LenProperties
<1> QED BY <1>1, <1>2, <1>3

LEMMA NamingGrows ==
    ASSUME heard \in Seq(Messages), NEW m \in Messages, Hear(m), NEW h, NEW least \in Nat
    PROVE  /\ Naming(h, least)' =
                IF m.is # "query" /\ h \in m.hosts /\ m.name # NoName /\ Priority[m.is] >= least
                THEN Naming(h, least) \cup {Number} ELSE Naming(h, least)
           /\ \A i \in Naming(h, least) : i \in Nat /\ i < Number /\ heard'[i] = heard[i]
<1> DEFINE n == Len(heard)
<1>1. /\ n \in Nat /\ Number = n + 1 /\ DOMAIN heard = 1..n /\ DOMAIN heard' = 1..(n + 1)
      /\ \A i \in 1..n : heard'[i] = heard[i]
      /\ heard'[n + 1] = m
  BY HeardGrows
<1> DEFINE Fits(x) == x.is # "query" /\ h \in x.hosts /\ x.name # NoName /\ Priority[x.is] >= least
<1>2. Naming(h, least) = {i \in 1..n : Fits(heard[i])}
  BY <1>1 DEF Naming
<1>3. Naming(h, least)' = {i \in 1..(n + 1) : Fits(heard'[i])}
  BY <1>1 DEF Naming
<1> HIDE DEF Fits, n
<1>4. \A i \in 1..(n + 1) : i = n + 1 \/ (i \in 1..n /\ heard'[i] = heard[i])
  BY <1>1
<1>5. n + 1 \in 1..(n + 1) /\ \A i \in 1..n : i \in 1..(n + 1)
  BY <1>1
<1>6. Naming(h, least)' = IF Fits(m) THEN Naming(h, least) \cup {n + 1} ELSE Naming(h, least)
  BY <1>1, <1>2, <1>3, <1>4, <1>5
<1>7. \A i \in Naming(h, least) : i \in Nat /\ i < Number /\ heard'[i] = heard[i]
  BY <1>1, <1>2
<1> QED BY <1>1, <1>6, <1>7 DEF Fits

LEMMA WaitsGrow ==
    ASSUME heard \in Seq(Messages), NEW m \in Messages, Hear(m), NEW id
    PROVE  /\ Waits(id)' = IF m = [is |-> "query", id |-> id] THEN Waits(id) \cup {Number}
                          ELSE IF m.is = "dns" /\ m.id = id THEN {}
                          ELSE Waits(id)
           /\ \A i \in Waits(id) : i \in Nat /\ i < Number
<1> DEFINE n == Len(heard)
<1>1. /\ n \in Nat /\ Number = n + 1 /\ DOMAIN heard = 1..n /\ DOMAIN heard' = 1..(n + 1)
      /\ \A i \in 1..n : heard'[i] = heard[i]
      /\ heard'[n + 1] = m /\ Len(heard') = n + 1
  BY HeardGrows
<1> DEFINE q == [is |-> "query", id |-> id]
<1> DEFINE Closes(x) == x.is = "dns" /\ x.id = id
<1>2. Waits(id) = {i \in 1..n : heard[i] = q /\ \A j \in (i + 1)..n : ~Closes(heard[j])}
  BY <1>1 DEF Waits
<1>3. Waits(id)' = {i \in 1..(n + 1) : heard'[i] = q /\ \A j \in (i + 1)..(n + 1) : ~Closes(heard'[j])}
  BY <1>1 DEF Waits
<1>4. ~(Closes(m) /\ m = q)
  OBVIOUS
<1> HIDE DEF Closes, n, q
<1>5. \A i \in Waits(id) : i \in Nat /\ i < Number
  BY <1>1, <1>2
<1>6. \A i \in 1..n : (\A j \in (i + 1)..(n + 1) : ~Closes(heard'[j]))
                       <=> (\A j \in (i + 1)..n : ~Closes(heard[j])) /\ ~Closes(m)
  <2> TAKE i \in 1..n
  <2>1. \A j \in (i + 1)..(n + 1) : j = n + 1 \/ (j \in (i + 1)..n /\ heard'[j] = heard[j])
    BY <1>1
  <2>2. n + 1 \in (i + 1)..(n + 1) /\ \A j \in (i + 1)..n : j \in (i + 1)..(n + 1) /\ heard'[j] = heard[j]
    BY <1>1
  <2> QED BY <1>1, <2>1, <2>2
<1>7. n + 1 \in Waits(id)' <=> m = q
  <2>1. n + 1 \in 1..(n + 1) /\ (n + 1 + 1)..(n + 1) = {}
    BY <1>1
  <2> QED BY <1>1, <1>3, <2>1
<1>8. \A i \in 1..n : i \in Waits(id)' <=> i \in Waits(id) /\ ~Closes(m)
  <2> TAKE i \in 1..n
  <2>1. i \in 1..(n + 1) /\ heard'[i] = heard[i]
    BY <1>1
  <2> QED BY <1>2, <1>3, <1>6, <2>1
<1>9. Waits(id)' = IF m = q THEN Waits(id) \cup {Number} ELSE IF Closes(m) THEN {} ELSE Waits(id)
  <2>1. \A i \in Waits(id)' : i \in 1..n \/ i = n + 1
    BY <1>1, <1>3
  <2>2. \A i \in Waits(id) : i \in 1..n
    BY <1>2
  <2>3. CASE m = q
    BY <1>1, <1>4, <1>7, <1>8, <2>1, <2>2, <2>3
  <2>4. CASE m # q
    <3>1. \A i \in Waits(id)' : i \in 1..n
      BY <1>7, <2>1, <2>4
    <3> QED BY <1>8, <2>2, <2>4, <3>1
  <2> QED BY <2>3, <2>4
<1> QED BY <1>5, <1>9 DEF Closes, q

LEMMA BehindGrows ==
    ASSUME heard \in Seq(Messages), NEW m \in Messages, Hear(m), NEW i \in Nat, i <= Len(heard)
    PROVE  Behind(i)' = IF m.is = "query" THEN Behind(i) \cup {m.id} ELSE Behind(i)
<1> DEFINE n == Len(heard)
<1>1. /\ n \in Nat /\ \A j \in 1..n : heard'[j] = heard[j]
      /\ heard'[n + 1] = m /\ Len(heard') = n + 1
  BY HeardGrows
<1>2. Behind(i) = {heard[j].id : j \in {k \in (i + 1)..n : heard[k].is = "query"}}
  BY DEF Behind
<1>3. Behind(i)' = {heard'[j].id : j \in {k \in (i + 1)..(n + 1) : heard'[k].is = "query"}}
  BY <1>1 DEF Behind
<1> HIDE DEF n
<1>4. \A j \in (i + 1)..(n + 1) : j = n + 1 \/ (j \in (i + 1)..n /\ heard'[j] = heard[j])
  BY <1>1
<1>5. n + 1 \in (i + 1)..(n + 1) /\ \A j \in (i + 1)..n : j \in (i + 1)..(n + 1) /\ heard'[j] = heard[j]
  BY <1>1 DEF n
<1> QED BY <1>1, <1>2, <1>3, <1>4, <1>5

\* What a response was waited for with does not change later.
LEMMA WaitingStays ==
    ASSUME heard \in Seq(Messages), NEW m \in Messages, Hear(m), NEW r \in DOMAIN heard
    PROVE  /\ Waiting(r)' = Waiting(r) /\ Waiting(r) \in SUBSET Nat
           /\ \A i \in Nat : AskedBehind(i, r)' = AskedBehind(i, r)
           /\ heard'[r] = heard[r]
<1> DEFINE n == Len(heard)
<1>1. n \in Nat /\ r \in 1..n /\ \A j \in 1..n : heard'[j] = heard[j]
  BY HeardGrows
<1>2. \A j \in 1..(r - 1) : j \in 1..n /\ heard'[j] = heard[j]
  BY <1>1
<1>3. heard'[r] = heard[r]
  BY <1>1
<1>4. Waiting(r)' = Waiting(r)
  <2>1. \A i \in 1..(r - 1) : \A j \in (i + 1)..(r - 1) : j \in 1..(r - 1)
    BY <1>1
  <2>2. \A i \in 1..(r - 1) :
           (\A j \in (i + 1)..(r - 1) : heard'[j].is = "dns" => heard'[j].id # heard'[r].id)
           <=> (\A j \in (i + 1)..(r - 1) : heard[j].is = "dns" => heard[j].id # heard[r].id)
    BY <1>2, <1>3, <2>1
  <2> QED BY <1>2, <1>3, <2>2 DEF Waiting
<1>5. ASSUME NEW i \in Nat PROVE AskedBehind(i, r)' = AskedBehind(i, r)
  <2>1. \A j \in (i + 1)..(r - 1) : heard'[j] = heard[j]
    BY <1>1, <1>2
  <2> QED BY <2>1 DEF AskedBehind
<1>6. Waiting(r) \in SUBSET Nat
  BY <1>1 DEF Waiting
<1> QED BY <1>3, <1>4, <1>5, <1>6

\* A response finds what is open.
LEMMA WaitingNow ==
    ASSUME heard \in Seq(Messages), NEW m \in Messages, Hear(m), NEW r, r = Number
    PROVE  Waiting(r)' = Waits(m.id) /\ \A i \in Nat : AskedBehind(i, r)' = Behind(i)
<1> DEFINE n == Len(heard)
<1>1. /\ n \in Nat /\ r = n + 1 /\ r - 1 = n /\ \A j \in 1..n : heard'[j] = heard[j]
      /\ heard'[r] = m /\ DOMAIN heard = 1..n
  BY HeardGrows
<1>2. Waiting(r)' = {i \in 1..n : /\ heard'[i] = [is |-> "query", id |-> m.id]
                                  /\ \A j \in (i + 1)..n : heard'[j].is = "dns" => heard'[j].id # m.id}
  BY <1>1 DEF Waiting
<1>3. \A i \in 1..n : \A j \in (i + 1)..n : heard'[j] = heard[j]
  BY <1>1
<1>4. Waiting(r)' = Waits(m.id)
  BY <1>1, <1>2, <1>3 DEF Waits
<1>5. ASSUME NEW i \in Nat PROVE AskedBehind(i, r)' = Behind(i)
  <2>1. \A j \in (i + 1)..n : heard'[j] = heard[j]
    BY <1>1
  <2> QED BY <1>1, <2>1 DEF AskedBehind, Behind
<1> QED BY <1>4, <1>5

LEMMA StrongNames ==
    ASSUME heard \in Seq(Messages), NEW h
    PROVE  Naming(h, 2) \subseteq Naming(h, 1) /\ Naming(h, 1) \in SUBSET Nat
<1>1. DOMAIN heard = 1..Len(heard) /\ \A i \in DOMAIN heard : heard[i] \in Messages
  BY LenProperties, ElementOfSeq
<1>2. \A i \in DOMAIN heard : heard[i].is # "query" => heard[i].is \in {"dns", "hello", "http"}
  BY <1>1 DEF Messages
<1>3. Priority["dns"] = 2 /\ Priority["hello"] = 2 /\ Priority["http"] = 1
  BY DEF Priority
<1>4. \A i \in DOMAIN heard :
         heard[i].is # "query" /\ Priority[heard[i].is] >= 2 => Priority[heard[i].is] >= 1
  BY <1>2, <1>3
<1> QED BY <1>1, <1>4 DEF Naming

\* Addresses are called what the packets say.
LEMMA NamesLearnt ==
    ASSUME heard \in Seq(Messages), NEW m \in Messages, Hear(m), NEW h \in Hosts, KnowsName(h),
           byIp'[h] = IF m.is # "query" /\ h \in m.hosts /\ m.name # NoName
                      THEN Insert(h, m.name, m.is) ELSE byIp[h]
    PROVE  KnowsName(h)'
<1> DEFINE strong == Naming(h, 2)
<1> DEFINE all == Naming(h, 1)
<1> DEFINE n == Number
<1> DEFINE Applies == m.is # "query" /\ h \in m.hosts /\ m.name # NoName
<1>1. n \in Nat /\ heard'[n] = m
  BY HeardGrows
<1>2. m.is \in {"query", "dns", "hello", "http"}
  BY DEF Messages
<1>3. Priority["dns"] = 2 /\ Priority["hello"] = 2 /\ Priority["http"] = 1
  BY DEF Priority
<1>4. strong' = IF Applies /\ Priority[m.is] >= 2 THEN strong \cup {n} ELSE strong
  BY NamingGrows
<1>5. all' = IF Applies /\ Priority[m.is] >= 1 THEN all \cup {n} ELSE all
  BY NamingGrows
<1>6. \A i \in strong : i \in Nat /\ i < n /\ heard'[i] = heard[i]
  BY NamingGrows
<1>7. \A i \in all : i \in Nat /\ i < n /\ heard'[i] = heard[i]
  BY NamingGrows
<1>8. KnowsName(h) <=>
        \/ byIp[h] = NoEntry /\ all = {}
        \/ strong = {} /\ \E i \in all : IsLast(i, all) /\ byIp[h] = [name |-> heard[i].name, priority |-> 1]
        \/ \E i \in strong : IsLast(i, strong) /\ byIp[h] = [name |-> heard[i].name, priority |-> 2]
  BY DEF KnowsName
<1>9. KnowsName(h)' <=>
        \/ byIp'[h] = NoEntry /\ all' = {}
        \/ strong' = {} /\ \E i \in all' : IsLast(i, all') /\ byIp'[h] = [name |-> heard'[i].name, priority |-> 1]
        \/ \E i \in strong' : IsLast(i, strong') /\ byIp'[h] = [name |-> heard'[i].name, priority |-> 2]
  BY DEF KnowsName, NoEntry
<1>10. byIp'[h] = IF Applies THEN Insert(h, m.name, m.is) ELSE byIp[h]
  OBVIOUS
<1>11. byIp[h].priority \in {0, 1, 2} /\ (byIp[h].priority = 2 => strong # {})
       /\ (byIp[h].priority # 2 => strong = {})
  <2>1. all = {} => strong = {}
    BY StrongNames
  <2> HIDE DEF all, strong
  <2>2. CASE byIp[h] = NoEntry /\ all = {}
    BY <2>1, <2>2 DEF NoEntry
  <2>3. CASE strong = {} /\ \E i \in all : byIp[h] = [name |-> heard[i].name, priority |-> 1]
    BY <2>3
  <2>4. CASE \E i \in strong : byIp[h] = [name |-> heard[i].name, priority |-> 2]
    BY <2>4
  <2> QED BY <1>8, <2>2, <2>3, <2>4
<1> DEFINE before == byIp[h]
<1> DEFINE after == byIp'[h]
<1> HIDE DEF strong, all, n, Applies
<1>12. CASE ~Applies
  BY <1>4, <1>5, <1>6, <1>7, <1>8, <1>9, <1>10, <1>12
<1>13. CASE Applies /\ m.is \in {"dns", "hello"}
  <2>1. byIp'[h] = [name |-> m.name, priority |-> 2]
    BY <1>3, <1>10, <1>11, <1>13 DEF Insert
  <2>2. strong' = strong \cup {n}
    BY <1>3, <1>4, <1>13
  <2>3. IsLast(n, strong') /\ n \in strong'
    BY <1>1, <1>6, <2>2 DEF IsLast
  <2> QED BY <1>1, <1>9, <2>1, <2>3
<1>14. CASE Applies /\ m.is = "http"
  <2>1. strong' = strong /\ all' = all \cup {n}
    BY <1>3, <1>4, <1>5, <1>14
  <2>2. CASE strong # {}
    <3>1. byIp'[h] = byIp[h]
      BY <1>3, <1>10, <1>11, <1>14, <2>2 DEF Insert
    <3>2. PICK i \in strong : IsLast(i, strong) /\ byIp[h] = [name |-> heard[i].name, priority |-> 2]
      <4>1. ~(byIp[h] = NoEntry)
        BY <1>11, <2>2 DEF NoEntry
      <4> QED BY <1>8, <2>2, <4>1
    <3> QED BY <1>6, <1>9, <2>1, <3>1, <3>2
  <2>3. CASE strong = {}
    <3>1. byIp'[h] = [name |-> m.name, priority |-> 1]
      BY <1>3, <1>10, <1>11, <1>14, <2>3 DEF Insert
    <3>2. IsLast(n, all') /\ n \in all'
      BY <1>1, <1>7, <2>1 DEF IsLast
    <3> QED BY <1>1, <1>9, <2>1, <2>3, <3>1, <3>2
  <2> QED BY <2>2, <2>3
<1> QED BY <1>2, <1>12, <1>13, <1>14 DEF Applies

-----------------------------------------------------------------------------
(***************************************************************************)
(* The table of pending queries.                                           *)
(***************************************************************************)
LEMMA AppendByAge ==
    ASSUME NEW s, ByAge(s), NEW e \in Entry, \A q \in Entries(s) : q.number < e.number
    PROVE  ByAge(Append(s, e)) /\ Entries(Append(s, e)) = Entries(s) \cup {e}
<1> DEFINE n == Len(s)
<1> DEFINE t == Append(s, e)
<1>1. /\ s \in Seq(Entry) /\ n \in Nat /\ DOMAIN s = 1..n /\ t \in Seq(Entry)
      /\ DOMAIN t = 1..(n + 1) /\ t[n + 1] = e /\ \A k \in 1..n : t[k] = s[k]
      /\ \A k \in 1..n : s[k] \in Entry
  BY AppendProperties, LenProperties, ElementOfSeq DEF ByAge
<1> HIDE DEF n, t
<1>2. \A k \in 1..(n + 1) : k = n + 1 \/ k \in 1..n
  BY <1>1
<1>3. n + 1 \in 1..(n + 1) /\ \A k \in 1..n : k \in 1..(n + 1)
  BY <1>1
<1>4. Entries(t) = Entries(s) \cup {e}
  BY <1>1, <1>2, <1>3 DEF Entries
<1>5. ASSUME NEW k \in 1..(n + 1), NEW l \in 1..(n + 1), k < l PROVE t[k].number < t[l].number
  <2>1. k \in 1..n
    BY <1>1, <1>5
  <2>2. CASE l = n + 1
    <3>1. s[k] \in Entries(s)
      BY <1>1, <2>1 DEF Entries
    <3> QED BY <1>1, <2>1, <2>2, <3>1
  <2>3. CASE l \in 1..n
    BY <1>1, <1>5, <2>1, <2>3 DEF ByAge
  <2> QED BY <1>2, <2>2, <2>3
<1> QED BY <1>1, <1>4, <1>5 DEF ByAge, t

\* Dropping the oldest.
LEMMA TailByAge ==
    ASSUME NEW s, ByAge(s), s # <<>>
    PROVE  /\ ByAge(Tail(s)) /\ Head(s) \in Entries(s)
           /\ Entries(s) = Entries(Tail(s)) \cup {Head(s)}
           /\ \A q \in Entries(Tail(s)) : Head(s).number < q.number
           /\ Len(Tail(s)) = Len(s) - 1
<1> DEFINE n == Len(s)
<1> DEFINE t == Tail(s)
<1>1. /\ s \in Seq(Entry) /\ n \in Nat /\ n > 0 /\ DOMAIN s = 1..n /\ t \in Seq(Entry)
      /\ DOMAIN t = 1..(n - 1) /\ Len(t) = n - 1 /\ \A k \in 1..(n - 1) : t[k] = s[k + 1]
      /\ Head(s) = s[1]
  BY HeadTailProperties, LenProperties, EmptySeq DEF ByAge
<1> HIDE DEF n, t
<1>2. \A k \in 1..(n - 1) : k + 1 \in 1..n /\ 1 < k + 1
  BY <1>1
<1>3. 1 \in 1..n /\ \A k \in 1..n : k = 1 \/ (k - 1 \in 1..(n - 1) /\ k - 1 + 1 = k)
  BY <1>1
<1>4. \A k \in 1..(n - 1) : s[1].number < t[k].number
  BY <1>1, <1>2, <1>3 DEF ByAge
<1>5. \A k, l \in 1..(n - 1) : k < l => t[k].number < t[l].number
  <2>1. \A k, l \in 1..(n - 1) : k < l => k + 1 < l + 1
    BY <1>1
  <2> QED BY <1>1, <1>2, <2>1 DEF ByAge
<1>6. Entries(s) = Entries(t) \cup {s[1]}
  <2>1. \A k \in 1..n : s[k] = s[1] \/ \E l \in 1..(n - 1) : t[l] = s[k]
    BY <1>1, <1>3
  <2>2. Entries(s) = {s[k] : k \in 1..n} /\ Entries(t) = {t[k] : k \in 1..(n - 1)}
    BY <1>1 DEF Entries
  <2>3. \A k \in 1..(n - 1) : t[k] \in Entries(s)
    BY <1>1, <1>2, <2>2
  <2> QED BY <1>3, <2>1, <2>2, <2>3
<1> QED BY <1>1, <1>3, <1>4, <1>5, <1>6 DEF ByAge, Entries, t, n

\* In the table an id has one entry.
LEMMA OneEntry ==
    ASSUME TableInv,
           NEW k \in DOMAIN pending, NEW l \in DOMAIN pending, pending[k].id = pending[l].id,
           \A id : Waits(id) \in SUBSET Nat
    PROVE  k = l
<1>1. pending \in Seq(Entry) /\ DOMAIN pending = 1..Len(pending) /\ Len(pending) \in Nat
  BY LenProperties DEF TableInv, ByAge
<1>2. pending[k].number = pending[l].number /\ pending[k].number \in Nat
  <2>1. IsLast(pending[k].number, Waits(pending[k].id)) /\ IsLast(pending[l].number, Waits(pending[k].id))
    BY DEF TableInv, Entries
  <2> DEFINE a == pending[k].number
  <2> DEFINE b == pending[l].number
  <2>2. a \in Nat /\ b \in Nat /\ a <= b /\ b <= a
    BY <2>1 DEF IsLast
  <2> HIDE DEF a, b
  <2>3. a = b
    BY <2>2
  <2> QED BY <2>2, <2>3 DEF a, b
<1>3. ~(k < l) /\ ~(l < k)
  BY <1>2 DEF TableInv, ByAge
<1> QED BY <1>1, <1>3

\* The entry of an id leaves, the others stay in order.
LEMMA WithoutIs ==
    ASSUME TableInv, NEW id, \A x : Waits(x) \in SUBSET Nat
    PROVE  /\ ByAge(Without(id))
           /\ Entries(Without(id)) = {q \in Entries(pending) : q.id # id}
           /\ Len(Without(id)) <= Len(pending)
           /\ Len(Without(id)) = Len(pending) =>
                Without(id) = pending /\ \A q \in Entries(pending) : q.id # id
<1> DEFINE n == Len(pending)
<1>1. /\ pending \in Seq(Entry) /\ DOMAIN pending = 1..n /\ n \in Nat
      /\ \A k \in 1..n : pending[k] \in Entry
  BY LenProperties, ElementOfSeq DEF TableInv, ByAge
<1>2. CASE Places(id) = {}
  <2>1. Without(id) = pending /\ \A q \in Entries(pending) : q.id # id
    BY <1>2 DEF Without, Places, Entries
  <2>2. Len(pending) <= Len(pending)
    BY <1>1
  <2>3. Entries(pending) = {q \in Entries(pending) : q.id # id}
    BY <2>1
  <2> QED BY <2>1, <2>2, <2>3 DEF TableInv
<1>3. CASE Places(id) # {}
  <2> DEFINE p == CHOOSE k \in Places(id) : TRUE
  <2> DEFINE t == [i \in 1..(n - 1) |-> pending[IF i < p THEN i ELSE i + 1]]
  <2>1. p \in 1..n /\ pending[p].id = id
    BY <1>1, <1>3 DEF Places
  <2>2. Without(id) = t
    BY <1>3 DEF Without
  <2> HIDE DEF p, n
  <2>3. \A i \in 1..(n - 1) : /\ (IF i < p THEN i ELSE i + 1) \in 1..n
                              /\ (IF i < p THEN i ELSE i + 1) # p
    BY <1>1, <2>1
  <2>4. t \in [1..(n - 1) -> Entry] /\ n - 1 \in Nat
    BY <1>1, <2>1, <2>3
  <2>5. t \in Seq(Entry) /\ Len(t) = n - 1 /\ DOMAIN t = 1..(n - 1)
    BY <2>4, IsASeq, LenProperties
  <2>6. \A i, j \in 1..(n - 1) : i < j => t[i].number < t[j].number
    <3> TAKE i, j \in 1..(n - 1)
    <3> HAVE i < j
    <3> DEFINE a == IF i < p THEN i ELSE i + 1
    <3> DEFINE b == IF j < p THEN j ELSE j + 1
    <3>1. a < b /\ a \in 1..n /\ b \in 1..n
      BY <1>1, <2>1
    <3>2. t[i] = pending[a] /\ t[j] = pending[b]
      OBVIOUS
    <3> HIDE DEF a, b, t
    <3>3. pending[a].number < pending[b].number
      BY <1>1, <3>1 DEF TableInv, ByAge
    <3> QED BY <3>2, <3>3
  <2>7. \A k \in 1..n : k # p => pending[k].id # id
    BY <1>1, <2>1, OneEntry
  <2>8. \A k \in 1..n : k # p => \E i \in 1..(n - 1) : t[i] = pending[k]
    <3> TAKE k \in 1..n
    <3> HAVE k # p
    <3> DEFINE i == IF k < p THEN k ELSE k - 1
    <3>1. i \in 1..(n - 1) /\ (IF i < p THEN i ELSE i + 1) = k
      BY <1>1, <2>1
    <3> HIDE DEF i
    <3>2. t[i] = pending[k]
      BY <3>1
    <3> QED BY <3>1, <3>2
  <2>9. \A i \in 1..(n - 1) : \E k \in 1..n : k # p /\ t[i] = pending[k]
    BY <2>3
  <2> HIDE DEF t
  <2>10. Entries(t) = {q \in Entries(pending) : q.id # id}
    <3>1. Entries(pending) = {pending[k] : k \in 1..n} /\ Entries(t) = {t[i] : i \in 1..(n - 1)}
      BY <1>1, <2>5 DEF Entries
    <3>2. \A q \in Entries(t) : q \in Entries(pending) /\ q.id # id
      BY <2>7, <2>9, <3>1
    <3>3. \A q \in Entries(pending) : q.id # id => q \in Entries(t)
      BY <2>1, <2>8, <3>1
    <3> QED BY <3>2, <3>3
  <2>11. ByAge(t)
    BY <2>5, <2>6 DEF ByAge
  <2>12. Len(t) <= n /\ Len(t) # n
    BY <1>1, <2>5
  <2> QED BY <2>2, <2>10, <2>11, <2>12 DEF n
<1> QED BY <1>2, <1>3

\* Ids asked about are finitely many.
LEMMA BehindFinite ==
    ASSUME heard \in Seq(Messages), NEW i \in Nat
    PROVE  IsFiniteSet(Behind(i)) /\ Cardinality(Behind(i)) \in Nat
<1> DEFINE K == {k \in (i + 1)..Len(heard) : heard[k].is = "query"}
<1> DEFINE f == [j \in K |-> heard[j].id]
<1>1. Len(heard) \in Nat
  BY LenProperties
<1>2. IsFiniteSet((i + 1)..Len(heard))
  BY <1>1, FS_Interval
<1>3. IsFiniteSet(K)
  BY <1>2, FS_Subset
<1>4. f \in Surjection(K, Behind(i))
  BY DEF Surjection, Behind
<1> HIDE DEF f, K
<1> QED BY <1>3, <1>4, FS_Surjection, FS_CardinalityType

\* What a full table drops has Capacity fresher ids behind it.
LEMMA DropsOldest ==
    ASSUME NamingInv, NEW id \in Ids, Hear([is |-> "query", id |-> id]),
           Len(pending) = Capacity, \A q \in Entries(pending) : q.id # id,
           NEW i, i = Head(pending).number
    PROVE  Cardinality(Behind(i)') >= Capacity
<1> DEFINE c == Capacity
<1> DEFINE B == Behind(i) \cup {id}
<1>1. /\ pending \in Seq(Entry) /\ DOMAIN pending = 1..c /\ c \in Nat /\ c > 0
      /\ \A k \in 1..c : pending[k] \in Entry /\ pending[k] \in Entries(pending)
      /\ heard \in Seq(Messages) /\ TableInv
  BY NameAssumption, LenProperties, ElementOfSeq DEF NamingInv, TableInv, ByAge, Entries
<1>2. pending # <<>> /\ Head(pending) = pending[1] /\ 1 \in 1..c
  BY <1>1, EmptySeq, HeadTailProperties
<1>3. DOMAIN heard = 1..Len(heard) /\ Len(heard) \in Nat
  BY <1>1, LenProperties
<1>4. \A k \in 1..c : /\ pending[k].number \in 1..Len(heard)
                      /\ heard[pending[k].number] = [is |-> "query", id |-> pending[k].id]
  BY <1>1, <1>3 DEF TableInv, IsLast, Waits
<1>5. i \in Nat /\ i <= Len(heard) /\ i = pending[1].number
  <2>1. i = pending[1].number /\ pending[1].number \in 1..Len(heard)
    BY <1>2, <1>4
  <2> QED BY <1>3, <2>1
<1>6. Behind(i)' = B
  <2> DEFINE m == [is |-> "query", id |-> id]
  <2>1. m \in Messages /\ m.is = "query" /\ m.id = id /\ Hear(m)
    BY DEF Messages
  <2>2. i \in Nat /\ i <= Len(heard)
    BY <1>5
  <2> HIDE DEF m
  <2>3. Behind(i)' = Behind(i) \cup {m.id}
    BY <1>1, <2>1, <2>2, BehindGrows
  <2> QED BY <2>1, <2>3
<1> HIDE DEF c
<1> DEFINE f == [k \in 1..c |-> IF k = c THEN id ELSE pending[k + 1].id]
<1>7. \A k \in 1..c : k # c => k + 1 \in 1..c /\ pending[k + 1].id \in Behind(i)
  <2> TAKE k \in 1..c
  <2> HAVE k # c
  <2>1. k + 1 \in 1..c /\ 1 < k + 1
    BY <1>1
  <2>2. pending[1].number < pending[k + 1].number
    BY <1>1, <1>2, <2>1 DEF TableInv, ByAge
  <2> DEFINE j == pending[k + 1].number
  <2>3. j \in (i + 1)..Len(heard) /\ heard[j] = [is |-> "query", id |-> pending[k + 1].id]
    BY <1>3, <1>4, <1>5, <2>1, <2>2
  <2> HIDE DEF j
  <2>4. pending[k + 1].id \in Behind(i)
    BY <2>3 DEF Behind
  <2> QED BY <2>1, <2>4
<1>8. f \in [1..c -> B]
  BY <1>7
<1>9. \A k, l \in 1..c : f[k] = f[l] => k = l
  <2> TAKE k, l \in 1..c
  <2> HAVE f[k] = f[l]
  <2>1. \A x \in 1..c : x # c => pending[x + 1].id # id
    BY <1>1, <1>7
  <2>2. CASE k = c \/ l = c
    BY <2>1, <2>2
  <2>3. CASE k # c /\ l # c
    <3>1. pending[k + 1].id = pending[l + 1].id
      BY <2>3
    <3>2. k + 1 \in 1..c /\ l + 1 \in 1..c
      BY <1>7, <2>3
    <3>3. \A x : Waits(x) \in SUBSET Nat
      BY <1>3 DEF Waits
    <3>4. k + 1 = l + 1
      BY <1>1, <3>1, <3>2, <3>3, OneEntry
    <3> QED BY <1>1, <3>4
  <2> QED BY <2>2, <2>3
<1> HIDE DEF f, B
<1>10. f \in Injection(1..c, B)
  BY <1>8, <1>9 DEF Injection, IsInjective
<1>11. IsFiniteSet(B)
  BY <1>1, <1>5, BehindFinite, FS_AddElement DEF B
<1>12. Cardinality(1..c) <= Cardinality(B)
  BY <1>10, <1>11, FS_Injection
<1>13. Cardinality(1..c) = c
  BY <1>1, FS_Interval
<1>14. Cardinality(B) \in Nat
  BY <1>11, FS_CardinalityType
<1> QED BY <1>1, <1>6, <1>12, <1>13, <1>14 DEF B, c

\* The table keeps its promise when a query comes.
LEMMA QueryKeepsTable ==
    ASSUME NamingInv, NEW id \in Ids, Query(id)
    PROVE  TableInv'
<1> DEFINE m == [is |-> "query", id |-> id]
<1> DEFINE rest == Without(id)
<1> DEFINE kept == IF Len(rest) = Capacity THEN Tail(rest) ELSE rest
<1> DEFINE new == [id |-> id, number |-> Number]
<1>1. /\ m \in Messages /\ Hear(m) /\ m.is = "query" /\ m.id = id
      /\ pending' = Append(kept, new)
  BY DEF Query, Messages
<1>2. heard \in Seq(Messages) /\ TableInv /\ Capacity \in Nat /\ Capacity > 0
  BY NameAssumption DEF NamingInv
<1>3. Number \in Nat /\ DOMAIN heard = 1..Len(heard) /\ Len(heard) \in Nat /\ Number = Len(heard) + 1
  BY <1>2, LenProperties DEF Number
<1>4. \A x : Waits(x) \in SUBSET Nat /\ \A i \in Waits(x) : i < Number
  BY <1>3 DEF Waits
<1>5. /\ ByAge(rest) /\ Entries(rest) = {q \in Entries(pending) : q.id # id}
      /\ Len(rest) <= Len(pending) /\ Len(pending) <= Capacity
      /\ Len(rest) = Len(pending) => rest = pending /\ \A q \in Entries(pending) : q.id # id
      /\ Len(pending) \in Nat /\ Len(rest) \in Nat
  <2>1. \A x : Waits(x) \in SUBSET Nat
    BY <1>4
  <2> QED BY <1>2, <2>1, WithoutIs, LenProperties DEF TableInv, ByAge
<1> DEFINE Dropped(q) == Len(pending) = Capacity /\ rest = pending /\ q = Head(pending)
<1>6. /\ ByAge(kept) /\ Len(kept) < Capacity /\ Len(kept) \in Nat
      /\ \A q \in Entries(kept) : q \in Entries(pending) /\ q.id # id
      /\ \A q \in Entries(pending) : q \in Entries(kept) \/ q.id = id \/ Dropped(q)
  <2>1. CASE Len(rest) = Capacity
    <3>1. Len(pending) = Capacity /\ rest = pending /\ kept = Tail(rest)
      BY <1>2, <1>5, <2>1
    <3> HIDE DEF rest
    <3>2. rest # <<>>
      BY <1>2, <2>1
    <3>3. /\ ByAge(Tail(rest)) /\ Head(rest) \in Entries(rest)
          /\ Entries(rest) = Entries(Tail(rest)) \cup {Head(rest)}
          /\ Len(Tail(rest)) = Len(rest) - 1
      BY <1>5, <3>2, TailByAge
    <3> HIDE DEF kept
    <3>4. ByAge(kept) /\ Len(kept) < Capacity /\ Len(kept) \in Nat
      BY <1>2, <2>1, <3>1, <3>3
    <3> QED BY <1>5, <3>1, <3>3, <3>4
  <2>2. CASE Len(rest) # Capacity
    <3>1. kept = rest
      BY <2>2
    <3> HIDE DEF rest, kept
    <3>2. Len(kept) < Capacity /\ Len(kept) \in Nat
      BY <1>2, <1>5, <2>2, <3>1
    <3> QED BY <1>5, <3>1, <3>2
  <2> QED BY <2>1, <2>2
<1> HIDE DEF m, rest, kept
<1>7. \A q \in Entries(pending) : IsLast(q.number, Waits(q.id)) /\ q.number \in Nat /\ q.number < Number
  BY <1>2, <1>4 DEF TableInv, IsLast
<1>8. new \in Entry /\ \A q \in Entries(kept) : q.number < new.number
  BY <1>3, <1>6, <1>7 DEF Entry
<1>9. ByAge(pending') /\ Entries(pending') = Entries(kept) \cup {new} /\ Len(pending') <= Capacity
  <2> HIDE DEF new
  <2>1. ByAge(Append(kept, new)) /\ Entries(Append(kept, new)) = Entries(kept) \cup {new}
    BY <1>6, <1>8, AppendByAge
  <2>2. kept \in Seq(Entry)
    BY <1>6 DEF ByAge
  <2>3. Len(Append(kept, new)) = Len(kept) + 1
    BY <1>8, <2>2, AppendProperties
  <2> QED BY <1>1, <1>2, <1>6, <2>1, <2>3
<1>10. \A x : Waits(x)' = IF x = id THEN Waits(x) \cup {Number} ELSE Waits(x)
  <2> TAKE x
  <2>1. (m = [is |-> "query", id |-> x]) <=> x = id
    BY DEF m
  <2>2. Waits(x)' = IF m = [is |-> "query", id |-> x] THEN Waits(x) \cup {Number}
                   ELSE IF m.is = "dns" /\ m.id = x THEN {} ELSE Waits(x)
    BY <1>1, <1>2, WaitsGrow
  <2> QED BY <1>1, <2>1, <2>2
<1>11. \A q \in Entries(pending') : IsLast(q.number, Waits(q.id)')
  <2>1. IsLast(Number, Waits(id)')
    BY <1>3, <1>4, <1>10 DEF IsLast
  <2>2. \A q \in Entries(kept) : IsLast(q.number, Waits(q.id)')
    BY <1>6, <1>7, <1>10
  <2> QED BY <1>9, <2>1, <2>2
<1>12. ASSUME NEW x \in Ids, NEW i \in Nat, IsLast(i, Waits(x)'),
              \A q \in Entries(pending') : q.id # x
       PROVE  Cardinality(Behind(i)') >= Capacity
  <2>1. x # id
    <3>1. new \in Entries(pending') /\ new.id = id
      BY <1>9
    <3> HIDE DEF new
    <3> QED BY <1>12, <3>1
  <2>2. IsLast(i, Waits(x)) /\ i <= Len(heard)
    <3>1. IsLast(i, Waits(x))
      BY <1>10, <1>12, <2>1
    <3> QED BY <1>3, <1>4, <3>1 DEF IsLast
  <2>3. Behind(i)' = Behind(i) \cup {id}
    BY <1>1, <1>2, <2>2, BehindGrows
  <2>4. CASE \A q \in Entries(pending) : q.id # x
    <3>1. Cardinality(Behind(i)) >= Capacity
      BY <1>2, <2>2, <2>4 DEF TableInv
    <3>2. IsFiniteSet(Behind(i)) /\ Cardinality(Behind(i)) \in Nat
      BY <1>2, BehindFinite
    <3> DEFINE B == Behind(i)
    <3> DEFINE C == B \cup {id}
    <3>3. IsFiniteSet(C)
      BY <3>2, FS_AddElement
    <3>4. B \in SUBSET C
      OBVIOUS
    <3> HIDE DEF B, C
    <3>5. Cardinality(B) <= Cardinality(C) /\ Cardinality(C) \in Nat
      BY <3>3, <3>4, FS_Subset, FS_CardinalityType
    <3> QED BY <1>2, <2>3, <3>1, <3>2, <3>5 DEF B, C
  <2>5. CASE \E q \in Entries(pending) : q.id = x
    <3>1. PICK q \in Entries(pending) : q.id = x
      BY <2>5
    <3>2. Dropped(q)
      BY <1>6, <1>9, <1>12, <2>1, <3>1
    <3>3. q.number = i
      <4>1. IsLast(q.number, Waits(x)) /\ q.number \in Nat
        BY <1>7, <3>1
      <4> QED BY <2>2, <4>1 DEF IsLast
    <3>4. Len(pending) = Capacity /\ rest = pending /\ Head(pending).number = i
      BY <3>2, <3>3
    <3>5. \A y \in Entries(pending) : y.id # id
      BY <1>5, <3>4
    <3>6. Hear([is |-> "query", id |-> id])
      BY DEF Query
    <3> QED BY <3>4, <3>5, <3>6, DropsOldest
  <2> QED BY <2>4, <2>5
<1> QED BY <1>9, <1>11, <1>12 DEF TableInv

\* What is no query and no response of a waiting id leaves it alone.
LEMMA OthersKeepTable ==
    ASSUME NamingInv, NEW m \in Messages, Hear(m), m.is # "query",
           \/ m.is = "dns" /\ pending' = Without(m.id)
           \/ m.is # "dns" /\ UNCHANGED pending
    PROVE  TableInv'
<1>1. heard \in Seq(Messages) /\ TableInv /\ Capacity \in Nat
  BY NameAssumption DEF NamingInv
<1>2. DOMAIN heard = 1..Len(heard) /\ Len(heard) \in Nat
  BY <1>1, LenProperties
<1>3. \A x : Waits(x) \in SUBSET Nat /\ \A i \in Waits(x) : i <= Len(heard)
  BY <1>2 DEF Waits
<1>4. \A x : Waits(x)' = IF m.is = "dns" /\ m.id = x THEN {} ELSE Waits(x)
  <2> TAKE x
  <2>1. m # [is |-> "query", id |-> x]
    OBVIOUS
  <2> QED BY <1>1, <2>1, WaitsGrow
<1>5. /\ ByAge(pending') /\ Len(pending') <= Capacity
      /\ \A q \in Entries(pending') : q \in Entries(pending) /\ ~(m.is = "dns" /\ m.id = q.id)
      /\ \A q \in Entries(pending) : q \in Entries(pending') \/ (m.is = "dns" /\ m.id = q.id)
  <2>1. CASE m.is = "dns" /\ pending' = Without(m.id)
    <3>1. \A x : Waits(x) \in SUBSET Nat
      BY <1>3
    <3> DEFINE id == m.id
    <3> HIDE DEF id
    <3>2. /\ ByAge(Without(id)) /\ Entries(Without(id)) = {q \in Entries(pending) : q.id # id}
          /\ Len(Without(id)) <= Len(pending)
      BY <1>1, <3>1, WithoutIs
    <3>3. Len(Without(id)) \in Nat /\ Len(pending) \in Nat /\ Len(pending) <= Capacity
      BY <1>1, <3>2, LenProperties DEF TableInv, ByAge
    <3>4. pending' = Without(id) /\ id = m.id
      BY <2>1 DEF id
    <3>5. Len(pending') <= Capacity
      BY <1>1, <3>2, <3>3, <3>4
    <3> QED BY <2>1, <3>2, <3>4, <3>5
  <2>2. CASE m.is # "dns" /\ UNCHANGED pending
    BY <1>1, <2>2 DEF TableInv
  <2> QED BY <2>1, <2>2
<1>6. \A q \in Entries(pending') : IsLast(q.number, Waits(q.id)')
  BY <1>1, <1>4, <1>5 DEF TableInv
<1>7. ASSUME NEW x \in Ids, NEW i \in Nat, IsLast(i, Waits(x)'), \A q \in Entries(pending') : q.id # x
      PROVE  Cardinality(Behind(i)') >= Capacity
  <2>1. ~(m.is = "dns" /\ m.id = x) /\ IsLast(i, Waits(x))
    BY <1>4, <1>7 DEF IsLast
  <2>2. \A q \in Entries(pending) : q.id # x
    BY <1>5, <1>7, <2>1
  <2>3. i <= Len(heard)
    BY <1>3, <2>1 DEF IsLast
  <2>4. Behind(i)' = Behind(i)
    BY <1>1, <2>3, BehindGrows
  <2> QED BY <1>1, <2>1, <2>2, <2>4 DEF TableInv
<1> QED BY <1>5, <1>6, <1>7 DEF TableInv

-----------------------------------------------------------------------------
(***************************************************************************)
(* The pairings, and the steps.                                            *)
(***************************************************************************)
\* Pairings of earlier responses stand.
LEMMA PairsStay ==
    ASSUME NamingInv, NEW m \in Messages, Hear(m), m.is # "dns", UNCHANGED pairs
    PROVE  PairsInv'
<1>1. /\ heard \in Seq(Messages) /\ Number = Len(heard) + 1 /\ Len(heard) \in Nat
      /\ DOMAIN heard = 1..Len(heard) /\ DOMAIN heard' = 1..Number /\ heard'[Number] = m
  BY HeardGrows DEF NamingInv
<1>2. \A p \in pairs' : p[1] \in DOMAIN heard' /\ IsLast(p[2], Waiting(p[1])')
  <2> TAKE p \in pairs'
  <2> DEFINE r == p[1]
  <2>1. p \in pairs /\ r \in DOMAIN heard /\ IsLast(p[2], Waiting(r))
    BY DEF NamingInv, PairsInv
  <2> HIDE DEF r
  <2>2. Waiting(r)' = Waiting(r)
    BY <1>1, <2>1, WaitingStays
  <2>3. r \in DOMAIN heard'
    BY <1>1, <2>1
  <2> QED BY <2>1, <2>2, <2>3 DEF r
<1>3. ASSUME NEW r \in DOMAIN heard', NEW i \in Nat, heard'[r].is = "dns", IsLast(i, Waiting(r)'),
             Cardinality(AskedBehind(i, r)') < Capacity
      PROVE  \E p \in pairs' : p[1] = r
  <2>1. r \in DOMAIN heard
    BY <1>1, <1>3
  <2>2. Waiting(r)' = Waiting(r) /\ AskedBehind(i, r)' = AskedBehind(i, r) /\ heard'[r] = heard[r]
    BY <1>1, <2>1, WaitingStays
  <2> QED BY <1>3, <2>1, <2>2 DEF NamingInv, PairsInv
<1> QED BY <1>2, <1>3 DEF PairsInv

LEMMA ResponsePairs ==
    ASSUME NamingInv, NEW id \in Ids, NEW a \in Answers, Response(id, a[1], a[2])
    PROVE  PairsInv'
<1> DEFINE m == [is |-> "dns", id |-> id, name |-> a[1], hosts |-> a[2]]
<1>1. /\ m \in Messages /\ Hear(m) /\ m.is = "dns" /\ m.id = id
      /\ pairs' = pairs \cup {<<Number, pending[k].number>> : k \in Places(id)}
  BY NameAssumption DEF Response, Messages
<1> HIDE DEF m
<1>2. /\ heard \in Seq(Messages) /\ Number = Len(heard) + 1 /\ Len(heard) \in Nat
      /\ DOMAIN heard = 1..Len(heard) /\ DOMAIN heard' = 1..Number /\ heard'[Number] = m
      /\ TableInv
  BY <1>1, HeardGrows DEF NamingInv
<1>3. \A r : r = Number => Waiting(r)' = Waits(id) /\ \A i \in Nat : AskedBehind(i, r)' = Behind(i)
  BY <1>1, <1>2, WaitingNow
<1>4. ASSUME NEW p \in pairs' PROVE p[1] \in DOMAIN heard' /\ IsLast(p[2], Waiting(p[1])')
  <2> DEFINE r == p[1]
  <2>1. CASE p \in pairs
    <3>1. r \in DOMAIN heard /\ IsLast(p[2], Waiting(r))
      BY <2>1 DEF NamingInv, PairsInv
    <3> HIDE DEF r
    <3>2. Waiting(r)' = Waiting(r)
      BY <1>1, <1>2, <3>1, WaitingStays
    <3>3. r \in DOMAIN heard'
      BY <1>2, <3>1
    <3> QED BY <3>1, <3>2, <3>3 DEF r
  <2>2. CASE p \notin pairs
    <3>1. PICK k \in Places(id) : p = <<Number, pending[k].number>>
      BY <1>1, <2>2
    <3>2. r = Number /\ p[2] = pending[k].number
      BY <3>1
    <3>3. IsLast(pending[k].number, Waits(id))
      BY <1>2 DEF Places, TableInv, Entries
    <3> HIDE DEF r
    <3>4. Waiting(r)' = Waits(id) /\ r \in DOMAIN heard'
      BY <1>2, <1>3, <3>2
    <3> QED BY <3>2, <3>3, <3>4 DEF r
  <2> QED BY <2>1, <2>2
<1>5. ASSUME NEW r \in DOMAIN heard', NEW i \in Nat, heard'[r].is = "dns", IsLast(i, Waiting(r)'),
             Cardinality(AskedBehind(i, r)') < Capacity
      PROVE  \E p \in pairs' : p[1] = r
  <2>1. CASE r \in DOMAIN heard
    <3>1. Waiting(r)' = Waiting(r) /\ AskedBehind(i, r)' = AskedBehind(i, r) /\ heard'[r] = heard[r]
      BY <1>1, <1>2, <2>1, WaitingStays
    <3>2. PICK p \in pairs : p[1] = r
      BY <1>5, <2>1, <3>1 DEF NamingInv, PairsInv
    <3> QED BY <1>1, <3>2
  <2>2. CASE r \notin DOMAIN heard
    <3>1. r = Number
      BY <1>2, <2>2
    <3>2. IsLast(i, Waits(id)) /\ Cardinality(Behind(i)) < Capacity
      BY <1>3, <1>5, <3>1
    <3>3. Capacity \in Nat /\ Cardinality(Behind(i)) \in Nat
      BY <1>2, NameAssumption, BehindFinite
    <3>4. ~(Cardinality(Behind(i)) >= Capacity)
      BY <3>2, <3>3
    <3>5. PICK q \in Entries(pending) : q.id = id
      BY <1>2, <3>2, <3>4 DEF TableInv
    <3>6. PICK k \in DOMAIN pending : pending[k] = q
      BY <3>5 DEF Entries
    <3>7. k \in Places(id)
      BY <3>5, <3>6 DEF Places
    <3> DEFINE p == <<Number, pending[k].number>>
    <3>8. p \in pairs' /\ p[1] = r
      BY <1>1, <3>1, <3>7
    <3> QED BY <3>8
  <2> QED BY <2>1, <2>2
<1> QED BY <1>4, <1>5 DEF PairsInv

LEMMA NamingInit == NameInit => NamingInv
<1> SUFFICES ASSUME NameInit PROVE NamingInv
  OBVIOUS
<1>1. heard = <<>> /\ pending = <<>> /\ pairs = {} /\ byIp = [h \in Hosts |-> NoEntry]
  BY DEF NameInit
<1>2. <<>> \in Seq(Messages) /\ DOMAIN <<>> = {} /\ <<>> \in Seq(Entry) /\ Len(<<>>) = 0
  OBVIOUS
<1>3. \A h : Naming(h, 1) = {}
  BY <1>1, <1>2 DEF Naming
<1>4. \A h \in Hosts : KnowsName(h)
  BY <1>1, <1>3 DEF KnowsName
<1>5. ByAge(pending) /\ Entries(pending) = {} /\ Len(pending) <= Capacity
  BY <1>1, <1>2, NameAssumption DEF ByAge, Entries
<1>6. \A id : Waits(id) = {}
  BY <1>1, <1>2 DEF Waits
<1>7. TableInv
  BY <1>5, <1>6 DEF TableInv, IsLast
<1>8. PairsInv
  BY <1>1, <1>2 DEF PairsInv
<1> QED BY <1>1, <1>2, <1>4, <1>7, <1>8 DEF NamingInv

LEMMA NamingNext == NamingInv /\ [NameNext]_nameVars => NamingInv'
<1> SUFFICES ASSUME NamingInv, [NameNext]_nameVars PROVE NamingInv'
  OBVIOUS
<1>1. heard \in Seq(Messages) /\ DOMAIN byIp = Hosts /\ \A h \in Hosts : KnowsName(h)
  BY DEF NamingInv
<1>2. ASSUME NEW id \in Ids, Query(id) PROVE NamingInv'
  <2> DEFINE m == [is |-> "query", id |-> id]
  <2>1. m \in Messages /\ Hear(m) /\ m.is = "query" /\ UNCHANGED <<byIp, pairs>>
    BY <1>2 DEF Query, Messages
  <2> HIDE DEF m
  <2>2. heard' \in Seq(Messages) /\ DOMAIN byIp' = Hosts
    BY <1>1, <2>1, HeardGrows
  <2>3. \A h \in Hosts : KnowsName(h)'
    BY <1>1, <2>1, NamesLearnt
  <2>4. PairsInv'
    BY <2>1, PairsStay
  <2> QED BY <1>2, <2>2, <2>3, <2>4, QueryKeepsTable DEF NamingInv
<1>3. ASSUME NEW id \in Ids, NEW a \in Answers, Response(id, a[1], a[2]) PROVE NamingInv'
  <2> DEFINE m == [is |-> "dns", id |-> id, name |-> a[1], hosts |-> a[2]]
  <2>1. /\ m \in Messages /\ Hear(m) /\ m.is = "dns" /\ m.id = id
        /\ m.name = a[1] /\ m.hosts = a[2] /\ pending' = Without(id)
        /\ byIp' = [h \in Hosts |-> IF h \in m.hosts /\ m.name # NoName
                                    THEN Insert(h, m.name, "dns") ELSE byIp[h]]
    BY <1>3, NameAssumption DEF Response, Messages
  <2> HIDE DEF m
  <2>2. heard' \in Seq(Messages) /\ DOMAIN byIp' = Hosts
    BY <1>1, <2>1, HeardGrows
  <2>3. ASSUME NEW h \in Hosts PROVE KnowsName(h)'
    <3>1. byIp'[h] = IF m.is # "query" /\ h \in m.hosts /\ m.name # NoName
                     THEN Insert(h, m.name, m.is) ELSE byIp[h]
      BY <2>1
    <3> QED BY <1>1, <2>1, <3>1, NamesLearnt
  <2>4. TableInv'
    BY <2>1, OthersKeepTable
  <2> QED BY <1>3, <2>2, <2>3, <2>4, ResponsePairs DEF NamingInv
<1>4. ASSUME NEW x \in Hosts, NEW n \in Names, NEW source \in {"hello", "http"}, Named(source, x, n)
      PROVE  NamingInv'
  <2> DEFINE m == [is |-> source, name |-> n, hosts |-> {x}]
  <2>1. /\ m \in Messages /\ Hear(m) /\ m.is = source /\ m.is # "dns" /\ m.is # "query"
        /\ m.name = n /\ n # NoName /\ m.hosts = {x}
        /\ byIp' = [byIp EXCEPT ![x] = Insert(x, n, source)] /\ UNCHANGED <<pending, pairs>>
    BY <1>4, NameAssumption DEF Named, Messages
  <2> HIDE DEF m
  <2>2. heard' \in Seq(Messages) /\ DOMAIN byIp' = Hosts
    BY <1>1, <2>1, HeardGrows
  <2>3. ASSUME NEW h \in Hosts PROVE KnowsName(h)'
    <3>1. byIp'[h] = IF m.is # "query" /\ h \in m.hosts /\ m.name # NoName
                     THEN Insert(h, m.name, m.is) ELSE byIp[h]
      BY <1>1, <2>1
    <3> QED BY <1>1, <2>1, <3>1, NamesLearnt
  <2>4. TableInv'
    BY <2>1, OthersKeepTable
  <2>5. PairsInv'
    BY <2>1, PairsStay
  <2> QED BY <2>2, <2>3, <2>4, <2>5 DEF NamingInv
<1>5. CASE UNCHANGED nameVars
  <2>1. UNCHANGED <<byIp, pending, pairs, heard>>
    BY <1>5 DEF nameVars
  <2>2. \A h \in Hosts : KnowsName(h)'
    <3>1. \A h, least : Naming(h, least)' = Naming(h, least)
      BY <2>1 DEF Naming
    <3> QED BY <1>1, <2>1, <3>1 DEF KnowsName, NoEntry
  <2>3. TableInv'
    <3>1. \A x : Waits(x)' = Waits(x) /\ Behind(x)' = Behind(x)
      BY <2>1 DEF Waits, Behind
    <3> QED BY <2>1, <3>1 DEF NamingInv, TableInv
  <2>4. PairsInv'
    <3>1. \A r : Waiting(r)' = Waiting(r) /\ \A i : AskedBehind(i, r)' = AskedBehind(i, r)
      BY <2>1 DEF Waiting, AskedBehind
    <3> QED BY <2>1, <3>1 DEF NamingInv, PairsInv
  <2> QED BY <1>1, <2>1, <2>2, <2>3, <2>4 DEF NamingInv
<1> QED BY <1>2, <1>3, <1>4, <1>5 DEF NameNext

\* Names and pairings: over any number of packets, whatever is lost, repeated
\* or asked again, an address is called by the last packet that named it from
\* the best source, and a response is paired with the latest query that waits.
THEOREM NamingIsExact == NameSpec => []NamingExact
<1>1. NamingInv => NamesKept
  <2> SUFFICES ASSUME NamingInv, NEW h \in Hosts
               PROVE  byIp[h].name =
                        IF Naming(h, 2) # {} THEN heard[Latest(Naming(h, 2))].name
                        ELSE IF Naming(h, 1) # {} THEN heard[Latest(Naming(h, 1))].name
                        ELSE NoName
    BY Zenon DEF NamesKept
  <2>1. KnowsName(h) /\ Naming(h, 2) \subseteq Naming(h, 1) /\ Naming(h, 1) \in SUBSET Nat
    BY StrongNames DEF NamingInv
  <2>2. CASE byIp[h] = NoEntry /\ Naming(h, 1) = {}
    BY <2>1, <2>2 DEF NoEntry
  <2>3. ASSUME Naming(h, 2) = {}, NEW i \in Naming(h, 1), IsLast(i, Naming(h, 1)),
               byIp[h] = [name |-> heard[i].name, priority |-> 1]
        PROVE  byIp[h].name = heard[Latest(Naming(h, 1))].name
    <3>1. Latest(Naming(h, 1)) = i
      BY <2>1, <2>3, LatestIs
    <3> QED BY <2>3, <3>1
  <2>4. ASSUME NEW i \in Naming(h, 2), IsLast(i, Naming(h, 2)),
               byIp[h] = [name |-> heard[i].name, priority |-> 2]
        PROVE  byIp[h].name = heard[Latest(Naming(h, 2))].name
    <3>1. Naming(h, 2) \in SUBSET Nat
      BY <2>1
    <3>2. Latest(Naming(h, 2)) = i
      BY <2>4, <3>1, LatestIs
    <3> QED BY <2>4, <3>2
  <2> QED BY <2>1, <2>2, <2>3, <2>4 DEF KnowsName
<1>2. NamingInv => PairsExact
  <2> SUFFICES ASSUME NamingInv PROVE PairsExact
    OBVIOUS
  <2>1. DOMAIN heard = 1..Len(heard) /\ Len(heard) \in Nat
    BY LenProperties DEF NamingInv
  <2>2. \A r \in DOMAIN heard : Waiting(r) \in SUBSET Nat /\ r \in Nat /\ \A i \in Waiting(r) : i <= r
    BY <2>1 DEF Waiting
  <2>3. ASSUME NEW p \in pairs PROVE Waiting(p[1]) # {} /\ p[2] = Latest(Waiting(p[1]))
    <3>1. p[1] \in DOMAIN heard /\ IsLast(p[2], Waiting(p[1]))
      BY DEF NamingInv, PairsInv
    <3>2. Latest(Waiting(p[1])) = p[2]
      BY <2>2, <3>1, LatestIs
    <3> QED BY <3>1, <3>2 DEF IsLast
  <2>4. ASSUME NEW r \in DOMAIN heard, heard[r].is = "dns", Waiting(r) # {},
               Cardinality(AskedBehind(Latest(Waiting(r)), r)) < Capacity
        PROVE  \E p \in pairs : p[1] = r
    <3>1. PICK i \in Waiting(r) : \A j \in Waiting(r) : j <= i
      BY <2>2, <2>4, Extremes
    <3>2. IsLast(i, Waiting(r)) /\ i \in Nat
      BY <2>2, <3>1 DEF IsLast
    <3>3. Latest(Waiting(r)) = i
      BY <2>2, <3>2, LatestIs
    <3> QED BY <2>4, <3>2, <3>3 DEF NamingInv, PairsInv
  <2> QED BY <2>3, <2>4 DEF PairsExact
<1>3. NameSpec => []NamingInv
  BY NamingInit, NamingNext, PTL DEF NameSpec
<1> QED BY <1>1, <1>2, <1>3, PTL DEF NamingExact

-----------------------------------------------------------------------------
(***************************************************************************)
(* A sum over a sequence, from a value it begins with.                     *)
(***************************************************************************)
LEMMA LeastOf ==
    ASSUME NEW T \in SUBSET Nat, T # {}
    PROVE  \E n \in T : \A m \in T : n <= m
<1>1. PICK n \in T : \A m \in T : ~(<<m, n>> \in OpToRel(<, Nat))
  BY NatLessThanWellFounded, WFMin
<1>2. \A m \in T : ~(m < n)
  BY <1>1 DEF OpToRel
<1> QED BY <1>2

SumFrom(b, c) == FoldLeft(LAMBDA a, x : a + x, b, c)

\* One step of the fold, and a function that takes it at every set of at most n
\* positions.
FoldStep(b, c, f, s) ==
    IF s = {} THEN b ELSE LET i == Max(s) IN f[s \ {i}] + c[i]

FewOf(T, n) == {s \in SUBSET T : Cardinality(s) <= n}
IsFold(f, b, c, n) ==
    /\ f = [s \in FewOf(DOMAIN c, n) |-> f[s]]
    /\ \A s \in FewOf(DOMAIN c, n) : f[s] = FoldStep(b, c, f, s)

LEMMA LargestOf ==
    ASSUME NEW n \in Nat, NEW s \in SUBSET (1..n), s # {}
    PROVE  Max(s) \in s /\ \A x \in s : x <= Max(s)
<1> DEFINE Above == {m \in Nat : \A x \in s : x <= m}
<1>1. n \in Above
  OBVIOUS
<1>2. PICK m \in Above : \A k \in Above : m <= k
  BY <1>1, LeastOf
<1>3. m \in s
  <2> SUFFICES ASSUME m \notin s PROVE FALSE
    OBVIOUS
  <2>1. \A x \in s : x < m /\ x \in Nat /\ x > 0
    BY <1>2
  <2>2. m > 0 /\ m \in Nat
    <3>1. PICK x \in s : TRUE
      OBVIOUS
    <3> QED BY <1>2, <2>1, <3>1
  <2>3. m - 1 \in Nat /\ \A x \in s : x <= m - 1
    BY <2>1, <2>2
  <2> QED BY <1>2, <2>2, <2>3
<1>4. \A x \in s : m >= x
  BY <1>2
<1>5. \E x \in s : \A y \in s : x >= y
  BY <1>3, <1>4
<1>6. Max(s) \in s /\ \A y \in s : Max(s) >= y
  BY <1>5, Zenon DEF Max
<1> QED BY <1>6

LEMMA SmallerOf ==
    ASSUME NEW T, IsFiniteSet(T), NEW s \in SUBSET T
    PROVE  /\ IsFiniteSet(s) /\ Cardinality(s) \in Nat /\ Cardinality(s) <= Cardinality(T)
           /\ Cardinality(s) = 0 <=> s = {}
           /\ \A x \in s : Cardinality(s \ {x}) = Cardinality(s) - 1
BY FS_Subset, FS_CardinalityType, FS_EmptySet, FS_RemoveElement

LEMMA FewerOf ==
    ASSUME NEW n \in Nat, NEW s \in SUBSET (1..n)
    PROVE  /\ IsFiniteSet(s) /\ Cardinality(s) \in Nat /\ Cardinality(s) <= n
           /\ Cardinality(s) = 0 <=> s = {}
           /\ \A x \in s : Cardinality(s \ {x}) = Cardinality(s) - 1
<1>1. IsFiniteSet(1..n) /\ Cardinality(1..n) = n
  BY FS_Interval
<1> DEFINE T == 1..n
<1>2. IsFiniteSet(T) /\ Cardinality(T) = n /\ s \in SUBSET T
  BY <1>1
<1> HIDE DEF T
<1> QED BY <1>2, SmallerOf

LEMMA FoldExists ==
    ASSUME NEW b, NEW c \in Seq(Int), NEW n \in Nat
    PROVE  \E f : IsFold(f, b, c, n)
<1> DEFINE T == DOMAIN c
           Bad == {k \in Nat : ~\E f : IsFold(f, b, c, k)}
<1> SUFFICES ASSUME n \in Bad PROVE FALSE
  OBVIOUS
<1>0. Len(c) \in Nat /\ T = 1..Len(c)
  OBVIOUS
<1>1. PICK k \in Bad : \A m \in Bad : k <= m
  BY LeastOf
<1> HIDE DEF T
<1>2. CASE k = 0
  <2> DEFINE f == [s \in FewOf(T, 0) |-> b]
  <2>1. \A s \in FewOf(T, 0) : s = {}
    BY <1>0, FewerOf DEF FewOf
  <2>2. \A s \in FewOf(T, 0) : f[s] = FoldStep(b, c, f, s)
    BY <2>1 DEF FoldStep
  <2>3. f = [s \in FewOf(T, 0) |-> f[s]]
    OBVIOUS
  <2> HIDE DEF f
  <2> QED BY <1>1, <1>2, <2>2, <2>3 DEF IsFold, T
<1>3. CASE k # 0
  <2>1. k \in Nat /\ k - 1 \in Nat /\ k - 1 \notin Bad
    BY <1>1, <1>3
  <2>2. PICK g : IsFold(g, b, c, k - 1)
    BY <2>1
  <2> DEFINE f == [s \in FewOf(T, k) |-> FoldStep(b, c, g, s)]
  <2>3. \A s \in FewOf(T, k - 1) : f[s] = g[s]
    <3>1. \A s \in FewOf(T, k - 1) : s \in FewOf(T, k)
      BY <1>0, <2>1, FewerOf DEF FewOf
    <3> QED BY <2>2, <3>1 DEF IsFold, T
  <2>4. \A s \in FewOf(T, k) : f[s] = FoldStep(b, c, f, s)
    <3> TAKE s \in FewOf(T, k)
    <3>1. CASE s = {}
      BY <3>1 DEF FoldStep
    <3>2. CASE s # {}
      <4> DEFINE x == Max(s)
      <4>1. x \in s
        BY <1>0, <3>2, LargestOf DEF FewOf
      <4> HIDE DEF x
      <4>2. s \ {x} \in FewOf(T, k - 1)
        <5>1. s \in SUBSET T /\ Cardinality(s) <= k
          BY DEF FewOf
        <5>2. Cardinality(s \ {x}) = Cardinality(s) - 1 /\ Cardinality(s) \in Nat
          BY <1>0, <4>1, <5>1, FewerOf
        <5> QED BY <2>1, <5>1, <5>2 DEF FewOf
      <4>3. f[s \ {x}] = g[s \ {x}]
        BY <2>3, <4>2
      <4> HIDE DEF f
      <4>4. FoldStep(b, c, f, s) = FoldStep(b, c, g, s)
        BY <4>3 DEF FoldStep, x
      <4> QED BY <4>4 DEF f
    <3> QED BY <3>1, <3>2
  <2>5. f = [s \in FewOf(T, k) |-> f[s]]
    OBVIOUS
  <2> HIDE DEF f
  <2> QED BY <1>1, <2>4, <2>5 DEF IsFold, T
<1> QED BY <1>2, <1>3

\* A sum, position by position.
Rungs(g, c, n) == \A k \in 1..n : g[k] = g[k - 1] + c[k]
Ladder(g, b, c) == g[0] = b /\ Rungs(g, c, Len(c))

LEMMA SumIsLadder ==
    ASSUME NEW b, NEW c \in Seq(Int)
    PROVE  \E g : Ladder(g, b, c) /\ SumFrom(b, c) = g[Len(c)]
<1> DEFINE T == DOMAIN c
           n == Len(c)
           P(f) == f = [s \in SUBSET T |->
            IF s = {} THEN b ELSE LET i == Max(s) IN f[s \ {i}] + c[i]]
<1>1. n \in Nat /\ T = 1..n
  OBVIOUS
<1> HIDE DEF T, n
<1>2. FewOf(T, n) = SUBSET T
  BY <1>1, FewerOf DEF FewOf
<1>3. PICK h : IsFold(h, b, c, n)
  BY <1>1, FoldExists
<1>4. /\ h = [s \in SUBSET T |-> h[s]]
      /\ \A s \in SUBSET T : h[s] = FoldStep(b, c, h, s)
  BY <1>2, <1>3 DEF IsFold, T
<1>5. P(h)
  BY <1>4, Zenon DEF FoldStep
<1>6. P(CHOOSE f : P(f))
  BY <1>5, Zenon
<1>7. SumFrom(b, c) = (CHOOSE f : P(f))[T]
  BY Zenon DEF SumFrom, FoldLeft, MapThenFoldSet, T
<1> DEFINE f == CHOOSE f : P(f)
<1>8. P(f)
  BY <1>6
<1> HIDE DEF f
<1>9. \A s \in SUBSET T : f[s] = FoldStep(b, c, f, s)
  BY <1>8, Zenon DEF FoldStep
<1> DEFINE g == [k \in 0..n |-> f[1..k]]
<1>10. g[0] = b
  <2>1. 1..0 = {} /\ 1..0 \in SUBSET T
    OBVIOUS
  <2>2. f[1..0] = b
    BY <1>9, <2>1 DEF FoldStep
  <2> QED BY <1>1, <2>2
<1>11. ASSUME NEW k \in 1..n PROVE g[k] = g[k - 1] + c[k]
  <2>1. 1..k \in SUBSET T /\ k \in Nat /\ k \in 1..k /\ k - 1 \in Nat /\ k - 1 \in 0..n
    BY <1>1
  <2>2. Max(1..k) = k
    <3> DEFINE s == 1..k
    <3>0. s \in SUBSET (1..k) /\ k \in s
      BY <2>1
    <3> HIDE DEF s
    <3>1. Max(s) \in s /\ k <= Max(s)
      BY <2>1, <3>0, LargestOf
    <3> QED BY <2>1, <3>1 DEF s
  <2>3. (1..k) \ {k} = 1..(k - 1)
    BY <2>1
  <2>4. f[1..k] = f[1..(k - 1)] + c[k]
    <3>1. 1..k # {}
      BY <2>1
    <3> QED BY <1>9, <2>1, <2>2, <2>3, <3>1 DEF FoldStep
  <2> QED BY <1>1, <2>1, <2>4
<1>12. SumFrom(b, c) = g[n]
  BY <1>1, <1>7 DEF f
<1> HIDE DEF g
<1> QED BY <1>10, <1>11, <1>12 DEF Ladder, Rungs, n

\* Two of them keep the distance they begin with.
LEMMA LaddersApart ==
    ASSUME NEW c \in Seq(Int), NEW n \in 0..Len(c), NEW a \in Int, NEW b \in Int,
           NEW g, NEW h, g[0] = a, h[0] = b, Rungs(g, c, n), Rungs(h, c, n)
    PROVE  g[n] \in Int /\ h[n] = g[n] + (b - a)
<1> DEFINE Bad == {k \in Nat : k <= n /\ ~(g[k] \in Int /\ h[k] = g[k] + (b - a))}
<1> SUFFICES ASSUME n \in Bad PROVE FALSE
  OBVIOUS
<1>1. PICK k \in Bad : \A m \in Bad : k <= m
  BY LeastOf
<1>2. k # 0
  BY <1>1
<1>3. k \in 1..n /\ k - 1 \in Nat /\ k - 1 <= n /\ k - 1 \notin Bad /\ c[k] \in Int
  BY <1>1, <1>2
<1>4. g[k - 1] \in Int /\ h[k - 1] = g[k - 1] + (b - a)
  BY <1>3
<1>5. g[k] = g[k - 1] + c[k] /\ h[k] = h[k - 1] + c[k]
  BY <1>3 DEF Rungs
<1> DEFINE x == g[k - 1]
           y == c[k]
<1>6. x + y \in Int /\ (x + (b - a)) + y = (x + y) + (b - a)
  BY <1>3, <1>4
<1> HIDE DEF x, y
<1> QED BY <1>1, <1>4, <1>5, <1>6 DEF x, y

\* More to begin with, and one more at the end.
LEMMA SumShifts ==
    ASSUME NEW c \in Seq(Int), NEW a \in Int, NEW b \in Int
    PROVE  SumFrom(a, c) \in Int /\ SumFrom(b, c) = SumFrom(a, c) + (b - a)
<1>1. PICK g : Ladder(g, a, c) /\ SumFrom(a, c) = g[Len(c)]
  BY SumIsLadder
<1>2. PICK h : Ladder(h, b, c) /\ SumFrom(b, c) = h[Len(c)]
  BY SumIsLadder
<1> DEFINE n == Len(c)
<1>3. n \in 0..Len(c)
  OBVIOUS
<1>4. g[0] = a /\ h[0] = b /\ Rungs(g, c, n) /\ Rungs(h, c, n)
  BY <1>1, <1>2 DEF Ladder
<1> HIDE DEF n
<1>5. g[n] \in Int /\ h[n] = g[n] + (b - a)
  BY <1>3, <1>4, LaddersApart
<1> QED BY <1>1, <1>2, <1>5 DEF n

LEMMA SumAppends ==
    ASSUME NEW c \in Seq(Int), NEW b \in Int, NEW x \in Int
    PROVE  SumFrom(b, Append(c, x)) = SumFrom(b, c) + x
<1> DEFINE d == Append(c, x)
           n == Len(c)
<1>1. /\ d \in Seq(Int) /\ n \in Nat /\ Len(d) = n + 1 /\ d[n + 1] = x
      /\ \A k \in 1..n : d[k] = c[k]
  OBVIOUS
<1> HIDE DEF d
<1>2. PICK g : Ladder(g, b, c) /\ SumFrom(b, c) = g[n]
  BY SumIsLadder
<1>3. PICK h : Ladder(h, b, d) /\ SumFrom(b, d) = h[n + 1]
  BY <1>1, SumIsLadder
<1>4. Rungs(g, c, n) /\ Rungs(h, c, n)
  BY <1>1, <1>2, <1>3 DEF Ladder, Rungs
<1>5. g[n] \in Int /\ h[n] = g[n] + (b - b)
  <2>1. n \in 0..Len(c) /\ g[0] = b /\ h[0] = b
    BY <1>1, <1>2, <1>3 DEF Ladder
  <2> HIDE DEF n
  <2> QED BY <1>4, <2>1, LaddersApart
<1>6. h[n + 1] = h[n] + x
  BY <1>1, <1>3, SMTT(30) DEF Ladder, Rungs
<1> QED BY <1>2, <1>3, <1>5, <1>6 DEF d

-----------------------------------------------------------------------------
(***************************************************************************)
(* The volume baseline.                                                    *)
(***************************************************************************)
VolumeRow == [mean : Int, var : Int, acc : Nat, start : Int, samples : Nat]

\* The parts of VolumeExact, of a row r, closed intervals c, times p.
Counts(r, c, n) == n = SumFrom(r.acc, c)
InPhase(r, p) ==
    VolumeInterval > 0 =>
        (r.start - p[1]) % VolumeInterval = 0 /\ p[2] < r.start + VolumeInterval /\ r.start <= p[2]
Middle(r, c) ==
    c # <<>> =>
        /\ \E i \in DOMAIN c : c[i] * Unit <= r.mean
        /\ \E i \in DOMAIN c : r.mean <= c[i] * Unit
        /\ r.var >= 0
        /\ (\A i, j \in DOMAIN c : c[i] = c[j]) => r.var = 0
Higher(s, c) ==
    \A n \in s : /\ n >= MinSamples /\ c[n] >= Floor
                 /\ \E i \in 1..(n - 1) : c[i] < c[n]

RowInv(r, p) ==
    /\ r \in VolumeRow /\ r.samples = Len(closed) /\ p \in Int \X Int
    /\ Counts(r, closed, sentUp) /\ InPhase(r, p) /\ Middle(r, closed)

\* Row, intervals and spikes belong together, whether or not there is a row.
VolumeInv ==
    /\ closed \in Seq(Nat) /\ sentUp \in Nat
    /\ spikes \subseteq 1..Len(closed) /\ Higher(spikes, closed)
    /\ volume = NoRow => closed = <<>> /\ sentUp = 0 /\ span = <<>>
    /\ volume # NoRow => RowInv(volume, span)

\* The average moves towards the sample and not past it.
LEMMA Towards ==
    ASSUME NEW d \in Nat \ {0}, NEW a \in 0..d, NEW m \in Int, NEW x \in Int
    PROVE  /\ m + (a * (x - m)) \div d \in Int
           /\ x >= m => m <= m + (a * (x - m)) \div d /\ m + (a * (x - m)) \div d <= x
           /\ x <= m => x <= m + (a * (x - m)) \div d /\ m + (a * (x - m)) \div d <= m
<1> DEFINE e == x - m
           s == (a * e) \div d
<1>1. e \in Int /\ a * e \in Int /\ a \in Nat
  OBVIOUS
<1>2. s \in Int
  BY <1>1
<1>3. e >= 0 => 0 <= s /\ s <= e
  BY <1>1
<1>4. e <= 0 => e <= s /\ s <= 0
  BY <1>1
<1> HIDE DEF s
<1>5. /\ m + s \in Int
      /\ x >= m => m <= m + s /\ m + s <= x
      /\ x <= m => x <= m + s /\ m + s <= m
  BY <1>2, <1>3, <1>4
<1> QED BY <1>5 DEF s

LEMMA Spread ==
    ASSUME NEW d \in Nat \ {0}, NEW a \in 0..d, NEW v \in Int, NEW e \in Int, v >= 0
    PROVE  /\ ((d - a) * (v + (a * e * e) \div d)) \div d \in Int
           /\ ((d - a) * (v + (a * e * e) \div d)) \div d >= 0
           /\ v = 0 /\ e = 0 => ((d - a) * (v + (a * e * e) \div d)) \div d = 0
<1> DEFINE q == a * e * e
           w == v + q \div d
           u == (d - a) * w
<1>1. q \in Int /\ q >= 0 /\ (e = 0 => q = 0)
  <2>1. a * e * e = a * (e * e) /\ e * e >= 0 /\ e * e \in Int /\ a >= 0 /\ a \in Int
    OBVIOUS
  <2> QED BY <2>1
<1> HIDE DEF q
<1>2. q \div d \in Int /\ q \div d >= 0 /\ (q = 0 => q \div d = 0)
  BY <1>1
<1>3. w \in Int /\ w >= 0 /\ (v = 0 /\ e = 0 => w = 0)
  BY <1>1, <1>2
<1> HIDE DEF w
<1>4. d - a \in Nat
  OBVIOUS
<1>5. u \in Int /\ u >= 0 /\ (w = 0 => u = 0)
  BY <1>3, <1>4
<1> HIDE DEF u
<1>6. u \div d \in Int /\ u \div d >= 0 /\ (u = 0 => u \div d = 0)
  BY <1>5
<1> QED BY <1>3, <1>5, <1>6 DEF u, w, q

LEMMA Scaled ==
    ASSUME NEW x \in Int, NEW y \in Int, NEW u \in Nat \ {0}
    PROVE  x * u \in Int /\ (x * u < y * u => x < y)
OBVIOUS

\* The intervals a closed interval starts over by.
LEMMA Boundaries ==
    ASSUME NEW k \in Nat \ {0}, NEW s \in Int, NEW t \in Int, NEW p \in Int,
           t - s >= k, (s - p) % k = 0
    PROVE  LET b == s + ((t - s) \div k) * k
           IN  b \in Int /\ (b - p) % k = 0 /\ b >= s + k /\ b <= t /\ t < b + k
<1> DEFINE q == (t - s) \div k
           r == (t - s) % k
           z == (s - p) \div k
<1>1. q \in Int /\ r \in 0..(k - 1) /\ t - s = k * q + r /\ q >= 1
  OBVIOUS
<1>2. z \in Int /\ s - p = k * z
  OBVIOUS
<1> HIDE DEF q, r, z
<1>3. k * q \in Int /\ q * k = k * q /\ k * q >= k
  BY <1>1
<1>4. z + q \in Int /\ k * (z + q) = k * z + k * q
  BY <1>1, <1>2
<1>5. (k * (z + q)) % k = 0
  <2> DEFINE y == z + q
  <2>1. y \in Int
    BY <1>4
  <2> HIDE DEF y
  <2>2. (k * y) % k = 0
    BY <2>1
  <2> QED BY <2>2 DEF y
<1> DEFINE b == s + q * k
           kq == k * q
           kz == k * z
<1>6. b = s + kq /\ kq \in Int /\ kz \in Int /\ s - p = kz /\ k * (z + q) = kz + kq
      /\ kq >= k /\ t - s = kq + r
  BY <1>1, <1>2, <1>3, <1>4
<1> HIDE DEF b, kq, kz
<1>7. b \in Int /\ b - p = kz + kq /\ b >= s + k /\ b <= t /\ t < b + k
  BY <1>1, <1>6
<1>8. (b - p) % k = 0
  BY <1>5, <1>6, <1>7
<1> QED BY <1>7, <1>8 DEF b, q

\* The row a packet finds, or the fresh one it makes, and the times with it.
LEMMA KnownRow ==
    ASSUME VolumeInv, NEW now \in Int
    PROVE  RowInv(Known(now), IF span = <<>> THEN <<now, now>> ELSE span)
<1> USE VolumeAssumption
<1>1. CASE volume # NoRow
  <2>1. RowInv(volume, span)
    BY <1>1 DEF VolumeInv
  <2>2. span \in Int \X Int
    BY <2>1 DEF RowInv
  <2>3. span # <<>>
    BY <2>2
  <2> QED BY <1>1, <2>1, <2>3 DEF Known
<1>2. CASE volume = NoRow
  <2> DEFINE r == Row(0, 0, 0, now, 0)
  <2>1. /\ r \in VolumeRow /\ r.samples = 0 /\ r.acc = 0 /\ r.start = now
        /\ Known(now) = r
    BY <1>2 DEF Row, VolumeRow, Known
  <2>2. closed = <<>> /\ sentUp = 0 /\ span = <<>> /\ Len(closed) = 0
    BY <1>2 DEF VolumeInv
  <2> HIDE DEF r
  <2>3. Counts(r, closed, sentUp)
    <3>1. closed \in Seq(Int)
      BY <2>2
    <3>2. PICK g : Ladder(g, 0, closed) /\ SumFrom(0, closed) = g[Len(closed)]
      BY <3>1, SumIsLadder
    <3> QED BY <2>1, <2>2, <3>2 DEF Counts, Ladder
  <2>4. InPhase(r, <<now, now>>)
    <3>1. now - now = 0
      OBVIOUS
    <3>2. VolumeInterval > 0 => 0 % VolumeInterval = 0 /\ now < now + VolumeInterval
      OBVIOUS
    <3> QED BY <2>1, <3>1, <3>2 DEF InPhase
  <2>5. Middle(r, closed)
    BY <2>2 DEF Middle
  <2> QED BY <2>1, <2>2, <2>3, <2>4, <2>5 DEF RowInv
<1> QED BY <1>1, <1>2

LEMMA AccOf ==
    ASSUME NEW r, NEW m, NEW w, NEW a, NEW s, NEW n, NEW x, r = Row(m, w, a, s, n)
    PROVE  [r EXCEPT !.acc = x] = Row(m, w, x, s, n)
BY DEF Row

\* The row and the times when the packet is counted.
LEMMA PacketCounted ==
    ASSUME NEW r, NEW p, RowInv(r, p), closed \in Seq(Nat), sentUp \in Nat,
           NEW now \in Int, NEW bytes \in Nat
    PROVE  LET v == [r EXCEPT !.acc = @ + bytes]
               q == <<p[1], IF now > p[2] THEN now ELSE p[2]>>
           IN  /\ v \in VolumeRow /\ v.samples = Len(closed) /\ q \in Int \X Int
               /\ v.start = r.start /\ q[1] = p[1]
               /\ Counts(v, closed, sentUp + bytes) /\ Middle(v, closed)
               /\ ~Elapsed(v, now) => InPhase(v, q)
<1> USE VolumeAssumption
<1> DEFINE v == [r EXCEPT !.acc = @ + bytes]
           q == <<p[1], IF now > p[2] THEN now ELSE p[2]>>
<1>0. r \in VolumeRow
  BY DEF RowInv
<1>1. /\ v \in VolumeRow /\ v.acc = r.acc + bytes /\ v.start = r.start
      /\ v.samples = r.samples /\ v.mean = r.mean /\ v.var = r.var
      /\ r.acc \in Nat /\ r.start \in Int
  <2>1. /\ r = Row(r.mean, r.var, r.acc, r.start, r.samples)
        /\ r.mean \in Int /\ r.var \in Int /\ r.acc \in Nat /\ r.start \in Int
        /\ r.samples \in Nat
    BY <1>0 DEF VolumeRow, Row
  <2>2. v = Row(r.mean, r.var, r.acc + bytes, r.start, r.samples)
    <3> DEFINE a2 == r.acc + bytes
    <3>1. v = [r EXCEPT !.acc = a2]
      OBVIOUS
    <3> HIDE DEF a2, v
    <3>2. [r EXCEPT !.acc = a2] = Row(r.mean, r.var, a2, r.start, r.samples)
      <4> DEFINE m == r.mean
                 w == r.var
                 a == r.acc
                 s == r.start
                 n == r.samples
      <4>1. r = Row(m, w, a, s, n)
        BY <2>1
      <4> HIDE DEF m, w, a, s, n
      <4>2. [r EXCEPT !.acc = a2] = Row(m, w, a2, s, n)
        BY <4>1, AccOf
      <4> QED BY <4>2 DEF m, w, a, s, n
    <3> QED BY <3>1, <3>2 DEF a2
  <2>3. r.acc + bytes \in Nat
    BY <2>1
  <2> HIDE DEF v
  <2> QED BY <2>1, <2>2, <2>3 DEF Row, VolumeRow
<1>2. q \in Int \X Int /\ q[1] = p[1] /\ q[2] = IF now > p[2] THEN now ELSE p[2]
  BY DEF RowInv
<1> HIDE DEF v, q
<1>3. Counts(v, closed, sentUp + bytes)
  <2>1. closed \in Seq(Int) /\ r.acc \in Int /\ r.acc + bytes \in Int
    BY <1>1
  <2>2. SumFrom(r.acc + bytes, closed) = SumFrom(r.acc, closed) + ((r.acc + bytes) - r.acc)
    BY <2>1, SumShifts
  <2>3. SumFrom(r.acc, closed) = sentUp
    BY DEF RowInv, Counts
  <2> QED BY <1>1, <2>1, <2>2, <2>3 DEF Counts
<1>4. Middle(v, closed)
  BY <1>1 DEF Middle, RowInv
<1>5. ASSUME ~Elapsed(v, now) PROVE InPhase(v, q)
  <2> SUFFICES ASSUME VolumeInterval > 0
               PROVE  /\ (v.start - q[1]) % VolumeInterval = 0
                      /\ q[2] < v.start + VolumeInterval /\ v.start <= q[2]
    BY DEF InPhase
  <2>1. /\ (r.start - p[1]) % VolumeInterval = 0
        /\ p[2] < r.start + VolumeInterval /\ r.start <= p[2] /\ p[2] \in Int
    BY DEF RowInv, InPhase
  <2>2. v.start = r.start /\ r.start \in Int /\ now \in Int /\ VolumeInterval \in Int
    BY <1>1
  <2>3. now < r.start + VolumeInterval
    BY <1>5, <2>2 DEF Elapsed
  <2>4. (v.start - q[1]) % VolumeInterval = 0
    BY <1>2, <2>1, <2>2, Zenon
  <2>5. q[2] < v.start + VolumeInterval /\ v.start <= q[2]
    <3>1. CASE now > p[2]
      <4>1. q[2] = now
        BY <1>2, <3>1, Zenon
      <4>2. r.start <= now
        BY <2>1, <2>2, <3>1
      <4> QED BY <2>2, <2>3, <4>1, <4>2, Zenon
    <3>2. CASE ~(now > p[2])
      <4>1. q[2] = p[2]
        BY <1>2, <3>2, Zenon
      <4> QED BY <2>1, <2>2, <4>1, Zenon
    <3> QED BY <3>1, <3>2
  <2> QED BY <2>4, <2>5
<1> QED BY <1>1, <1>2, <1>3, <1>4, <1>5, RowInv(r, p) DEF v, q, RowInv

\* What the EWMA makes of the mean and the variance.
LEMMA FoldKeepsMiddle ==
    ASSUME NEW v \in VolumeRow, closed \in Seq(Nat), v.samples = Len(closed),
           Middle(v, closed), NEW x \in Nat
    PROVE  /\ Folded(v, x) \in VolumeRow /\ Folded(v, x).acc = v.acc
           /\ Folded(v, x).start = v.start /\ Folded(v, x).samples = v.samples
           /\ Middle(Folded(v, x), Append(closed, x))
<1> USE VolumeAssumption
<1> DEFINE c == Append(closed, x)
           n == Len(closed)
           f == Folded(v, x)
<1>1. /\ c \in Seq(Nat) /\ n \in Nat /\ DOMAIN c = 1..(n + 1) /\ DOMAIN closed = 1..n
      /\ c[n + 1] = x /\ (\A k \in 1..n : c[k] = closed[k]) /\ c # <<>>
      /\ closed = <<>> <=> n = 0
  OBVIOUS
<1>2. /\ v.mean \in Int /\ v.var \in Int /\ v.acc \in Nat /\ v.start \in Int
      /\ v.samples \in Nat /\ Unit \in Nat \ {0}
  BY DEF VolumeRow
<1> DEFINE y == x * Unit
<1>3. y \in Int
  BY <1>2
<1>4. CASE n = 0
  <2>1. f = [v EXCEPT !.mean = y, !.var = 0]
    BY <1>4 DEF Folded
  <2> HIDE DEF f, y
  <2>2. /\ f \in VolumeRow /\ f.mean = y /\ f.var = 0
        /\ f.acc = v.acc /\ f.start = v.start /\ f.samples = v.samples
    <3>1. v = Row(v.mean, v.var, v.acc, v.start, v.samples)
      BY DEF VolumeRow, Row
    <3>2. f = Row(y, 0, v.acc, v.start, v.samples)
      BY <2>1, <3>1 DEF Row
    <3> QED BY <1>2, <1>3, <3>2 DEF Row, VolumeRow
  <2>3. Middle(f, c)
    <3>1. 1 \in DOMAIN c /\ c[1] * Unit = y /\ y <= y
      BY <1>1, <1>3, <1>4 DEF y
    <3> HIDE DEF c
    <3> QED BY <2>2, <3>1 DEF Middle
  <2> QED BY <2>2, <2>3 DEF f
<1>5. CASE n # 0
  <2> DEFINE e == y - v.mean
             mean2 == v.mean + (AlphaNum * e) \div AlphaDen
             var2 == ((AlphaDen - AlphaNum)
                      * (v.var + (AlphaNum * e * e) \div AlphaDen)) \div AlphaDen
  <2>1. f = [v EXCEPT !.mean = mean2, !.var = var2]
    BY <1>5, <1>2 DEF Folded
  <2>2. /\ mean2 \in Int
        /\ y >= v.mean => v.mean <= mean2 /\ mean2 <= y
        /\ y <= v.mean => y <= mean2 /\ mean2 <= v.mean
    BY <1>2, <1>3, Towards
  <2>3. closed # <<>>
    BY <1>1, <1>5
  <2>4. v.var >= 0
    BY <2>3 DEF Middle
  <2>5. e \in Int
    BY <1>2, <1>3
  <2>6. var2 \in Int /\ var2 >= 0 /\ (v.var = 0 /\ e = 0 => var2 = 0)
    <3> HIDE DEF e
    <3> QED BY <1>2, <2>4, <2>5, Spread
  <2> HIDE DEF mean2, var2
  <2>7. /\ f \in VolumeRow /\ f.mean = mean2 /\ f.var = var2
        /\ f.acc = v.acc /\ f.start = v.start /\ f.samples = v.samples
    BY <1>2, <2>1, <2>2, <2>6 DEF VolumeRow
  <2> HIDE DEF f
  <2>8. PICK i \in DOMAIN closed : closed[i] * Unit <= v.mean
    BY <2>3 DEF Middle
  <2>9. PICK j \in DOMAIN closed : v.mean <= closed[j] * Unit
    BY <2>3 DEF Middle
  <2>10. /\ i \in DOMAIN c /\ c[i] = closed[i] /\ j \in DOMAIN c /\ c[j] = closed[j]
         /\ n + 1 \in DOMAIN c /\ c[n + 1] = x
         /\ closed[i] * Unit \in Int /\ closed[j] * Unit \in Int
    BY <1>1, <1>2, <2>8, <2>9, SMTT(30)
  <2>11. (\E k \in DOMAIN c : c[k] * Unit <= mean2) /\ (\E k \in DOMAIN c : mean2 <= c[k] * Unit)
    <3> DEFINE low == closed[i] * Unit
               high == closed[j] * Unit
    <3>1. low <= v.mean /\ v.mean <= high /\ low \in Int /\ high \in Int
      BY <2>8, <2>9, <2>10
    <3>2. c[i] * Unit = low /\ c[j] * Unit = high /\ c[n + 1] * Unit = y
      BY <2>10
    <3> HIDE DEF low, high, y
    <3>3. CASE y >= v.mean
      <4>1. low <= mean2 /\ mean2 <= y
        BY <1>2, <1>3, <2>2, <3>1, <3>3
      <4> QED BY <2>10, <3>2, <4>1
    <3>4. CASE y <= v.mean
      <4>1. y <= mean2 /\ mean2 <= high
        BY <1>2, <1>3, <2>2, <3>1, <3>4
      <4> QED BY <2>10, <3>2, <4>1
    <3> QED
      <4>1. y >= v.mean \/ y <= v.mean
        BY <1>2, <1>3
      <4> QED BY <3>3, <3>4, <4>1
  <2>12. ASSUME \A k, l \in DOMAIN c : c[k] = c[l] PROVE var2 = 0
    <3>1. closed[i] = x /\ closed[j] = x
      BY <2>10, <2>12
    <3>2. v.mean = y
      BY <1>2, <1>3, <2>8, <2>9, <3>1, SMTT(30)
    <3>3. \A k, l \in DOMAIN closed : closed[k] = closed[l]
      BY <1>1, <2>12, SMTT(30)
    <3>4. v.var = 0
      BY <2>3, <3>3 DEF Middle
    <3> QED BY <1>2, <1>3, <2>6, <3>2, <3>4
  <2>13. Middle(f, c)
    <3> HIDE DEF c
    <3> QED BY <2>6, <2>7, <2>11, <2>12 DEF Middle
  <2> QED BY <2>7, <2>13 DEF f
<1> QED BY <1>1, <1>4, <1>5

\* A spike is raised for an interval above the mean of those before it.
LEMMA SpikesStand ==
    ASSUME closed \in Seq(Nat), spikes \subseteq 1..Len(closed), Higher(spikes, closed),
           NEW v \in VolumeRow, v.samples = Len(closed), Middle(v, closed)
    PROVE  LET c == Append(closed, v.acc)
               s == IF IsSpike(v) THEN spikes \cup {v.samples + 1} ELSE spikes
           IN  s \subseteq 1..Len(c) /\ Higher(s, c)
<1> USE VolumeAssumption
<1> DEFINE c == Append(closed, v.acc)
           n == Len(closed)
           s == IF IsSpike(v) THEN spikes \cup {v.samples + 1} ELSE spikes
<1>1. v.acc \in Nat /\ v.mean \in Int /\ v.samples \in Nat /\ Unit \in Nat \ {0}
  BY DEF VolumeRow
<1>2. /\ n \in Nat /\ c \in Seq(Nat) /\ Len(c) = n + 1 /\ c[n + 1] = v.acc
      /\ \A k \in 1..n : c[k] = closed[k] /\ closed[k] \in Nat
  BY <1>1
<1> HIDE DEF c
<1>3. Higher(spikes, c)
  <2>1. \A k \in spikes : k \in 1..n /\ \A i \in 1..(k - 1) : i \in 1..n
    BY <1>2
  <2> QED BY <1>2, <2>1 DEF Higher
<1>4. ASSUME IsSpike(v)
      PROVE  /\ n + 1 >= MinSamples /\ c[n + 1] >= Floor
             /\ \E i \in 1..n : c[i] < c[n + 1]
  <2>1. /\ v.samples + 1 >= MinSamples /\ v.acc >= Floor /\ v.acc * Unit - v.mean > 0
    BY <1>4 DEF IsSpike
  <2>2. n >= 1 /\ closed # <<>>
    BY <1>1, <1>2, <2>1
  <2>3. PICK i \in DOMAIN closed : closed[i] * Unit <= v.mean
    BY <2>2 DEF Middle
  <2>4. i \in 1..n /\ c[i] = closed[i] /\ closed[i] \in Nat
    BY <1>2, <2>3
  <2> DEFINE x == closed[i]
             y == v.acc
  <2>5. x * Unit \in Int /\ y * Unit \in Int
    BY <1>1, <2>4
  <2>6. x * Unit < y * Unit
    BY <1>1, <2>1, <2>3, <2>5, SMTT(30)
  <2>7. x \in Int /\ y \in Int
    BY <1>1, <2>4
  <2> HIDE DEF x, y
  <2>8. x < y
    BY <1>1, <2>6, <2>7, Scaled
  <2> QED BY <1>2, <2>1, <2>4, <2>8 DEF x, y
<1>5. Higher(s, c)
  <2> SUFFICES ASSUME NEW k \in s
               PROVE  /\ k >= MinSamples /\ c[k] >= Floor
                      /\ \E i \in 1..(k - 1) : c[i] < c[k]
    BY DEF Higher
  <2>1. CASE k \in spikes
    BY <1>3, <2>1 DEF Higher
  <2>2. CASE k \notin spikes
    <3>1. IsSpike(v) /\ k = n + 1
      BY <2>2
    <3>2. k - 1 = n
      BY <1>2, <3>1
    <3> QED BY <1>4, <3>1, <3>2
  <2> QED BY <2>1, <2>2
<1>6. s \subseteq 1..(n + 1)
  <2>1. v.samples + 1 = n + 1 /\ n + 1 \in 1..(n + 1)
    BY <1>2
  <2>2. spikes \subseteq 1..(n + 1)
    BY <1>2
  <2> HIDE DEF n
  <2> QED BY <2>1, <2>2
<1> QED BY <1>2, <1>5, <1>6 DEF c

\* The interval that is over is closed: nothing of it is lost.
LEMMA CloseInterval ==
    ASSUME closed \in Seq(Nat), NEW v \in VolumeRow, v.samples = Len(closed),
           NEW total \in Nat, Counts(v, closed, total), Middle(v, closed)
    PROVE  LET f == Folded(v, v.acc)
               c == Append(closed, v.acc)
           IN  \A r : r = [f EXCEPT !.acc = 0, !.samples = @ + 1, !.start = r.start]
                      /\ r.start \in Int =>
                   /\ r \in VolumeRow /\ r.samples = Len(c)
                   /\ Counts(r, c, total) /\ Middle(r, c)
<1> DEFINE f == Folded(v, v.acc)
           c == Append(closed, v.acc)
<1>1. v.acc \in Nat /\ v.samples \in Nat
  BY DEF VolumeRow
<1>2. /\ f \in VolumeRow /\ f.acc = v.acc /\ f.samples = v.samples /\ Middle(f, c)
  BY <1>1, FoldKeepsMiddle
<1>3. c \in Seq(Nat) /\ Len(c) = Len(closed) + 1 /\ closed \in Seq(Int)
  BY <1>1
<1>4. SumFrom(0, c) = total
  <2>1. SumFrom(0, c) = SumFrom(0, closed) + v.acc
    BY <1>1, <1>3, SumAppends
  <2>2. /\ SumFrom(0, closed) \in Int
        /\ SumFrom(v.acc, closed) = SumFrom(0, closed) + (v.acc - 0)
    <3> DEFINE a == 0
               b == v.acc
    <3>1. a \in Int /\ b \in Int
      BY <1>1
    <3> HIDE DEF a, b
    <3>2. SumFrom(a, closed) \in Int /\ SumFrom(b, closed) = SumFrom(a, closed) + (b - a)
      BY <1>3, <3>1, SumShifts
    <3> QED BY <3>2 DEF a, b
  <2> QED BY <1>1, <2>1, <2>2 DEF Counts
<1> HIDE DEF f, c
<1> SUFFICES ASSUME NEW r, r = [f EXCEPT !.acc = 0, !.samples = @ + 1, !.start = r.start],
                    r.start \in Int
             PROVE  /\ r \in VolumeRow /\ r.samples = Len(c)
                    /\ Counts(r, c, total) /\ Middle(r, c)
  BY DEF f, c
<1> DEFINE b == r.start
<1>5. r = [f EXCEPT !.acc = 0, !.samples = @ + 1, !.start = b] /\ b \in Int
  OBVIOUS
<1> HIDE DEF b
<1>6. /\ f.mean \in Int /\ f.var \in Int /\ f.samples \in Nat
      /\ f = Row(f.mean, f.var, f.acc, f.start, f.samples)
  BY <1>2 DEF VolumeRow, Row
<1>7. r = Row(f.mean, f.var, 0, b, f.samples + 1)
  BY <1>5, <1>6 DEF Row
<1>8. /\ r \in VolumeRow /\ r.mean = f.mean /\ r.var = f.var /\ r.acc = 0
      /\ r.samples = f.samples + 1
  BY <1>5, <1>6, <1>7 DEF Row, VolumeRow
<1>9. Middle(r, c)
  BY <1>2, <1>8 DEF Middle
<1> QED BY <1>2, <1>3, <1>4, <1>8, <1>9 DEF Counts

LEMMA VolumeStep ==
    ASSUME VolumeInv, NEW now \in Clock, NEW bytes \in Sizes, UpdateVolume(now, bytes)
    PROVE  VolumeInv'
<1> USE VolumeAssumption
<1> DEFINE old == Known(now)
           p == IF span = <<>> THEN <<now, now>> ELSE span
           v == [old EXCEPT !.acc = @ + bytes]
           q == <<p[1], IF now > p[2] THEN now ELSE p[2]>>
           total == sentUp + bytes
<1>1. /\ now \in Int /\ bytes \in Nat /\ closed \in Seq(Nat) /\ sentUp \in Nat /\ total \in Nat
      /\ spikes \subseteq 1..Len(closed) /\ Higher(spikes, closed)
  BY DEF VolumeInv
<1>2. RowInv(old, p)
  BY <1>1, KnownRow
<1>3. span' = q
  <2>1. span = <<>> => q = <<now, now>>
    BY <1>1
  <2> QED BY <2>1 DEF UpdateVolume
<1> HIDE DEF old, p
<1>4. /\ v \in VolumeRow /\ v.samples = Len(closed) /\ q \in Int \X Int
      /\ v.start = old.start /\ q[1] = p[1]
      /\ Counts(v, closed, total) /\ Middle(v, closed)
      /\ ~Elapsed(v, now) => InPhase(v, q)
  BY <1>1, <1>2, PacketCounted
<1>5. sentUp' = total
  BY DEF UpdateVolume
<1>6. \A r \in VolumeRow : r # NoRow
  <2>1. ASSUME NEW r \in VolumeRow PROVE r # NoRow
    <3>1. r.samples \in Nat /\ NoRow.samples = -1
      BY DEF VolumeRow, NoRow
    <3> QED BY <3>1
  <2> QED BY <2>1
<1>7. CASE ~Elapsed(v, now)
  <2>1. volume' = v /\ closed' = closed /\ spikes' = spikes
    BY <1>7 DEF UpdateVolume, old
  <2> HIDE DEF v, q, total
  <2>2. RowInv(volume, span)'
    BY <1>3, <1>4, <1>5, <1>7, <2>1 DEF RowInv
  <2>3. volume' # NoRow
    BY <1>4, <1>6, <2>1
  <2> QED BY <1>1, <1>5, <2>1, <2>2, <2>3 DEF VolumeInv
<1>8. CASE Elapsed(v, now)
  <2> DEFINE c == Append(closed, v.acc)
             s == IF IsSpike(v) THEN spikes \cup {v.samples + 1} ELSE spikes
             f == Folded(v, v.acc)
             r == Closed(v, now)
             b == v.start + ((now - v.start) \div VolumeInterval) * VolumeInterval
  <2>1. volume' = r /\ closed' = c /\ spikes' = s
    BY <1>8 DEF UpdateVolume, old
  <2> HIDE DEF v, q, total
  <2>2. s \subseteq 1..Len(c) /\ Higher(s, c)
    BY <1>1, <1>4, SpikesStand
  <2>3. v.acc \in Nat /\ v.start \in Int
    BY <1>4 DEF VolumeRow
  <2>4. f \in VolumeRow /\ f.start = v.start
    BY <1>1, <1>4, <2>3, FoldKeepsMiddle
  <2>5. VolumeInterval \in Nat \ {0} /\ now - v.start >= VolumeInterval
    BY <1>8 DEF Elapsed
  <2>6. p \in Int \X Int /\ p[1] \in Int /\ p[2] \in Int
    BY <1>2 DEF RowInv
  <2>7. (v.start - p[1]) % VolumeInterval = 0 /\ p[2] < v.start + VolumeInterval
    BY <1>2, <1>4, <2>5 DEF RowInv, InPhase
  <2>8. /\ b \in Int /\ (b - p[1]) % VolumeInterval = 0 /\ b >= v.start + VolumeInterval
        /\ b <= now /\ now < b + VolumeInterval
    BY <1>1, <2>3, <2>5, <2>6, <2>7, Boundaries
  <2>9. r = [f EXCEPT !.acc = 0, !.samples = @ + 1, !.start = b]
    BY <2>4 DEF Closed
  <2> HIDE DEF b, r
  <2>10. r.start = b
    <3>1. "start" \in DOMAIN f
      BY <2>4 DEF VolumeRow
    <3> HIDE DEF f
    <3> QED BY <2>9, <3>1
  <2>11. /\ r \in VolumeRow /\ r.samples = Len(c)
         /\ Counts(r, c, total) /\ Middle(r, c)
    BY <1>1, <1>4, <2>8, <2>9, <2>10, CloseInterval
  <2> HIDE DEF c, f, s
  <2>12. InPhase(r, q)
    <3>1. q[2] = now
      BY <1>1, <2>3, <2>5, <2>6, <2>7, <2>8 DEF q
    <3> QED BY <1>1, <1>4, <2>8, <2>10, <3>1 DEF InPhase
  <2>13. c \in Seq(Nat)
    BY <1>1, <2>3 DEF c
  <2>14. RowInv(volume, span)'
    BY <1>3, <1>4, <1>5, <2>1, <2>11, <2>12 DEF RowInv
  <2>15. volume' # NoRow
    BY <1>6, <2>1, <2>11
  <2> QED BY <1>1, <1>5, <2>1, <2>2, <2>13, <2>14, <2>15 DEF VolumeInv
<1> QED BY <1>7, <1>8

\* Every byte sent out is in one interval, the boundaries stay where the first
\* packet put them whatever the clock does, the mean stays among the intervals
\* it is the mean of, and a spike stands out of them: update_volume and the
\* fourth detector, for any interval, weights and thresholds, any number of
\* packets of any size, and any precision of the mean.
THEOREM VolumeIsExact == VolumeSpec => []VolumeExact
<1>1. VolumeInit => VolumeInv
  BY DEF VolumeInit, VolumeInv, Higher
<1>2. VolumeInv /\ [VolumeNext]_volumeVars => VolumeInv'
  <2> SUFFICES ASSUME VolumeInv, [VolumeNext]_volumeVars PROVE VolumeInv'
    OBVIOUS
  <2>1. CASE VolumeNext
    BY <2>1, VolumeStep DEF VolumeNext
  <2>2. CASE UNCHANGED volumeVars
    BY <2>2 DEF volumeVars, VolumeInv, RowInv
  <2> QED BY <2>1, <2>2
<1>3. VolumeInv => VolumeExact
  <2> SUFFICES ASSUME VolumeInv, volume # NoRow
               PROVE  BytesCounted /\ PhaseKept /\ MeanWithin /\ SpikesAreHigher
    BY DEF VolumeExact
  <2>1. RowInv(volume, span) /\ Higher(spikes, closed)
    BY DEF VolumeInv
  <2>2. BytesCounted
    BY <2>1, Zenon DEF RowInv, Counts, SumFrom, BytesCounted
  <2>3. PhaseKept
    BY <2>1 DEF RowInv, InPhase, PhaseKept
  <2>4. MeanWithin
    BY <2>1 DEF RowInv, Middle, MeanWithin
  <2>5. SpikesAreHigher
    BY <2>1 DEF Higher, SpikesAreHigher
  <2> QED BY <2>2, <2>3, <2>4, <2>5
<1> QED BY <1>1, <1>2, <1>3, PTL DEF VolumeSpec
=============================================================================
