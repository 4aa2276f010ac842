-------------------------- MODULE InspectorProofs --------------------------
(***************************************************************************)
(* What an inspector of the daemon sees, for any number of inspectors, of  *)
(* connections and of events, queues of any size and any of them           *)
(* suspended: its stream is exact (StreamExact), its view converges        *)
(* (ViewConverges), and its feed and its word on the daemon are sound      *)
(* (SyncInv).                                                              *)
(***************************************************************************)
EXTENDS InspectorSync, SequenceTheorems, TLAPS

(***************************************************************************)
(* The inductive invariant.                                                *)
(***************************************************************************)
Tables == UNION {[ids -> Nat] : ids \in SUBSET Nat}

\* Events that are broadcast: all but the end of the stream.
Sent == Events \ {Eof}

\* Rows of the table of alerts.
Rows == [obs : Nat, ts : Times]

Typing ==
    /\ up \in BOOLEAN
    /\ live \in Tables /\ DOMAIN live \subseteq 1..opened /\ opened \in 0..MaxIds
    /\ alerts \in Seq(Rows)
    /\ out \in Seq(Sent) /\ Len(out) <= MaxAlerts /\ log \in Seq(Sent)
    /\ subs \subseteq Inspectors
    /\ queue \in [Inspectors -> Seq(Sent)]
    /\ inbox \in [Inspectors -> Seq(Events)]
    /\ pc \in [Inspectors -> States]
    /\ view \in [Inspectors -> Tables]
    /\ feed \in [Inspectors -> Seq(Nat)]
    /\ connected \in [Inspectors -> BOOLEAN]
    /\ applied \in [Inspectors -> Seq(Sent)]
    /\ joined \in [Inspectors -> Nat]
    /\ dropped \in [Inspectors -> BOOLEAN]
    /\ stale \in [Inspectors -> BOOLEAN]

\* What an event says of a connection is so.
Says(e, table, id) ==
    IF e.type = "flow" THEN id \in DOMAIN table /\ table[id] = e.ver
    ELSE id \notin DOMAIN table

About(e, id) == e.type \in {"flow", "closed"} /\ e.id = id

\* Alerts are numbered as they are raised, and those of one observation are
\* committed together.
InOrder(known) == \A a, b \in DOMAIN known : a <= b => known[a].obs <= known[b].obs

\* What the worker is about to say of a connection is so, and the alerts it is
\* about to broadcast are of the last observation, in order.
IsAlert(e) == e.type = "alert"

OutInv ==
    \A n \in DOMAIN out :
        /\ \A id \in Nat : About(out[n], id) => Says(out[n], live, id)
        /\ IsAlert(out[n]) =>
             /\ out[n].id \in DOMAIN alerts
             /\ Obs(out[n].id) = Obs(Len(alerts))
             /\ \A m \in DOMAIN out : m > n /\ IsAlert(out[m]) => out[n].id < out[m].id

\* An inspector that has not subscribed has no queue and was sent nothing; one
\* that has is in the bus while the daemon runs; the end of the stream is the
\* last thing it is sent, and nothing is once the daemon has ended.
Starting(i) == pc[i] \in {"conns", "alerts", "subscribe"}

LinkInv(i) ==
    /\ Len(queue[i]) <= Cap
    /\ Starting(i) =>
         /\ inbox[i] = <<>> /\ queue[i] = <<>> /\ applied[i] = <<>>
         /\ i \notin subs /\ connected[i]
    /\ pc[i] = "conns" => ~stale[i]
    /\ pc[i] \in {"conns", "alerts"} => feed[i] = <<>>
    /\ up /\ pc[i] = "run" => i \in subs
    /\ ~up => queue[i] = <<>>
    /\ \A n \in DOMAIN inbox[i] :
         inbox[i][n] = Eof => ~up /\ n = Len(inbox[i])
    /\ ~connected[i] => ~up /\ inbox[i] = <<>>
    /\ joined[i] <= Len(log)

DaemonInv == ~up => out = <<>>

StreamInv(i) ==
    pc[i] = "run" =>
        /\ up /\ ~dropped[i] => Received(i) = Since(i)
        /\ IsSubsequence(Received(i), Since(i))

\* What i is still to apply, and what is still to be broadcast.
Ahead(i) == inbox[i] \o queue[i] \o out

\* Once all events of p are applied, view is table: the last event of p about
\* a connection says what table does, and of those p says nothing about view
\* does.
Leads(p, seen, table) ==
    \A id \in Nat :
        /\ \A n \in DOMAIN p :
             /\ About(p[n], id)
             /\ \A m \in DOMAIN p : m > n => ~About(p[m], id)
             => Says(p[n], table, id)
        /\ (\A n \in DOMAIN p : ~About(p[n], id)) =>
             /\ id \in DOMAIN seen <=> id \in DOMAIN table
             /\ id \in DOMAIN seen => seen[id] = table[id]

ConvergeInv(i) ==
    up /\ ~stale[i] /\ pc[i] \in {"alerts", "subscribe", "run"} =>
        Leads(Ahead(i), view[i], live)

\* A feed f whose first s alerts were streamed and whose others were queried:
\* streamed ones are in the reverse of their order, queried ones in that of
\* their times, and none of either part twice.
Ordered(known, s, f) ==
    /\ \A n \in DOMAIN f : f[n] \in DOMAIN known
    /\ \A m, n \in DOMAIN f : m < n =>
         /\ n <= s => f[m] > f[n]
         /\ m <= s /\ s < n => known[f[m]].obs >= known[f[n]].obs
         /\ s < m => f[m] # f[n] /\ known[f[m]].ts >= known[f[n]].ts

\* The alerts of p continue it: they come in order, after all that was streamed,
\* and are of no earlier observation than what was queried.
Continues(known, p, s, f) ==
    \A n \in DOMAIN p : IsAlert(p[n]) =>
        /\ p[n].id \in DOMAIN known
        /\ \A m \in DOMAIN p : m > n /\ IsAlert(p[m]) => p[n].id < p[m].id
        /\ \A m \in DOMAIN f : m <= s => f[m] < p[n].id
        /\ \A m \in DOMAIN f : s < m => known[f[m]].obs <= known[p[n].id].obs

\* A feed that is in order and that p continues.
Feeds(known, p, f) ==
    /\ Len(f) <= FeedCap
    /\ \E s \in Nat : Ordered(known, s, f) /\ Continues(known, p, s, f)

\* What will still be applied to the feed of i.
Coming(i) == IF pc[i] \in {"gone", "unheard"} THEN <<>> ELSE Ahead(i)

FeedInv(i) == Feeds(alerts, Coming(i), feed[i])

InspectorInv ==
    /\ Typing /\ InOrder(alerts) /\ OutInv /\ DaemonInv
    /\ \A i \in Inspectors :
         LinkInv(i) /\ StreamInv(i) /\ ConvergeInv(i) /\ FeedInv(i)

-----------------------------------------------------------------------------
(***************************************************************************)
(* Subsequences.                                                           *)
(***************************************************************************)

LEMMA SubsequenceOfLonger ==
    ASSUME NEW S, NEW s \in Seq(S), NEW t \in Seq(S), NEW e \in S,
           IsSubsequence(s, t)
    PROVE  IsSubsequence(s, Append(t, e))
<1>1. /\ DOMAIN t = 1..Len(t) /\ Len(t) \in Nat
      /\ DOMAIN Append(t, e) = 1..(Len(t) + 1)
      /\ \A n \in 1..Len(t) : Append(t, e)[n] = t[n]
  BY AppendProperties, LenProperties
<1>2. PICK at \in [DOMAIN s -> DOMAIN t] :
        /\ \A m, n \in DOMAIN s : m < n => at[m] < at[n]
        /\ \A n \in DOMAIN s : s[n] = t[at[n]]
  BY DEF IsSubsequence
<1>3. at \in [DOMAIN s -> DOMAIN Append(t, e)]
  BY <1>1, <1>2
<1> QED BY <1>1, <1>2, <1>3 DEF IsSubsequence

LEMMA SubsequenceWithNext ==
    ASSUME NEW S, NEW s \in Seq(S), NEW t \in Seq(S), NEW e \in S,
           IsSubsequence(s, t)
    PROVE  IsSubsequence(Append(s, e), Append(t, e))
<1> DEFINE k == Len(s)
<1> DEFINE l == Len(t)
<1>1. /\ k \in Nat /\ l \in Nat /\ DOMAIN s = 1..k /\ DOMAIN t = 1..l
      /\ DOMAIN Append(s, e) = 1..(k + 1) /\ DOMAIN Append(t, e) = 1..(l + 1)
      /\ \A n \in 1..k : Append(s, e)[n] = s[n]
      /\ \A n \in 1..l : Append(t, e)[n] = t[n]
      /\ Append(s, e)[k + 1] = e /\ Append(t, e)[l + 1] = e
  BY AppendProperties, LenProperties
<1>2. PICK at \in [1..k -> 1..l] :
        /\ \A m, n \in 1..k : m < n => at[m] < at[n]
        /\ \A n \in 1..k : s[n] = t[at[n]]
  BY <1>1 DEF IsSubsequence
<1> DEFINE to == [n \in 1..(k + 1) |-> IF n = k + 1 THEN l + 1 ELSE at[n]]
<1> HIDE DEF k, l
<1>3. to \in [1..(k + 1) -> 1..(l + 1)]
  BY <1>1, <1>2
<1>4. \A m, n \in 1..(k + 1) : m < n => to[m] < to[n]
  BY <1>1, <1>2
<1>5. \A n \in 1..(k + 1) : Append(s, e)[n] = Append(t, e)[to[n]]
  <2> TAKE n \in 1..(k + 1)
  <2>1. n \in 1..k \/ n = k + 1
    BY <1>1
  <2>2. CASE n \in 1..k
    BY <1>1, <1>2, <2>2
  <2>3. CASE n = k + 1
    BY <1>1, <2>3
  <2> QED BY <2>1, <2>2, <2>3
<1> QED BY <1>1, <1>3, <1>4, <1>5 DEF IsSubsequence

LEMMA SubsequenceOfFirst ==
    ASSUME NEW S, NEW s \in Seq(S), NEW u \in Seq(S), NEW t \in Seq(S),
           IsSubsequence(s \o u, t)
    PROVE  IsSubsequence(s, t)
<1>1. /\ Len(s) \in Nat /\ Len(u) \in Nat /\ DOMAIN s = 1..Len(s)
      /\ DOMAIN (s \o u) = 1..(Len(s) + Len(u))
      /\ \A n \in 1..Len(s) : (s \o u)[n] = s[n]
  BY ConcatProperties, LenProperties
<1>2. PICK at \in [DOMAIN (s \o u) -> DOMAIN t] :
        /\ \A m, n \in DOMAIN (s \o u) : m < n => at[m] < at[n]
        /\ \A n \in DOMAIN (s \o u) : (s \o u)[n] = t[at[n]]
  BY DEF IsSubsequence
<1> DEFINE to == [n \in DOMAIN s |-> at[n]]
<1>3. DOMAIN s \subseteq DOMAIN (s \o u)
  BY <1>1
<1>4. to \in [DOMAIN s -> DOMAIN t]
  BY <1>2, <1>3
<1>5. \A m, n \in DOMAIN s : m < n => to[m] < to[n]
  BY <1>2, <1>3
<1>6. \A n \in DOMAIN s : s[n] = t[to[n]]
  BY <1>1, <1>2, <1>3
<1> QED BY <1>4, <1>5, <1>6 DEF IsSubsequence

LEMMA NothingIsSubsequence ==
    ASSUME NEW t
    PROVE  IsSubsequence(<<>>, t)
<1> DEFINE at == [n \in {} |-> 0]
<1>1. DOMAIN <<>> = {}
  OBVIOUS
<1>2. at \in [DOMAIN <<>> -> DOMAIN t]
  BY <1>1
<1> QED BY <1>1, <1>2 DEF IsSubsequence

LEMMA SubsequenceWithoutOne ==
    ASSUME NEW S, NEW s \in Seq(S), NEW t \in Seq(S), t # <<>>
    PROVE  IsSubsequence(s \o Tail(t), s \o t)
<1> DEFINE k == Len(s)
<1> DEFINE l == Len(t)
<1>1. /\ k \in Nat /\ l \in Nat \ {0} /\ DOMAIN s = 1..k
      /\ Tail(t) \in Seq(S) /\ Len(Tail(t)) = l - 1
      /\ \A n \in 1..(l - 1) : Tail(t)[n] = t[n + 1]
  BY HeadTailProperties, LenProperties, EmptySeq
<1>2. /\ DOMAIN (s \o t) = 1..(k + l)
      /\ \A n \in 1..k : (s \o t)[n] = s[n]
      /\ \A n \in (k + 1)..(k + l) : (s \o t)[n] = t[n - k]
  BY ConcatProperties, LenProperties
<1>3. /\ DOMAIN (s \o Tail(t)) = 1..(k + l - 1)
      /\ \A n \in 1..k : (s \o Tail(t))[n] = s[n]
      /\ \A n \in (k + 1)..(k + l - 1) : (s \o Tail(t))[n] = Tail(t)[n - k]
  <2>1. Len(s \o Tail(t)) = k + (l - 1) /\ s \o Tail(t) \in Seq(S)
    BY <1>1, ConcatProperties
  <2>2. /\ \A n \in 1..k : (s \o Tail(t))[n] = s[n]
        /\ \A n \in (k + 1)..(k + (l - 1)) : (s \o Tail(t))[n] = Tail(t)[n - k]
    BY <1>1, ConcatProperties
  <2> QED BY <1>1, <2>1, <2>2, LenProperties
<1> DEFINE u == s \o Tail(t)
<1> DEFINE v == s \o t
<1> DEFINE at == [n \in 1..(k + l - 1) |-> IF n <= k THEN n ELSE n + 1]
<1> HIDE DEF k, l, u, v
<1>4. at \in [DOMAIN u -> DOMAIN v]
  BY <1>1, <1>2, <1>3 DEF u, v
<1>5. \A m, n \in DOMAIN u : m < n => at[m] < at[n]
  BY <1>1, <1>3 DEF u
<1>6. ASSUME NEW n \in DOMAIN u PROVE u[n] = v[at[n]]
  <2>1. CASE n <= k
    BY <1>1, <1>2, <1>3, <2>1 DEF u, v
  <2>2. CASE ~(n <= k)
    <3>1. n - k \in 1..(l - 1) /\ n + 1 \in (k + 1)..(k + l) /\ (n + 1) - k = (n - k) + 1
          /\ n \in (k + 1)..(k + l - 1)
      BY <1>1, <1>3, <2>2 DEF u
    <3>2. v[n + 1] = t[(n + 1) - k]
      BY <1>2, <3>1 DEF v
    <3>3. u[n] = Tail(t)[n - k]
      BY <1>3, <3>1 DEF u
    <3>4. Tail(t)[n - k] = t[n - k + 1]
      BY <1>1, <3>1
    <3>5. at[n] = n + 1
      BY <1>3, <2>2 DEF u
    <3>6. u[n] = t[n - k + 1]
      BY <3>3, <3>4
    <3> QED BY <3>1, <3>2, <3>5, <3>6
  <2> QED BY <2>1, <2>2
<1> HIDE DEF at
<1> QED BY <1>4, <1>5, <1>6 DEF IsSubsequence, u, v

LEMMA PrefixIsSubsequence ==
    ASSUME NEW S, NEW s \in Seq(S), NEW t \in Seq(S)
    PROVE  IsSubsequence(s, s \o t)
<1>1. /\ DOMAIN s \subseteq DOMAIN (s \o t)
      /\ \A n \in DOMAIN s : (s \o t)[n] = s[n]
  <2>1. /\ Len(s) \in Nat /\ Len(t) \in Nat /\ DOMAIN s = 1..Len(s)
        /\ DOMAIN (s \o t) = 1..(Len(s) + Len(t))
        /\ \A n \in 1..Len(s) : (s \o t)[n] = s[n]
    BY ConcatProperties, LenProperties
  <2> QED BY <2>1
<1> DEFINE at == [n \in DOMAIN s |-> n]
<1>2. at \in [DOMAIN s -> DOMAIN (s \o t)]
  BY <1>1
<1> QED BY <1>1, <1>2 DEF IsSubsequence

(***************************************************************************)
(* Connections.                                                            *)
(***************************************************************************)

LEMMA PutTable ==
    ASSUME NEW f \in Tables, NEW id \in Nat, NEW v \in Nat
    PROVE  /\ Put(f, id, v) \in Tables
           /\ DOMAIN Put(f, id, v) = DOMAIN f \cup {id}
           /\ Put(f, id, v)[id] = v
           /\ \A k \in DOMAIN f : k # id => Put(f, id, v)[k] = f[k]
<1>1. PICK D \in SUBSET Nat : f \in [D -> Nat]
  BY DEF Tables
<1>2. DOMAIN f = D /\ D \cup {id} \in SUBSET Nat
  BY <1>1
<1>3. Put(f, id, v) \in [D \cup {id} -> Nat]
  BY <1>1, <1>2 DEF Put
<1> QED BY <1>2, <1>3 DEF Tables, Put

LEMMA DropTable ==
    ASSUME NEW f \in Tables, NEW id \in Nat
    PROVE  /\ Drop(f, id) \in Tables
           /\ DOMAIN Drop(f, id) = DOMAIN f \ {id}
           /\ \A k \in DOMAIN f : k # id => Drop(f, id)[k] = f[k]
<1>1. PICK D \in SUBSET Nat : f \in [D -> Nat]
  BY DEF Tables
<1>2. DOMAIN f = D /\ D \ {id} \in SUBSET Nat
  BY <1>1
<1>3. Drop(f, id) \in [D \ {id} -> Nat]
  BY <1>1, <1>2 DEF Drop
<1> QED BY <1>2, <1>3 DEF Tables, Drop

\* The worker changes its table and adds the event that says so.
LEMMA LeadsFarther ==
    ASSUME NEW p \in Seq(Events), NEW seen, NEW table, NEW next, NEW e \in Events,
           Leads(p, seen, table),
           \A id \in Nat : About(e, id) => Says(e, next, id),
           \A id \in Nat : ~About(e, id) =>
               /\ id \in DOMAIN next <=> id \in DOMAIN table
               /\ id \in DOMAIN next => next[id] = table[id]
    PROVE  Leads(Append(p, e), seen, next)
<1> DEFINE q == Append(p, e)
<1> DEFINE k == Len(p)
<1>1. /\ k \in Nat /\ DOMAIN p = 1..k /\ DOMAIN q = 1..(k + 1)
      /\ \A n \in 1..k : q[n] = p[n]
      /\ q[k + 1] = e
  BY AppendProperties, LenProperties
<1> HIDE DEF q, k
<1> SUFFICES ASSUME NEW id \in Nat
             PROVE  /\ \A n \in DOMAIN q :
                         /\ About(q[n], id)
                         /\ \A m \in DOMAIN q : m > n => ~About(q[m], id)
                         => Says(q[n], next, id)
                    /\ (\A n \in DOMAIN q : ~About(q[n], id)) =>
                         /\ id \in DOMAIN seen <=> id \in DOMAIN next
                         /\ id \in DOMAIN seen => seen[id] = next[id]
  BY DEF Leads, q
<1>2. ASSUME NEW n \in DOMAIN q, About(q[n], id),
             \A m \in DOMAIN q : m > n => ~About(q[m], id)
      PROVE  Says(q[n], next, id)
  <2>1. CASE n = k + 1
    BY <1>1, <1>2, <2>1
  <2>2. CASE n # k + 1
    <3>1. n \in 1..k /\ k + 1 \in DOMAIN q /\ k + 1 > n
      BY <1>1, <2>2
    <3>2. ~About(e, id)
      BY <1>1, <1>2, <3>1
    <3>3. \A m \in DOMAIN p : m > n => ~About(p[m], id)
      BY <1>1, <1>2
    <3>4. Says(p[n], table, id)
      BY <1>1, <1>2, <3>1, <3>3 DEF Leads
    <3> QED BY <1>1, <3>1, <3>2, <3>4 DEF Says
  <2> QED BY <2>1, <2>2
<1>3. ASSUME \A n \in DOMAIN q : ~About(q[n], id)
      PROVE  /\ id \in DOMAIN seen <=> id \in DOMAIN next
             /\ id \in DOMAIN seen => seen[id] = next[id]
  <2>1. k + 1 \in DOMAIN q /\ \A n \in DOMAIN p : n \in DOMAIN q /\ q[n] = p[n]
    BY <1>1
  <2>2. ~About(e, id) /\ \A n \in DOMAIN p : ~About(p[n], id)
    BY <1>1, <1>3, <2>1
  <2> QED BY <2>2 DEF Leads
<1> QED BY <1>2, <1>3

\* So does one that adds events about no connection.
LEMMA LeadsBeside ==
    ASSUME NEW p \in Seq(Events), NEW q \in Seq(Events), NEW seen, NEW table,
           Leads(p, seen, table), \A n \in DOMAIN q : \A id \in Nat : ~About(q[n], id)
    PROVE  Leads(p \o q, seen, table)
<1> DEFINE r == p \o q
<1> DEFINE k == Len(p)
<1>1. /\ k \in Nat /\ Len(q) \in Nat /\ DOMAIN p = 1..k /\ DOMAIN q = 1..Len(q)
      /\ DOMAIN r = 1..(k + Len(q))
      /\ \A n \in 1..k : r[n] = p[n]
      /\ \A n \in (k + 1)..(k + Len(q)) : r[n] = q[n - k]
  BY ConcatProperties, LenProperties
<1> HIDE DEF r, k
<1>2. DOMAIN p \subseteq DOMAIN r /\ \A n \in DOMAIN p : r[n] = p[n]
  BY <1>1
<1>3. \A n \in DOMAIN r : \A id \in Nat : About(r[n], id) => n \in DOMAIN p
  <2> SUFFICES ASSUME NEW n \in DOMAIN r, n \notin DOMAIN p, NEW id \in Nat
               PROVE  ~About(r[n], id)
    OBVIOUS
  <2>1. n - k \in DOMAIN q /\ r[n] = q[n - k]
    BY <1>1
  <2> QED BY <2>1
<1> QED BY <1>2, <1>3 DEF Leads, r

\* What InspectorApp::apply makes of the view.
LEMMA ReduceSays ==
    ASSUME NEW seen \in Tables, NEW e \in Events
    PROVE  LET now == Reduce(seen, e)
           IN  /\ now \in Tables
               /\ \A id \in Nat : About(e, id) => Says(e, now, id)
               /\ \A id \in Nat : ~About(e, id) =>
                    /\ id \in DOMAIN now <=> id \in DOMAIN seen
                    /\ id \in DOMAIN now => now[id] = seen[id]
<1> DEFINE now == Reduce(seen, e)
<1> SUFFICES /\ now \in Tables
             /\ \A id \in Nat : About(e, id) => Says(e, now, id)
             /\ \A id \in Nat : ~About(e, id) =>
                  /\ id \in DOMAIN now <=> id \in DOMAIN seen
                  /\ id \in DOMAIN now => now[id] = seen[id]
  OBVIOUS
<1>0. e.id \in Nat /\ e.ver \in Nat
  BY DEF Events
<1>1. CASE e.type = "flow"
  <2>1. now = Put(seen, e.id, e.ver)
    BY <1>1 DEF Reduce
  <2> HIDE DEF now
  <2>2. /\ Put(seen, e.id, e.ver) \in Tables
        /\ DOMAIN Put(seen, e.id, e.ver) = DOMAIN seen \cup {e.id}
        /\ Put(seen, e.id, e.ver)[e.id] = e.ver
        /\ \A k \in DOMAIN seen : k # e.id => Put(seen, e.id, e.ver)[k] = seen[k]
    BY <1>0, PutTable
  <2>3. /\ now \in Tables /\ DOMAIN now = DOMAIN seen \cup {e.id} /\ now[e.id] = e.ver
        /\ \A id \in DOMAIN seen : id # e.id => now[id] = seen[id]
    BY <2>1, <2>2
  <2> QED BY <1>0, <1>1, <2>3 DEF Says, About
<1>2. CASE e.type = "closed"
  <2>1. now = Drop(seen, e.id)
    BY <1>2 DEF Reduce
  <2> HIDE DEF now
  <2>2. /\ now \in Tables /\ DOMAIN now = DOMAIN seen \ {e.id}
        /\ \A id \in DOMAIN seen : id # e.id => now[id] = seen[id]
    BY <1>0, <2>1, DropTable
  <2> QED BY <1>0, <1>2, <2>2 DEF Says, About
<1>3. CASE e.type \notin {"flow", "closed"}
  BY <1>3 DEF Reduce, About
<1> QED BY <1>1, <1>2, <1>3

\* InspectorApp::apply takes the first event.
LEMMA LeadsOn ==
    ASSUME NEW p \in Seq(Events), p # <<>>, NEW seen \in Tables, NEW table,
           Leads(p, seen, table)
    PROVE  Leads(Tail(p), Reduce(seen, Head(p)), table) /\ Reduce(seen, Head(p)) \in Tables
<1> DEFINE q == Tail(p)
<1> DEFINE k == Len(p)
<1> DEFINE e == Head(p)
<1> DEFINE now == Reduce(seen, e)
<1>1. /\ k \in Nat \ {0} /\ DOMAIN p = 1..k /\ DOMAIN q = 1..(k - 1)
      /\ \A n \in 1..(k - 1) : q[n] = p[n + 1]
      /\ e = p[1] /\ e \in Events
  BY HeadTailProperties, LenProperties, EmptySeq
<1>3. /\ now \in Tables
      /\ \A id \in Nat : About(e, id) => Says(e, now, id)
      /\ \A id \in Nat : ~About(e, id) =>
           /\ id \in DOMAIN now <=> id \in DOMAIN seen
           /\ id \in DOMAIN now => now[id] = seen[id]
  BY <1>1, ReduceSays
<1> HIDE DEF q, k, e, now
<1> SUFFICES ASSUME NEW id \in Nat
             PROVE  /\ \A n \in DOMAIN q :
                         /\ About(q[n], id)
                         /\ \A m \in DOMAIN q : m > n => ~About(q[m], id)
                         => Says(q[n], table, id)
                    /\ (\A n \in DOMAIN q : ~About(q[n], id)) =>
                         /\ id \in DOMAIN now <=> id \in DOMAIN table
                         /\ id \in DOMAIN now => now[id] = table[id]
  BY <1>3 DEF Leads, q, now, e
<1>4. ASSUME NEW n \in DOMAIN q, About(q[n], id),
             \A m \in DOMAIN q : m > n => ~About(q[m], id)
      PROVE  Says(q[n], table, id)
  <2>1. n + 1 \in DOMAIN p /\ q[n] = p[n + 1]
    BY <1>1
  <2>2. ASSUME NEW m \in DOMAIN p, m > n + 1 PROVE ~About(p[m], id)
    <3>1. m - 1 \in DOMAIN q /\ m - 1 > n /\ q[m - 1] = p[m]
      BY <1>1, <2>2
    <3> QED BY <1>4, <3>1
  <2> QED BY <1>4, <2>1, <2>2 DEF Leads
<1>5. ASSUME \A n \in DOMAIN q : ~About(q[n], id)
      PROVE  /\ id \in DOMAIN now <=> id \in DOMAIN table
             /\ id \in DOMAIN now => now[id] = table[id]
  <2>1. ASSUME NEW m \in DOMAIN p, m > 1 PROVE ~About(p[m], id)
    <3>1. m - 1 \in DOMAIN q /\ q[m - 1] = p[m]
      BY <1>1, <2>1
    <3> QED BY <1>5, <3>1
  <2>2. 1 \in DOMAIN p
    BY <1>1
  <2>3. CASE About(e, id)
    <3>1. Says(e, table, id) /\ Says(e, now, id)
      BY <1>1, <1>3, <2>1, <2>2, <2>3 DEF Leads
    <3> QED BY <3>1 DEF Says
  <2>4. CASE ~About(e, id)
    <3>1. \A m \in DOMAIN p : ~About(p[m], id)
      <4> TAKE m \in DOMAIN p
      <4>1. m = 1 \/ m > 1
        BY <1>1
      <4> QED BY <1>1, <2>1, <2>4, <4>1
    <3> QED BY <1>3, <2>4, <3>1 DEF Leads
  <2> QED BY <2>3, <2>4
<1> QED BY <1>4, <1>5

(***************************************************************************)
(* Alerts.                                                                 *)
(***************************************************************************)

\* Some of the events that were to come do not.
LEMMA ContinuesFewer ==
    ASSUME NEW p, NEW q, IsSubsequence(q, p), DOMAIN q \subseteq Nat,
           NEW known, NEW s, NEW f, Continues(known, p, s, f)
    PROVE  Continues(known, q, s, f)
<1>1. PICK at \in [DOMAIN q -> DOMAIN p] :
        /\ \A m, n \in DOMAIN q : m < n => at[m] < at[n]
        /\ \A n \in DOMAIN q : q[n] = p[at[n]]
  BY DEF IsSubsequence
<1> SUFFICES ASSUME NEW n \in DOMAIN q, IsAlert(q[n])
             PROVE  /\ q[n].id \in DOMAIN known
                    /\ \A m \in DOMAIN q : m > n /\ IsAlert(q[m]) => q[n].id < q[m].id
                    /\ \A m \in DOMAIN f : m <= s => f[m] < q[n].id
                    /\ \A m \in DOMAIN f : s < m => known[f[m]].obs <= known[q[n].id].obs
  BY DEF Continues
<1>2. at[n] \in DOMAIN p /\ q[n] = p[at[n]] /\ IsAlert(p[at[n]])
  BY <1>1
<1>3. /\ p[at[n]].id \in DOMAIN known
      /\ \A m \in DOMAIN p : m > at[n] /\ IsAlert(p[m]) => p[at[n]].id < p[m].id
      /\ \A m \in DOMAIN f : m <= s => f[m] < p[at[n]].id
      /\ \A m \in DOMAIN f : s < m => known[f[m]].obs <= known[p[at[n]].id].obs
  BY <1>2 DEF Continues
<1>4. ASSUME NEW m \in DOMAIN q, m > n, IsAlert(q[m]) PROVE q[n].id < q[m].id
  <2>1. at[m] \in DOMAIN p /\ q[m] = p[at[m]] /\ at[n] < at[m]
    BY <1>1, <1>4
  <2> QED BY <1>2, <1>3, <1>4, <2>1
<1> QED BY <1>2, <1>3, <1>4

\* More alerts are committed.
Grows(known, next) ==
    /\ Len(known) <= Len(next)
    /\ \A a \in DOMAIN known : next[a] = known[a]

LEMMA OrderedFarther ==
    ASSUME NEW known \in Seq(Rows), NEW next \in Seq(Rows), Grows(known, next),
           NEW s, NEW f, Ordered(known, s, f)
    PROVE  Ordered(next, s, f)
<1>1. DOMAIN known = 1..Len(known) /\ DOMAIN next = 1..Len(next)
      /\ Len(known) \in Nat /\ Len(next) \in Nat
  BY LenProperties
<1>2. \A n \in DOMAIN f : f[n] \in DOMAIN next /\ next[f[n]] = known[f[n]]
  BY <1>1 DEF Ordered, Grows
<1> QED BY <1>2 DEF Ordered

\* Events of alerts that were just committed, or of none, are about to be
\* broadcast.
LEMMA ContinuesFarther ==
    ASSUME NEW known \in Seq(Rows), NEW next \in Seq(Rows), Grows(known, next), InOrder(next),
           NEW s \in Nat, NEW f \in Seq(Nat), Ordered(known, s, f),
           NEW p \in Seq(Events), NEW q \in Seq(Events), Continues(known, p, s, f),
           \A n \in DOMAIN q : IsAlert(q[n]) =>
               /\ q[n].id \in DOMAIN next /\ q[n].id > Len(known)
               /\ \A m \in DOMAIN q : m > n /\ IsAlert(q[m]) => q[n].id < q[m].id
    PROVE  Continues(next, p \o q, s, f)
<1> DEFINE r == p \o q
<1> DEFINE k == Len(p)
<1>1. /\ k \in Nat /\ Len(q) \in Nat /\ DOMAIN p = 1..k /\ DOMAIN q = 1..Len(q)
      /\ DOMAIN r = 1..(k + Len(q))
      /\ \A n \in 1..k : r[n] = p[n]
      /\ \A n \in (k + 1)..(k + Len(q)) : r[n] = q[n - k]
  BY ConcatProperties, LenProperties
<1>2. /\ DOMAIN known = 1..Len(known) /\ DOMAIN next = 1..Len(next)
      /\ Len(known) \in Nat /\ Len(next) \in Nat /\ Len(known) <= Len(next)
      /\ \A a \in DOMAIN known : next[a] = known[a]
  BY LenProperties DEF Grows
<1>3. \A m \in DOMAIN f : m \in Nat /\ f[m] \in DOMAIN known
  BY LenProperties DEF Ordered
<1> HIDE DEF r, k
<1>5. ASSUME NEW n \in DOMAIN r
      PROVE  \/ n \in DOMAIN p /\ r[n] = p[n]
             \/ n > k /\ n - k \in DOMAIN q /\ r[n] = q[n - k]
  BY <1>1
<1> SUFFICES ASSUME NEW n \in DOMAIN r, IsAlert(r[n])
             PROVE  /\ r[n].id \in DOMAIN next
                    /\ \A m \in DOMAIN r : m > n /\ IsAlert(r[m]) => r[n].id < r[m].id
                    /\ \A m \in DOMAIN f : m <= s => f[m] < r[n].id
                    /\ \A m \in DOMAIN f : s < m => next[f[m]].obs <= next[r[n].id].obs
  BY DEF Continues, r
<1>6. CASE n \in DOMAIN p /\ r[n] = p[n]
  <2>1. /\ p[n].id \in DOMAIN known
        /\ \A m \in DOMAIN p : m > n /\ IsAlert(p[m]) => p[n].id < p[m].id
        /\ \A m \in DOMAIN f : m <= s => f[m] < p[n].id
        /\ \A m \in DOMAIN f : s < m => known[f[m]].obs <= known[p[n].id].obs
    BY <1>6 DEF Continues
  <2>2. r[n].id \in DOMAIN next /\ next[r[n].id] = known[r[n].id]
    BY <1>2, <1>6, <2>1
  <2>3. ASSUME NEW m \in DOMAIN r, m > n, IsAlert(r[m]) PROVE r[n].id < r[m].id
    <3>1. CASE m \in DOMAIN p /\ r[m] = p[m]
      BY <1>6, <2>1, <2>3, <3>1
    <3>2. CASE m - k \in DOMAIN q /\ r[m] = q[m - k]
      <4>1. r[m].id \in DOMAIN next /\ r[m].id > Len(known)
        BY <2>3, <3>2
      <4> QED BY <1>2, <1>6, <2>1, <4>1
    <3> QED BY <1>5, <3>1, <3>2
  <2> QED BY <1>2, <1>3, <1>6, <2>1, <2>2, <2>3
<1>7. CASE n > k /\ n - k \in DOMAIN q /\ r[n] = q[n - k]
  <2>1. /\ r[n].id \in DOMAIN next /\ r[n].id > Len(known)
        /\ \A m \in DOMAIN q : m > n - k /\ IsAlert(q[m]) => r[n].id < q[m].id
    BY <1>7
  <2>2. ASSUME NEW m \in DOMAIN r, m > n, IsAlert(r[m]) PROVE r[n].id < r[m].id
    <3>1. m > k /\ m - k \in DOMAIN q /\ r[m] = q[m - k] /\ m - k > n - k
      BY <1>1, <1>5, <1>7, <2>2
    <3> QED BY <2>1, <2>2, <3>1
  <2>3. \A m \in DOMAIN f : f[m] \in DOMAIN next /\ f[m] < r[n].id
    BY <1>2, <1>3, <2>1
  <2>4. \A m \in DOMAIN f : next[f[m]].obs <= next[r[n].id].obs
    <3> TAKE m \in DOMAIN f
    <3>1. f[m] \in DOMAIN next /\ r[n].id \in DOMAIN next /\ f[m] <= r[n].id
      BY <1>2, <2>1, <2>3
    <3> QED BY <3>1 DEF InOrder
  <2> QED BY <2>1, <2>2, <2>3, <2>4
<1> QED BY <1>5, <1>6, <1>7

\* The feed with one more alert in front, cut at its bound.
LEMMA FirstOfFeed ==
    ASSUME NEW f \in Seq(Nat), NEW a \in Nat, Len(f) <= FeedCap
    PROVE  LET g == FirstOf(<<a>> \o f, FeedCap)
           IN  /\ g \in Seq(Nat) /\ Len(g) \in Nat /\ DOMAIN g = 1..Len(g)
               /\ g # <<>> /\ 1 <= Len(g) /\ Len(g) <= FeedCap /\ Len(g) <= Len(f) + 1
               /\ g[1] = a
               /\ \A n \in 2..Len(g) : g[n] = f[n - 1]
<1> DEFINE s == <<a>> \o f
<1> DEFINE k == IF Len(s) <= FeedCap THEN Len(s) ELSE FeedCap
<1> DEFINE g == SubSeq(s, 1, k)
<1>1. /\ FeedCap \in Nat \ {0} /\ <<a>> \in Seq(Nat) /\ Len(<<a>>) = 1 /\ <<a>>[1] = a
      /\ Len(f) \in Nat
  BY SyncAssumption, LenProperties
<1>2. /\ s \in Seq(Nat) /\ Len(s) = Len(f) + 1 /\ s[1] = a
      /\ \A n \in 2..Len(s) : s[n] = f[n - 1]
  BY <1>1, ConcatProperties
<1> HIDE DEF s
<1>3. k \in 1..Len(s) /\ k <= FeedCap
  BY <1>1, <1>2
<1> HIDE DEF k
<1>4. \A n \in 1..k : s[n] \in Nat
  BY <1>2, <1>3, ElementOfSeq
<1>5. g \in Seq(Nat) /\ Len(g) = k /\ \A n \in 1..k : g[n] = s[n]
  <2>1. k - 1 + 1 = k /\ k \in Int /\ \A n \in 1..k : 1 + n - 1 = n
    BY <1>2, <1>3
  <2> QED BY <1>3, <1>4, <2>1, SubSeqProperties
<1>6. g = FirstOf(<<a>> \o f, FeedCap)
  BY DEF FirstOf, s, k
<1> HIDE DEF g
<1>7. DOMAIN g = 1..k /\ g # <<>> /\ g[1] = a
  BY <1>2, <1>3, <1>5, LenProperties, EmptySeq
<1>8. \A n \in 2..k : g[n] = f[n - 1]
  BY <1>2, <1>3, <1>5
<1>9. /\ g \in Seq(Nat) /\ Len(g) \in Nat /\ DOMAIN g = 1..Len(g)
      /\ g # <<>> /\ 1 <= Len(g) /\ Len(g) <= FeedCap /\ Len(g) <= Len(f) + 1
      /\ g[1] = a
      /\ \A n \in 2..Len(g) : g[n] = f[n - 1]
  BY <1>1, <1>2, <1>3, <1>5, <1>7, <1>8
<1> QED BY <1>6, <1>9

\* InspectorApp::apply takes the first event.
LEMMA FeedOn ==
    ASSUME NEW known \in Seq(Rows), NEW f \in Seq(Nat),
           NEW p \in Seq(Events), p # <<>>, Feeds(known, p, f)
    PROVE  Enlist(f, Head(p)) \in Seq(Nat) /\ Feeds(known, Tail(p), Enlist(f, Head(p)))
<1>0. PICK s \in Nat : Ordered(known, s, f) /\ Continues(known, p, s, f)
  BY DEF Feeds
<1> DEFINE q == Tail(p)
<1> DEFINE k == Len(p)
<1> DEFINE e == Head(p)
<1> DEFINE g == Enlist(f, e)
<1>1. /\ k \in Nat \ {0} /\ DOMAIN p = 1..k /\ DOMAIN q = 1..(k - 1)
      /\ \A n \in 1..(k - 1) : q[n] = p[n + 1]
      /\ e = p[1] /\ e \in Events /\ 1 \in DOMAIN p
  BY HeadTailProperties, LenProperties, EmptySeq
<1>2. /\ e.id \in Nat
      /\ DOMAIN known = 1..Len(known) /\ Len(known) \in Nat
      /\ \A a \in DOMAIN known : known[a].obs \in Nat /\ known[a].ts \in Int
  <2>1. e.id \in Nat
    BY <1>1 DEF Events
  <2>2. DOMAIN known = 1..Len(known) /\ Len(known) \in Nat
    BY LenProperties
  <2>3. \A a \in DOMAIN known : known[a] \in Rows
    BY <2>2, ElementOfSeq
  <2>4. \A r \in Rows : r.obs \in Nat /\ r.ts \in Int
    BY SyncAssumption DEF Rows
  <2> QED BY <2>1, <2>2, <2>3, <2>4
<1>3. DOMAIN f = 1..Len(f) /\ Len(f) \in Nat /\ \A n \in DOMAIN f : f[n] \in DOMAIN known
  BY <1>0, LenProperties DEF Ordered
<1> HIDE DEF q, k, e
\* What is left to come still continues f.
<1>4. ASSUME NEW n \in DOMAIN q, IsAlert(q[n])
      PROVE  /\ q[n].id \in DOMAIN known
             /\ \A m \in DOMAIN q : m > n /\ IsAlert(q[m]) => q[n].id < q[m].id
             /\ \A m \in DOMAIN f : m <= s => f[m] < q[n].id
             /\ \A m \in DOMAIN f : s < m => known[f[m]].obs <= known[q[n].id].obs
             /\ IsAlert(e) => e.id < q[n].id
  <2>1. n + 1 \in DOMAIN p /\ q[n] = p[n + 1] /\ n + 1 > 1
    BY <1>1
  <2>2. /\ p[n + 1].id \in DOMAIN known
        /\ \A m \in DOMAIN p : m > n + 1 /\ IsAlert(p[m]) => p[n + 1].id < p[m].id
        /\ \A m \in DOMAIN f : m <= s => f[m] < p[n + 1].id
        /\ \A m \in DOMAIN f : s < m => known[f[m]].obs <= known[p[n + 1].id].obs
    BY <1>0, <1>4, <2>1 DEF Continues
  <2>3. ASSUME NEW m \in DOMAIN q, m > n, IsAlert(q[m]) PROVE q[n].id < q[m].id
    <3>1. m + 1 \in DOMAIN p /\ q[m] = p[m + 1] /\ m + 1 > n + 1
      BY <1>1, <2>3
    <3> QED BY <2>1, <2>2, <2>3, <3>1
  <2>4. IsAlert(e) => e.id < q[n].id
    BY <1>0, <1>1, <1>4, <2>1 DEF Continues
  <2> QED BY <2>1, <2>2, <2>3, <2>4
<1>5. CASE ~IsAlert(e)
  <2>1. g = f
    BY <1>5 DEF Enlist, IsAlert
  <2>2. Continues(known, q, s, f)
    BY <1>4 DEF Continues
  <2> QED BY <1>0, <2>1, <2>2 DEF q, e, Feeds
<1>6. CASE IsAlert(e)
  <2>1. g = FirstOf(<<e.id>> \o f, FeedCap)
    BY <1>6 DEF Enlist, IsAlert
  <2> HIDE DEF g
  <2> DEFINE l == Len(g)
  <2>2. /\ g \in Seq(Nat) /\ l \in Nat /\ DOMAIN g = 1..l
        /\ l <= FeedCap /\ l <= Len(f) + 1
        /\ g[1] = e.id
        /\ \A n \in 2..l : g[n] = f[n - 1]
    BY <1>2, <2>1, FirstOfFeed DEF Feeds
  <2> HIDE DEF l
  <2>3. /\ e.id \in DOMAIN known
        /\ \A m \in DOMAIN f : m <= s => f[m] < e.id
        /\ \A m \in DOMAIN f : s < m => known[f[m]].obs <= known[e.id].obs
    BY <1>0, <1>1, <1>6 DEF Continues
  <2>4. \A n \in DOMAIN g : n # 1 => n \in Nat /\ n > 1 /\ n - 1 \in DOMAIN f /\ g[n] = f[n - 1]
    BY <1>3, <2>2
  <2>5. Ordered(known, s + 1, g)
    <3>1. \A n \in DOMAIN g : g[n] \in DOMAIN known
      BY <1>3, <2>2, <2>3, <2>4
    <3>2. ASSUME NEW m \in DOMAIN g, NEW n \in DOMAIN g, m < n
          PROVE  /\ n <= s + 1 => g[m] > g[n]
                 /\ m <= s + 1 /\ s + 1 < n => known[g[m]].obs >= known[g[n]].obs
                 /\ s + 1 < m => g[m] # g[n] /\ known[g[m]].ts >= known[g[n]].ts
      <4>0. m \in Nat /\ n \in Nat /\ m >= 1 /\ n > 1
        BY <2>2, <3>2
      <4>1. n - 1 \in DOMAIN f /\ g[n] = f[n - 1]
        BY <2>4, <4>0
      <4>2. CASE m = 1
        <5>1. n - 1 <= s => f[n - 1] < e.id
          BY <2>3, <4>1
        <5>2. s < n - 1 => known[f[n - 1]].obs <= known[e.id].obs
          BY <2>3, <4>1
        <5>3. f[n - 1] \in Nat /\ known[f[n - 1]].obs \in Nat /\ known[e.id].obs \in Nat
          BY <1>2, <1>3, <2>3, <4>1
        <5>4. e.id \in Nat /\ g[m] = e.id
          BY <1>2, <2>2, <4>2
        <5> QED BY <4>0, <4>1, <4>2, <5>1, <5>2, <5>3, <5>4
      <4>3. CASE m # 1
        <5>1. m - 1 \in DOMAIN f /\ g[m] = f[m - 1] /\ m - 1 < n - 1
          BY <2>4, <3>2, <4>0, <4>3
        <5>2. /\ n - 1 <= s => f[m - 1] > f[n - 1]
              /\ m - 1 <= s /\ s < n - 1 => known[f[m - 1]].obs >= known[f[n - 1]].obs
              /\ s < m - 1 => f[m - 1] # f[n - 1] /\ known[f[m - 1]].ts >= known[f[n - 1]].ts
          BY <1>0, <4>1, <5>1 DEF Ordered
        <5> QED BY <4>0, <4>1, <5>1, <5>2
      <4> QED BY <4>2, <4>3
    <3> QED BY <3>1, <3>2 DEF Ordered
  <2>6. ASSUME NEW n \in DOMAIN q, IsAlert(q[n]), NEW m \in DOMAIN g
        PROVE  /\ m <= s + 1 => g[m] < q[n].id
               /\ s + 1 < m => known[g[m]].obs <= known[q[n].id].obs
    <3>1. CASE m = 1
      BY <1>4, <1>6, <2>2, <2>6, <3>1
    <3>2. CASE m # 1
      <4>1. m \in Nat /\ m - 1 \in DOMAIN f /\ g[m] = f[m - 1]
        BY <2>4, <3>2
      <4>2. /\ m - 1 <= s => f[m - 1] < q[n].id
            /\ s < m - 1 => known[f[m - 1]].obs <= known[q[n].id].obs
        BY <1>4, <2>6, <4>1
      <4> QED BY <4>1, <4>2
    <3> QED BY <3>1, <3>2
  <2>7. Continues(known, q, s + 1, g)
    BY <1>4, <2>6 DEF Continues
  <2>8. g \in Seq(Nat) /\ Len(g) <= FeedCap
    BY <2>2 DEF l
  <2>9. s + 1 \in Nat
    OBVIOUS
  <2>10. \E t \in Nat : Ordered(known, t, g) /\ Continues(known, q, t, g)
    BY <2>5, <2>7, <2>9
  <2> QED BY <2>8, <2>10 DEF q, e, g, Feeds
<1> QED BY <1>5, <1>6

\* What the store answers to an inspector that asks for alerts.
LEMMA RecentFeed ==
    ASSUME alerts \in Seq(Rows), InOrder(alerts), OutInv,
           NEW f \in Recents(QueryLimit) \cup {<<>>}
    PROVE  f \in Seq(Nat) /\ Feeds(alerts, out, f)
<1>1. /\ DOMAIN alerts = 1..Len(alerts) /\ Len(alerts) \in Nat
      /\ QueryLimit \in Nat /\ QueryLimit <= FeedCap /\ FeedCap \in Nat
  BY LenProperties, SyncAssumption
<1>2. /\ f \in Seq(Nat) /\ Len(f) <= FeedCap
      /\ Ordered(alerts, 0, f)
  <2>1. CASE f = <<>>
    <3>1. Len(f) = 0 /\ f \in Seq(Nat) /\ DOMAIN f = {}
      BY <2>1
    <3> QED BY <1>1, <3>1 DEF Ordered
  <2>2. CASE f \in Recents(QueryLimit)
    <3> DEFINE k == IF Len(alerts) <= QueryLimit THEN Len(alerts) ELSE QueryLimit
    <3>1. k \in Nat /\ k <= FeedCap
      BY <1>1
    <3>2. /\ f \in [1..k -> DOMAIN alerts]
          /\ \A x, y \in 1..k : x < y => f[x] # f[y] /\ Time(f[x]) >= Time(f[y])
      BY <2>2 DEF Recents
    <3> HIDE DEF k
    <3>3. f \in [1..k -> Nat]
      BY <1>1, <3>2
    <3>4. f \in Seq(Nat)
      BY <3>1, <3>3, SeqDef
    <3>5. Len(f) = k /\ DOMAIN f = 1..k
      BY <3>1, <3>3, <3>4, LenProperties
    <3>6. Ordered(alerts, 0, f)
      BY <3>1, <3>2, <3>5 DEF Ordered, Time
    <3> QED BY <3>1, <3>4, <3>5, <3>6
  <2> QED BY <2>1, <2>2
<1>3. ASSUME NEW n \in DOMAIN out, IsAlert(out[n])
      PROVE  /\ out[n].id \in DOMAIN alerts
             /\ \A m \in DOMAIN out : m > n /\ IsAlert(out[m]) => out[n].id < out[m].id
             /\ \A m \in DOMAIN f : alerts[f[m]].obs <= alerts[out[n].id].obs
  <2>1. /\ out[n].id \in DOMAIN alerts /\ alerts[out[n].id].obs = alerts[Len(alerts)].obs
        /\ \A m \in DOMAIN out : m > n /\ IsAlert(out[m]) => out[n].id < out[m].id
    BY <1>3 DEF OutInv, Obs
  <2>2. \A m \in DOMAIN f : f[m] \in DOMAIN alerts
    BY <1>2 DEF Ordered
  <2>3. Len(alerts) \in DOMAIN alerts /\ \A a \in DOMAIN alerts : a <= Len(alerts)
    BY <1>1, <2>1
  <2>4. \A a \in DOMAIN alerts : alerts[a].obs <= alerts[Len(alerts)].obs
    BY <2>3 DEF InOrder
  <2> QED BY <2>1, <2>2, <2>4
<1>4. \A m \in DOMAIN f : m \in Nat /\ ~(m <= 0)
  BY <1>2, LenProperties
<1>5. Continues(alerts, out, 0, f)
  BY <1>3, <1>4 DEF Continues
<1> QED BY <1>2, <1>5 DEF Feeds

LEMMA FeedsFewer ==
    ASSUME NEW known, NEW p, NEW q, NEW f, Feeds(known, p, f),
           IsSubsequence(q, p), DOMAIN q \subseteq Nat
    PROVE  Feeds(known, q, f)
BY ContinuesFewer DEF Feeds

LEMMA FeedsNone ==
    ASSUME NEW known, NEW p, NEW f, Feeds(known, p, f)
    PROVE  Feeds(known, <<>>, f)
<1>1. IsSubsequence(<<>>, p)
  BY NothingIsSubsequence
<1> QED BY <1>1, FeedsFewer

\* An event of no alert is about to be broadcast, or the end of the stream.
LEMMA FeedsBeside ==
    ASSUME NEW known \in Seq(Rows), InOrder(known), NEW p \in Seq(Events), NEW f \in Seq(Nat),
           Feeds(known, p, f), NEW e \in Events, ~IsAlert(e)
    PROVE  Feeds(known, Append(p, e), f)
<1>1. <<e>> \in Seq(Events) /\ DOMAIN <<e>> = {1} /\ <<e>>[1] = e
  OBVIOUS
<1>2. Append(p, e) = p \o <<e>>
  BY AppendIsConcat
<1>3. Grows(known, known)
  BY LenProperties DEF Grows
<1>4. \A n \in DOMAIN <<e>> : ~IsAlert(<<e>>[n])
  BY <1>1
<1>5. PICK s \in Nat : Ordered(known, s, f) /\ Continues(known, p, s, f)
  BY DEF Feeds
<1>6. Continues(known, p \o <<e>>, s, f)
  BY <1>1, <1>3, <1>4, <1>5, ContinuesFarther
<1> QED BY <1>2, <1>5, <1>6 DEF Feeds

-----------------------------------------------------------------------------
(***************************************************************************)
(* What is on its way.                                                     *)
(***************************************************************************)

LEMMA AheadIsSeq ==
    ASSUME Typing, NEW i \in Inspectors
    PROVE  /\ inbox[i] \in Seq(Events) /\ queue[i] \in Seq(Events)
           /\ out \in Seq(Events) /\ log \in Seq(Events) /\ applied[i] \in Seq(Events)
           /\ inbox[i] \o queue[i] \in Seq(Events)
           /\ Ahead(i) \in Seq(Events)
           /\ applied[i] \o inbox[i] \in Seq(Events)
           /\ Len(log) \in Nat /\ Len(inbox[i]) \in Nat /\ Len(queue[i]) \in Nat
<1>1. Sent \subseteq Events
  BY DEF Sent
<1>2. /\ inbox[i] \in Seq(Events) /\ queue[i] \in Seq(Sent)
      /\ out \in Seq(Sent) /\ log \in Seq(Sent) /\ applied[i] \in Seq(Sent)
  BY DEF Typing
<1>3. /\ queue[i] \in Seq(Events) /\ out \in Seq(Events) /\ log \in Seq(Events)
      /\ applied[i] \in Seq(Events)
  BY <1>1, <1>2, SeqMonotonic
<1>4. inbox[i] \o queue[i] \in Seq(Events) /\ applied[i] \o inbox[i] \in Seq(Events)
  BY <1>2, <1>3, ConcatProperties
<1>5. Ahead(i) \in Seq(Events)
  BY <1>3, <1>4, ConcatProperties DEF Ahead
<1> QED BY <1>2, <1>3, <1>4, <1>5, LenProperties

\* The head of t goes to the end of s.
LEMMA HeadMoves ==
    ASSUME NEW S, NEW s \in Seq(S), NEW t \in Seq(S), t # <<>>
    PROVE  /\ Append(s, Head(t)) \o Tail(t) = s \o t
           /\ Append(s, Head(t)) \in Seq(S) /\ Tail(t) \in Seq(S)
<1> DEFINE h == Head(t)
<1> DEFINE r == Tail(t)
<1>1. h \in S /\ r \in Seq(S) /\ <<h>> \in Seq(S) /\ Len(t) \in Nat \ {0} /\ h = t[1]
  BY HeadTailProperties, LenProperties, EmptySeq
<1>2. t = <<h>> \o r
  <2>1. 1 \in 1..Len(t) /\ Len(t) \in 1..Len(t)
    BY <1>1
  <2>2. SubSeq(t, 1, Len(t)) = <<t[1]>> \o SubSeq(t, 1 + 1, Len(t))
    BY <2>1, SubSeqRecursiveFirst
  <2>3. SubSeq(t, 1, Len(t)) = t /\ r = SubSeq(t, 2, Len(t))
    BY SubSeqFull, TailIsSubSeq
  <2> QED BY <1>1, <2>2, <2>3
<1> HIDE DEF h, r
<1>3. Append(s, h) = s \o <<h>> /\ Append(s, h) \in Seq(S)
  BY <1>1, AppendIsConcat, AppendProperties
<1>4. (s \o <<h>>) \o r = s \o (<<h>> \o r)
  BY <1>1, ConcatAssociative
<1> QED BY <1>1, <1>2, <1>3, <1>4 DEF h, r

\* An event is appended to both parts, or to the last one.
LEMMA AppendMoves ==
    ASSUME NEW S, NEW s \in Seq(S), NEW t \in Seq(S), NEW e \in S
    PROVE  s \o Append(t, e) = Append(s \o t, e)
<1>1. Append(t, e) = t \o <<e>> /\ <<e>> \in Seq(S) /\ s \o t \in Seq(S)
  BY AppendIsConcat, ConcatProperties
<1>2. Append(s \o t, e) = (s \o t) \o <<e>>
  BY <1>1, AppendIsConcat
<1> QED BY <1>1, <1>2, ConcatAssociative

\* What comes before the end of the stream.
BeforeEof(s) == IF s # <<>> /\ s[Len(s)] = Eof THEN SubSeq(s, 1, Len(s) - 1) ELSE s

LEMMA NoEnd ==
    ASSUME NEW s \in Seq(Events), \A n \in DOMAIN s : s[n] # Eof
    PROVE  BeforeEof(s) = s
<1>1. DOMAIN s = 1..Len(s) /\ Len(s) \in Nat
  BY LenProperties
<1>2. s # <<>> => Len(s) \in DOMAIN s
  BY <1>1, EmptySeq
<1> QED BY <1>2 DEF BeforeEof

-----------------------------------------------------------------------------
(***************************************************************************)
(* The worker.                                                             *)
(***************************************************************************)

\* The worker changes its table and prepares the event that says so.
LEMMA WorkerStep ==
    ASSUME InspectorInv, Free, NEW e \in Sent, out' = <<e>>,
           live' \in Tables, DOMAIN live' \subseteq 1..opened', opened' \in 0..MaxIds,
           ~IsAlert(e), alerts' = alerts,
           \A id \in Nat : About(e, id) => Says(e, live', id),
           \A id \in Nat : ~About(e, id) =>
               /\ id \in DOMAIN live' <=> id \in DOMAIN live
               /\ id \in DOMAIN live' => live'[id] = live[id],
           UNCHANGED <<up, log, subs, queue, inbox, inspectorVars>>
    PROVE  InspectorInv'
<1> USE DEF InspectorInv, inspectorVars
<1>1. e \in Events /\ out = <<>> /\ up
  BY DEF Sent, Free
<1>2. out' \in Seq(Sent) /\ Len(out') = 1 /\ DOMAIN out' = {1} /\ out'[1] = e
  BY <1>1
<1>3. Typing' /\ InOrder(alerts)'
  BY <1>2, SyncAssumption DEF Typing
<1>4. OutInv'
  BY <1>2 DEF OutInv
<1>5. DaemonInv'
  BY <1>1 DEF DaemonInv
<1>6. ASSUME NEW i \in Inspectors
      PROVE  (LinkInv(i) /\ StreamInv(i) /\ ConvergeInv(i) /\ FeedInv(i))'
  <2>1. LinkInv(i)' = LinkInv(i)
    BY DEF LinkInv, Starting
  <2>2. StreamInv(i)' = StreamInv(i)
    BY DEF StreamInv, Received, Unread, Since
  <2>3. Ahead(i) = inbox[i] \o queue[i] /\ Ahead(i)' = Append(Ahead(i), e)
    <3>1. inbox[i] \o queue[i] \in Seq(Events)
      BY AheadIsSeq
    <3>2. Ahead(i) = inbox[i] \o queue[i]
      BY <1>1, <3>1, ConcatEmptySeq DEF Ahead
    <3>3. Ahead(i)' = (inbox[i] \o queue[i]) \o <<e>>
      BY DEF Ahead
    <3> QED BY <1>1, <3>1, <3>2, <3>3, AppendIsConcat
  <2>4. Ahead(i) \in Seq(Events) /\ feed[i] \in Seq(Nat) /\ alerts \in Seq(Rows)
    BY AheadIsSeq DEF Typing
  <2>5. ConvergeInv(i)'
    <3>1. CASE ~stale[i] /\ pc[i] \in {"alerts", "subscribe", "run"}
      <4>1. Leads(Ahead(i), view[i], live)
        BY <1>1, <3>1 DEF ConvergeInv
      <4>2. Leads(Append(Ahead(i), e), view[i], live')
        BY <1>1, <2>4, <4>1, LeadsFarther
      <4> QED BY <2>3, <4>2 DEF ConvergeInv
    <3>2. CASE ~(~stale[i] /\ pc[i] \in {"alerts", "subscribe", "run"})
      BY <3>2 DEF ConvergeInv
    <3> QED BY <3>1, <3>2
  <2>6. FeedInv(i)'
    <3>1. CASE pc[i] \notin {"gone", "unheard"}
      <4>1. Feeds(alerts, Ahead(i), feed[i])
        BY <3>1 DEF FeedInv, Coming
      <4>2. Feeds(alerts, Append(Ahead(i), e), feed[i])
        BY <1>1, <2>4, <4>1, FeedsBeside
      <4> QED BY <2>3, <3>1, <4>2 DEF FeedInv, Coming
    <3>2. CASE pc[i] \in {"gone", "unheard"}
      BY <3>2 DEF FeedInv, Coming
    <3> QED BY <3>1, <3>2
  <2> QED BY <2>1, <2>2, <2>5, <2>6
<1> QED BY <1>3, <1>4, <1>5, <1>6

LEMMA EventsAreSent ==
    ASSUME NEW id \in Nat, NEW v \in Nat
    PROVE  /\ Flow(id, v) \in Sent /\ Closed(id) \in Sent /\ Alert(id) \in Sent /\ Beat \in Sent
           /\ \A k : About(Flow(id, v), k) <=> k = id
           /\ \A k : About(Closed(id), k) <=> k = id
           /\ \A k : ~About(Alert(id), k) /\ ~About(Beat, k)
BY DEF Flow, Closed, Alert, Beat, Eof, Sent, Events, About

LEMMA OpenConnInv == InspectorInv /\ OpenConn => InspectorInv'
<1> SUFFICES ASSUME InspectorInv, OpenConn PROVE InspectorInv'
  OBVIOUS
<1>1. /\ live \in Tables /\ DOMAIN live \subseteq 1..opened /\ opened \in Nat /\ MaxIds \in Nat
  BY SyncAssumption DEF InspectorInv, Typing
<1>2. /\ opened' = opened + 1 /\ opened' \in 0..MaxIds /\ live' = Put(live, opened', 1)
      /\ out' = <<Flow(opened', 1)>> /\ alerts' = alerts /\ opened' \in Nat
  BY <1>1, SyncAssumption DEF OpenConn, InspectorInv, Typing
<1> DEFINE k == opened'
<1> DEFINE e == Flow(k, 1)
<1>3. k \in Nat /\ k \notin DOMAIN live /\ k = opened + 1 /\ k = opened'
  BY <1>1, <1>2
<1>4. /\ e \in Sent /\ \A id : About(e, id) <=> id = k
      /\ e.type = "flow" /\ e.ver = 1
  BY <1>3, EventsAreSent DEF Flow
<1> HIDE DEF k, e
<1>5. /\ Put(live, k, 1) \in Tables /\ DOMAIN Put(live, k, 1) = DOMAIN live \cup {k}
      /\ Put(live, k, 1)[k] = 1
      /\ \A id \in DOMAIN live : id # k => Put(live, k, 1)[id] = live[id]
  <2>1. live \in Tables /\ k \in Nat /\ 1 \in Nat
    BY <1>1, <1>3
  <2> QED BY ONLY <2>1, PutTable
<1>6. live' \in Tables /\ DOMAIN live' \subseteq 1..opened'
  BY <1>1, <1>2, <1>3, <1>5
<1>7. \A id \in Nat : About(e, id) => Says(e, live', id)
  BY <1>2, <1>3, <1>4, <1>5 DEF Says
<1>8. \A id \in Nat : ~About(e, id) =>
         /\ id \in DOMAIN live' <=> id \in DOMAIN live
         /\ id \in DOMAIN live' => live'[id] = live[id]
  BY <1>2, <1>3, <1>4, <1>5
<1>9. Free /\ UNCHANGED <<up, log, subs, queue, inbox, inspectorVars>>
  BY DEF OpenConn
<1>10. out' = <<e>>
  BY <1>1, <1>2 DEF e, k
<1>11. ~IsAlert(e) /\ alerts' = alerts
  BY <1>2, <1>4 DEF IsAlert
<1> QED BY <1>2, <1>4, <1>6, <1>7, <1>8, <1>9, <1>10, <1>11, WorkerStep

LEMMA UpdateConnInv ==
    ASSUME InspectorInv, NEW k \in DOMAIN live, UpdateConn(k)
    PROVE  InspectorInv'
<1>1. /\ live \in Tables /\ DOMAIN live \subseteq 1..opened /\ opened \in 0..MaxIds
      /\ opened \in Nat
  BY SyncAssumption DEF InspectorInv, Typing
<1>2. PICK D \in SUBSET Nat : live \in [D -> Nat]
  BY <1>1 DEF Tables
<1>3. /\ live' = [live EXCEPT ![k] = @ + 1] /\ out' = <<Flow(k, live'[k])>>
      /\ opened' = opened /\ alerts' = alerts
  BY DEF UpdateConn
<1>4. /\ D = DOMAIN live /\ k \in Nat /\ live' \in [D -> Nat] /\ live'[k] \in Nat
      /\ \A id \in D : id # k => live'[id] = live[id]
  BY <1>1, <1>2, <1>3
<1> DEFINE e == Flow(k, live'[k])
<1>5. /\ e \in Sent /\ \A id : About(e, id) <=> id = k
      /\ e.type = "flow" /\ e.ver = live'[k]
  BY <1>4, EventsAreSent DEF Flow
<1>6. live' \in Tables /\ DOMAIN live' = DOMAIN live
  BY <1>4 DEF Tables
<1> HIDE DEF e
<1>7. \A id \in Nat : About(e, id) => Says(e, live', id)
  BY <1>5, <1>6 DEF Says
<1>8. \A id \in Nat : ~About(e, id) =>
         /\ id \in DOMAIN live' <=> id \in DOMAIN live
         /\ id \in DOMAIN live' => live'[id] = live[id]
  BY <1>4, <1>5, <1>6
<1>9. Free /\ UNCHANGED <<up, log, subs, queue, inbox, inspectorVars>>
  BY DEF UpdateConn
<1>10. out' = <<e>>  /\ opened' \in 0..MaxIds /\ DOMAIN live' \subseteq 1..opened'
  BY <1>1, <1>3, <1>6 DEF e
<1>11. ~IsAlert(e) /\ alerts' = alerts
  BY <1>3, <1>5 DEF IsAlert
<1> QED BY <1>5, <1>6, <1>7, <1>8, <1>9, <1>10, <1>11, WorkerStep

LEMMA CloseConnInv ==
    ASSUME InspectorInv, NEW k \in DOMAIN live, CloseConn(k)
    PROVE  InspectorInv'
<1>1. /\ live \in Tables /\ DOMAIN live \subseteq 1..opened /\ opened \in 0..MaxIds
      /\ k \in Nat
  BY SyncAssumption DEF InspectorInv, Typing
<1>2. /\ live' = Drop(live, k) /\ out' = <<Closed(k)>>
      /\ opened' = opened /\ alerts' = alerts
  BY DEF CloseConn
<1> DEFINE e == Closed(k)
<1>3. e \in Sent /\ (\A id : About(e, id) <=> id = k) /\ e.type = "closed"
  BY <1>1, EventsAreSent DEF Closed
<1>4. /\ Drop(live, k) \in Tables /\ DOMAIN Drop(live, k) = DOMAIN live \ {k}
      /\ \A id \in DOMAIN live : id # k => Drop(live, k)[id] = live[id]
  BY <1>1, DropTable
<1> HIDE DEF e
<1>5. live' \in Tables /\ DOMAIN live' \subseteq 1..opened'
  BY <1>1, <1>2, <1>4
<1>6. \A id \in Nat : About(e, id) => Says(e, live', id)
  BY <1>2, <1>3, <1>4 DEF Says
<1>7. \A id \in Nat : ~About(e, id) =>
         /\ id \in DOMAIN live' <=> id \in DOMAIN live
         /\ id \in DOMAIN live' => live'[id] = live[id]
  BY <1>2, <1>3, <1>4
<1>8. Free /\ UNCHANGED <<up, log, subs, queue, inbox, inspectorVars>>
  BY DEF CloseConn
<1>9. out' = <<e>>  /\ opened' \in 0..MaxIds
  BY <1>1, <1>2 DEF e
<1>10. ~IsAlert(e) /\ alerts' = alerts
  BY <1>2, <1>3 DEF IsAlert
<1> QED BY <1>3, <1>5, <1>6, <1>7, <1>8, <1>9, <1>10, WorkerStep

\* Alerts and heartbeats say nothing of connections.
LEMMA HeartbeatInv == InspectorInv /\ Heartbeat => InspectorInv'
<1> SUFFICES ASSUME InspectorInv, Heartbeat PROVE InspectorInv'
  OBVIOUS
<1>1. /\ live \in Tables /\ DOMAIN live \subseteq 1..opened /\ opened \in 0..MaxIds
  BY DEF InspectorInv, Typing
<1>2. /\ Free /\ UNCHANGED <<live, opened, alerts>>
      /\ UNCHANGED <<up, log, subs, queue, inbox, inspectorVars>>
  BY DEF Heartbeat
<1> DEFINE e == Beat
<1>3. out' = <<e>> /\ e \in Sent /\ (\A id : ~About(e, id)) /\ ~IsAlert(e)
  BY EventsAreSent DEF Heartbeat, Beat, IsAlert
<1> HIDE DEF e
<1> QED BY <1>1, <1>2, <1>3, WorkerStep

\* The alerts of one observation and their events.
LEMMA RaisedAlerts ==
    ASSUME alerts \in Seq(Rows), InOrder(alerts), NEW n \in Nat \ {0}, NEW t \in Times,
           RaiseAlerts(n, t)
    PROVE  /\ alerts' \in Seq(Rows) /\ InOrder(alerts)' /\ Grows(alerts, alerts')
           /\ Len(alerts') = Len(alerts) + n
           /\ \A a \in DOMAIN alerts' : a > Len(alerts) => Obs(a)' = Obs(Len(alerts))'
           /\ out' \in Seq(Sent) /\ Len(out') = n /\ DOMAIN out' = 1..n
           /\ \A k \in 1..n : IsAlert(out'[k]) /\ out'[k].id = Len(alerts) + k
<1> DEFINE l == Len(alerts)
<1> DEFINE obs == IF alerts = <<>> THEN 1 ELSE Obs(l) + 1
<1> DEFINE new == [k \in 1..n |-> [obs |-> obs, ts |-> t]]
<1>1. /\ DOMAIN alerts = 1..l /\ l \in Nat
      /\ \A a \in 1..l : alerts[a] \in Rows /\ alerts[a].obs \in Nat
  <2>1. DOMAIN alerts = 1..l /\ l \in Nat /\ \A a \in 1..l : alerts[a] \in Rows
    BY LenProperties, ElementOfSeq
  <2> QED BY <2>1 DEF Rows
<1>2. /\ obs \in Nat
      /\ \A a \in 1..l : alerts[a].obs <= obs
  <2>1. CASE alerts = <<>>
    <3>1. l = 0
      BY <2>1
    <3> QED BY <2>1, <3>1
  <2>2. CASE alerts # <<>>
    <3>1. l \in 1..l
      BY <1>1, <2>2, EmptySeq
    <3>2. \A a \in 1..l : alerts[a].obs <= alerts[l].obs
      BY <1>1, <3>1 DEF InOrder
    <3> QED BY <1>1, <2>2, <3>1, <3>2 DEF Obs
  <2> QED BY <2>1, <2>2
<1> HIDE DEF obs
<1>3. new \in Seq(Rows) /\ Len(new) = n /\ \A k \in 1..n : new[k].obs = obs
  <2>1. [obs |-> obs, ts |-> t] \in Rows
    BY <1>2 DEF Rows
  <2>2. new \in [1..n -> Rows]
    BY <2>1
  <2>3. new \in Seq(Rows)
    BY <2>2, SeqDef
  <2> QED BY <2>2, <2>3, LenProperties
<1>4. alerts' = alerts \o new
  BY DEF RaiseAlerts, obs
<1> HIDE DEF new
<1>5. /\ alerts' \in Seq(Rows) /\ Len(alerts') = l + n /\ DOMAIN alerts' = 1..(l + n)
      /\ \A a \in 1..l : alerts'[a] = alerts[a]
      /\ \A a \in (l + 1)..(l + n) : alerts'[a] = new[a - l]
  <2>1. /\ alerts \o new \in Seq(Rows) /\ Len(alerts \o new) = l + Len(new)
        /\ \A a \in 1..l : (alerts \o new)[a] = alerts[a]
        /\ \A a \in (l + 1)..(l + Len(new)) : (alerts \o new)[a] = new[a - l]
    <3>1. alerts \in Seq(Rows) /\ new \in Seq(Rows)
      BY <1>3
    <3> QED BY ONLY <3>1, ConcatProperties
  <2> QED BY <1>3, <1>4, <2>1, LenProperties
<1> HIDE DEF l
<1>6. \A a \in (l + 1)..(l + n) : alerts'[a].obs = obs
  <2> TAKE a \in (l + 1)..(l + n)
  <2>1. a - l \in 1..n
    BY <1>1
  <2> QED BY <1>3, <1>5, <2>1
<1>7. Grows(alerts, alerts')
  BY <1>1, <1>5 DEF Grows, l
<1>8. ASSUME NEW a \in DOMAIN alerts', NEW b \in DOMAIN alerts', a <= b
      PROVE  alerts'[a].obs <= alerts'[b].obs
  <2>1. a \in 1..l \/ a \in (l + 1)..(l + n)
    BY <1>1, <1>5
  <2>2. b \in 1..l \/ b \in (l + 1)..(l + n)
    BY <1>1, <1>5
  <2>3. CASE b \in 1..l
    <3>1. a \in 1..l
      BY <1>1, <1>5, <1>8, <2>3
    <3> QED BY <1>1, <1>5, <1>8, <2>3, <3>1 DEF InOrder
  <2>4. CASE b \in (l + 1)..(l + n)
    BY <1>2, <1>5, <1>6, <2>1, <2>4
  <2> QED BY <2>2, <2>3, <2>4
<1>9. InOrder(alerts)'
  BY <1>8 DEF InOrder
<1>10. ASSUME NEW a \in DOMAIN alerts', a > l PROVE Obs(a)' = Obs(Len(alerts))'
  <2>1. a \in (l + 1)..(l + n) /\ l + n \in (l + 1)..(l + n)
    BY <1>1, <1>5, <1>10
  <2>2. alerts'[a].obs = obs /\ alerts'[Len(alerts')].obs = obs
    BY <1>5, <1>6, <2>1
  <2> QED BY <2>2 DEF Obs
<1>11. /\ out' \in Seq(Sent) /\ Len(out') = n /\ DOMAIN out' = 1..n
       /\ \A k \in 1..n : IsAlert(out'[k]) /\ out'[k].id = Len(alerts) + k
  <2>1. out' = [k \in 1..n |-> Alert(Len(alerts) + k)]
    BY DEF RaiseAlerts
  <2>2. \A k \in 1..n : Len(alerts) + k \in Nat
    BY <1>1 DEF l
  <2>3. \A k \in 1..n : Alert(Len(alerts) + k) \in Sent
    BY <2>2, EventsAreSent
  <2>4. out' \in [1..n -> Sent]
    BY <2>1, <2>3
  <2>5. out' \in Seq(Sent)
    BY <2>4, SeqDef
  <2>6. DOMAIN out' = 1..n /\ Len(out') = n
    <3>1. DOMAIN out' = 1..n /\ DOMAIN out' = 1..Len(out') /\ Len(out') \in Nat
      BY <2>1, <2>5, LenProperties
    <3> QED BY <3>1
  <2>7. \A k \in 1..n : out'[k] = Alert(Len(alerts) + k)
    BY <2>1
  <2> QED BY <2>5, <2>6, <2>7 DEF Alert, IsAlert
<1> QED BY <1>5, <1>7, <1>9, <1>10, <1>11 DEF l

LEMMA RaiseAlertsInv ==
    ASSUME InspectorInv, NEW n \in 1..MaxAlerts, NEW t \in Times, RaiseAlerts(n, t)
    PROVE  InspectorInv'
<1> USE DEF InspectorInv
<1>1. /\ up /\ out = <<>>
      /\ UNCHANGED <<up, live, opened, log, subs, queue, inbox>>
      /\ UNCHANGED <<pc, view, feed, connected, applied, joined, dropped, stale>>
  BY DEF RaiseAlerts, Free, inspectorVars
<1>2. /\ alerts' \in Seq(Rows) /\ InOrder(alerts)' /\ Grows(alerts, alerts')
      /\ Len(alerts') = Len(alerts) + n
      /\ \A a \in DOMAIN alerts' : a > Len(alerts) => Obs(a)' = Obs(Len(alerts))'
      /\ out' \in Seq(Sent) /\ Len(out') = n /\ DOMAIN out' = 1..n
      /\ \A k \in 1..n : IsAlert(out'[k]) /\ out'[k].id = Len(alerts) + k
  BY RaisedAlerts, SyncAssumption DEF Typing
<1>3. /\ Len(alerts) \in Nat /\ DOMAIN alerts' = 1..Len(alerts') /\ n \in Nat \ {0}
      /\ n <= MaxAlerts
  BY <1>2, LenProperties, SyncAssumption DEF Typing
<1>4. Typing'
  BY <1>1, <1>2, <1>3 DEF Typing
<1>5. \A k \in DOMAIN out' : /\ out'[k].id \in DOMAIN alerts' /\ out'[k].id > Len(alerts)
                             /\ \A m \in DOMAIN out' : m > k => out'[k].id < out'[m].id
                             /\ \A id : ~About(out'[k], id)
  BY <1>2, <1>3 DEF About, IsAlert
<1>6. OutInv'
  BY <1>2, <1>5 DEF OutInv
<1>7. DaemonInv'
  BY <1>1 DEF DaemonInv
<1>8. ASSUME NEW i \in Inspectors
      PROVE  (LinkInv(i) /\ StreamInv(i) /\ ConvergeInv(i) /\ FeedInv(i))'
  <2>1. LinkInv(i)'
    BY <1>1 DEF LinkInv, Starting
  <2>2. StreamInv(i)'
    BY <1>1 DEF StreamInv, Received, Unread, Since
  <2>3. /\ Ahead(i) = inbox[i] \o queue[i] /\ Ahead(i)' = Ahead(i) \o out'
        /\ Ahead(i) \in Seq(Events) /\ feed[i] \in Seq(Nat) /\ out' \in Seq(Events)
        /\ alerts \in Seq(Rows)
    <3>1. inbox[i] \o queue[i] \in Seq(Events) /\ Ahead(i) \in Seq(Events)
      BY AheadIsSeq
    <3>2. Ahead(i) = inbox[i] \o queue[i]
      BY <1>1, <3>1, ConcatEmptySeq DEF Ahead
    <3>3. Ahead(i)' = (inbox[i] \o queue[i]) \o out'
      BY <1>1 DEF Ahead
    <3>4. Sent \subseteq Events
      BY DEF Sent
    <3> QED BY <1>2, <3>1, <3>2, <3>3, <3>4, SeqMonotonic DEF Typing
  <2>4. ConvergeInv(i)'
    <3>1. CASE ~stale[i] /\ pc[i] \in {"alerts", "subscribe", "run"}
      <4>1. Leads(Ahead(i), view[i], live)
        BY <1>1, <3>1 DEF ConvergeInv
      <4>2. Leads(Ahead(i) \o out', view[i], live)
        BY <1>5, <2>3, <4>1, LeadsBeside
      <4> QED BY <1>1, <2>3, <4>2 DEF ConvergeInv
    <3>2. CASE ~(~stale[i] /\ pc[i] \in {"alerts", "subscribe", "run"})
      BY <1>1, <3>2 DEF ConvergeInv
    <3> QED BY <3>1, <3>2
  <2>5. FeedInv(i)'
    <3>1. PICK s \in Nat : Ordered(alerts, s, feed[i]) /\ Continues(alerts, Coming(i), s, feed[i])
      BY DEF FeedInv, Feeds
    <3>2. Ordered(alerts', s, feed[i])
      BY <1>2, <2>3, <3>1, OrderedFarther
    <3>3. Len(feed[i]) <= FeedCap /\ InOrder(alerts')
      BY <1>2 DEF FeedInv, Feeds, InOrder
    <3>4. CASE pc[i] \notin {"gone", "unheard"}
      <4>1. Continues(alerts', Ahead(i) \o out', s, feed[i])
        BY <1>2, <1>5, <2>3, <3>1, <3>3, <3>4, ContinuesFarther DEF Coming
      <4>2. Feeds(alerts', Ahead(i) \o out', feed[i])
        BY <3>2, <3>3, <4>1 DEF Feeds
      <4> QED BY <1>1, <2>3, <3>4, <4>2 DEF FeedInv, Coming
    <3>5. CASE pc[i] \in {"gone", "unheard"}
      <4>1. Continues(alerts', <<>>, s, feed[i])
        BY DEF Continues
      <4>2. Feeds(alerts', <<>>, feed[i])
        BY <3>2, <3>3, <4>1 DEF Feeds
      <4> QED BY <1>1, <3>5, <4>2 DEF FeedInv, Coming
    <3> QED BY <3>4, <3>5
  <2> QED BY <2>1, <2>2, <2>4, <2>5
<1> QED BY <1>2, <1>4, <1>6, <1>7, <1>8

-----------------------------------------------------------------------------
(***************************************************************************)
(* The inspectors.                                                         *)
(***************************************************************************)

IInv(i) == LinkInv(i) /\ StreamInv(i) /\ ConvergeInv(i) /\ FeedInv(i)

\* What one inspector does is nothing to another.
LEMMA OthersKept ==
    ASSUME NEW j \in Inspectors, IInv(j),
           UNCHANGED <<up, live, alerts, out, log>>,
           queue'[j] = queue[j], inbox'[j] = inbox[j], pc'[j] = pc[j],
           view'[j] = view[j], feed'[j] = feed[j], connected'[j] = connected[j],
           applied'[j] = applied[j], joined'[j] = joined[j],
           dropped'[j] = dropped[j], stale'[j] = stale[j],
           j \in subs' <=> j \in subs
    PROVE  IInv(j)'
<1>1. LinkInv(j)'
  BY DEF IInv, LinkInv, Starting
<1>2. StreamInv(j)'
  BY DEF IInv, StreamInv, Received, Unread, Since
<1>3. Ahead(j)' = Ahead(j)
  BY DEF Ahead
<1>4. ConvergeInv(j)'
  BY <1>3 DEF IInv, ConvergeInv
<1>5. FeedInv(j)'
  BY <1>3 DEF IInv, FeedInv, Coming
<1> QED BY <1>1, <1>2, <1>4, <1>5 DEF IInv

LEMMA InspectorStep ==
    ASSUME InspectorInv, NEW i \in Inspectors, Typing', IInv(i)', UNCHANGED daemonVars,
           \A j \in Inspectors \ {i} :
               /\ queue'[j] = queue[j] /\ inbox'[j] = inbox[j] /\ pc'[j] = pc[j]
               /\ view'[j] = view[j] /\ feed'[j] = feed[j] /\ connected'[j] = connected[j]
               /\ applied'[j] = applied[j] /\ joined'[j] = joined[j]
               /\ dropped'[j] = dropped[j] /\ stale'[j] = stale[j]
               /\ j \in subs' <=> j \in subs
    PROVE  InspectorInv'
<1>1. UNCHANGED <<up, live, alerts, out, log>>
  BY DEF daemonVars
<1>2. InOrder(alerts)' /\ OutInv' /\ DaemonInv'
  BY <1>1 DEF InspectorInv, InOrder, OutInv, DaemonInv, Obs
<1>3. ASSUME NEW j \in Inspectors PROVE IInv(j)'
  <2>1. CASE j = i
    BY <2>1
  <2>2. CASE j # i
    BY <1>1, <2>2, OthersKept DEF InspectorInv, IInv
  <2> QED BY <2>1, <2>2
<1> QED BY <1>2, <1>3 DEF InspectorInv, IInv

\* What an inspector that was sent nothing yet is still to hear.
LEMMA AheadAtStart ==
    ASSUME Typing, OutInv, NEW i \in Inspectors, inbox[i] = <<>>, queue[i] = <<>>
    PROVE  Ahead(i) = out /\ Leads(out, live, live)
<1>1. out \in Seq(Events)
  BY AheadIsSeq
<1>2. Ahead(i) = out
  BY <1>1, ConcatEmptySeq DEF Ahead
<1>4. Leads(out, live, live)
  BY DEF Leads, OutInv
<1> QED BY <1>2, <1>4

LEMMA QueryConnsInv ==
    ASSUME InspectorInv, NEW i \in Inspectors, QueryConns(i)
    PROVE  InspectorInv'
<1>1. Typing /\ OutInv /\ LinkInv(i) /\ FeedInv(i)
  BY DEF InspectorInv
<1>2. /\ view' = [view EXCEPT ![i] = live] /\ pc' = [pc EXCEPT ![i] = "alerts"]
      /\ UNCHANGED <<daemonVars, subs, queue, inbox, feed, connected, applied,
                     joined, dropped, stale>>
      /\ UNCHANGED <<up, live, opened, alerts, out, log>>
      /\ up /\ pc[i] = "conns"
  BY DEF QueryConns, daemonVars
<1>3. Typing'
  BY <1>1, <1>2 DEF Typing, States
<1>4. pc'[i] = "alerts" /\ view'[i] = live
  BY <1>1, <1>2 DEF Typing
<1>5. LinkInv(i)'
  BY <1>1, <1>2, <1>4 DEF LinkInv, Starting
<1>6. StreamInv(i)'
  BY <1>4 DEF StreamInv
<1>7. Ahead(i)' = Ahead(i) /\ Ahead(i) = out /\ Leads(out, live, live)
  <2>1. inbox[i] = <<>> /\ queue[i] = <<>>
    BY <1>1, <1>2 DEF LinkInv, Starting
  <2> QED BY <1>1, <1>2, <2>1, AheadAtStart DEF Ahead
<1>8. ConvergeInv(i)'
  BY <1>2, <1>4, <1>7 DEF ConvergeInv
<1>9. FeedInv(i)'
  BY <1>1, <1>2, <1>4, <1>7 DEF FeedInv, Coming
<1>10. \A j \in Inspectors \ {i} : view'[j] = view[j] /\ pc'[j] = pc[j]
  BY <1>1, <1>2 DEF Typing
<1> QED BY <1>2, <1>3, <1>5, <1>6, <1>8, <1>9, <1>10, InspectorStep DEF IInv

LEMMA QueryAlertsInv ==
    ASSUME InspectorInv, NEW i \in Inspectors, QueryAlerts(i)
    PROVE  InspectorInv'
<1>1. Typing /\ InOrder(alerts) /\ OutInv /\ LinkInv(i) /\ ConvergeInv(i)
  BY DEF InspectorInv
<1>0. PICK f \in Recents(QueryLimit) \cup {<<>>} : feed' = [feed EXCEPT ![i] = f]
  BY DEF QueryAlerts
<1>2. /\ feed' = [feed EXCEPT ![i] = f]
      /\ pc' = [pc EXCEPT ![i] = "subscribe"]
      /\ UNCHANGED <<daemonVars, subs, queue, inbox, view, connected, applied,
                     joined, dropped, stale>>
      /\ UNCHANGED <<up, live, opened, alerts, out, log>>
      /\ up /\ pc[i] = "alerts"
  BY <1>0 DEF QueryAlerts, daemonVars
<1>3. f \in Seq(Nat) /\ Feeds(alerts, out, f)
  BY <1>1, RecentFeed DEF Typing
<1>4. Typing'
  BY <1>1, <1>2, <1>3 DEF Typing, States
<1>5. pc'[i] = "subscribe" /\ feed'[i] = f
  BY <1>1, <1>2 DEF Typing
<1>6. LinkInv(i)'
  BY <1>1, <1>2, <1>5 DEF LinkInv, Starting
<1>7. StreamInv(i)'
  BY <1>5 DEF StreamInv
<1>8. Ahead(i)' = Ahead(i) /\ Ahead(i) = out
  <2>1. inbox[i] = <<>> /\ queue[i] = <<>>
    BY <1>1, <1>2 DEF LinkInv, Starting
  <2> QED BY <1>1, <1>2, <2>1, AheadAtStart DEF Ahead
<1>9. ConvergeInv(i)'
  BY <1>1, <1>2, <1>5, <1>8 DEF ConvergeInv
<1>10. FeedInv(i)'
  BY <1>2, <1>3, <1>5, <1>8 DEF FeedInv, Coming
<1>11. \A j \in Inspectors \ {i} : feed'[j] = feed[j] /\ pc'[j] = pc[j]
  BY <1>1, <1>2 DEF Typing
<1> QED BY <1>2, <1>4, <1>6, <1>7, <1>9, <1>10, <1>11, InspectorStep DEF IInv

LEMMA SubscribeInv ==
    ASSUME InspectorInv, NEW i \in Inspectors, Subscribe(i)
    PROVE  InspectorInv'
<1>1. Typing /\ OutInv /\ LinkInv(i) /\ ConvergeInv(i) /\ FeedInv(i)
  BY DEF InspectorInv
<1>2. /\ subs' = subs \cup {i} /\ joined' = [joined EXCEPT ![i] = Len(log)]
      /\ pc' = [pc EXCEPT ![i] = "run"]
      /\ UNCHANGED <<daemonVars, queue, inbox, view, feed, connected, applied,
                     dropped, stale>>
      /\ UNCHANGED <<up, live, opened, alerts, out, log>>
      /\ up /\ pc[i] = "subscribe"
  BY DEF Subscribe, daemonVars
<1>3. log \in Seq(Events) /\ Len(log) \in Nat
  BY <1>1, AheadIsSeq
<1>4. Typing'
  BY <1>1, <1>2, <1>3 DEF Typing, States
<1>5. pc'[i] = "run" /\ joined'[i] = Len(log) /\ i \in subs'
  BY <1>1, <1>2 DEF Typing
<1>6. inbox[i] = <<>> /\ queue[i] = <<>> /\ applied[i] = <<>>
  BY <1>1, <1>2 DEF LinkInv, Starting
<1>7. LinkInv(i)'
  BY <1>1, <1>2, <1>3, <1>5 DEF LinkInv, Starting
<1>8. StreamInv(i)'
  <2>1. Received(i)' = <<>>
    BY <1>2, <1>6 DEF Received, Unread
  <2>2. Since(i)' = <<>>
    BY <1>2, <1>3, <1>5, SubSeqEmpty DEF Since
  <2> QED BY <2>1, <2>2, NothingIsSubsequence DEF StreamInv
<1>9. Ahead(i)' = Ahead(i)
  BY <1>2 DEF Ahead
<1>10. ConvergeInv(i)'
  BY <1>1, <1>2, <1>5, <1>9 DEF ConvergeInv
<1>11. FeedInv(i)'
  BY <1>1, <1>2, <1>5, <1>9 DEF FeedInv, Coming
<1>12. \A j \in Inspectors \ {i} :
          joined'[j] = joined[j] /\ pc'[j] = pc[j] /\ (j \in subs' <=> j \in subs)
  BY <1>1, <1>2 DEF Typing
<1> QED BY <1>2, <1>4, <1>7, <1>8, <1>10, <1>11, <1>12, InspectorStep DEF IInv

LEMMA SubscribeFailsInv ==
    ASSUME InspectorInv, NEW i \in Inspectors, SubscribeFails(i)
    PROVE  InspectorInv'
<1>1. Typing /\ InOrder(alerts) /\ OutInv /\ LinkInv(i) /\ DaemonInv /\ FeedInv(i)
  BY DEF InspectorInv
<1>2. /\ inbox' = [inbox EXCEPT ![i] = <<Eof>>]
      /\ joined' = [joined EXCEPT ![i] = Len(log)]
      /\ pc' = [pc EXCEPT ![i] = "run"]
      /\ UNCHANGED <<daemonVars, subs, queue, view, feed, connected, applied,
                     dropped, stale>>
      /\ UNCHANGED <<up, live, opened, alerts, out, log>>
      /\ ~up /\ pc[i] = "subscribe"
  BY DEF SubscribeFails, daemonVars
<1>3. log \in Seq(Events) /\ Len(log) \in Nat
  BY <1>1, AheadIsSeq
<1>4. Eof \in Events /\ <<Eof>> \in Seq(Events) /\ Len(<<Eof>>) = 1 /\ <<Eof>> # <<>>
  BY DEF Eof, Events
<1>5. Typing'
  BY <1>1, <1>2, <1>3, <1>4 DEF Typing, States
<1>6. pc'[i] = "run" /\ joined'[i] = Len(log) /\ inbox'[i] = <<Eof>>
  BY <1>1, <1>2 DEF Typing
<1>7. queue[i] = <<>> /\ applied[i] = <<>> /\ connected[i] /\ out = <<>>
  BY <1>1, <1>2 DEF LinkInv, Starting, DaemonInv
<1>8. LinkInv(i)'
  BY <1>1, <1>2, <1>3, <1>6, <1>7 DEF LinkInv, Starting
<1>9. StreamInv(i)'
  <2>1. SubSeq(<<Eof>>, 1, 0) = <<>>
    BY <1>4, SubSeqEmpty
  <2>2. Received(i)' = <<>>
    BY <1>2, <1>4, <1>6, <1>7, <2>1 DEF Received, Unread
  <2>3. Since(i)' = <<>>
    BY <1>2, <1>3, <1>6, SubSeqEmpty DEF Since
  <2> QED BY <2>2, <2>3, NothingIsSubsequence DEF StreamInv
<1>10. ConvergeInv(i)'
  BY <1>2 DEF ConvergeInv
<1>11. FeedInv(i)'
  <2>1. Ahead(i)' = <<Eof>>
    BY <1>2, <1>4, <1>6, <1>7 DEF Ahead
  <2>2. Feeds(alerts, <<>>, feed[i])
    BY <1>1, FeedsNone DEF FeedInv
  <2>3. /\ <<>> \in Seq(Events) /\ feed[i] \in Seq(Nat) /\ alerts \in Seq(Rows)
        /\ ~IsAlert(Eof)
    BY <1>1 DEF Typing, Eof, IsAlert
  <2>4. Feeds(alerts, Append(<<>>, Eof), feed[i])
    BY <1>1, <1>4, <2>2, <2>3, FeedsBeside
  <2>5. Append(<<>>, Eof) = <<Eof>>
    OBVIOUS
  <2> QED BY <1>2, <1>6, <2>1, <2>4, <2>5 DEF FeedInv, Coming
<1>12. \A j \in Inspectors \ {i} :
          joined'[j] = joined[j] /\ pc'[j] = pc[j] /\ inbox'[j] = inbox[j]
  BY <1>1, <1>2 DEF Typing
<1> QED BY <1>2, <1>5, <1>8, <1>9, <1>10, <1>11, <1>12, InspectorStep DEF IInv

LEMMA StartFailsInv ==
    ASSUME InspectorInv, NEW i \in Inspectors, StartFails(i)
    PROVE  InspectorInv'
<1>1. Typing /\ LinkInv(i) /\ FeedInv(i)
  BY DEF InspectorInv
<1>2. /\ pc' = [pc EXCEPT ![i] = "gone"]
      /\ UNCHANGED <<daemonVars, subs, queue, inbox, view, feed, connected,
                     applied, joined, dropped, stale>>
      /\ UNCHANGED <<up, live, opened, alerts, out, log>>
  BY DEF StartFails, daemonVars
<1>3. Typing' /\ pc'[i] = "gone"
  BY <1>1, <1>2 DEF Typing, States
<1>4. LinkInv(i)'
  BY <1>1, <1>2, <1>3 DEF LinkInv, Starting
<1>5. StreamInv(i)' /\ ConvergeInv(i)'
  BY <1>3 DEF StreamInv, ConvergeInv
<1>6. FeedInv(i)'
  BY <1>1, <1>2, <1>3, FeedsNone DEF FeedInv, Coming
<1>7. \A j \in Inspectors \ {i} : pc'[j] = pc[j]
  BY <1>1, <1>2 DEF Typing
<1> QED BY <1>2, <1>3, <1>4, <1>5, <1>6, <1>7, InspectorStep DEF IInv

\* An answer to LiveConnections is applied at once.
LEMMA RefreshInv ==
    ASSUME InspectorInv, NEW i \in Inspectors, Refresh(i)
    PROVE  InspectorInv'
<1>1. Typing /\ OutInv /\ LinkInv(i) /\ StreamInv(i) /\ ConvergeInv(i) /\ FeedInv(i)
  BY DEF InspectorInv
<1>2. /\ view' = [view EXCEPT ![i] = live]
      /\ stale' = [stale EXCEPT ![i] = @ /\ InFlight(i)]
      /\ UNCHANGED <<daemonVars, subs, queue, inbox, pc, feed, connected, applied,
                     joined, dropped>>
      /\ UNCHANGED <<up, live, opened, alerts, out, log>>
      /\ up /\ pc[i] = "run"
  BY DEF Refresh, Active, daemonVars
<1>3. stale[i] \in BOOLEAN /\ stale'[i] = (stale[i] /\ InFlight(i)) /\ view'[i] = live
  BY <1>1, <1>2 DEF Typing
<1>4. Typing'
  <2>1. (stale[i] /\ InFlight(i)) \in BOOLEAN
    BY <1>3
  <2>2. stale' \in [Inspectors -> BOOLEAN]
    BY <1>1, <1>2, <2>1 DEF Typing
  <2> QED BY <1>1, <1>2, <2>2 DEF Typing
<1>5. LinkInv(i)'
  BY <1>1, <1>2 DEF LinkInv, Starting
<1>6. StreamInv(i)'
  BY <1>1, <1>2 DEF StreamInv, Received, Unread, Since
<1>7. Ahead(i)' = Ahead(i)
  BY <1>2 DEF Ahead
<1>8. ConvergeInv(i)'
  <2>1. CASE InFlight(i)
    <3>1. ~stale'[i] => Leads(Ahead(i), view[i], live)
      BY <1>1, <1>2, <1>3, <2>1 DEF ConvergeInv
    <3>2. Leads(Ahead(i), view[i], live) => Leads(Ahead(i), live, live)
      BY DEF Leads
    <3> QED BY <1>2, <1>3, <1>7, <3>1, <3>2 DEF ConvergeInv
  <2>2. CASE ~InFlight(i)
    <3>1. out = <<>> /\ inbox[i] = <<>> /\ queue[i] = <<>>
      BY <2>2 DEF InFlight
    <3>2. Ahead(i) = out /\ Leads(out, live, live)
      BY <1>1, <3>1, AheadAtStart
    <3> QED BY <1>2, <1>3, <1>7, <3>2 DEF ConvergeInv
  <2> QED BY <2>1, <2>2
<1>9. FeedInv(i)'
  BY <1>1, <1>2, <1>7 DEF FeedInv, Coming
<1>10. \A j \in Inspectors \ {i} : view'[j] = view[j] /\ stale'[j] = stale[j]
  BY <1>1, <1>2 DEF Typing
<1> QED BY <1>2, <1>4, <1>5, <1>6, <1>8, <1>9, <1>10, InspectorStep DEF IInv

LEMMA QuitInv ==
    ASSUME InspectorInv, NEW i \in Inspectors, Quit(i)
    PROVE  InspectorInv'
<1>1. Typing /\ LinkInv(i) /\ FeedInv(i)
  BY DEF InspectorInv
<1>2. /\ pc' = [pc EXCEPT ![i] = "gone"]
      /\ inbox' = [inbox EXCEPT ![i] = <<>>]
      /\ UNCHANGED <<daemonVars, subs, queue, view, feed, connected, applied,
                     joined, dropped, stale>>
      /\ UNCHANGED <<up, live, opened, alerts, out, log>>
  BY DEF Quit, daemonVars
<1>3. Typing' /\ pc'[i] = "gone" /\ inbox'[i] = <<>>
  BY <1>1, <1>2, EmptySeq DEF Typing, States
<1>4. LinkInv(i)'
  BY <1>1, <1>2, <1>3 DEF LinkInv, Starting
<1>5. StreamInv(i)' /\ ConvergeInv(i)'
  BY <1>3 DEF StreamInv, ConvergeInv
<1>6. FeedInv(i)'
  BY <1>1, <1>2, <1>3, FeedsNone DEF FeedInv, Coming
<1>7. \A j \in Inspectors \ {i} : pc'[j] = pc[j] /\ inbox'[j] = inbox[j]
  BY <1>1, <1>2 DEF Typing
<1> QED BY <1>2, <1>3, <1>4, <1>5, <1>6, <1>7, InspectorStep DEF IInv

LEMMA HandlerEndsInv ==
    ASSUME InspectorInv, NEW i \in Inspectors, HandlerEnds(i)
    PROVE  InspectorInv'
<1>1. Typing /\ LinkInv(i) /\ FeedInv(i)
  BY DEF InspectorInv
<1>2. /\ queue' = [queue EXCEPT ![i] = <<>>]
      /\ pc' = [pc EXCEPT ![i] = "unheard"]
      /\ UNCHANGED <<daemonVars, subs, inbox, view, feed, connected, applied,
                     joined, dropped, stale>>
      /\ UNCHANGED <<up, live, opened, alerts, out, log>>
  BY DEF HandlerEnds, daemonVars
<1>3. Typing' /\ pc'[i] = "unheard" /\ queue'[i] = <<>>
  BY <1>1, <1>2, EmptySeq DEF Typing, States
<1>4. LinkInv(i)'
  BY <1>1, <1>2, <1>3, SyncAssumption DEF LinkInv, Starting
<1>5. StreamInv(i)' /\ ConvergeInv(i)'
  BY <1>3 DEF StreamInv, ConvergeInv
<1>6. FeedInv(i)'
  BY <1>1, <1>2, <1>3, FeedsNone DEF FeedInv, Coming
<1>7. \A j \in Inspectors \ {i} : pc'[j] = pc[j] /\ queue'[j] = queue[j]
  BY <1>1, <1>2 DEF Typing
<1> QED BY <1>2, <1>3, <1>4, <1>5, <1>6, <1>7, InspectorStep DEF IInv

LEMMA ForwardInv ==
    ASSUME InspectorInv, NEW i \in Inspectors, Forward(i)
    PROVE  InspectorInv'
<1>1. Typing /\ LinkInv(i) /\ StreamInv(i) /\ ConvergeInv(i) /\ FeedInv(i)
  BY DEF InspectorInv
<1>2. /\ inbox' = [inbox EXCEPT ![i] = Append(@, Head(queue[i]))]
      /\ queue' = [queue EXCEPT ![i] = Tail(@)]
      /\ UNCHANGED <<daemonVars, subs, inspectorVars>>
      /\ UNCHANGED <<up, live, opened, alerts, out, log>>
      /\ UNCHANGED <<pc, view, feed, connected, applied, joined, dropped, stale>>
      /\ up /\ pc[i] = "run" /\ queue[i] # <<>>
  BY DEF Forward, Active, daemonVars, inspectorVars
<1> DEFINE e == Head(queue[i])
<1>3. /\ inbox[i] \in Seq(Events) /\ queue[i] \in Seq(Events) /\ out \in Seq(Events)
      /\ applied[i] \in Seq(Events) /\ queue[i] \in Seq(Sent)
  BY <1>1, AheadIsSeq DEF Typing
<1>4. e \in Sent /\ e \in Events /\ e # Eof /\ Tail(queue[i]) \in Seq(Sent)
      /\ Len(Tail(queue[i])) = Len(queue[i]) - 1 /\ Len(queue[i]) \in Nat
  BY <1>2, <1>3, HeadTailProperties, LenProperties DEF Sent
<1>5. inbox'[i] = Append(inbox[i], e) /\ queue'[i] = Tail(queue[i])
  BY <1>1, <1>2 DEF Typing
<1>6. /\ Append(inbox[i], e) \o Tail(queue[i]) = inbox[i] \o queue[i]
      /\ Append(inbox[i], e) \in Seq(Events) /\ Tail(queue[i]) \in Seq(Events)
  BY <1>2, <1>3, HeadMoves
<1>7. /\ Len(inbox[i]) \in Nat /\ DOMAIN inbox[i] = 1..Len(inbox[i])
      /\ Len(Append(inbox[i], e)) = Len(inbox[i]) + 1
      /\ DOMAIN Append(inbox[i], e) = 1..(Len(inbox[i]) + 1)
      /\ \A n \in DOMAIN inbox[i] : Append(inbox[i], e)[n] = inbox[i][n]
      /\ Append(inbox[i], e)[Len(inbox[i]) + 1] = e
  BY <1>3, <1>4, AppendProperties, LenProperties
<1> HIDE DEF e
<1>8. Typing'
  <2>1. inbox' \in [Inspectors -> Seq(Events)] /\ queue' \in [Inspectors -> Seq(Sent)]
    BY <1>1, <1>2, <1>4, <1>6 DEF Typing, e
  <2> QED BY <1>1, <1>2, <2>1 DEF Typing
<1>9. LinkInv(i)'
  <2>1. ASSUME NEW n \in DOMAIN inbox'[i] PROVE inbox'[i][n] # Eof
    <3>1. n \in DOMAIN inbox[i] \/ n = Len(inbox[i]) + 1
      BY <1>5, <1>7
    <3>2. n \in DOMAIN inbox[i] => inbox[i][n] # Eof
      BY <1>1, <1>2 DEF LinkInv
    <3> QED BY <1>4, <1>5, <1>7, <3>1, <3>2
  <2>2. Len(queue'[i]) <= Cap
    BY <1>1, <1>4, <1>5, SyncAssumption DEF LinkInv
  <2>3. connected[i]
    BY <1>1, <1>2 DEF LinkInv
  <2> QED BY <1>1, <1>2, <2>1, <2>2, <2>3 DEF LinkInv, Starting
<1>10. Ahead(i)' = Ahead(i)
  BY <1>2, <1>5, <1>6 DEF Ahead
<1>11. StreamInv(i)'
  <2>1. \A n \in DOMAIN inbox[i] : inbox[i][n] # Eof
    BY <1>1, <1>2 DEF LinkInv
  <2>2. \A n \in DOMAIN inbox'[i] : inbox'[i][n] # Eof
    BY <1>2, <1>9 DEF LinkInv
  <2>3. Unread(i) = BeforeEof(inbox[i]) /\ Unread(i)' = BeforeEof(inbox'[i])
    BY DEF Unread, BeforeEof
  <2>4. Unread(i) = inbox[i] /\ Unread(i)' = Append(inbox[i], e)
    BY <1>3, <1>5, <1>6, <2>1, <2>2, <2>3, NoEnd
  <2>5. applied[i] \o Append(inbox[i], e) \o Tail(queue[i]) = applied[i] \o inbox[i] \o queue[i]
    <3> DEFINE r == applied[i]
    <3> DEFINE s == inbox[i]
    <3> DEFINE t == queue[i]
    <3> DEFINE v == Append(inbox[i], e)
    <3> DEFINE w == Tail(queue[i])
    <3>1. /\ r \in Seq(Events) /\ s \in Seq(Events) /\ t \in Seq(Events)
          /\ v \in Seq(Events) /\ w \in Seq(Events)
      BY <1>3, <1>6
    <3>2. v \o w = s \o t
      BY <1>6
    <3> HIDE DEF r, s, t, v, w
    <3>3. (r \o v) \o w = r \o (v \o w)
      BY ONLY <3>1, ConcatAssociative
    <3>4. (r \o s) \o t = r \o (s \o t)
      BY ONLY <3>1, ConcatAssociative, SMTT(30)
    <3>5. (r \o v) \o w = (r \o s) \o t
      BY <3>2, <3>3, <3>4
    <3> QED BY <3>5 DEF r, s, t, v, w
  <2>6. Received(i)' = Received(i)
    BY <1>2, <1>5, <2>4, <2>5 DEF Received
  <2> QED BY <1>1, <1>2, <2>6 DEF StreamInv, Since
<1>12. ConvergeInv(i)'
  BY <1>1, <1>2, <1>10 DEF ConvergeInv
<1>13. FeedInv(i)'
  BY <1>1, <1>2, <1>10 DEF FeedInv, Coming
<1>14. \A j \in Inspectors \ {i} : inbox'[j] = inbox[j] /\ queue'[j] = queue[j]
  BY <1>1, <1>2 DEF Typing
<1> QED BY <1>2, <1>8, <1>9, <1>11, <1>12, <1>13, <1>14, InspectorStep DEF IInv

LEMMA ConcatWithoutHead ==
    ASSUME NEW S, NEW s \in Seq(S), NEW t \in Seq(S), s # <<>>
    PROVE  s \o t # <<>> /\ Head(s \o t) = Head(s) /\ Tail(s \o t) = Tail(s) \o t
<1> DEFINE r == Tail(s)
<1> DEFINE h == Head(s)
<1>2. /\ Len(r) = Len(s) - 1 /\ Len(s) \in Nat \ {0} /\ Len(t) \in Nat /\ r \in Seq(S)
      /\ \A n \in 1..Len(r) : r[n] = s[n + 1]
      /\ h = s[1]
  BY HeadTailProperties, LenProperties, EmptySeq
<1>3. /\ s \o t \in Seq(S) /\ Len(s \o t) = Len(s) + Len(t)
      /\ \A n \in 1..(Len(s) + Len(t)) :
           (s \o t)[n] = IF n <= Len(s) THEN s[n] ELSE t[n - Len(s)]
  BY ConcatProperties
<1>4. /\ r \o t \in Seq(S) /\ Len(r \o t) = Len(r) + Len(t)
      /\ \A n \in 1..(Len(r) + Len(t)) :
           (r \o t)[n] = IF n <= Len(r) THEN r[n] ELSE t[n - Len(r)]
  BY <1>2, ConcatProperties
<1> DEFINE u == s \o t
<1> DEFINE v == r \o t
<1> HIDE DEF r, h, u, v
<1>5. u \in Seq(S) /\ u # <<>> /\ Len(u) \in Nat \ {0}
  BY <1>2, <1>3, EmptySeq DEF u
<1>6. Head(u) = u[1] /\ Tail(u) \in Seq(S) /\ Len(Tail(u)) = Len(u) - 1
      /\ \A n \in 1..Len(Tail(u)) : Tail(u)[n] = u[n + 1]
  BY <1>5, HeadTailProperties
<1>7. Head(u) = h
  <2>1. 1 \in 1..(Len(s) + Len(t)) /\ 1 <= Len(s)
    BY <1>2
  <2> QED BY <1>2, <1>3, <1>6, <2>1 DEF u
<1>8. Tail(u) = v
  <2>1. v \in Seq(S) /\ Len(v) = Len(Tail(u)) /\ Len(v) \in Nat /\ Len(v) = Len(s) - 1 + Len(t)
    BY <1>2, <1>3, <1>4, <1>6 DEF u, v
  <2>2. ASSUME NEW n \in 1..Len(v) PROVE v[n] = Tail(u)[n]
    <3>1. /\ n \in 1..(Len(r) + Len(t)) /\ n + 1 \in 1..(Len(s) + Len(t))
          /\ n \in 1..Len(Tail(u))
      BY <1>2, <2>1
    <3>2. v[n] = IF n <= Len(r) THEN r[n] ELSE t[n - Len(r)]
      BY <1>4, <3>1 DEF v
    <3>3. Tail(u)[n] = IF n + 1 <= Len(s) THEN s[n + 1] ELSE t[n + 1 - Len(s)]
      BY <1>3, <1>6, <3>1 DEF u
    <3>4. n <= Len(r) <=> n + 1 <= Len(s)
      BY <1>2, <3>1
    <3>5. n - Len(r) = n + 1 - Len(s)
      BY <1>2, <3>1
    <3>6. n <= Len(r) => r[n] = s[n + 1]
      BY <1>2, <3>1
    <3>7. CASE n <= Len(r)
      BY <3>2, <3>3, <3>4, <3>6, <3>7
    <3>8. CASE ~(n <= Len(r))
      <4>1. v[n] = t[n - Len(r)]
        BY <3>2, <3>8
      <4>2. Tail(u)[n] = t[n + 1 - Len(s)]
        BY <3>3, <3>4, <3>8
      <4> QED BY <3>5, <4>1, <4>2
    <3> QED BY <3>7, <3>8
  <2> DEFINE w == Tail(u)
  <2>3. /\ v \in Seq(S) /\ w \in Seq(S) /\ Len(v) = Len(w)
        /\ \A n \in 1..Len(v) : v[n] = w[n]
    BY <1>6, <2>1, <2>2
  <2> HIDE DEF w
  <2>4. v = w
    BY ONLY <2>3, SeqEqual
  <2> QED BY <2>4 DEF w
<1> QED BY <1>5, <1>7, <1>8 DEF u, v, r, h

\* The first event that was written is read.
LEMMA UnreadOn ==
    ASSUME NEW s \in Seq(Events), s # <<>>, Head(s) # Eof
    PROVE  /\ BeforeEof(s) \in Seq(Events) /\ BeforeEof(s) # <<>>
           /\ Head(BeforeEof(s)) = Head(s) /\ Tail(BeforeEof(s)) = BeforeEof(Tail(s))
<1> DEFINE k == Len(s)
<1> DEFINE r == Tail(s)
<1>1. /\ k \in Nat \ {0} /\ Head(s) = s[1] /\ r \in Seq(Events) /\ Len(r) = k - 1
      /\ \A n \in 1..(k - 1) : r[n] = s[n + 1]
  BY HeadTailProperties, LenProperties, EmptySeq
<1>2. r # <<>> <=> k # 1
  BY <1>1, EmptySeq
<1> HIDE DEF k, r
<1>3. CASE s[k] # Eof
  <2>1. BeforeEof(s) = s
    BY <1>3 DEF k, BeforeEof
  <2>2. r # <<>> => r[k - 1] = s[k]
    BY <1>1, <1>2
  <2>3. BeforeEof(r) = r
    BY <1>1, <1>3, <2>2 DEF BeforeEof
  <2> QED BY <2>1, <2>3 DEF r
<1>4. CASE s[k] = Eof
  <2>1. k # 1 /\ k - 1 \in 1..(k - 1) /\ k - 1 \in 1..k /\ k - 1 \in Nat
    BY <1>1, <1>4
  <2>2. r # <<>> /\ r[k - 1] = Eof
    BY <1>1, <1>2, <1>4, <2>1
  <2>3. BeforeEof(s) = SubSeq(s, 1, k - 1)
    BY <1>4 DEF k, BeforeEof
  <2>4. BeforeEof(r) = SubSeq(r, 1, k - 1 - 1)
    BY <1>1, <2>2 DEF BeforeEof
  <2> DEFINE u == SubSeq(s, 1, k - 1)
  <2> DEFINE v == SubSeq(r, 1, k - 1 - 1)
  <2>5. \A n \in 1..k : s[n] \in Events
    BY ElementOfSeq DEF k
  <2>6. u \in Seq(Events) /\ Len(u) = k - 1 /\ \A n \in 1..(k - 1) : u[n] = s[n]
    <3>1. /\ \A n \in 1..(k - 1) : s[n] \in Events
          /\ 1 \in Int /\ k - 1 \in Int /\ (IF 1 <= k - 1 THEN k - 1 - 1 + 1 ELSE 0) = k - 1
          /\ \A n \in 1..(k - 1) : 1 + n - 1 = n
      BY <1>1, <2>1, <2>5
    <3> QED BY <3>1, SubSeqProperties
  <2>7. v \in Seq(Events) /\ Len(v) = k - 2 /\ \A n \in 1..(k - 2) : v[n] = r[n]
    <3>1. /\ \A n \in 1..(k - 1 - 1) : r[n] \in Events
          /\ 1 \in Int /\ k - 1 - 1 \in Int
          /\ (IF 1 <= k - 1 - 1 THEN k - 1 - 1 - 1 + 1 ELSE 0) = k - 2
          /\ \A n \in 1..(k - 2) : 1 + n - 1 = n
          /\ k - 1 - 1 = k - 2
      BY <1>1, <2>1, ElementOfSeq
    <3> QED BY <3>1, SubSeqProperties
  <2> HIDE DEF u, v
  <2>8. /\ u # <<>> /\ Head(u) = u[1] /\ Tail(u) \in Seq(Events) /\ Len(Tail(u)) = k - 2
        /\ \A n \in 1..(k - 2) : Tail(u)[n] = u[n + 1]
    <3>1. u # <<>>
      BY <2>1, <2>6, EmptySeq
    <3>2. Len(u) - 1 = k - 2
      BY <1>1, <2>6
    <3> QED BY <2>6, <3>1, <3>2, HeadTailProperties
  <2>9. Tail(u) = v
    <3>1. ASSUME NEW n \in 1..(k - 2) PROVE Tail(u)[n] = v[n]
      <4>1. n + 1 \in 1..(k - 1) /\ n \in 1..(k - 1)
        BY <1>1
      <4> QED BY <1>1, <2>6, <2>7, <2>8, <4>1
    <3>2. k - 2 \in Nat
      BY <1>1, <2>1
    <3> QED BY <2>7, <2>8, <3>1, <3>2, SeqEqual
  <2>10. u[1] = s[1]
    BY <1>1, <2>1, <2>6
  <2> QED BY <1>1, <2>3, <2>4, <2>6, <2>8, <2>9, <2>10 DEF u, v, r
<1> QED BY <1>3, <1>4

LEMMA ApplyInv ==
    ASSUME InspectorInv, NEW i \in Inspectors, Apply(i)
    PROVE  InspectorInv'
<1>1. Typing /\ LinkInv(i) /\ StreamInv(i) /\ ConvergeInv(i) /\ FeedInv(i)
  BY DEF InspectorInv
<1> DEFINE e == Head(inbox[i])
<1>2. /\ view' = [view EXCEPT ![i] = Reduce(@, e)]
      /\ feed' = [feed EXCEPT ![i] = Enlist(@, e)]
      /\ connected' = [connected EXCEPT ![i] = @ /\ e # Eof]
      /\ applied' = [applied EXCEPT ![i] = IF e = Eof THEN @ ELSE Append(@, e)]
      /\ inbox' = [inbox EXCEPT ![i] = Tail(@)]
      /\ UNCHANGED <<daemonVars, subs, queue, pc, joined, dropped, stale>>
      /\ UNCHANGED <<up, live, opened, alerts, out, log>>
      /\ pc[i] = "run" /\ inbox[i] # <<>>
  BY DEF Apply, Active, daemonVars
<1>3. /\ inbox[i] \in Seq(Events) /\ queue[i] \in Seq(Events) /\ out \in Seq(Events)
      /\ applied[i] \in Seq(Sent) /\ applied[i] \in Seq(Events)
      /\ inbox[i] \o queue[i] \in Seq(Events) /\ Ahead(i) \in Seq(Events)
      /\ view[i] \in Tables /\ feed[i] \in Seq(Nat) /\ alerts \in Seq(Rows)
      /\ connected[i] \in BOOLEAN
  BY <1>1, AheadIsSeq DEF Typing
<1>4. /\ Tail(inbox[i]) \in Seq(Events) /\ Len(Tail(inbox[i])) = Len(inbox[i]) - 1
      /\ \A n \in 1..Len(Tail(inbox[i])) : Tail(inbox[i])[n] = inbox[i][n + 1]
      /\ e \in Events /\ e = inbox[i][1] /\ Len(inbox[i]) \in Nat \ {0}
      /\ DOMAIN inbox[i] = 1..Len(inbox[i])
      /\ DOMAIN Tail(inbox[i]) = 1..(Len(inbox[i]) - 1)
  BY <1>2, <1>3, HeadTailProperties, LenProperties, EmptySeq
<1>5. /\ Ahead(i) # <<>> /\ Head(Ahead(i)) = e
      /\ Tail(Ahead(i)) = (Tail(inbox[i]) \o queue[i]) \o out
  <2> DEFINE s == inbox[i] \o queue[i]
  <2>1. s # <<>> /\ Head(s) = e /\ Tail(s) = Tail(inbox[i]) \o queue[i]
    BY <1>2, <1>3, ConcatWithoutHead, ZenonT(60)
  <2>2. s \in Seq(Events) /\ Ahead(i) = s \o out
    BY <1>3 DEF Ahead
  <2> HIDE DEF s
  <2>3. s \o out # <<>> /\ Head(s \o out) = Head(s) /\ Tail(s \o out) = Tail(s) \o out
    BY <1>3, <2>1, <2>2, ConcatWithoutHead
  <2> QED BY <2>1, <2>2, <2>3
<1> DEFINE now == Reduce(view[i], e)
<1> DEFINE g == Enlist(feed[i], e)
<1>6. now \in Tables /\ (ConvergeInv(i) /\ up /\ ~stale[i] => Leads(Tail(Ahead(i)), now, live))
  <2>1. CASE up /\ ~stale[i]
    <3>1. Leads(Ahead(i), view[i], live)
      BY <1>1, <1>2, <2>1 DEF ConvergeInv
    <3> QED BY <1>3, <1>5, <3>1, LeadsOn
  <2>2. CASE ~(up /\ ~stale[i])
    BY <1>3, <1>4, <2>2, ReduceSays
  <2> QED BY <2>1, <2>2
<1>7. g \in Seq(Nat) /\ Feeds(alerts, Tail(Ahead(i)), g)
  <2>1. Feeds(alerts, Ahead(i), feed[i])
    BY <1>1, <1>2 DEF FeedInv, Coming
  <2> QED BY <1>3, <1>5, <2>1, FeedOn
<1> HIDE DEF e, now, g
<1>8. /\ view'[i] = now /\ feed'[i] = g /\ connected'[i] = (connected[i] /\ e # Eof)
      /\ applied'[i] = IF e = Eof THEN applied[i] ELSE Append(applied[i], e)
      /\ inbox'[i] = Tail(inbox[i])
  BY <1>1, <1>2 DEF Typing, now, g
<1>9. Typing'
  <2>1. view' \in [Inspectors -> Tables] /\ feed' \in [Inspectors -> Seq(Nat)]
    BY <1>1, <1>2, <1>6, <1>7 DEF Typing, now, g
  <2>2. connected' \in [Inspectors -> BOOLEAN]
    <3>1. (connected[i] /\ e # Eof) \in BOOLEAN
      BY <1>3
    <3> QED BY <1>1, <1>2, <3>1 DEF Typing
  <2>3. e # Eof => Append(applied[i], e) \in Seq(Sent)
    BY <1>3, <1>4, AppendProperties DEF Sent
  <2>4. applied' \in [Inspectors -> Seq(Sent)]
    BY <1>1, <1>2, <1>3, <2>3 DEF Typing
  <2>5. inbox' \in [Inspectors -> Seq(Events)]
    BY <1>1, <1>2, <1>4 DEF Typing
  <2> QED BY <1>1, <1>2, <2>1, <2>2, <2>4, <2>5 DEF Typing
<1>10. e = Eof => ~up /\ Len(inbox[i]) = 1 /\ Tail(inbox[i]) = <<>>
  <2> SUFFICES ASSUME e = Eof PROVE ~up /\ Len(inbox[i]) = 1 /\ Tail(inbox[i]) = <<>>
    OBVIOUS
  <2>1. 1 \in DOMAIN inbox[i] /\ inbox[i][1] = Eof
    BY <1>4
  <2>2. ~up /\ Len(inbox[i]) = 1
    BY <1>1, <2>1 DEF LinkInv
  <2>3. Len(Tail(inbox[i])) = 0
    BY <1>4, <2>2
  <2> QED BY <1>4, <2>2, <2>3, EmptySeq
<1>11. LinkInv(i)'
  <2>1. ~connected'[i] => ~up /\ Tail(inbox[i]) = <<>>
    BY <1>1, <1>2, <1>8, <1>10 DEF LinkInv
  <2>2. ASSUME NEW n \in DOMAIN Tail(inbox[i]), Tail(inbox[i])[n] = Eof
        PROVE  ~up /\ n = Len(Tail(inbox[i]))
    <3>1. n + 1 \in DOMAIN inbox[i] /\ inbox[i][n + 1] = Eof /\ n \in Nat
      BY <1>4, <2>2
    <3>2. ~up /\ n + 1 = Len(inbox[i])
      BY <1>1, <3>1 DEF LinkInv
    <3> QED BY <1>4, <3>1, <3>2
  <2> QED BY <1>1, <1>2, <1>8, <2>1, <2>2 DEF LinkInv, Starting
<1>12. Received(i)' = Received(i)
  <2>1. Unread(i) = BeforeEof(inbox[i]) /\ Unread(i)' = BeforeEof(inbox'[i])
    BY DEF Unread, BeforeEof
  <2>2. CASE e = Eof
    <3>1. BeforeEof(inbox[i]) = SubSeq(inbox[i], 1, 0)
      BY <1>2, <1>4, <1>10, <2>2 DEF BeforeEof
    <3>2. BeforeEof(inbox[i]) = <<>> /\ BeforeEof(<<>>) = <<>>
      BY <3>1, SubSeqEmpty DEF BeforeEof
    <3> QED BY <1>2, <1>8, <1>10, <2>1, <2>2, <3>2 DEF Received
  <2>3. CASE e # Eof
    <3> DEFINE u == BeforeEof(inbox[i])
    <3>1. /\ u \in Seq(Events) /\ u # <<>> /\ Head(u) = e
          /\ Tail(u) = BeforeEof(Tail(inbox[i]))
      BY <1>2, <1>3, <2>3, UnreadOn DEF e
    <3> HIDE DEF u
    <3>2. Append(applied[i], Head(u)) \o Tail(u) = applied[i] \o u
      BY <1>3, <3>1, HeadMoves
    <3>3. Received(i)' = (Append(applied[i], e) \o Tail(u)) \o queue[i]
      BY <1>2, <1>8, <2>1, <2>3, <3>1 DEF Received
    <3>4. Received(i) = (applied[i] \o u) \o queue[i]
      BY <2>1 DEF Received, u
    <3> QED BY <3>1, <3>2, <3>3, <3>4
  <2> QED BY <2>2, <2>3
<1>13. StreamInv(i)'
  BY <1>1, <1>2, <1>12 DEF StreamInv, Since
<1>14. Ahead(i)' = Tail(Ahead(i))
  BY <1>2, <1>5, <1>8 DEF Ahead
<1>15. ConvergeInv(i)'
  BY <1>1, <1>2, <1>6, <1>8, <1>14 DEF ConvergeInv
<1>16. FeedInv(i)'
  BY <1>2, <1>7, <1>8, <1>14 DEF FeedInv, Coming
<1>17. \A j \in Inspectors \ {i} :
          /\ view'[j] = view[j] /\ feed'[j] = feed[j] /\ connected'[j] = connected[j]
          /\ applied'[j] = applied[j] /\ inbox'[j] = inbox[j]
  BY <1>1, <1>2 DEF Typing
<1> QED BY <1>2, <1>9, <1>11, <1>13, <1>15, <1>16, <1>17, InspectorStep DEF IInv

-----------------------------------------------------------------------------
(***************************************************************************)
(* The bus, and the end of the daemon.                                     *)
(***************************************************************************)

LEMMA SinceFarther ==
    ASSUME NEW s \in Seq(Events), NEW e \in Events, NEW m \in Nat, m <= Len(s)
    PROVE  /\ SubSeq(s, m + 1, Len(s)) \in Seq(Events)
           /\ SubSeq(Append(s, e), m + 1, Len(Append(s, e))) = Append(SubSeq(s, m + 1, Len(s)), e)
<1> DEFINE k == Len(s)
<1> DEFINE t == Append(s, e)
<1>1. /\ k \in Nat /\ \A n \in 1..k : s[n] \in Events
      /\ t \in Seq(Events) /\ Len(t) = k + 1 /\ t[k + 1] = e
      /\ \A n \in 1..k : t[n] = s[n]
  BY AppendProperties, LenProperties, ElementOfSeq
<1> HIDE DEF k, t
<1>2. k - m \in Nat /\ m + 1 \in Int /\ k \in Int /\ k + 1 \in Int /\ m <= k
  BY <1>1 DEF k
<1> DEFINE u == SubSeq(s, m + 1, k)
<1> DEFINE v == SubSeq(t, m + 1, k + 1)
<1>3. u \in Seq(Events) /\ Len(u) = k - m /\ \A n \in 1..(k - m) : u[n] = s[m + n]
  <2>1. /\ \A n \in (m + 1)..k : s[n] \in Events
        /\ (IF m + 1 <= k THEN k - (m + 1) + 1 ELSE 0) = k - m
        /\ k - (m + 1) + 1 = k - m
        /\ \A n \in 1..(k - m) : m + 1 + n - 1 = m + n
    BY <1>1, <1>2
  <2> QED BY <1>2, <2>1, SubSeqProperties
<1>4. v \in Seq(Events) /\ Len(v) = k - m + 1 /\ \A n \in 1..(k - m + 1) : v[n] = t[m + n]
  <2>1. \A n \in 1..(k + 1) : t[n] \in Events
    BY <1>1, ElementOfSeq
  <2>2. /\ \A n \in (m + 1)..(k + 1) : t[n] \in Events
        /\ (IF m + 1 <= k + 1 THEN k + 1 - (m + 1) + 1 ELSE 0) = k - m + 1
        /\ k + 1 - (m + 1) + 1 = k - m + 1
        /\ \A n \in 1..(k - m + 1) : m + 1 + n - 1 = m + n
    BY <1>1, <1>2, <2>1
  <2> QED BY <1>2, <2>2, SubSeqProperties
<1> HIDE DEF u, v
<1> DEFINE w == Append(u, e)
<1>5. /\ w \in Seq(Events) /\ Len(w) = k - m + 1 /\ w[k - m + 1] = e
      /\ \A n \in 1..(k - m) : w[n] = u[n]
  BY <1>3, AppendProperties
<1> HIDE DEF w
<1>6. ASSUME NEW n \in 1..(k - m + 1) PROVE v[n] = w[n]
  <2>1. CASE n = k - m + 1
    <3>1. m + n = k + 1
      BY <1>2, <2>1
    <3> QED BY <1>1, <1>4, <1>5, <2>1, <3>1
  <2>2. CASE n # k - m + 1
    <3>1. n \in 1..(k - m) /\ m + n \in 1..k
      BY <1>2, <2>2
    <3> QED BY <1>1, <1>3, <1>4, <1>5, <3>1
  <2> QED BY <2>1, <2>2
<1>7. v = w
  BY <1>4, <1>5, <1>6, SeqEqual
<1> QED BY <1>1, <1>3, <1>7 DEF u, v, w, k, t

\* All an inspector received is what it applied, has to read, and is queued.
LEMMA ReceivedIsSeq ==
    ASSUME Typing, NEW i \in Inspectors
    PROVE  /\ Unread(i) \in Seq(Events)
           /\ applied[i] \o Unread(i) \in Seq(Events)
           /\ Received(i) \in Seq(Events) /\ queue[i] \in Seq(Events)
<1>1. inbox[i] \in Seq(Events) /\ queue[i] \in Seq(Events) /\ applied[i] \in Seq(Events)
  BY AheadIsSeq
<1>2. Unread(i) \in Seq(Events)
  <2>1. CASE inbox[i] = <<>>
    BY <1>1, <2>1 DEF Unread
  <2>2. CASE inbox[i] # <<>>
    <3>1. /\ Len(inbox[i]) \in Nat /\ 1 \in Int /\ Len(inbox[i]) - 1 \in Int
          /\ \A n \in 1..(Len(inbox[i]) - 1) : inbox[i][n] \in Events
      BY <1>1, LenProperties, ElementOfSeq
    <3>2. SubSeq(inbox[i], 1, Len(inbox[i]) - 1) \in Seq(Events)
      BY <3>1, SubSeqProperties
    <3> QED BY <1>1, <3>2 DEF Unread
  <2> QED BY <2>1, <2>2
<1>3. applied[i] \o Unread(i) \in Seq(Events)
  BY <1>1, <1>2, ConcatProperties
<1>4. Received(i) \in Seq(Events)
  BY <1>1, <1>3, ConcatProperties DEF Received
<1> QED BY <1>1, <1>2, <1>3, <1>4

LEMMA BroadcastInv == InspectorInv /\ Broadcast => InspectorInv'
<1> SUFFICES ASSUME InspectorInv, Broadcast PROVE InspectorInv'
  OBVIOUS
<1> DEFINE e == Head(out)
<1> DEFINE full == {i \in subs : Listening(i) /\ Len(queue[i]) >= Cap}
<1>1. Typing /\ InOrder(alerts) /\ OutInv /\ \A i \in Inspectors : LinkInv(i) /\ StreamInv(i) /\ ConvergeInv(i) /\ FeedInv(i)
  BY DEF InspectorInv
<1>2. /\ up /\ out # <<>> /\ out' = Tail(out) /\ log' = Append(log, e)
      /\ queue' = [i \in Inspectors |-> IF i \in subs /\ Listening(i)
                                        THEN Push(queue[i], e) ELSE queue[i]]
      /\ dropped' = [i \in Inspectors |-> dropped[i] \/ i \in full]
      /\ stale' = [i \in Inspectors |-> stale[i] \/ i \in full
                                        \/ pc[i] \in {"alerts", "subscribe"}]
      /\ subs' = {i \in subs : Listening(i)}
      /\ UNCHANGED <<up, live, opened, alerts, inbox, pc, view, feed, connected,
                     applied, joined>>
  BY DEF Broadcast
<1>3. /\ out \in Seq(Sent) /\ out \in Seq(Events) /\ e \in Sent /\ e \in Events
      /\ Tail(out) \in Seq(Sent) /\ Tail(out) \in Seq(Events) /\ Len(Tail(out)) <= MaxAlerts
      /\ DOMAIN Tail(out) \subseteq Nat
      /\ \A n \in DOMAIN Tail(out) : n + 1 \in DOMAIN out /\ Tail(out)[n] = out[n + 1]
      /\ log \in Seq(Sent) /\ log \in Seq(Events) /\ Len(log) \in Nat
  <2>1. out \in Seq(Sent) /\ Len(out) <= MaxAlerts /\ log \in Seq(Sent)
    BY <1>1 DEF Typing
  <2>2. /\ e \in Sent /\ Len(out) \in Nat \ {0} /\ DOMAIN out = 1..Len(out)
        /\ Tail(out) \in Seq(Sent) /\ Len(Tail(out)) = Len(out) - 1
        /\ DOMAIN Tail(out) = 1..(Len(out) - 1)
        /\ \A n \in 1..(Len(out) - 1) : Tail(out)[n] = out[n + 1]
    BY <1>2, <2>1, HeadTailProperties, LenProperties, EmptySeq
  <2>3. /\ DOMAIN Tail(out) \subseteq Nat /\ Len(Tail(out)) <= MaxAlerts
        /\ \A n \in DOMAIN Tail(out) : n + 1 \in DOMAIN out /\ Tail(out)[n] = out[n + 1]
    BY <2>1, <2>2, SyncAssumption
  <2>4. /\ log \in Seq(Events) /\ Len(log) \in Nat
        /\ out \in Seq(Events) /\ Tail(out) \in Seq(Events)
    BY <2>1, <2>2, SeqMonotonic, LenProperties DEF Sent
  <2> QED BY <2>1, <2>2, <2>3, <2>4 DEF Sent
<1> HIDE DEF e, full
<1>4. Append(log, e) \in Seq(Sent) /\ Len(Append(log, e)) = Len(log) + 1
  BY <1>3, AppendProperties
<1>5. \A i \in Inspectors :
        /\ queue[i] \in Seq(Sent) /\ queue[i] \in Seq(Events)
        /\ inbox[i] \in Seq(Events) /\ Len(queue[i]) \in Nat
        /\ Append(queue[i], e) \in Seq(Sent) /\ Len(Append(queue[i], e)) = Len(queue[i]) + 1
        /\ joined[i] \in Nat
  BY <1>1, <1>3, AheadIsSeq, AppendProperties DEF Typing
<1>6. Typing'
  <2>1. queue' \in [Inspectors -> Seq(Sent)]
    BY <1>2, <1>5 DEF Push
  <2>2. dropped' \in [Inspectors -> BOOLEAN] /\ stale' \in [Inspectors -> BOOLEAN]
    BY <1>2
  <2>3. out' \in Seq(Sent) /\ Len(out') <= MaxAlerts
    BY <1>2, <1>3
  <2>4. log' \in Seq(Sent) /\ subs' \subseteq Inspectors
    BY <1>1, <1>2, <1>4 DEF Typing
  <2> QED BY <1>1, <1>2, <2>1, <2>2, <2>3, <2>4 DEF Typing
<1>7. InOrder(alerts)' /\ OutInv' /\ DaemonInv'
  <2>1. ASSUME NEW n \in DOMAIN out'
        PROVE  /\ \A id \in Nat : About(out'[n], id) => Says(out'[n], live, id)
               /\ IsAlert(out'[n]) =>
                    /\ out'[n].id \in DOMAIN alerts
                    /\ Obs(out'[n].id) = Obs(Len(alerts))
                    /\ \A m \in DOMAIN out' :
                         m > n /\ IsAlert(out'[m]) => out'[n].id < out'[m].id
    <3>1. n \in Nat /\ n + 1 \in DOMAIN out /\ out'[n] = out[n + 1]
      BY <1>2, <1>3, <2>1
    <3>2. \A m \in DOMAIN out' : m > n =>
            m + 1 \in DOMAIN out /\ out'[m] = out[m + 1] /\ m + 1 > n + 1
      BY <1>2, <1>3, <3>1
    <3>3. /\ \A id \in Nat : About(out[n + 1], id) => Says(out[n + 1], live, id)
          /\ IsAlert(out[n + 1]) =>
               /\ out[n + 1].id \in DOMAIN alerts
               /\ Obs(out[n + 1].id) = Obs(Len(alerts))
               /\ \A m \in DOMAIN out :
                    m > n + 1 /\ IsAlert(out[m]) => out[n + 1].id < out[m].id
      BY <1>1, <3>1 DEF OutInv
    <3> QED BY <3>1, <3>2, <3>3
  <2>2. OutInv'
    BY <1>2, <2>1 DEF OutInv, Obs
  <2> QED BY <1>1, <1>2, <2>2 DEF InOrder, DaemonInv
<1>8. ASSUME NEW i \in Inspectors
      PROVE  IInv(i)'
  <2>1. /\ queue'[i] = IF i \in subs /\ Listening(i) THEN Push(queue[i], e) ELSE queue[i]
        /\ dropped'[i] = (dropped[i] \/ i \in full)
        /\ stale'[i] = (stale[i] \/ i \in full \/ pc[i] \in {"alerts", "subscribe"})
        /\ i \in subs' <=> i \in subs /\ Listening(i)
    BY <1>2
  <2>2. pc[i] = "run" => i \in subs /\ Listening(i)
    BY <1>1, <1>2 DEF LinkInv, Listening
  <2>3. i \in full <=> i \in subs /\ Listening(i) /\ Len(queue[i]) >= Cap
    BY DEF full
  <2>0. i \in subs /\ Listening(i) =>
          /\ Len(queue[i]) < Cap => queue'[i] = Append(queue[i], e) /\ i \notin full
          /\ ~(Len(queue[i]) < Cap) => queue'[i] = queue[i] /\ i \in full
    BY <1>5, <2>1, <2>3, SyncAssumption DEF Push
  <2>4. /\ Cap \in Nat /\ Len(queue[i]) \in Nat
        /\ queue'[i] = Append(queue[i], e) \/ queue'[i] = queue[i]
        /\ queue'[i] = Append(queue[i], e) => Len(queue[i]) < Cap \/ Append(queue[i], e) = queue[i]
    BY <1>5, <2>1, SyncAssumption DEF Push
  <2>5. Append(queue[i], e) # queue[i]
    BY <1>5
  <2>6. LinkInv(i)'
    <3>1. Len(queue'[i]) <= Cap
      BY <1>1, <1>5, <2>4, <2>5 DEF LinkInv
    <3>2. Starting(i)' => queue'[i] = <<>> /\ inbox'[i] = <<>> /\ applied'[i] = <<>>
                           /\ i \notin subs' /\ connected'[i]
      BY <1>1, <1>2, <2>1 DEF LinkInv, Starting
    <3>3. pc'[i] = "conns" => ~stale'[i]
      BY <1>1, <1>2, <2>1, <2>3 DEF LinkInv, Starting
    <3>4. joined'[i] <= Len(log')
      BY <1>1, <1>2, <1>3, <1>4, <1>5 DEF LinkInv
    <3> QED BY <1>1, <1>2, <2>1, <2>2, <3>1, <3>2, <3>3, <3>4 DEF LinkInv
  <2>7. StreamInv(i)'
    <3> SUFFICES ASSUME pc[i] = "run"
                 PROVE  /\ ~dropped'[i] => Received(i)' = Since(i)'
                        /\ IsSubsequence(Received(i)', Since(i)')
      BY <1>2 DEF StreamInv
    <3>1. Since(i)' = Append(Since(i), e) /\ Since(i) \in Seq(Events)
      <4>1. joined[i] \in Nat /\ joined[i] <= Len(log)
        BY <1>1, <1>5 DEF LinkInv
      <4>2. Since(i)' = SubSeq(Append(log, e), joined[i] + 1, Len(Append(log, e)))
        BY <1>2 DEF Since
      <4> QED BY <1>3, <4>1, <4>2, SinceFarther DEF Since
    <3>2. /\ Received(i) \in Seq(Events) /\ applied[i] \o Unread(i) \in Seq(Events)
          /\ queue[i] \in Seq(Events)
      BY <1>1, ReceivedIsSeq
    <3>3. /\ ~dropped[i] => Received(i) = Since(i)
          /\ IsSubsequence(Received(i), Since(i))
      BY <1>1, <1>2 DEF StreamInv
    <3>4. Received(i)' = (applied[i] \o Unread(i)) \o queue'[i]
      BY <1>2 DEF Received, Unread
    <3>5. CASE Len(queue[i]) < Cap
      <4>1. queue'[i] = Append(queue[i], e)
        BY <2>0, <2>2, <3>5
      <4> DEFINE s == applied[i] \o Unread(i)
      <4> DEFINE t == queue[i]
      <4>2. s \in Seq(Events) /\ t \in Seq(Events)
        BY <3>2
      <4> HIDE DEF s, t
      <4>3. s \o Append(t, e) = Append(s \o t, e)
        BY ONLY <1>3, <4>2, AppendMoves
      <4>5. Received(i)' = Append(Received(i), e)
        BY <3>4, <4>1, <4>3 DEF Received, s, t
      <4>4. IsSubsequence(Append(Received(i), e), Append(Since(i), e))
        BY <1>3, <3>1, <3>2, <3>3, SubsequenceWithNext
      <4> QED BY <2>0, <2>1, <2>2, <3>1, <3>3, <3>5, <4>4, <4>5
    <3>6. CASE ~(Len(queue[i]) < Cap)
      <4>1. queue'[i] = queue[i] /\ dropped'[i]
        BY <2>0, <2>1, <2>2, <3>6
      <4>2. Received(i)' = Received(i)
        BY <3>4, <4>1 DEF Received
      <4>3. IsSubsequence(Received(i), Append(Since(i), e))
        BY <1>3, <3>1, <3>2, <3>3, SubsequenceOfLonger
      <4> QED BY <3>1, <4>1, <4>2, <4>3
    <3> QED BY <3>5, <3>6
  <2> DEFINE s == inbox[i] \o queue[i]
  <2>8. s \in Seq(Events) /\ Ahead(i) = s \o out
    BY <1>1, AheadIsSeq DEF Ahead
  <2>9. Ahead(i)' = IF queue'[i] = queue[i] THEN s \o Tail(out) ELSE Ahead(i)
    <3>1. Ahead(i)' = (inbox[i] \o queue'[i]) \o Tail(out)
      BY <1>2 DEF Ahead
    <3>2. inbox[i] \o Append(queue[i], e) = Append(s, e)
      <4> DEFINE r == inbox[i]
      <4> DEFINE t == queue[i]
      <4>1. r \in Seq(Events) /\ t \in Seq(Events)
        BY <1>5
      <4> HIDE DEF r, t
      <4>2. r \o Append(t, e) = Append(r \o t, e)
        BY ONLY <1>3, <4>1, AppendMoves
      <4> QED BY <4>2 DEF r, t
    <3> HIDE DEF s
    <3>3. Append(s, e) \o Tail(out) = s \o out
      BY <1>2, <1>3, <2>8, HeadMoves DEF e
    <3>4. CASE queue'[i] = queue[i]
      BY <3>1, <3>4 DEF s
    <3>5. CASE queue'[i] # queue[i]
      <4>1. queue'[i] = Append(queue[i], e)
        BY <2>4, <3>5
      <4> QED BY <2>8, <3>1, <3>2, <3>3, <3>5, <4>1
    <3> QED BY <3>4, <3>5
  <2> HIDE DEF s
  <2>10. ConvergeInv(i)'
    <3> SUFFICES ASSUME ~stale'[i], pc[i] \in {"alerts", "subscribe", "run"}
                 PROVE  Leads(Ahead(i)', view[i], live)
      BY <1>2 DEF ConvergeInv
    <3>1. ~stale[i] /\ pc[i] = "run" /\ i \notin full
      BY <2>1
    <3>2. queue'[i] # queue[i]
      BY <2>0, <2>2, <2>5, <3>1
    <3> QED BY <1>1, <1>2, <2>9, <3>1, <3>2 DEF ConvergeInv
  <2>11. FeedInv(i)'
    <3>1. CASE pc[i] \in {"gone", "unheard"}
      BY <1>1, <1>2, <3>1 DEF FeedInv, Coming
    <3>2. CASE pc[i] \notin {"gone", "unheard"}
      <4>1. Feeds(alerts, Ahead(i), feed[i])
        BY <1>1, <3>2 DEF FeedInv, Coming
      <4>2. IsSubsequence(s \o Tail(out), Ahead(i)) /\ DOMAIN (s \o Tail(out)) \subseteq Nat
        <5>1. IsSubsequence(s \o Tail(out), s \o out)
          BY <1>2, <1>3, <2>8, SubsequenceWithoutOne
        <5>2. s \o Tail(out) \in Seq(Events)
          BY <1>3, <2>8, ConcatProperties
        <5>3. DOMAIN (s \o Tail(out)) \subseteq Nat
          BY <5>2, LenProperties
        <5> QED BY <2>8, <5>1, <5>3
      <4>3. Feeds(alerts, s \o Tail(out), feed[i])
        BY <4>1, <4>2, FeedsFewer
      <4> QED BY <1>2, <2>9, <3>2, <4>1, <4>3 DEF FeedInv, Coming
    <3> QED BY <3>1, <3>2
  <2> QED BY <2>6, <2>7, <2>10, <2>11 DEF IInv
<1> QED BY <1>6, <1>7, <1>8 DEF InspectorInv, IInv

LEMMA BeforeAppendedEof ==
    ASSUME NEW s \in Seq(Events)
    PROVE  BeforeEof(Append(s, Eof)) = s
<1> DEFINE k == Len(s)
<1> DEFINE t == Append(s, Eof)
<1>1. Eof \in Events
  BY DEF Eof, Events
<1>2. /\ k \in Nat /\ t \in Seq(Events) /\ Len(t) = k + 1 /\ t[k + 1] = Eof
      /\ \A n \in 1..k : t[n] = s[n] /\ s[n] \in Events
  BY <1>1, AppendProperties, LenProperties, ElementOfSeq
<1> HIDE DEF t
<1> DEFINE u == SubSeq(t, 1, k)
<1>3. u = BeforeEof(t)
  <2>1. t # <<>> /\ Len(t) - 1 = k
    BY <1>2, EmptySeq
  <2> QED BY <1>2, <2>1 DEF BeforeEof
<1>4. u \in Seq(Events) /\ Len(u) = k /\ \A n \in 1..k : u[n] = t[n]
  <2>1. /\ \A n \in 1..k : t[n] \in Events
        /\ 1 \in Int /\ k \in Int
        /\ (IF 1 <= k THEN k - 1 + 1 ELSE 0) = k /\ k - 1 + 1 = k
        /\ \A n \in 1..k : 1 + n - 1 = n
    BY <1>2
  <2> QED BY <2>1, SubSeqProperties
<1> HIDE DEF u
<1>5. u = s
  <2>1. /\ u \in Seq(Events) /\ Len(u) = Len(s) /\ \A n \in 1..Len(u) : u[n] = s[n]
    BY <1>2, <1>4
  <2> QED BY <2>1, SeqEqual
<1> QED BY <1>3, <1>5 DEF t

LEMMA DaemonExitsInv == InspectorInv /\ DaemonExits => InspectorInv'
<1> SUFFICES ASSUME InspectorInv, DaemonExits PROVE InspectorInv'
  OBVIOUS
<1>1. Typing /\ InOrder(alerts) /\ \A i \in Inspectors : LinkInv(i) /\ StreamInv(i) /\ ConvergeInv(i) /\ FeedInv(i)
  BY DEF InspectorInv
<1>2. /\ up /\ ~up' /\ up' \in BOOLEAN /\ out' = <<>> /\ subs' = {}
      /\ queue' = [i \in Inspectors |-> <<>>]
      /\ inbox' = [i \in Inspectors |-> IF pc[i] = "run" THEN Append(inbox[i], Eof)
                                        ELSE inbox[i]]
      /\ UNCHANGED <<live, opened, alerts, log, inspectorVars>>
      /\ UNCHANGED <<pc, view, feed, connected, applied, joined, dropped, stale>>
  BY DEF DaemonExits, inspectorVars
<1>3. Eof \in Events
  BY DEF Eof, Events
<1>4. \A i \in Inspectors : inbox[i] \in Seq(Events) /\ Append(inbox[i], Eof) \in Seq(Events)
  BY <1>1, <1>3, AppendProperties DEF Typing
<1>5. Typing'
  <2>1. queue' \in [Inspectors -> Seq(Sent)] /\ out' \in Seq(Sent) /\ Len(out') <= MaxAlerts
    BY <1>2, EmptySeq, SyncAssumption
  <2>2. inbox' \in [Inspectors -> Seq(Events)]
    BY <1>2, <1>4
  <2> QED BY <1>1, <1>2, <2>1, <2>2 DEF Typing
<1>6. InOrder(alerts)' /\ OutInv' /\ DaemonInv'
  BY <1>1, <1>2 DEF InOrder, OutInv, DaemonInv
<1>7. ASSUME NEW i \in Inspectors
      PROVE  IInv(i)'
  <2>1. /\ queue'[i] = <<>>
        /\ inbox'[i] = IF pc[i] = "run" THEN Append(inbox[i], Eof) ELSE inbox[i]
    BY <1>2
  <2>2. /\ inbox[i] \in Seq(Events) /\ queue[i] \in Seq(Events) /\ out \in Seq(Events)
        /\ inbox[i] \o queue[i] \in Seq(Events)
    BY <1>1, AheadIsSeq
  <2>3. \A n \in DOMAIN inbox[i] : inbox[i][n] # Eof
    BY <1>1, <1>2 DEF LinkInv
  <2>4. LinkInv(i)'
    <3>1. ASSUME NEW n \in DOMAIN inbox'[i], inbox'[i][n] = Eof
          PROVE  n = Len(inbox'[i])
      <4>1. pc[i] = "run" /\ inbox'[i] = Append(inbox[i], Eof)
        BY <2>1, <2>3, <3>1
      <4>2. /\ DOMAIN inbox[i] = 1..Len(inbox[i]) /\ Len(inbox[i]) \in Nat
            /\ Len(inbox'[i]) = Len(inbox[i]) + 1
            /\ DOMAIN inbox'[i] = 1..(Len(inbox[i]) + 1)
            /\ \A m \in 1..Len(inbox[i]) : inbox'[i][m] = inbox[i][m]
        BY <1>3, <2>2, <4>1, AppendProperties, LenProperties
      <4> QED BY <2>3, <3>1, <4>2
    <3>2. Len(<<>>) <= Cap
      BY SyncAssumption
    <3> QED BY <1>1, <1>2, <2>1, <3>1, <3>2 DEF LinkInv, Starting
  <2>5. StreamInv(i)'
    <3> SUFFICES ASSUME pc[i] = "run" PROVE IsSubsequence(Received(i)', Since(i)')
      BY <1>2 DEF StreamInv
    <3>1. /\ applied[i] \o Unread(i) \in Seq(Events) /\ queue[i] \in Seq(Events)
      BY <1>1, ReceivedIsSeq
    <3>2. Unread(i) = BeforeEof(inbox[i]) /\ Unread(i)' = BeforeEof(inbox'[i])
      BY DEF Unread, BeforeEof
    <3>3. Unread(i)' = Unread(i)
      BY <2>1, <2>2, <2>3, <3>2, NoEnd, BeforeAppendedEof
    <3> DEFINE s == applied[i] \o Unread(i)
    <3> DEFINE t == queue[i]
    <3> DEFINE w == Since(i)
    <3>4. s \in Seq(Events) /\ t \in Seq(Events)
      BY <3>1
    <3>5. w \in Seq(Events) /\ w = Since(i)'
      <4>1. /\ log \in Seq(Events) /\ joined[i] \in Nat /\ joined[i] <= Len(log)
        BY <1>1, AheadIsSeq DEF Typing, LinkInv
      <4>2. SubSeq(log, joined[i] + 1, Len(log)) \in Seq(Events)
        BY <1>3, <4>1, SinceFarther
      <4> QED BY <1>2, <4>2 DEF Since
    <3>6. IsSubsequence(s \o t, w)
      BY <1>1 DEF StreamInv, Received
    <3>7. Received(i)' = s \o <<>>
      BY <1>2, <2>1, <3>3 DEF Received
    <3> HIDE DEF s, t, w
    <3>8. Received(i)' = s
      BY <3>4, <3>7, ConcatEmptySeq
    <3>9. IsSubsequence(s, w)
      BY <3>4, <3>5, <3>6, SubsequenceOfFirst
    <3> QED BY <3>5, <3>8, <3>9
  <2>6. ConvergeInv(i)'
    BY <1>2 DEF ConvergeInv
  <2>7. FeedInv(i)'
    <3>1. CASE pc[i] \in {"gone", "unheard"}
      BY <1>1, <1>2, <3>1 DEF FeedInv, Coming, inspectorVars
    <3>2. CASE pc[i] \notin {"gone", "unheard"}
      <4>1. Feeds(alerts, Ahead(i), feed[i])
        BY <1>1, <3>2 DEF FeedInv, Coming
      <4>2. Feeds(alerts, inbox[i] \o queue[i], feed[i])
        <5> DEFINE r == inbox[i] \o queue[i]
        <5>1. DOMAIN r \subseteq Nat
          <6>1. r \in Seq(Events)
            BY <2>2
          <6> HIDE DEF r
          <6> QED BY <6>1, LenProperties
        <5>2. IsSubsequence(inbox[i] \o queue[i], Ahead(i))
          BY <2>2, PrefixIsSubsequence DEF Ahead
        <5> QED BY <4>1, <5>1, <5>2, FeedsFewer
      <4>3. Feeds(alerts, inbox[i], feed[i])
        <5>1. DOMAIN inbox[i] \subseteq Nat
          BY <2>2, LenProperties
        <5>2. IsSubsequence(inbox[i], inbox[i] \o queue[i])
          BY <2>2, PrefixIsSubsequence
        <5> QED BY <4>2, <5>1, <5>2, FeedsFewer
      <4>4. Feeds(alerts, Append(inbox[i], Eof), feed[i])
        <5>1. ~IsAlert(Eof) /\ feed[i] \in Seq(Nat) /\ alerts \in Seq(Rows)
          BY <1>1 DEF Typing, Eof, IsAlert
        <5> QED BY <1>1, <1>3, <2>2, <4>3, <5>1, FeedsBeside
      <4>5. Ahead(i)' = inbox'[i]
        <5>1. inbox'[i] \in Seq(Events)
          BY <1>4, <2>1
        <5>2. inbox'[i] \o <<>> = inbox'[i]
          BY <5>1, ConcatEmptySeq
        <5>3. Ahead(i)' = (inbox'[i] \o <<>>) \o <<>>
          BY <1>2, <2>1 DEF Ahead
        <5> QED BY <5>2, <5>3
      <4>6. Feeds(alerts, inbox'[i], feed[i])
        BY <2>1, <4>3, <4>4
      <4> QED BY <1>2, <3>2, <4>5, <4>6 DEF FeedInv, Coming
    <3> QED BY <3>1, <3>2
  <2> QED BY <2>4, <2>5, <2>6, <2>7 DEF IInv
<1> QED BY <1>5, <1>6, <1>7 DEF InspectorInv, IInv

-----------------------------------------------------------------------------
(***************************************************************************)
(* The invariant holds.                                                    *)
(***************************************************************************)

LEMMA InspectorInit == Init => InspectorInv
<1> SUFFICES ASSUME Init PROVE InspectorInv
  OBVIOUS
<1> DEFINE none == [k \in {} |-> 0]
<1>1. none \in Tables /\ DOMAIN none = {}
  <2>1. none \in [{} -> Nat]
    OBVIOUS
  <2> QED BY <2>1 DEF Tables
<1>2. /\ Cap \in Nat /\ FeedCap \in Nat /\ MaxIds \in Nat /\ MaxAlerts \in Nat
      /\ Suspended \subseteq Inspectors
  BY SyncAssumption
<1>3. Typing
  <2>1. pc \in [Inspectors -> States]
    BY DEF Init, States
  <2>2. view \in [Inspectors -> Tables] /\ live \in Tables /\ DOMAIN live = {}
    BY <1>1 DEF Init
  <2> QED BY <1>2, <2>1, <2>2, EmptySeq DEF Init, Typing
<1>4. InOrder(alerts) /\ OutInv /\ DaemonInv
  BY DEF Init, InOrder, OutInv, DaemonInv
<1>5. ASSUME NEW i \in Inspectors
      PROVE  LinkInv(i) /\ StreamInv(i) /\ ConvergeInv(i) /\ FeedInv(i)
  <2>1. /\ queue[i] = <<>> /\ inbox[i] = <<>> /\ applied[i] = <<>> /\ feed[i] = <<>>
        /\ connected[i] /\ ~stale[i] /\ ~dropped[i] /\ joined[i] = 0 /\ view[i] = none
        /\ out = <<>> /\ log = <<>> /\ live = none /\ up
        /\ pc[i] = IF i \in Suspended THEN "run" ELSE "conns"
        /\ subs = Suspended
    BY DEF Init
  <2>2. LinkInv(i)
    BY <1>2, <2>1 DEF LinkInv, Starting
  <2>3. StreamInv(i)
    <3>1. Received(i) = <<>>
      BY <2>1 DEF Received, Unread
    <3>2. Since(i) = <<>>
      BY <2>1, SubSeqEmpty DEF Since
    <3> QED BY <3>1, <3>2, NothingIsSubsequence DEF StreamInv
  <2>4. Ahead(i) = <<>>
    BY <2>1 DEF Ahead
  <2>5. ConvergeInv(i)
    BY <2>1, <2>4 DEF ConvergeInv, Leads
  <2>6. FeedInv(i)
    <3>1. Ordered(alerts, 0, <<>>) /\ Continues(alerts, <<>>, 0, <<>>)
      BY DEF Ordered, Continues
    <3>2. Feeds(alerts, <<>>, <<>>)
      BY <1>2, <3>1 DEF Feeds
    <3> QED BY <2>1, <2>4, <3>2 DEF FeedInv, Coming
  <2> QED BY <2>2, <2>3, <2>5, <2>6
<1> QED BY <1>3, <1>4, <1>5 DEF InspectorInv

LEMMA InspectorNext == InspectorInv /\ [Next]_vars => InspectorInv'
<1> SUFFICES ASSUME InspectorInv, [Next]_vars PROVE InspectorInv'
  OBVIOUS
<1>1. CASE Worker
  <2>1. CASE \E k \in DOMAIN live : UpdateConn(k) \/ CloseConn(k)
    BY <2>1, UpdateConnInv, CloseConnInv
  <2> QED BY <1>1, <2>1, OpenConnInv, RaiseAlertsInv, HeartbeatInv DEF Worker
<1>2. CASE Broadcast
  BY <1>2, BroadcastInv
<1>3. ASSUME NEW i \in Inspectors,
             Inspector(i) \/ Forward(i) \/ Apply(i) \/ HandlerEnds(i)
      PROVE  InspectorInv'
  BY <1>3, QueryConnsInv, QueryAlertsInv, SubscribeInv, SubscribeFailsInv, StartFailsInv,
     RefreshInv, QuitInv, ForwardInv, ApplyInv, HandlerEndsInv DEF Inspector
<1>4. CASE DaemonExits
  BY <1>4, DaemonExitsInv
<1>5. CASE UNCHANGED vars
  <2>1. UNCHANGED <<up, live, opened, alerts, out, log, subs, queue, inbox>>
        /\ UNCHANGED <<pc, view, feed, connected, applied, joined, dropped, stale>>
    BY <1>5 DEF vars, daemonVars, inspectorVars
  <2>2. Typing' /\ InOrder(alerts)' /\ OutInv' /\ DaemonInv'
    BY <2>1 DEF InspectorInv, Typing, InOrder, OutInv, DaemonInv, Obs
  <2>3. \A i \in Inspectors : IInv(i)'
    BY <2>1, OthersKept DEF InspectorInv, IInv
  <2> QED BY <2>2, <2>3 DEF InspectorInv, IInv
<1> QED BY <1>1, <1>2, <1>3, <1>4, <1>5 DEF Next

\* InspectorInv is an invariant: what the table, the bus, the queues and the
\* sockets hold between the worker and an inspector (src/ipc/server.rs,
\* src/inspector/state.rs).
THEOREM InspectorInvHolds == Spec => []InspectorInv
BY InspectorInit, InspectorNext, PTL DEF Spec

\* Every inspector that keeps running has the events since it subscribed, in
\* order, all of them if its queue never was full (handle_conn, Bus).
THEOREM StreamIsExact == Spec => []StreamExact
<1>1. InspectorInv => StreamExact
  BY DEF InspectorInv, StreamInv, StreamExact
<1> QED BY <1>1, InspectorInvHolds, PTL

\* An inspector that lacks no event and has none to apply shows the live table
\* (run_inspector, InspectorApp::apply, Ui::refresh).
THEOREM ViewsConverge == Spec => []ViewConverges
<1>1. InspectorInv => ViewConverges
  <2> SUFFICES ASSUME InspectorInv, NEW i \in Inspectors, up, pc[i] = "run", ~stale[i],
                      ~InFlight(i)
               PROVE  view[i] = live
    BY DEF ViewConverges
  <2>1. Ahead(i) = <<>>
    BY DEF InFlight, Ahead
  <2>2. Leads(<<>>, view[i], live)
    BY <2>1 DEF InspectorInv, ConvergeInv
  <2>3. PICK D \in SUBSET Nat, E \in SUBSET Nat : view[i] \in [D -> Nat] /\ live \in [E -> Nat]
    BY DEF InspectorInv, Typing, Tables
  <2>4. \A id \in Nat : (id \in D <=> id \in E) /\ (id \in D => view[i][id] = live[id])
    BY <2>2, <2>3 DEF Leads
  <2>5. D = E
    BY <2>4
  <2>6. /\ view[i] = [id \in D |-> view[i][id]] /\ live = [id \in D |-> live[id]]
        /\ \A id \in D : view[i][id] = live[id]
    BY <2>3, <2>4, <2>5
  <2> QED BY <2>6, Zenon
<1> QED BY <1>1, InspectorInvHolds, PTL

\* Queues and feeds stay within their bounds; in a feed nothing stands above an
\* alert of a later observation unless the store sorts it so, no alert is there
\* three times, and those that are there twice are of one observation; and only
\* an inspector that has applied all it was sent by a daemon that has ended says
\* it is disconnected (set_disconnected).
THEOREM InspectorsSound == Spec => []SyncInv
<1>1. InspectorInv => SyncTypeOK
  <2> SUFFICES ASSUME InspectorInv PROVE SyncTypeOK
    OBVIOUS
  <2>1. log \in Seq(Events) /\ out \in Seq(Events)
    <3>1. log \in Seq(Sent) /\ out \in Seq(Sent)
      BY DEF InspectorInv, Typing
    <3> QED BY <3>1, SeqMonotonic DEF Sent
  <2>2. ASSUME NEW i \in Inspectors
        PROVE  /\ queue[i] \in Seq(Events) /\ Len(queue[i]) <= Cap
               /\ inbox[i] \in Seq(Events)
               /\ pc[i] \in States
               /\ feed[i] \in Seq(DOMAIN alerts) /\ Len(feed[i]) <= FeedCap
               /\ connected[i] \in BOOLEAN /\ dropped[i] \in BOOLEAN /\ stale[i] \in BOOLEAN
    <3>1. queue[i] \in Seq(Events) /\ inbox[i] \in Seq(Events)
      BY AheadIsSeq DEF InspectorInv
    <3>2. feed[i] \in Seq(DOMAIN alerts)
      <4>1. feed[i] \in Seq(Nat) /\ \A n \in DOMAIN feed[i] : feed[i][n] \in DOMAIN alerts
        BY DEF InspectorInv, Typing, FeedInv, Feeds, Ordered
      <4>2. feed[i] \in [1..Len(feed[i]) -> Nat] /\ Len(feed[i]) \in Nat
        BY <4>1, LenProperties
      <4>3. feed[i] \in [1..Len(feed[i]) -> DOMAIN alerts]
        BY <4>1, <4>2
      <4> QED BY <4>2, <4>3, SeqDef
    <3> QED BY <3>1, <3>2 DEF InspectorInv, Typing, LinkInv, FeedInv, Feeds
  <2> QED BY <2>1, <2>2 DEF InspectorInv, Typing, SyncTypeOK, Rows
<1>2. InspectorInv => FeedNewestFirst
  <2> SUFFICES ASSUME InspectorInv, NEW i \in Inspectors
               PROVE  LET f == feed[i]
                      IN  /\ \A m, n \in DOMAIN f :
                               m < n => Obs(f[m]) >= Obs(f[n]) \/ Time(f[m]) >= Time(f[n])
                          /\ \A l, m, n \in DOMAIN f :
                               l < m /\ m < n => ~(f[l] = f[m] /\ f[m] = f[n])
                          /\ \A a, b \in Repeated(f) : Obs(a) = Obs(b)
    BY DEF FeedNewestFirst
  <2> DEFINE f == feed[i]
  <2>1. PICK s \in Nat : Ordered(alerts, s, f)
    BY DEF InspectorInv, FeedInv, Feeds
  <2>2. /\ f \in Seq(Nat) /\ DOMAIN f = 1..Len(f) /\ Len(f) \in Nat
        /\ \A n \in DOMAIN f : f[n] \in DOMAIN alerts /\ f[n] \in Nat
    BY <2>1, LenProperties, ElementOfSeq DEF InspectorInv, Typing, Ordered
  <2>3. \A a \in DOMAIN alerts : Obs(a) \in Nat
    <3>1. \A a \in DOMAIN alerts : alerts[a] \in Rows
      BY LenProperties, ElementOfSeq DEF InspectorInv, Typing
    <3> QED BY <3>1 DEF Rows, Obs
  <2> HIDE DEF f
  <2>4. ASSUME NEW m \in DOMAIN f, NEW n \in DOMAIN f, m < n
        PROVE  /\ n <= s => f[m] > f[n]
               /\ m <= s /\ s < n => Obs(f[m]) >= Obs(f[n])
               /\ s < m => f[m] # f[n] /\ Time(f[m]) >= Time(f[n])
    BY <2>1, <2>4 DEF Ordered, Obs, Time
  <2>5. ASSUME NEW m \in DOMAIN f, NEW n \in DOMAIN f, m < n
        PROVE  Obs(f[m]) >= Obs(f[n]) \/ Time(f[m]) >= Time(f[n])
    <3>1. n <= s \/ (m <= s /\ s < n) \/ s < m
      BY <2>2
    <3>2. CASE n <= s
      <4>1. f[n] <= f[m]
        BY <2>2, <2>4, <2>5, <3>2
      <4> QED BY <2>2, <2>3, <4>1 DEF InspectorInv, InOrder, Obs
    <3> QED BY <2>4, <2>5, <3>1, <3>2
\* Of two places of one alert the first is streamed and the second queried.
  <2>6. ASSUME NEW m \in DOMAIN f, NEW n \in DOMAIN f, m < n, f[m] = f[n]
        PROVE  m <= s /\ s < n
    <3>1. n <= s \/ (m <= s /\ s < n) \/ s < m
      BY <2>2
    <3>2. ~(n <= s)
      BY <2>2, <2>4, <2>6
    <3>3. ~(s < m)
      BY <2>4, <2>6
    <3> QED BY <3>1, <3>2, <3>3
  <2>7. ASSUME NEW l \in DOMAIN f, NEW m \in DOMAIN f, NEW n \in DOMAIN f, l < m, m < n
        PROVE  ~(f[l] = f[m] /\ f[m] = f[n])
    <3> SUFFICES ASSUME f[l] = f[m], f[m] = f[n] PROVE FALSE
      OBVIOUS
    <3>1. s < m /\ m <= s
      BY <2>6, <2>7
    <3> QED BY <2>2, <3>1
  <2>8. ASSUME NEW a \in Repeated(f)
        PROVE  \E m, n \in DOMAIN f : m < n /\ f[m] = a /\ f[n] = a
    <3>1. PICK n \in DOMAIN f : a = f[n] /\ \E m \in 1..(n - 1) : f[m] = f[n]
      BY <2>8 DEF Repeated
    <3>2. PICK m \in 1..(n - 1) : f[m] = f[n]
      BY <3>1
    <3>3. m \in DOMAIN f /\ m < n
      BY <2>2, <3>1, <3>2
    <3> QED BY <3>1, <3>2, <3>3
  <2>9. ASSUME NEW a \in Repeated(f), NEW b \in Repeated(f)
        PROVE  Obs(a) >= Obs(b) /\ Obs(a) \in Nat
    <3>1. PICK m \in DOMAIN f, n \in DOMAIN f : m < n /\ f[m] = a /\ f[n] = a
      BY <2>8
    <3>2. PICK k \in DOMAIN f, l \in DOMAIN f : k < l /\ f[k] = b /\ f[l] = b
      BY <2>8
    <3>3. m <= s /\ s < l
      BY <2>6, <3>1, <3>2
    <3>4. m < l
      BY <2>2, <3>3
    <3>5. Obs(f[m]) >= Obs(f[l])
      BY <2>4, <3>3, <3>4
    <3> QED BY <2>2, <2>3, <3>1, <3>2, <3>5
  <2>10. \A a, b \in Repeated(f) : Obs(a) = Obs(b)
    <3> SUFFICES ASSUME NEW a \in Repeated(f), NEW b \in Repeated(f) PROVE Obs(a) = Obs(b)
      OBVIOUS
    <3>1. Obs(a) >= Obs(b) /\ Obs(b) >= Obs(a) /\ Obs(a) \in Nat /\ Obs(b) \in Nat
      BY <2>9
    <3> QED BY <3>1
  <2> QED BY <2>5, <2>7, <2>10 DEF f
<1>3. InspectorInv => DisconnectTold
  BY DEF InspectorInv, LinkInv, DisconnectTold
<1> QED BY <1>1, <1>2, <1>3, InspectorInvHolds, PTL DEF SyncInv
=============================================================================
