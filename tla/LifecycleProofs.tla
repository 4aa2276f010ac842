-------------------------- MODULE LifecycleProofs --------------------------
(***************************************************************************)
(* LifecycleInv holds for any number of daemons on one state directory and *)
(* any of the faults: it is inductive as it stands.  What carries it is    *)
(* that whoever touches the socket path of another daemon has met it       *)
(* (MeetingsKnown), and that a daemon that ends without unlinking had not  *)
(* bound yet (BoundByWorkers).                                             *)
(*                                                                         *)
(* And the mutexes of a daemon, for any number of handler threads.         *)
(***************************************************************************)
EXTENDS Lifecycle, Locks, TLAPS

\* No daemon is up: the path is free and nobody has met.
LEMMA InitLifecycle == Init => LifecycleInv
  BY LifecycleAssumption
  DEF Init, LifecycleInv, LifecycleTypeOK, TakesOver, NoStaleFile,
      BoundByWorkers, MeetingsKnown, Up, Listening

\* What the steps of run_monitor's thread do: the path changes hands between
\* daemons that have met, or that do not run.
LEMMA MainStep ==
    ASSUME LifecycleInv, NEW d \in Daemons,
           \/ Start(d) \/ StartFails(d) \/ RemovePath(d) \/ Bind(d)
           \/ WorkerLeaves(d) \/ JoinCapture(d) \/ JoinServer(d) \/ Unlink(d)
    PROVE  LifecycleInv'
  <1> USE LifecycleAssumption
      DEF LifecycleInv, LifecycleTypeOK, TakesOver, NoStaleFile,
          BoundByWorkers, MeetingsKnown, Up, Listening, Ends
  <1>1. CASE Start(d)
    BY <1>1 DEF Start
  <1>2. CASE StartFails(d)
    BY <1>2 DEF StartFails
  <1>3. CASE RemovePath(d)
    BY <1>3 DEF RemovePath
  <1>4. CASE Bind(d)
    <2>1. CASE path # NoDaemon
      BY <1>4, <2>1 DEF Bind
    <2>2. CASE path = NoDaemon
      BY <1>4, <2>2 DEF Bind
    <2> QED BY <2>1, <2>2
  <1>5. CASE WorkerLeaves(d)
    BY <1>5 DEF WorkerLeaves
  <1>6. CASE JoinCapture(d)
    BY <1>6 DEF JoinCapture
  <1>7. CASE JoinServer(d)
    BY <1>7 DEF JoinServer
  <1>8. CASE Unlink(d)
    BY <1>8 DEF Unlink
  <1> QED BY <1>1, <1>2, <1>3, <1>4, <1>5, <1>6, <1>7, <1>8

\* What the other threads, a signal and a crash do: none of them moves the
\* path, and a killed daemon is remembered.
LEMMA ThreadStep ==
    ASSUME LifecycleInv, NEW d \in Daemons,
           \/ CaptureEnds(d) \/ Accept(d) \/ ServerEnds(d) \/ AcceptFails(d)
           \/ Signal(d) \/ RelaySignal(d) \/ Crash(d)
    PROVE  LifecycleInv'
  <1> USE LifecycleAssumption
      DEF LifecycleInv, LifecycleTypeOK, TakesOver, NoStaleFile,
          BoundByWorkers, MeetingsKnown, Up, Listening, Ends
  <1>1. CASE CaptureEnds(d)
    BY <1>1 DEF CaptureEnds
  <1>2. CASE Accept(d)
    BY <1>2 DEF Accept
  <1>3. CASE ServerEnds(d)
    BY <1>3 DEF ServerEnds
  <1>4. CASE AcceptFails(d)
    BY <1>4 DEF AcceptFails
  <1>5. CASE Signal(d)
    BY <1>5 DEF Signal
  <1>6. CASE RelaySignal(d)
    BY <1>6 DEF RelaySignal
  <1>7. CASE Crash(d)
    BY <1>7 DEF Crash
  <1> QED BY <1>1, <1>2, <1>3, <1>4, <1>5, <1>6, <1>7

\* Whatever failed, whoever was killed and however many daemons share the state
\* directory: a daemon that is alone finds the path free and owns it, and a
\* stale socket file means a crash.
THEOREM LifecycleIsSound == Spec => []LifecycleInv
  <1>1. LifecycleInv /\ [Next]_vars => LifecycleInv'
    <2> SUFFICES ASSUME LifecycleInv, [Next]_vars PROVE LifecycleInv'
      OBVIOUS
    <2>1. CASE \E d \in Daemons : Threads(d) \/ Environment(d)
      BY <2>1, MainStep, ThreadStep DEF Threads, Environment
    <2>2. CASE StopCommand
      BY <2>2, LifecycleAssumption
      DEF StopCommand, LifecycleInv, LifecycleTypeOK, TakesOver, NoStaleFile,
          BoundByWorkers, MeetingsKnown, Up, Listening
    <2>3. CASE UNCHANGED vars
      BY <2>3
      DEF vars, LifecycleInv, LifecycleTypeOK, TakesOver, NoStaleFile,
          BoundByWorkers, MeetingsKnown, Up, Listening
    <2> QED BY <2>1, <2>2, <2>3 DEF Next
  <1> QED BY <1>1, InitLifecycle, PTL DEF Spec

-----------------------------------------------------------------------------
(***************************************************************************)
(* Locks.  The worker has pairs of a lock and its unlock before it, so it  *)
(* holds one mutex at most; a handler is at one of the places in one of    *)
(* its passes.  Either way what is still to come says what is held.        *)
(***************************************************************************)
\* What a thread may have before it, with the mutexes it holds there.
WorkerHas(s, held) ==
    /\ s \in Seq({Lock(m) : m \in Mutexes} \cup {Unlock(m) : m \in Mutexes})
    /\ \A i \in DOMAIN s :
          IF s[i].act = "lock" THEN i + 1 \in DOMAIN s /\ s[i + 1] = Unlock(s[i].mutex)
          ELSE i + 1 \in DOMAIN s => s[i + 1].act = "lock"
    /\ held = IF s # <<>> /\ Head(s).act = "unlock" THEN {Head(s).mutex} ELSE {}

HandlerHas(s, held) ==
    \/ s \in Answers \cup {<<>>} /\ held = {}
    \/ s \in {<<Unlock("store")>>, <<Lock("live"), Unlock("live"), Unlock("store")>>} /\ held = {"store"}
    \/ s = <<Unlock("live"), Unlock("store")>> /\ held = {"store", "live"}
    \/ s = <<Unlock("subs")>> /\ held = {"subs"}

Holds(t) == {m \in Mutexes : owner[m] = t}

LocksInv ==
    /\ DOMAIN todo = Contenders
    /\ owner \in [Mutexes -> Contenders \cup {NoThread}]
    /\ WorkerHas(todo["worker"], Holds("worker"))
    /\ \A h \in Handlers : HandlerHas(todo[h], Holds(h))

Act(s) == Head(s).act
At(s) == Head(s).mutex

LEMMA LocksAndUnlocks ==
    \A m, n \in Mutexes :
        /\ Lock(m).act = "lock" /\ Lock(m).mutex = m
        /\ Unlock(m).act = "unlock" /\ Unlock(m).mutex = m
        /\ Lock(m) # Unlock(n)
BY DEF Lock, Unlock

\* The passes of a handler, spelled out.
LEMMA AnswersAre ==
    Answers = {<<Lock("store"), Lock("live"), Unlock("live"), Unlock("store")>>,
               <<Lock("store"), Unlock("store")>>, <<Lock("subs"), Unlock("subs")>>}
BY DEF Answers, Briefly

\* The next step of a handler: it locks what it does not hold, and it unlocks
\* what it holds.
LEMMA HandlerSteps ==
    ASSUME NEW s, NEW held, HandlerHas(s, held), s # <<>>
    PROVE  /\ At(s) \in Mutexes
           /\ Act(s) = "lock" => /\ At(s) \notin held /\ HandlerHas(Tail(s), held \cup {At(s)})
                                 /\ held = {} \/ (held = {"store"} /\ At(s) = "live")
           /\ Act(s) # "lock" => At(s) \in held /\ HandlerHas(Tail(s), held \ {At(s)})
<1> USE DEF Act, At, Mutexes
<1>1. CASE s = <<Lock("store"), Lock("live"), Unlock("live"), Unlock("store")>> /\ held = {}
  <2>1. s = <<Lock("store"), Lock("live"), Unlock("live"), Unlock("store")>> /\ held = {}
    BY <1>1
  <2>2. Head(s) = Lock("store") /\ Tail(s) = <<Lock("live"), Unlock("live"), Unlock("store")>>
    <3>1. \A a, b, c, d : Head(<<a, b, c, d>>) = a /\ Tail(<<a, b, c, d>>) = <<b, c, d>>
      OBVIOUS
    <3> QED BY <2>1, <3>1
  <2>3. HandlerHas(Tail(s), {"store"})
    BY <2>2, AnswersAre DEF HandlerHas
  <2>4. Act(s) = "lock" /\ At(s) = "store" /\ held = {} /\ held \cup {"store"} = {"store"}
    BY <2>1, <2>2, LocksAndUnlocks
  <2> HIDE DEF Act, At
  <2> QED BY <2>3, <2>4
<1>2. CASE s = <<Lock("store"), Unlock("store")>> /\ held = {}
  BY <1>2, AnswersAre, LocksAndUnlocks DEF HandlerHas
<1>3. CASE s = <<Lock("subs"), Unlock("subs")>> /\ held = {}
  BY <1>3, AnswersAre, LocksAndUnlocks DEF HandlerHas
<1>4. CASE s = <<Unlock("store")>> /\ held = {"store"}
  BY <1>4, AnswersAre, LocksAndUnlocks DEF HandlerHas
<1>5. CASE s = <<Lock("live"), Unlock("live"), Unlock("store")>> /\ held = {"store"}
  BY <1>5, AnswersAre, LocksAndUnlocks DEF HandlerHas
<1>6. CASE s = <<Unlock("live"), Unlock("store")>> /\ held = {"store", "live"}
  BY <1>6, AnswersAre, LocksAndUnlocks DEF HandlerHas
<1>7. CASE s = <<Unlock("subs")>> /\ held = {"subs"}
  BY <1>7, AnswersAre, LocksAndUnlocks DEF HandlerHas
<1> QED BY <1>1, <1>2, <1>3, <1>4, <1>5, <1>6, <1>7, AnswersAre DEF HandlerHas

LEMMA WorkerSteps ==
    ASSUME NEW s, NEW held, WorkerHas(s, held), s # <<>>
    PROVE  /\ At(s) \in Mutexes
           /\ Act(s) = "lock" => held = {} /\ WorkerHas(Tail(s), {At(s)})
           /\ Act(s) # "lock" => held = {At(s)} /\ WorkerHas(Tail(s), {})
<1> DEFINE Steps == {Lock(m) : m \in Mutexes} \cup {Unlock(m) : m \in Mutexes}
           n == Len(s)
           r == Tail(s)
<1>1. s \in Seq(Steps) /\ n \in Nat /\ n > 0 /\ DOMAIN s = 1..n
  BY DEF WorkerHas
<1>2. Head(s) = s[1] /\ s[1] \in Steps /\ r \in Seq(Steps) /\ DOMAIN r = 1..(n - 1)
      /\ \A i \in 1..(n - 1) : r[i] = s[i + 1] /\ i + 1 \in 1..n
  BY <1>1
<1>3. \A x \in Steps : x.mutex \in Mutexes /\ (x.act = "lock" \/ x.act = "unlock")
                       /\ (x.act = "unlock" => x = Unlock(x.mutex))
  BY LocksAndUnlocks DEF Lock, Unlock
<1>4. \A i \in 1..n :
          IF s[i].act = "lock" THEN i + 1 \in 1..n /\ s[i + 1] = Unlock(s[i].mutex)
          ELSE i + 1 \in 1..n => s[i + 1].act = "lock"
  BY <1>1 DEF WorkerHas
<1>5. \A i \in 1..(n - 1) :
          IF r[i].act = "lock" THEN i + 1 \in 1..(n - 1) /\ r[i + 1] = Unlock(r[i].mutex)
          ELSE i + 1 \in 1..(n - 1) => r[i + 1].act = "lock"
  <2> TAKE i \in 1..(n - 1)
  <2>1. i + 1 \in 1..n /\ r[i] = s[i + 1]
    BY <1>2
  <2>2. ((i + 1) + 1 \in 1..n) <=> (i + 1 \in 1..(n - 1))
    BY <1>1
  <2>3. i + 1 \in 1..(n - 1) => r[i + 1] = s[(i + 1) + 1]
    BY <1>2
  <2> QED BY <1>4, <2>1, <2>2, <2>3
<1>6. r # <<>> => n # 1
  <2>1. n = 1 => Len(r) = 0
    BY <1>1
  <2> QED BY <1>2, <2>1
<1>7. held = IF Act(s) = "unlock" THEN {At(s)} ELSE {}
  BY DEF WorkerHas, Act, At
<1> HIDE DEF Steps, r
<1>8. CASE Act(s) = "lock"
  <2>1. 1 \in 1..n /\ 1 + 1 \in 1..n /\ s[2] = Unlock(At(s))
    BY <1>1, <1>2, <1>4, <1>8 DEF Act, At
  <2>2. n > 1 /\ r # <<>> /\ Head(r) = Unlock(At(s)) /\ At(s) \in Mutexes
    <3>1. 1 \in 1..(n - 1) /\ r[1] = s[2]
      BY <1>1, <1>2, <2>1
    <3>2. r # <<>> /\ Head(r) = r[1]
      BY <1>2, <3>1
    <3> QED BY <1>1, <1>2, <1>3, <2>1, <3>1, <3>2 DEF At
  <2>3. Head(r).act = "unlock" /\ Head(r).mutex = At(s)
    BY <2>2, LocksAndUnlocks
  <2>4. WorkerHas(r, {At(s)})
    BY <1>2, <1>5, <2>2, <2>3 DEF WorkerHas, Steps
  <2> QED BY <1>7, <1>8, <2>2, <2>4 DEF r
<1>9. CASE Act(s) # "lock"
  <2>1. Act(s) = "unlock" /\ At(s) \in Mutexes
    BY <1>2, <1>3, <1>9 DEF Act, At
  <2>2. r # <<>> => Head(r).act = "lock"
    <3> SUFFICES ASSUME r # <<>> PROVE Head(r).act = "lock"
      OBVIOUS
    <3>1. 1 \in 1..n /\ 1 + 1 \in 1..n /\ 1 \in 1..(n - 1) /\ r[1] = s[1 + 1]
      BY <1>1, <1>2, <1>6
    <3>2. Head(r) = r[1]
      BY <1>2, <3>1
    <3> QED BY <1>2, <1>4, <1>9, <3>1, <3>2 DEF Act
  <2>3. WorkerHas(r, {})
    BY <1>2, <1>5, <2>2 DEF WorkerHas, Steps
  <2> QED BY <1>7, <2>1, <2>3 DEF r
<1> QED BY <1>8, <1>9

\* Passes one behind the other.
LEMMA WorkerJoins ==
    ASSUME NEW s, NEW t, WorkerHas(s, {}), WorkerHas(t, {})
    PROVE  WorkerHas(s \o t, {})
<1> DEFINE Steps == {Lock(m) : m \in Mutexes} \cup {Unlock(m) : m \in Mutexes}
           n == Len(s)
           k == Len(t)
           u == s \o t
<1>1. s \in Seq(Steps) /\ t \in Seq(Steps) /\ n \in Nat /\ k \in Nat
      /\ DOMAIN s = 1..n /\ DOMAIN t = 1..k
  BY DEF WorkerHas
<1>2. u \in Seq(Steps) /\ Len(u) = n + k /\ DOMAIN u = 1..(n + k)
      /\ (\A i \in 1..n : u[i] = s[i]) /\ (\A i \in 1..k : u[n + i] = t[i])
  BY <1>1
<1>3. /\ \A i \in 1..n :
            IF s[i].act = "lock" THEN i + 1 \in 1..n /\ s[i + 1] = Unlock(s[i].mutex)
            ELSE i + 1 \in 1..n => s[i + 1].act = "lock"
      /\ \A i \in 1..k :
            IF t[i].act = "lock" THEN i + 1 \in 1..k /\ t[i + 1] = Unlock(t[i].mutex)
            ELSE i + 1 \in 1..k => t[i + 1].act = "lock"
  BY <1>1 DEF WorkerHas
<1>h. \A q : WorkerHas(q, {}) /\ q # <<>> => Head(q).act # "unlock"
  BY DEF WorkerHas
<1>l. \A x \in Steps : x.act = "lock" \/ x.act = "unlock"
  BY LocksAndUnlocks
<1> HIDE DEF Steps, u
<1>4. k # 0 => t[1].act = "lock"
  <2> SUFFICES ASSUME k # 0 PROVE t[1].act = "lock"
    OBVIOUS
  <2>1. t # <<>> /\ Head(t) = t[1] /\ t[1] \in Steps
    BY <1>1
  <2> QED BY <1>h, <1>l, <2>1
<1>5. ASSUME NEW i \in 1..(n + k)
      PROVE  IF u[i].act = "lock" THEN i + 1 \in 1..(n + k) /\ u[i + 1] = Unlock(u[i].mutex)
             ELSE i + 1 \in 1..(n + k) => u[i + 1].act = "lock"
  <2>1. CASE i \in 1..n /\ i + 1 \in 1..n
    <3>1. i + 1 \in 1..(n + k)
      BY <1>1, <2>1
    <3> QED BY <1>2, <1>3, <2>1, <3>1
  <2>2. CASE i = n
    <3>1. u[i] = s[i] /\ s[i].act # "lock" /\ i \in 1..n
      BY <1>1, <1>2, <1>3, <2>2
    <3>2. i + 1 \in 1..(n + k) => k # 0 /\ u[i + 1] = t[1]
      BY <1>1, <1>2, <2>2
    <3> QED BY <1>4, <3>1, <3>2
  <2>3. CASE i > n
    <3>1. i - n \in 1..k /\ u[i] = t[i - n]
      <4>1. i - n \in 1..k /\ n + (i - n) = i
        BY <1>1, <2>3
      <4> QED BY <1>2, <4>1
    <3>2. (i + 1 \in 1..(n + k)) <=> ((i - n) + 1 \in 1..k)
      BY <1>1, <2>3
    <3>3. (i - n) + 1 \in 1..k => u[i + 1] = t[(i - n) + 1]
      <4>1. n + ((i - n) + 1) = i + 1
        BY <1>1
      <4> QED BY <1>2, <4>1
    <3> QED BY <1>3, <3>1, <3>2, <3>3
  <2>4. (i \in 1..n /\ i + 1 \in 1..n) \/ i = n \/ i > n
    <3>1. n \in Nat /\ i \in Nat /\ i > 0
      BY <1>1
    <3> HIDE DEF n, k
    <3> QED BY <3>1
  <2> HIDE DEF n, k
  <2> QED BY <2>1, <2>2, <2>3, <2>4
<1>6. u # <<>> => Head(u).act # "unlock"
  <2> SUFFICES ASSUME u # <<>> PROVE Head(u).act # "unlock"
    OBVIOUS
  <2>1. Head(u) = u[1] /\ n + k # 0
    BY <1>1, <1>2
  <2>2. CASE n = 0
    BY <1>1, <1>2, <1>4, <2>1, <2>2
  <2>3. CASE n # 0
    <3>1. s # <<>> /\ Head(s) = s[1] /\ u[1] = s[1]
      BY <1>1, <1>2, <2>3
    <3> QED BY <1>h, <2>1, <3>1
  <2> QED BY <2>2, <2>3
<1> QED BY <1>2, <1>5, <1>6 DEF WorkerHas, Steps, u

LEMMA BrieflyHas ==
    ASSUME NEW m \in Mutexes
    PROVE  WorkerHas(Briefly(m), {})
<1>1. Briefly(m) = <<Lock(m), Unlock(m)>>
  BY DEF Briefly
<1>2. Lock(m).act = "lock" /\ Lock(m).mutex = m /\ Unlock(m).act = "unlock"
  BY LocksAndUnlocks
<1> QED BY <1>1, <1>2 DEF WorkerHas

LEMMA WorkIs ==
    ASSUME NEW s \in HandleUpdates \cup {PersistClosed, Briefly("subs")}
    PROVE  WorkerHas(s, {})
<1>1. WorkerHas(Briefly("subs"), {}) /\ WorkerHas(Briefly("live"), {}) /\ WorkerHas(Briefly("store"), {})
  BY BrieflyHas DEF Mutexes
<1>2. WorkerHas(<<>>, {})
  BY DEF WorkerHas
<1>3. WorkerHas(PersistClosed, {})
  <2>1. WorkerHas(Briefly("live") \o Briefly("subs"), {})
    BY <1>1, WorkerJoins
  <2> QED BY <1>1, <2>1, WorkerJoins DEF PersistClosed
<1>4. ASSUME NEW a \in {<<>>, Briefly("subs")}
      PROVE  WorkerHas(Briefly("store") \o a \o Briefly("live") \o Briefly("subs"), {})
  <2>1. WorkerHas(Briefly("store") \o a, {})
    BY <1>1, <1>2, <1>4, WorkerJoins
  <2>2. WorkerHas((Briefly("store") \o a) \o Briefly("live"), {})
    BY <1>1, <2>1, WorkerJoins
  <2> QED BY <1>1, <2>2, WorkerJoins
<1> QED BY <1>1, <1>3, <1>4 DEF HandleUpdates

-----------------------------------------------------------------------------
LEMMA LocksInitInv == LocksInit => LocksInv
<1> SUFFICES ASSUME LocksInit PROVE LocksInv
  OBVIOUS
<1>1. \A t \in Contenders : todo[t] = <<>> /\ Holds(t) = {}
  BY LocksAssumption DEF LocksInit, Holds, Contenders
<1>2. WorkerHas(<<>>, {}) /\ HandlerHas(<<>>, {})
  BY DEF WorkerHas, HandlerHas
<1> QED BY <1>1, <1>2 DEF LocksInit, LocksInv, Contenders

\* A thread's step changes what it has before it and what it holds, and nobody
\* else's.
LEMMA OneThread ==
    ASSUME LocksInv, NEW t \in Contenders, NEW s, NEW held,
           IF t = "worker" THEN WorkerHas(s, held) ELSE HandlerHas(s, held),
           todo' = [todo EXCEPT ![t] = s],
           owner' \in [Mutexes -> Contenders \cup {NoThread}],
           Holds(t)' = held,
           \A u \in Contenders \ {t} : Holds(u)' = Holds(u)
    PROVE  LocksInv'
<1>1. todo'[t] = s /\ \A u \in Contenders \ {t} : todo'[u] = todo[u]
  BY DEF LocksInv
<1>2. WorkerHas(todo["worker"], Holds("worker"))'
  <2>1. "worker" \in Contenders
    BY DEF Contenders
  <2>2. CASE t = "worker"
    BY <1>1, <2>2
  <2>3. CASE t # "worker"
    BY <1>1, <2>1, <2>3 DEF LocksInv
  <2> QED BY <2>2, <2>3
<1>3. ASSUME NEW h \in Handlers PROVE HandlerHas(todo[h], Holds(h))'
  <2>1. h \in Contenders /\ h # "worker"
    BY LocksAssumption DEF Contenders
  <2>2. CASE t = h
    BY <1>1, <2>1, <2>2
  <2>3. CASE t # h
    BY <1>1, <2>1, <2>3 DEF LocksInv
  <2> QED BY <2>2, <2>3
<1>4. DOMAIN todo' = Contenders
  BY DEF LocksInv
<1> QED BY <1>2, <1>3, <1>4 DEF LocksInv

LEMMA WorkerRoundInv == LocksInv /\ WorkerRound => LocksInv'
<1> SUFFICES ASSUME LocksInv, WorkerRound PROVE LocksInv'
  OBVIOUS
<1>1. PICK s \in HandleUpdates \cup {PersistClosed, Briefly("subs")} :
         todo' = [todo EXCEPT !["worker"] = s]
  BY DEF WorkerRound
<1>2. WorkerHas(s, {})
  BY WorkIs
<1>3. owner' = owner /\ todo["worker"] = <<>> /\ "worker" \in Contenders
  BY DEF WorkerRound, Contenders
<1>4. Holds("worker") = {} /\ \A t : Holds(t)' = Holds(t)
  BY <1>3 DEF LocksInv, WorkerHas, Holds
<1>5. owner' \in [Mutexes -> Contenders \cup {NoThread}]
  BY <1>3 DEF LocksInv
<1> QED BY <1>1, <1>2, <1>3, <1>4, <1>5, OneThread

LEMMA RequestInv ==
    ASSUME LocksInv, NEW h \in Handlers, Request(h)
    PROVE  LocksInv'
<1>1. PICK s \in Answers : todo' = [todo EXCEPT ![h] = s]
  BY DEF Request
<1>2. owner' = owner /\ todo[h] = <<>> /\ h \in Contenders /\ h # "worker"
  BY LocksAssumption DEF Request, Contenders
<1>3. Holds(h) = {} /\ \A t : Holds(t)' = Holds(t)
  <2>1. HandlerHas(<<>>, Holds(h))
    BY <1>2 DEF LocksInv
  <2>2. Holds(h) = {}
    BY <2>1 DEF HandlerHas
  <2> QED BY <1>2, <2>2 DEF Holds
<1>4. HandlerHas(s, {})
  BY DEF HandlerHas
<1>5. owner' \in [Mutexes -> Contenders \cup {NoThread}]
  BY <1>2 DEF LocksInv
<1> QED BY <1>1, <1>2, <1>3, <1>4, <1>5, OneThread

\* What the next step of a thread is, whichever it is.
LEMMA StepOf ==
    ASSUME LocksInv, NEW t \in Contenders, todo[t] # <<>>
    PROVE  LET s == todo[t]
               held == Holds(t)
           IN  /\ At(s) \in Mutexes
               /\ Act(s) = "lock" =>
                     /\ At(s) \notin held
                     /\ IF t = "worker" THEN WorkerHas(Tail(s), held \cup {At(s)})
                                        ELSE HandlerHas(Tail(s), held \cup {At(s)})
                     /\ held = {} \/ (held = {"store"} /\ At(s) = "live" /\ t # "worker")
               /\ Act(s) # "lock" =>
                     /\ At(s) \in held
                     /\ IF t = "worker" THEN WorkerHas(Tail(s), held \ {At(s)})
                                        ELSE HandlerHas(Tail(s), held \ {At(s)})
<1> DEFINE s == todo[t]
           held == Holds(t)
<1>1. CASE t = "worker"
  <2>1. WorkerHas(s, held)
    BY <1>1 DEF LocksInv
  <2> HIDE DEF s, held
  <2>2. /\ At(s) \in Mutexes
        /\ Act(s) = "lock" => held = {} /\ WorkerHas(Tail(s), {At(s)})
        /\ Act(s) # "lock" => held = {At(s)} /\ WorkerHas(Tail(s), {})
    BY <2>1, WorkerSteps DEF s
  <2>3. {} \cup {At(s)} = {At(s)} /\ {At(s)} \ {At(s)} = {}
    OBVIOUS
  <2> QED BY <1>1, <2>2, <2>3 DEF s, held
<1>2. CASE t # "worker"
  <2>1. HandlerHas(s, held)
    BY <1>2 DEF LocksInv, Contenders
  <2> HIDE DEF s, held
  <2>2. /\ At(s) \in Mutexes
        /\ Act(s) = "lock" => /\ At(s) \notin held /\ HandlerHas(Tail(s), held \cup {At(s)})
                              /\ held = {} \/ (held = {"store"} /\ At(s) = "live")
        /\ Act(s) # "lock" => At(s) \in held /\ HandlerHas(Tail(s), held \ {At(s)})
    BY <2>1, HandlerSteps DEF s
  <2> QED BY <1>2, <2>2 DEF s, held
<1> QED BY <1>1, <1>2

LEMMA GoesInv ==
    ASSUME LocksInv, NEW t \in Contenders, Goes(t)
    PROVE  LocksInv'
<1> DEFINE s == todo[t]
           m == At(s)
<1>1. todo[t] # <<>> /\ todo' = [todo EXCEPT ![t] = Tail(s)]
  BY DEF Goes, Acquire, Release, LocksInv
<1>2. /\ m \in Mutexes
      /\ Act(s) = "lock" =>
            IF t = "worker" THEN WorkerHas(Tail(s), Holds(t) \cup {m})
                            ELSE HandlerHas(Tail(s), Holds(t) \cup {m})
      /\ Act(s) # "lock" =>
            /\ m \in Holds(t)
            /\ IF t = "worker" THEN WorkerHas(Tail(s), Holds(t) \ {m})
                               ELSE HandlerHas(Tail(s), Holds(t) \ {m})
  BY <1>1, StepOf
<1>3. owner \in [Mutexes -> Contenders \cup {NoThread}] /\ NoThread \notin Contenders
  BY LocksAssumption DEF LocksInv, Contenders
<1>4. CASE Acquire(t)
  <2>1. Act(s) = "lock" /\ owner[m] = NoThread /\ owner' = [owner EXCEPT ![m] = t]
    BY <1>4 DEF Acquire, Act, At
  <2> HIDE DEF m, s
  <2>2. Holds(t)' = Holds(t) \cup {m} /\ \A u \in Contenders \ {t} : Holds(u)' = Holds(u)
    BY <1>2, <1>3, <2>1 DEF Holds
  <2>3. owner' \in [Mutexes -> Contenders \cup {NoThread}]
    BY <1>3, <2>1
  <2> QED BY <1>1, <1>2, <2>1, <2>2, <2>3, OneThread
<1>5. CASE Release(t)
  <2>1. Act(s) # "lock" /\ owner' = [owner EXCEPT ![m] = NoThread]
    BY <1>5 DEF Release, Act, At
  <2> HIDE DEF m, s
  <2>2. owner[m] = t
    BY <1>2, <2>1 DEF Holds
  <2>3. Holds(t)' = Holds(t) \ {m} /\ \A u \in Contenders \ {t} : Holds(u)' = Holds(u)
    BY <1>2, <1>3, <2>1, <2>2 DEF Holds
  <2>4. owner' \in [Mutexes -> Contenders \cup {NoThread}]
    BY <1>3, <2>1
  <2> QED BY <1>1, <1>2, <2>1, <2>3, <2>4, OneThread
<1> QED BY <1>4, <1>5 DEF Goes

LEMMA PanicInv ==
    ASSUME LocksInv, NEW h \in Handlers, Panic(h)
    PROVE  LocksInv'
<1>1. h \in Contenders /\ h # "worker" /\ NoThread \notin Contenders
  BY LocksAssumption DEF Contenders
<1>2. /\ owner' = [m \in Mutexes |-> IF owner[m] = h THEN NoThread ELSE owner[m]]
      /\ todo' = [todo EXCEPT ![h] = <<>>]
  BY DEF Panic
<1>3. owner \in [Mutexes -> Contenders \cup {NoThread}]
  BY DEF LocksInv
<1>4. Holds(h)' = {} /\ \A u \in Contenders \ {h} : Holds(u)' = Holds(u)
  BY <1>1, <1>2, <1>3 DEF Holds
<1>5. owner' \in [Mutexes -> Contenders \cup {NoThread}]
  BY <1>2, <1>3
<1>6. HandlerHas(<<>>, {})
  BY DEF HandlerHas
<1> QED BY <1>1, <1>2, <1>4, <1>5, <1>6, OneThread

\* What a thread holds it has still to give back.
LEMMA CircleFree == LocksInv => NoCircle
<1> SUFFICES ASSUME LocksInv, NEW m \in Mutexes, owner[m] # NoThread
             PROVE  LET t == owner[m]
                    IN  /\ todo[t] # <<>>
                        /\ Waits(t) => /\ Holder(t) # t
                                       /\ todo[Holder(t)] # <<>> /\ ~Waits(Holder(t))
  BY DEF NoCircle
<1>1. \A u \in Contenders : Holds(u) # {} => todo[u] # <<>>
  <2> TAKE u \in Contenders
  <2>1. CASE u = "worker"
    BY <2>1 DEF LocksInv, WorkerHas
  <2>2. CASE u # "worker"
    <3>1. HandlerHas(todo[u], Holds(u))
      BY <2>2 DEF LocksInv, Contenders
    <3> QED BY <3>1, AnswersAre DEF HandlerHas
  <2> QED BY <2>1, <2>2
<1> DEFINE t == owner[m]
<1>2. t \in Contenders /\ m \in Holds(t)
  BY DEF LocksInv, Holds
<1>3. ASSUME Waits(t)
      PROVE  Holder(t) # t /\ todo[Holder(t)] # <<>> /\ ~Waits(Holder(t))
  <2> DEFINE u == Holder(t)
  <2>1. /\ todo[t] # <<>> /\ Act(todo[t]) = "lock" /\ u = owner[At(todo[t])] /\ u # NoThread
    BY <1>3 DEF Waits, Holder, Act, At
  <2>2. At(todo[t]) \in Mutexes /\ At(todo[t]) \notin Holds(t) /\ Holds(t) = {"store"} /\ At(todo[t]) = "live"
    BY <1>2, <2>1, StepOf
  <2> HIDE DEF u
  <2>3. u \in Contenders /\ "live" \in Holds(u) /\ u # t
    BY <2>1, <2>2 DEF LocksInv, Holds
  <2>4. ~Waits(u)
    <3> SUFFICES ASSUME Waits(u) PROVE FALSE
      OBVIOUS
    <3>1. todo[u] # <<>> /\ Act(todo[u]) = "lock"
      BY DEF Waits, Act
    <3>2. Holds(u) = {} \/ Holds(u) = {"store"}
      BY <2>3, <3>1, StepOf
    <3> QED BY <2>3, <3>2
  <2> QED BY <1>1, <2>3, <2>4 DEF u
<1> QED BY <1>1, <1>2, <1>3

\* handle_query takes the live table while it holds the store, everything else
\* one mutex at a time: for any number of handler threads, requests and panics,
\* nobody waits in a circle and no mutex is left behind.
THEOREM NobodyWaitsInACircle == LocksSpec => []NoCircle
<1>1. LocksInv /\ [LocksNext]_lockVars => LocksInv'
  <2> SUFFICES ASSUME LocksInv, [LocksNext]_lockVars PROVE LocksInv'
    OBVIOUS
  <2>1. CASE UNCHANGED lockVars
    <3>1. \A t : Holds(t)' = Holds(t)
      BY <2>1 DEF lockVars, Holds
    <3> QED BY <2>1, <3>1 DEF lockVars, LocksInv
  <2> QED BY <2>1, WorkerRoundInv, RequestInv, PanicInv, GoesInv DEF LocksNext
<1> QED BY <1>1, LocksInitInv, CircleFree, PTL DEF LocksSpec
=============================================================================
