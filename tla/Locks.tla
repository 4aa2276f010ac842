------------------------------- MODULE Locks -------------------------------
(***************************************************************************)
(* The mutexes of the monitor daemon: the store, the live table and the    *)
(* subscribers of the bus, as the worker (src/monitor/correlate.rs) and    *)
(* the handler threads of IPC clients (src/ipc/server.rs) take them.       *)
(*                                                                         *)
(* A thread is what it still has to lock and unlock in the pass through    *)
(* its loop that it is in.  A handler may panic between two steps: its     *)
(* guards are dropped and leave their mutexes poisoned, which every lock() *)
(* of the daemon looks past (unwrap_or_else(|e| e.into_inner())).          *)
(***************************************************************************)
EXTENDS Naturals, Sequences

CONSTANTS
    Handlers,    \* handler threads
    NoThread,
    MaxRequests  \* bound of the model: requests that clients make

ASSUME LocksAssumption ==
    /\ "worker" \notin Handlers /\ NoThread \notin Handlers \cup {"worker"}
    /\ MaxRequests \in Nat

VARIABLES
    todo,        \* of each thread: the locks and unlocks before it
    owner,       \* who holds each mutex
    poisoned,    \* mutexes whose holder panicked
    dead,        \* handlers that panicked
    requests     \* requests so far

lockVars == <<todo, owner, poisoned, dead, requests>>

Mutexes == {"store", "live", "subs"}
Contenders == Handlers \cup {"worker"}

Lock(m) == [act |-> "lock", mutex |-> m]
Unlock(m) == [act |-> "unlock", mutex |-> m]
Briefly(m) == <<Lock(m), Unlock(m)>>

\* handle_update: evaluate_full, a broadcast for the alerts it raised, if any,
\* the DTO, the broadcast of it.
HandleUpdates ==
    {Briefly("store") \o alerts \o Briefly("live") \o Briefly("subs") :
        alerts \in {<<>>, Briefly("subs")}}

\* Faulty variant: the row is written before the live table is given back.
PersistUnderLive ==
    <<Lock("live")>> \o Briefly("subs") \o Briefly("store") \o <<Unlock("live")>>

\* persist_closed: the live entry, the broadcast, the row.
PersistClosed == Briefly("live") \o Briefly("subs") \o Briefly("store")

\* handle_conn: handle_query holds the store for every request; Subscribe only
\* takes the subscribers; Stop takes nothing.
Answers ==
    {<<Lock("store"), Lock("live"), Unlock("live"), Unlock("store")>>,
     Briefly("store"), Briefly("subs")}

LocksInit ==
    /\ todo = [t \in Contenders |-> <<>>]
    /\ owner = [m \in Mutexes |-> NoThread]
    /\ poisoned = {} /\ dead = {} /\ requests = 0

\* The worker has a packet, or a closed flow, or times out with a heartbeat.
WorkerRound ==
    /\ todo["worker"] = <<>>
    /\ \E work \in HandleUpdates \cup {PersistClosed, Briefly("subs")} :
          todo' = [todo EXCEPT !["worker"] = work]
    /\ UNCHANGED <<owner, poisoned, dead, requests>>

Request(h) ==
    /\ todo[h] = <<>> /\ h \notin dead /\ requests < MaxRequests
    /\ \E work \in Answers : todo' = [todo EXCEPT ![h] = work]
    /\ requests' = requests + 1
    /\ UNCHANGED <<owner, poisoned, dead>>

Acquire(t) ==
    /\ todo[t] # <<>> /\ Head(todo[t]).act = "lock"
    /\ LET m == Head(todo[t]).mutex
       IN  owner[m] = NoThread /\ owner' = [owner EXCEPT ![m] = t]
    /\ todo' = [todo EXCEPT ![t] = Tail(@)]
    /\ UNCHANGED <<poisoned, dead, requests>>

Release(t) ==
    /\ todo[t] # <<>> /\ Head(todo[t]).act = "unlock"
    /\ owner' = [owner EXCEPT ![Head(todo[t]).mutex] = NoThread]
    /\ todo' = [todo EXCEPT ![t] = Tail(@)]
    /\ UNCHANGED <<poisoned, dead, requests>>

\* A handler panics; nothing but its connection is lost.
Panic(h) ==
    /\ todo[h] # <<>>
    /\ LET held == {m \in Mutexes : owner[m] = h}
       IN  /\ owner' = [m \in Mutexes |-> IF m \in held THEN NoThread ELSE owner[m]]
           /\ poisoned' = poisoned \cup held
    /\ todo' = [todo EXCEPT ![h] = <<>>]
    /\ dead' = dead \cup {h}
    /\ UNCHANGED requests

Goes(t) == Acquire(t) \/ Release(t)

LocksNext ==
    \/ WorkerRound
    \/ \E h \in Handlers : Request(h) \/ Panic(h)
    \/ \E t \in Contenders : Goes(t)

LocksSpec == LocksInit /\ [][LocksNext]_lockVars

\* A thread that can go on does.  Nothing is assumed of the order in which a
\* mutex wakes those who wait for it.
LocksFair ==
    /\ WF_lockVars(WorkerRound)
    /\ \A t \in Contenders : WF_lockVars(Goes(t))

-----------------------------------------------------------------------------
(***************************************************************************)
(* Properties.                                                             *)
(***************************************************************************)
\* t stands before a mutex that somebody holds.
Waits(t) ==
    /\ todo[t] # <<>> /\ Head(todo[t]).act = "lock"
    /\ owner[Head(todo[t]).mutex] # NoThread
Holder(t) == owner[Head(todo[t]).mutex]

\* Whoever holds a mutex has still to give it back, and can go on or waits for
\* somebody else who can: no mutex is left behind by a handler that panicked or
\* answered, and no two threads take two of them in opposite orders.
NoCircle ==
    \A m \in Mutexes :
        owner[m] # NoThread =>
            LET t == owner[m]
            IN  /\ todo[t] # <<>>
                /\ Waits(t) => /\ Holder(t) # t
                               /\ todo[Holder(t)] # <<>> /\ ~Waits(Holder(t))

\* The worker always comes back to the head of its loop, where it sees the stop
\* flag: it waits for no handler that waits for it, whatever is asked and
\* whoever panics with a mutex in hand (handle_query takes the live table while
\* it holds the store; handle_update and persist_closed take one at a time).
WorkerReturns == []<>(todo["worker"] = <<>>)
=============================================================================
