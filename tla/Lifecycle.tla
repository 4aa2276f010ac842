----------------------------- MODULE Lifecycle -----------------------------
(***************************************************************************)
(* Starting and stopping the monitor daemon: run_monitor                   *)
(* (src/monitor/mod.rs) and its capture, worker and IPC server threads,    *)
(* the signal handler (rust-shark-app/src/main.rs), the accept loop        *)
(* (src/ipc/server.rs), and `rust-shark monitor stop`.  All daemons of one *)
(* state directory share one socket path.                                  *)
(*                                                                         *)
(* The worker runs on the main thread; what it does there is the subject   *)
(* of Monitor, and how a blocked capture thread is released that of        *)
(* Pipeline.                                                               *)
(***************************************************************************)
EXTENDS Naturals, FiniteSets

CONSTANTS
    Daemons,     \* daemons started on one state directory
    NoDaemon,    \* the socket path leads nowhere
    Faults       \* things that go wrong: a subset of AllFaults

AllFaults == {"capture", "device", "accept", "crash"}

ASSUME LifecycleAssumption ==
    NoDaemon \notin Daemons /\ Faults \subseteq AllFaults

VARIABLES
    main,        \* main thread of each daemon
    capture,     \* its capture thread
    server,      \* its accept loop
    signal,      \* SIGNAL_STOP of its process
    stop,        \* its stop flag
    pending,     \* Stop requests on connections it has not accepted
    path,        \* whose listener the socket file was bound by
    crashed,     \* daemons that were killed (history variable)
    met          \* daemons that were up while another was (history variable)

vars == <<main, capture, server, signal, stop, pending, path, crashed, met>>

Init ==
    /\ main = [d \in Daemons |-> "off"]
    /\ capture = [d \in Daemons |-> "off"]
    /\ server = [d \in Daemons |-> "off"]
    /\ signal = [d \in Daemons |-> FALSE]
    /\ stop = [d \in Daemons |-> FALSE]
    /\ pending = {}
    /\ path = NoDaemon
    /\ crashed = {} /\ met = {}

Up(d) == main[d] \notin {"off", "exit"}

\* The listener exists from bind until run_server returns.
Listening(d) == Up(d) /\ main[d] # "start" /\ main[d] # "bind" /\ server[d] # "end"

\* The process ends, and with it every thread and what is queued for it.
Ends(d) ==
    /\ main' = [main EXCEPT ![d] = "exit"]
    /\ capture' = [capture EXCEPT ![d] = "end"]
    /\ server' = [server EXCEPT ![d] = "end"]
    /\ pending' = pending \ {d}

-----------------------------------------------------------------------------
(***************************************************************************)
(* run_monitor.                                                            *)
(***************************************************************************)
\* The store is opened (SQLite lets several processes do that) and the capture
\* thread started; a device that cannot be opened ends the process.
Start(d) ==
    /\ main[d] = "off"
    /\ main' = [main EXCEPT ![d] = "start"]
    /\ capture' = [capture EXCEPT ![d] = "run"]
    /\ LET others == {c \in Daemons : Up(c)}
       IN  met' = IF others = {} THEN met ELSE met \cup others \cup {d}
    /\ UNCHANGED <<server, signal, stop, pending, path, crashed>>

StartFails(d) ==
    /\ "device" \in Faults
    /\ main[d] = "off"
    /\ Ends(d)
    /\ UNCHANGED <<signal, stop, path, crashed, met>>

\* remove_file on the socket path, whoever it belongs to.
RemovePath(d) ==
    /\ main[d] = "start"
    /\ path' = NoDaemon
    /\ main' = [main EXCEPT ![d] = "bind"]
    /\ UNCHANGED <<capture, server, signal, stop, pending, crashed, met>>

\* bind fails if the file is there again; the server thread starts otherwise.
Bind(d) ==
    /\ main[d] = "bind"
    /\ IF path # NoDaemon
       THEN Ends(d) /\ UNCHANGED path
       ELSE /\ path' = d
            /\ main' = [main EXCEPT ![d] = "work"]
            /\ server' = [server EXCEPT ![d] = "accept"]
            /\ UNCHANGED <<capture, pending>>
    /\ UNCHANGED <<signal, stop, crashed, met>>

\* run_worker returns: the flag is set, or the capture channel is closed.
WorkerLeaves(d) ==
    /\ main[d] = "work"
    /\ stop[d] \/ capture[d] = "end"
    /\ main' = [main EXCEPT ![d] = "joinCapture"]
    /\ UNCHANGED <<capture, server, signal, stop, pending, path, crashed, met>>

JoinCapture(d) ==
    /\ main[d] = "joinCapture"
    /\ capture[d] = "end"
    /\ main' = [main EXCEPT ![d] = "joinServer"]
    /\ UNCHANGED <<capture, server, signal, stop, pending, path, crashed, met>>

JoinServer(d) ==
    /\ main[d] = "joinServer"
    /\ server[d] = "end"
    /\ main' = [main EXCEPT ![d] = "unlink"]
    /\ UNCHANGED <<capture, server, signal, stop, pending, path, crashed, met>>

\* Faulty variant: the file is left behind.
LeavePath(d) ==
    /\ main[d] = "unlink"
    /\ Ends(d)
    /\ UNCHANGED <<signal, stop, path, crashed, met>>

\* remove_file again, whoever the file belongs to by now; the process ends.
Unlink(d) ==
    /\ main[d] = "unlink"
    /\ path' = NoDaemon
    /\ Ends(d)
    /\ UNCHANGED <<signal, stop, crashed, met>>

-----------------------------------------------------------------------------
(***************************************************************************)
(* The other threads.                                                      *)
(***************************************************************************)
\* capture_loop sees the flag, or the device fails.
CaptureEnds(d) ==
    /\ capture[d] = "run"
    /\ stop[d] \/ "capture" \in Faults
    /\ capture' = [capture EXCEPT ![d] = "end"]
    /\ UNCHANGED <<main, server, signal, stop, pending, path, crashed, met>>

\* run_server accepts: the handler thread of a Stop request sets the flag.
Accept(d) ==
    /\ server[d] = "accept"
    /\ ~stop[d]
    /\ d \in pending
    /\ stop' = [stop EXCEPT ![d] = TRUE]
    /\ pending' = pending \ {d}
    /\ UNCHANGED <<main, capture, server, signal, path, crashed, met>>

\* The accept loop sees the flag; connections it has not accepted are reset.
ServerEnds(d) ==
    /\ server[d] = "accept"
    /\ stop[d]
    /\ server' = [server EXCEPT ![d] = "end"]
    /\ pending' = pending \ {d}
    /\ UNCHANGED <<main, capture, signal, stop, path, crashed, met>>

\* accept fails for another reason than that nobody called: the loop breaks.
AcceptFails(d) ==
    /\ "accept" \in Faults
    /\ server[d] = "accept"
    /\ server' = [server EXCEPT ![d] = "end"]
    /\ pending' = pending \ {d}
    /\ UNCHANGED <<main, capture, signal, stop, path, crashed, met>>

\* handle_signal, on SIGINT or SIGTERM.
Signal(d) ==
    /\ Up(d) /\ ~signal[d]
    /\ signal' = [signal EXCEPT ![d] = TRUE]
    /\ UNCHANGED <<main, capture, server, stop, pending, path, crashed, met>>

\* Faulty variant: the signal is looked at by the worker's loop.
RelayAtWork(d) ==
    /\ main[d] = "work" /\ signal[d] /\ ~stop[d]
    /\ stop' = [stop EXCEPT ![d] = TRUE]
    /\ UNCHANGED <<main, capture, server, signal, pending, path, crashed, met>>

\* The thread of install_signal_handlers passes it on.
RelaySignal(d) ==
    /\ Up(d) /\ signal[d] /\ ~stop[d]
    /\ stop' = [stop EXCEPT ![d] = TRUE]
    /\ UNCHANGED <<main, capture, server, signal, pending, path, crashed, met>>

\* SIGKILL or a panic: the socket file stays.
Crash(d) ==
    /\ "crash" \in Faults
    /\ Up(d)
    /\ Ends(d)
    /\ crashed' = crashed \cup {d}
    /\ UNCHANGED <<signal, stop, path, met>>

\* monitor stop connects to whoever listens on the path, if anybody does.
StopCommand ==
    /\ path # NoDaemon
    /\ Listening(path)
    /\ pending' = pending \cup {path}
    /\ UNCHANGED <<main, capture, server, signal, stop, path, crashed, met>>

\* The threads of one daemon.
Threads(d) ==
    \/ RemovePath(d) \/ Bind(d) \/ WorkerLeaves(d) \/ JoinCapture(d)
    \/ JoinServer(d) \/ Unlink(d)
    \/ (stop[d] /\ CaptureEnds(d)) \/ Accept(d) \/ ServerEnds(d) \/ RelaySignal(d)

Environment(d) ==
    \/ Start(d) \/ StartFails(d) \/ Signal(d) \/ Crash(d)
    \/ CaptureEnds(d) \/ AcceptFails(d)

Next == \/ \E d \in Daemons : Threads(d) \/ Environment(d)
        \/ StopCommand

Spec == Init /\ [][Next]_vars

\* Every thread that can take a step takes one: each loop wakes up by itself
\* (100 or 200 ms), and what a thread does inside its loop ends, the wait for
\* a mutex included (Locks, where WorkerReturns says so of the worker).
Fair ==
    \A d \in Daemons :
        /\ WF_vars(RemovePath(d) \/ Bind(d) \/ WorkerLeaves(d) \/ JoinCapture(d)
                   \/ JoinServer(d) \/ Unlink(d))
        /\ WF_vars(stop[d] /\ CaptureEnds(d))
        /\ WF_vars(Accept(d) \/ ServerEnds(d))
        /\ WF_vars(RelaySignal(d))

FairSpec == Spec /\ Fair

-----------------------------------------------------------------------------
(***************************************************************************)
(* Properties.                                                             *)
(***************************************************************************)
\* Types, and where the threads of a daemon can be while it takes itself down:
\* it removes the socket file and returns only after both have ended.
LifecycleTypeOK ==
    /\ main \in [Daemons -> {"off", "start", "bind", "work", "joinCapture",
                             "joinServer", "unlink", "exit"}]
    /\ capture \in [Daemons -> {"off", "run", "end"}]
    /\ server \in [Daemons -> {"off", "accept", "end"}]
    /\ signal \in [Daemons -> BOOLEAN] /\ stop \in [Daemons -> BOOLEAN]
    /\ pending \subseteq {d \in Daemons : Listening(d)}
    /\ path \in Daemons \cup {NoDaemon}
    /\ crashed \subseteq Daemons /\ met \subseteq Daemons
    /\ \A d \in Daemons :
        /\ main[d] \in {"joinServer", "unlink"} => capture[d] = "end"
        /\ main[d] = "unlink" => server[d] = "end"

\* A daemon that never met another takes the path over: whatever earlier ones
\* left, after a crash too, bind finds it free, and it leads to the one that
\* works (remove_file before bind).
TakesOver ==
    \A d \in Daemons \ met :
        /\ main[d] = "bind" => path = NoDaemon
        /\ main[d] = "work" => path = d

\* A socket file without a daemon is the mark of a crash: every daemon that
\* ends by itself, however it was stopped and whatever else was started beside
\* it, takes its file along.
NoStaleFile == path # NoDaemon => Up(path) \/ path \in crashed

\* The path leads to nobody who has not bound it yet.
BoundByWorkers ==
    \A d \in Daemons : main[d] \in {"off", "start", "bind"} => path # d

\* Daemons that are up at the same time have met.
MeetingsKnown ==
    \A c \in Daemons, d \in Daemons : c # d /\ Up(c) /\ Up(d) => d \in met

\* Whatever failed and whoever met, threads are where their daemon expects
\* them, a daemon takes the path over from those before it, and a stale socket
\* file means a crash.
LifecycleInv ==
    /\ LifecycleTypeOK /\ TakesOver /\ NoStaleFile
    /\ BoundByWorkers /\ MeetingsKnown

\* The flag ends the daemon, whatever thread set it and wherever the others are
\* ("Run the daemon until stop is set"): no join waits for ever.  So do SIGINT
\* and SIGTERM, also while it is starting, and when its capture has failed and
\* its worker waits for the server thread.  `monitor stop` ends the daemon that
\* it reached, unless its accept loop broke.
EndsWhenTold ==
    \A d \in Daemons :
        /\ stop[d] /\ Up(d) ~> main[d] = "exit"
        /\ signal[d] /\ Up(d) ~> main[d] = "exit"
        /\ d \in pending ~> main[d] = "exit" \/ (server[d] = "end" /\ "accept" \in Faults)

=============================================================================
