----------------------------- MODULE MCThreads -----------------------------
(***************************************************************************)
(* Small instances, for TLC, of the threads of both programs and of how    *)
(* they end: those of capture and read between their bounded channels      *)
(* (Pipeline), those of two daemons on one state directory, one after the  *)
(* other or at once, with every fault (Lifecycle), and those of one daemon *)
(* at work between its mutexes, asked for by three clients (Locks).  They  *)
(* share no state, so a behaviour runs one of them and leaves the others   *)
(* as they began.                                                          *)
(***************************************************************************)
EXTENDS Pipeline, Lifecycle, Locks

CONSTANTS d1, d2, h1, h2, h3

Option(live, json, count, timed) ==
    [live |-> live, json |-> json, count |-> count, timed |-> timed]

\* capture and read, each with the UI and with --json; capture with --count and
\* with --duration.
CommandLines ==
    {Option(TRUE, FALSE, 0, FALSE), Option(FALSE, FALSE, 0, FALSE),
     Option(TRUE, TRUE, 0, FALSE), Option(FALSE, TRUE, 0, FALSE),
     Option(TRUE, TRUE, 2, FALSE), Option(TRUE, TRUE, 2, TRUE)}

-----------------------------------------------------------------------------
VARIABLE part

threadVars == <<pipelineVars, vars, lockVars, part>>

ThreadsInit ==
    /\ PipelineInit /\ Init /\ LocksInit
    /\ part \in {"pipeline", "lifecycle", "locks"}
    /\ part # "pipeline" => opts = Option(TRUE, FALSE, 0, FALSE)

Flowing == part = "pipeline" /\ PipelineNext /\ UNCHANGED <<vars, lockVars, part>>

Living == part = "lifecycle" /\ Next /\ UNCHANGED <<pipelineVars, lockVars, part>>

Locking == part = "locks" /\ LocksNext /\ UNCHANGED <<pipelineVars, vars, part>>

\* (Of daemons that were never started Fair asks nothing.)
ThreadsSpec ==
    /\ ThreadsInit /\ [][Flowing \/ Living \/ Locking]_threadVars
    /\ part = "pipeline" => PipelineFair
    /\ Fair
    /\ part = "locks" => LocksFair
=============================================================================
