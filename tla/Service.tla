------------------------------ MODULE Service -------------------------------
(***************************************************************************)
(* The service as a process (service/main.py: lifespan, POST /run, POST    *)
(* /run/stream and GET /traces; service/db.py: the pool), with several     *)
(* runs at once.  A run is its outline; what the runs share is the pool:   *)
(* a tool that queries the database, the INSERT of a tool_call row, the    *)
(* telemetry callback of a model call and GET /traces each hold one of its *)
(* connections for the length of a statement, and wait while there is none.*)
(*                                                                         *)
(* uvicorn closes the lifespan after the last request has been answered.   *)
(***************************************************************************)
EXTENDS Naturals, FiniteSets

CONSTANTS
    Runs,        \* the requests clients may send
    Rounds,      \* the round budget of each
    Parallel,    \* bound: tool calls in one reply
    PoolSize,    \* max_size of the pool
    MaxReplays   \* bound: requests to GET /traces

ASSUME ServiceAssumption ==
    /\ Rounds \in Nat \ {0} /\ Parallel \in Nat
    /\ PoolSize \in Nat \ {0} /\ MaxReplays \in Nat

VARIABLES
    stage,    \* starting, up, draining, closing, stopped, failed or killed
    runs,     \* the outline of each run
    client,   \* of each request: away, waiting, left or served
    streams,  \* the requests that were sent to POST /run/stream
    waiting,  \* users waiting for a connection
    holding,  \* users that hold one
    replays,  \* requests to GET /traces so far
    lost      \* model calls whose llm_call row the shutdown has lost

pool == <<waiting, holding>>
vars == <<stage, runs, client, streams, pool, replays, lost>>

Outline == INSTANCE RunOutline WITH run <- runs

Up == stage \in {"up", "draining"}

\* Users of the pool; n tells the model calls of a run apart.
Tool(r)   == <<r, "tool", 0>>
Row(r)    == <<r, "trace", 0>>
Log(r, n) == <<r, "llm_call", n>>
Reader(r) == <<r, "replay", 0>>

Logs(users) == {u \in users : u[2] = "llm_call"}

-----------------------------------------------------------------------------
Init ==
    /\ stage = "starting"
    /\ runs = [r \in Runs |-> Outline!NewRun]
    /\ client = [r \in Runs |-> "away"]
    /\ streams = {}
    /\ waiting = {} /\ holding = {}
    /\ replays = 0 /\ lost = {}

\* lifespan: the pool is opened, the callback registered.  A database that is
\* not there yet ends the process, nothing tries again.
Startup ==
    /\ stage = "starting"
    /\ stage' \in {"up", "failed"}
    /\ UNCHANGED <<runs, client, streams, pool, replays, lost>>

\* A request arrives at POST /run or POST /run/stream.
Request(r) ==
    /\ stage = "up" /\ client[r] = "away"
    /\ client' = [client EXCEPT ![r] = "waiting"]
    /\ streams' \in {streams, streams \cup {r}}
    /\ UNCHANGED <<stage, runs, pool, replays, lost>>

\* What run r begins to wait for with its new outline: a tool may or may not
\* need the database, a tool_call row does.
Needs(r, s) ==
    IF s.phase = "tool" THEN {{}, {Tool(r)}}
    ELSE IF s.phase = "trace" THEN {{Row(r)}}
    ELSE {{}}

\* Run r goes on, gives back what it held or waited for, and the callbacks in
\* logs begin to wait.
Moves(r, next, logs) ==
    \E s \in next : \E need \in Needs(r, s) :
        /\ runs' = [runs EXCEPT ![r] = s]
        /\ waiting' = (waiting \ {Tool(r), Row(r)}) \cup need \cup logs
        /\ holding' = holding \ {Tool(r), Row(r)}
        /\ UNCHANGED <<stage, client, streams, replays, lost>>

Running(r) == Up /\ client[r] # "away"

RunProceeds(r) ==
    /\ Running(r)
    /\ Moves(r, Outline!Started(runs[r]) \cup Outline!Asked(runs[r]), {})

\* The response arrives, or an error instead; the callback is scheduled first.
ModelReplies(r) ==
    /\ Running(r) /\ runs[r].phase = "llm"
    /\ Moves(r, Outline!Answered(runs[r]) \cup Outline!Broken(runs[r]),
             {Log(r, runs[r].asked)})

\* The tool is done; one that queries the database has had a connection.
ToolReturns(r) ==
    /\ Running(r) /\ Tool(r) \notin waiting
    /\ Moves(r, Outline!Served(runs[r]), {})

\* Mutant: the connection of a tool that timed out is not given back.
ToolTimesOutKeeping(r) ==
    /\ Running(r)
    /\ \E s \in Outline!Served(runs[r]) : \E need \in Needs(r, s) :
         /\ runs' = [runs EXCEPT ![r] = s]
         /\ waiting' = (waiting \ {Tool(r)}) \cup need
         /\ UNCHANGED <<stage, client, streams, holding, replays, lost>>

\* Mutant: only the wait for a connection has a time limit.
ToolTimesOutWaitingOnly(r) ==
    /\ Running(r) /\ Tool(r) \in waiting
    /\ Moves(r, Outline!Served(runs[r]), {})

\* The 30 seconds cover the wait for a connection and the statement.  They are
\* over and the tool that wait_for then cancelled has ended, its connection
\* given back.
ToolTimesOut(r) ==
    /\ Running(r)
    /\ Moves(r, Outline!Served(runs[r]), {})

\* The INSERT of the tool_call row ends, written or not.
RowEnds(r) ==
    /\ Running(r) /\ Row(r) \in holding
    /\ Moves(r, Outline!Recorded(runs[r]), {})

\* The reader of a stream has left: the run is cancelled, and ended with the
\* tool it was in.
RunCancelled(r) ==
    /\ Running(r) /\ r \in streams /\ client[r] = "left"
    /\ Moves(r, Outline!Broken(runs[r]), {})

\* The response is sent; without a reader the handler just ends.
Responds(r) ==
    /\ Up /\ runs[r].phase = "done" /\ client[r] = "waiting"
    /\ client' = [client EXCEPT ![r] = "served"]
    /\ UNCHANGED <<stage, runs, streams, pool, replays, lost>>

\* POST /run does not notice that its client has gone; the run goes on.
ClientLeaves(r) ==
    /\ Up /\ client[r] = "waiting"
    /\ client' = [client EXCEPT ![r] = "left"]
    /\ UNCHANGED <<stage, runs, streams, pool, replays, lost>>

\* Somebody asks for the trace of run r.
Replay(r) ==
    /\ stage = "up" /\ Reader(r) \notin waiting \cup holding
    /\ client[r] # "away" /\ replays < MaxReplays
    /\ replays' = replays + 1
    /\ waiting' = waiting \cup {Reader(r)}
    /\ UNCHANGED <<stage, runs, client, streams, holding, lost>>

\* A connection is free; which of those who wait gets it is left open.
Acquire(user) ==
    /\ stage \in {"up", "draining", "closing"}
    /\ user \in waiting /\ Cardinality(holding) < PoolSize
    /\ waiting' = waiting \ {user}
    /\ holding' = holding \cup {user}
    /\ UNCHANGED <<stage, runs, client, streams, replays, lost>>

\* The statement of a callback or of GET /traces ends.
StatementEnds(user) ==
    /\ stage \in {"up", "draining", "closing"}
    /\ user \in holding /\ user[2] \in {"llm_call", "replay"}
    /\ holding' = holding \ {user}
    /\ UNCHANGED <<stage, runs, client, streams, waiting, replays, lost>>

\* SIGTERM: no new requests; those under way are waited for.
Terminate ==
    /\ stage = "up"
    /\ stage' = "draining"
    /\ UNCHANGED <<runs, client, streams, pool, replays, lost>>

\* Mutant: uvicorn closes the lifespan when the clients have left.
CloseLifespanEarly ==
    /\ stage = "draining"
    /\ \A r \in Runs : client[r] # "waiting"
    /\ stage' = "closing"
    /\ UNCHANGED <<runs, client, streams, pool, replays, lost>>

\* Every request has been handled: lifespan goes on to its finally, which
\* takes the callback away and begins to close the pool.
CloseLifespan ==
    /\ stage = "draining"
    /\ \A r \in Runs :
         /\ client[r] # "waiting"
         /\ client[r] # "away" => runs[r].phase = "done"
         /\ Reader(r) \notin waiting \cup holding
    /\ stage' = "closing"
    /\ UNCHANGED <<runs, client, streams, pool, replays, lost>>

\* close_pool waits for the connections in use; callbacks that still wait for
\* one find the pool closed.
ClosePool ==
    /\ stage = "closing" /\ holding = {}
    /\ stage' = "stopped"
    /\ lost' = lost \cup Logs(waiting)
    /\ waiting' = {}
    /\ UNCHANGED <<runs, client, streams, holding, replays>>

\* SIGKILL, which docker sends 10 seconds after SIGTERM, or a crash.
Kill ==
    /\ stage \in {"starting", "up", "draining", "closing"}
    /\ stage' = "killed"
    /\ waiting' = {} /\ holding' = {}
    /\ UNCHANGED <<runs, client, streams, replays, lost>>

Ended == stage \in {"stopped", "failed", "killed"} /\ UNCHANGED vars

Users ==
    UNION {{Tool(r), Row(r), Reader(r)} \cup {Log(r, n) : n \in 1..(Rounds + 1)} :
             r \in Runs}

RunSteps(r) ==
    \/ RunProceeds(r) \/ ModelReplies(r) \/ ToolReturns(r) \/ ToolTimesOut(r)
    \/ RowEnds(r) \/ RunCancelled(r)

Next ==
    \/ Startup \/ Terminate \/ CloseLifespan \/ ClosePool \/ Kill
    \/ \E r \in Runs : \/ Request(r) \/ RunSteps(r) \/ Responds(r)
                       \/ ClientLeaves(r) \/ Replay(r)
    \/ \E user \in Users : Acquire(user) \/ StatementEnds(user)
    \/ Ended

Spec == Init /\ [][Next]_vars

\* The model answers, statements of the service's own end, a free connection is
\* given to somebody who waits, timers fire, and uvicorn goes on.  A tool may
\* hang until it is cancelled, and then gives its connection back; nothing is
\* assumed of a client, or that anybody stops the service.
Fairness ==
    /\ WF_vars(CloseLifespan) /\ WF_vars(ClosePool)
    /\ \A r \in Runs :
         /\ WF_vars(RunProceeds(r)) /\ WF_vars(ModelReplies(r))
         /\ WF_vars(ToolTimesOut(r)) /\ WF_vars(RowEnds(r))
         /\ WF_vars(Responds(r))
    /\ \A user \in Users : WF_vars(Acquire(user)) /\ WF_vars(StatementEnds(user))

FairSpec == Spec /\ Fairness

-----------------------------------------------------------------------------
(* What is true of the service *)

\* A connection is held or waited for only by a run that is at that point, or
\* by the callback of a model call that was made: none leaks with a timeout, a
\* cancellation or the end of a run.
ConnectionsAreAccounted ==
    /\ waiting \cap holding = {} /\ Cardinality(holding) <= PoolSize
    /\ \A u \in waiting \cup holding :
         /\ u[2] \in {"tool", "trace"} => runs[u[1]].phase = u[2]
         /\ u[2] = "llm_call" => u[3] \in 1..runs[u[1]].asked

\* The pool is there as long as a run works with it: db.pool() never raises in
\* a tool or a row's INSERT (startup and shutdown bracket every request).
NoRunWithoutPool ==
    stage \in {"starting", "closing", "stopped", "failed"} =>
        \A r \in Runs : ~Outline!Working(runs[r])

\* A run that was asked for ends, though any tool may hang until it is cancelled,
\* all runs share a pool and its client may be gone; unless the process is killed.
EveryRunEnds ==
    \A r \in Runs : client[r] = "waiting" ~> runs[r].phase = "done" \/ stage = "killed"

\* A shutdown comes to its end.
ShutdownCompletes ==
    stage = "draining" ~> stage \in {"stopped", "killed"}

-----------------------------------------------------------------------------
(* What the documentation says and the code does not do *)

\* main.py: "every LLM call writes a `traces` row".  An orderly shutdown leaves
\* no row behind.
NoCallUntraced == stage = "stopped" => lost = {}
=============================================================================
