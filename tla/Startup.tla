------------------------------ MODULE Startup -------------------------------
(***************************************************************************)
(* docker-compose.yml around the ingestion job: `docker compose up` starts *)
(* the job each time, the agent only after it has exited with 0, and the   *)
(* demo only when the agent is healthy.  An agent that is running already  *)
(* stays up while a later `up` runs the job again beneath it.              *)
(***************************************************************************)
EXTENDS Ingest

VARIABLES
    up,      \* a `docker compose up` is under way
    agent,   \* the agent's container: off, starting, up or failed
    demo     \* whether the demo has run since the last `down`

startupVars == <<vars, up, agent, demo>>

StartupInit == Init /\ up = FALSE /\ agent = "off" /\ demo = FALSE

ComposeUp ==
    /\ ~up
    /\ \E forced \in BOOLEAN : Start(forced)
    /\ up' = TRUE
    /\ UNCHANGED <<agent, demo>>

\* The job goes on, fails or is killed on its own.
IngestRuns ==
    /\ \/ Guard \/ InsertRow \/ BatchDone \/ FoldStaged \/ Commit
       \/ ServerError \/ CommitFails \/ ClientError
       \/ ReturnFailure \/ ReturnSuccess \/ Crash
    /\ UNCHANGED <<up, agent, demo>>

\* Mutant: the agent waits for the job to complete, however it did.
AgentStartsAfterAnyExit ==
    /\ up /\ pc = "down"
    /\ agent \in {"off", "failed"}
    /\ agent' = "starting"
    /\ UNCHANGED <<vars, up, demo>>

\* depends_on: service_completed_successfully
AgentStarts ==
    /\ up /\ pc = "down" /\ exit = 0
    /\ agent \in {"off", "failed"}
    /\ agent' = "starting"
    /\ UNCHANGED <<vars, up, demo>>

\* init_pool connects through pgbouncer, which has been started but is not
\* waited for.  It tries once; the container is not restarted.
AgentComesUp ==
    /\ agent = "starting"
    /\ agent' \in {"up", "failed"}
    /\ UNCHANGED <<vars, up, demo>>

\* depends_on: service_healthy
DemoRuns ==
    /\ up /\ pc = "down" /\ exit = 0 /\ agent = "up"
    /\ demo' = TRUE /\ up' = FALSE
    /\ UNCHANGED <<vars, agent>>

\* A dependency has failed: the job, or the agent.
UpFails ==
    /\ up /\ pc = "down"
    /\ exit # 0 \/ agent = "failed"
    /\ up' = FALSE
    /\ UNCHANGED <<vars, agent, demo>>

\* `docker compose down`, or the host goes down; the volume stays.
Down ==
    /\ IF pc = "down" THEN UNCHANGED vars ELSE Crash
    /\ up' = FALSE /\ agent' = "off" /\ demo' = FALSE

StartupNext ==
    \/ ComposeUp \/ IngestRuns \/ AgentStarts \/ AgentComesUp
    \/ DemoRuns \/ UpFails \/ Down

StartupSpec == StartupInit /\ [][StartupNext]_startupVars

-----------------------------------------------------------------------------
(* Properties *)

\* Whatever failed or was killed before, in whichever `up`: an agent that takes
\* requests finds every table complete, and keeps finding it so while a later,
\* forced ingestion runs beneath it.
AgentServesLoadedData ==
    agent \in {"starting", "up"} =>
        \A t \in Tables : stored[t] = Rows \/ t \in spoilt

-----------------------------------------------------------------------------
(* What the documentation says and the code does not do *)

\* docker-compose.yml of ingest: "populates postgres on first run; idempotent
\* on re-runs".  Once it has succeeded, its tables are the files.
AgentNeverServesAPart ==
    agent = "up" => \A t \in Tables : stored[t] = Rows
=============================================================================
