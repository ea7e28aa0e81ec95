------------------------------- MODULE Ingest -------------------------------
(***************************************************************************)
(* ingest/ingest.py: the one-shot job that loads the CSV files into        *)
(* PostgreSQL, stage by stage, over one connection.  `docker compose up`   *)
(* starts it again each time, and starts the agent only after it exits     *)
(* with 0.                                                                 *)
(*                                                                         *)
(* Every stage has a natural key of its own (us_headlines is keyed and     *)
(* guarded by source), so a stage's table is the set of rows of its file   *)
(* that are there.  A row is its number in the file: ON CONFLICT DO        *)
(* NOTHING makes inserting it twice a union.                               *)
(*                                                                         *)
(* The transaction is psycopg's: the guard's SELECT opens it, a server     *)
(* error aborts it, and leaving `with connect()` without an exception      *)
(* commits it, which for an aborted one means that it is rolled back.      *)
(***************************************************************************)
EXTENDS Integers, Sequences

CONSTANTS
    RowCount,   \* bound: rows in a file
    MaxStarts   \* bound: how often the job is started

ASSUME IngestAssumption ==
    /\ RowCount \in Nat \ {0}
    /\ MaxStarts \in Nat

VARIABLES
    pc,       \* where the job is
    stage,    \* place in stages of the stage it is at
    row,      \* executemany: rows sent so far
    force,    \* FORCE_REINGEST of this start
    tx,       \* none, open or aborted
    written,  \* rows the open transaction has inserted for this stage
    stored,   \* committed rows of each table
    exit,     \* exit status of the last start; -1: still running or killed
    starts,   \* how often the job was started
    spoilt    \* batch stages an exception of the client cut short

job == <<pc, stage, row, force, exit, starts>>
vars == <<job, tx, written, stored, spoilt>>

stages == <<"securities", "prices", "fundamentals", "abc_headlines",
            "us_headlines:analyst", "us_headlines:partner">>

\* The two small files go through executemany, the others through a staging
\* table and one INSERT ... SELECT.
Batch == {"securities", "fundamentals"}
Tables == {stages[i] : i \in DOMAIN stages}

Rows == 1..RowCount

Current == stages[stage]

Running == {"guard", "fill", "commit", "failed"}

Init ==
    /\ pc = "down" /\ stage = 1 /\ row = 0 /\ force = FALSE
    /\ tx = "none" /\ written = {}
    /\ stored = [t \in Tables |-> {}]
    /\ exit = -1 /\ starts = 0 /\ spoilt = {}

Start(forced) ==
    /\ pc = "down" /\ starts < MaxStarts
    /\ pc' = "guard" /\ stage' = 1 /\ row' = 0
    /\ force' = forced
    /\ exit' = -1 /\ starts' = starts + 1
    /\ UNCHANGED <<tx, written, stored, spoilt>>

-----------------------------------------------------------------------------
(* One stage *)

\* Mutant: the guard does not ask for FORCE_REINGEST.
GuardIgnoringForce ==
    /\ pc = "guard" /\ stage <= Len(stages)
    /\ tx' = "open"
    /\ IF stored[Current] # {}
       THEN stage' = stage + 1 /\ UNCHANGED pc
       ELSE pc' = "fill" /\ UNCHANGED stage
    /\ row' = 0
    /\ UNCHANGED <<force, exit, starts, written, stored, spoilt>>

\* The row guard: skip a table that holds anything, unless forced.  A skip
\* returns without a commit, so the transaction stays open.
Guard ==
    /\ pc = "guard" /\ stage <= Len(stages)
    /\ tx' = "open"
    /\ IF stored[Current] # {} /\ ~force
       THEN stage' = stage + 1 /\ UNCHANGED pc
       ELSE pc' = "fill" /\ UNCHANGED stage
    /\ row' = 0
    /\ UNCHANGED <<force, exit, starts, written, stored, spoilt>>

\* Mutant: one row too many.
InsertRowPastTheEnd ==
    /\ pc = "fill" /\ Current \in Batch /\ row <= RowCount
    /\ row' = row + 1
    /\ written' = written \cup {row + 1}
    /\ UNCHANGED <<pc, stage, force, exit, starts, tx, stored, spoilt>>

\* Mutant: the connection is in autocommit mode.
InsertRowAutocommit ==
    /\ pc = "fill" /\ Current \in Batch /\ row < RowCount
    /\ row' = row + 1
    /\ stored' = [stored EXCEPT ![Current] = @ \cup {row + 1}]
    /\ UNCHANGED <<pc, stage, force, exit, starts, tx, written, spoilt>>

\* executemany inserts row after row.
InsertRow ==
    /\ pc = "fill" /\ Current \in Batch /\ row < RowCount
    /\ row' = row + 1
    /\ written' = written \cup {row + 1}
    /\ UNCHANGED <<pc, stage, force, exit, starts, tx, stored, spoilt>>

BatchDone ==
    /\ pc = "fill" /\ Current \in Batch /\ row = RowCount
    /\ pc' = "commit"
    /\ UNCHANGED <<stage, row, force, exit, starts, tx, written, stored, spoilt>>

\* The staged rows are folded into the table by a single statement.
FoldStaged ==
    /\ pc = "fill" /\ Current \notin Batch
    /\ written' = Rows
    /\ pc' = "commit"
    /\ UNCHANGED <<stage, row, force, exit, starts, tx, stored, spoilt>>

\* What a successful commit makes durable.
Committed == [stored EXCEPT ![Current] = @ \cup written]

Commit ==
    /\ pc = "commit"
    /\ stored' = Committed
    /\ written' = {} /\ tx' = "none"
    /\ stage' = stage + 1 /\ row' = 0
    /\ pc' = "guard"
    /\ UNCHANGED <<force, exit, starts, spoilt>>

-----------------------------------------------------------------------------
(* What can go wrong in a stage: main catches the exception and returns 1 *)

\* Mutant: main goes on with the next stage.
ServerErrorAndContinue ==
    /\ pc \in {"guard", "fill"} /\ stage <= Len(stages)
    /\ tx' = "none" /\ written' = {}
    /\ pc' = "guard" /\ stage' = stage + 1
    /\ UNCHANGED <<row, force, exit, starts, stored, spoilt>>

\* The server rejects a statement or a staged row, or the connection is lost:
\* the transaction is gone.
ServerError ==
    /\ pc \in {"guard", "fill"} /\ stage <= Len(stages)
    /\ tx' = "aborted" /\ written' = {}
    /\ pc' = "failed"
    /\ UNCHANGED <<stage, row, force, exit, starts, stored, spoilt>>

\* The connection is lost while the commit is under way: it may have been
\* carried out.
CommitFails ==
    /\ pc = "commit"
    /\ stored' \in {stored, Committed}
    /\ tx' = "aborted" /\ written' = {}
    /\ pc' = "failed"
    /\ UNCHANGED <<stage, row, force, exit, starts, spoilt>>

\* An exception on the client's side: a missing or unreadable file, a column
\* that is not there, a value psycopg cannot adapt.  The server knows nothing
\* of it, and the transaction stays open with the rows already sent.
ClientError ==
    /\ pc = "fill"
    /\ pc' = "failed"
    /\ spoilt' = IF written = {} THEN spoilt ELSE spoilt \cup {Current}
    /\ UNCHANGED <<stage, row, force, exit, starts, tx, written, stored>>

\* return 1 leaves `with connect()` normally, which commits.
ReturnFailure ==
    /\ pc = "failed"
    /\ stored' = IF tx = "open" THEN Committed ELSE stored
    /\ tx' = "none" /\ written' = {}
    /\ pc' = "down" /\ exit' = 1
    /\ UNCHANGED <<stage, row, force, starts, spoilt>>

\* All stages are through.  Leaving `with connect()` commits once more: after
\* a skipped last stage only its SELECT.
ReturnSuccess ==
    /\ pc = "guard" /\ stage > Len(stages)
    /\ tx' = "none"
    /\ pc' = "down" /\ exit' = 0
    /\ UNCHANGED <<stage, row, force, starts, written, stored, spoilt>>

\* The process is killed; the server rolls back, or had just committed.
Crash ==
    /\ pc \in Running
    /\ \/ UNCHANGED stored
       \/ pc = "commit" /\ stored' = Committed
    /\ tx' = "none" /\ written' = {}
    /\ pc' = "down"
    /\ UNCHANGED <<stage, row, force, exit, starts, spoilt>>

\* The job is one-shot and the bound on starts is reached.
Over == pc = "down" /\ starts = MaxStarts /\ UNCHANGED vars

Next ==
    \/ \E forced \in BOOLEAN : Start(forced)
    \/ Guard \/ InsertRow \/ BatchDone \/ FoldStaged \/ Commit
    \/ ServerError \/ CommitFails \/ ClientError
    \/ ReturnFailure \/ ReturnSuccess \/ Crash \/ Over

Spec == Init /\ [][Next]_vars

-----------------------------------------------------------------------------
(* Properties *)

TypeOK ==
    /\ pc \in Running \cup {"down"}
    /\ stage \in 1..(Len(stages) + 1)
    /\ row \in 0..RowCount
    /\ force \in BOOLEAN
    /\ tx \in {"none", "open", "aborted"}
    /\ written \subseteq Rows
    /\ stored \in [Tables -> SUBSET Rows]
    /\ exit \in {-1, 0, 1}
    /\ starts \in 0..MaxStarts
    /\ spoilt \subseteq Batch

\* A table is loaded completely or not at all, whatever the server, the
\* network or a kill does to the job, and however often it is started again.
\* The one way to a part of a table is an exception of the client in the
\* middle of an executemany.
AllOrNothing ==
    \A t \in Tables : stored[t] \in {{}, Rows} \/ t \in spoilt

\* The agent starts on exit status 0 and then finds every table complete: the
\* guard only skips what an earlier start had finished (docker-compose.yml,
\* service_completed_successfully).  A table that an executemany left in part
\* is skipped as well, so it is excepted.
ExitZeroMeansLoaded ==
    exit = 0 => \A t \in Tables : stored[t] = Rows \/ t \in spoilt

\* FORCE_REINGEST=1 heals everything, a table left in part included.
ForcedRunHeals == exit = 0 /\ force => \A t \in Tables : stored[t] = Rows
=============================================================================
