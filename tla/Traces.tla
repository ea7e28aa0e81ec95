------------------------------- MODULE Traces -------------------------------
(***************************************************************************)
(* The traces table of one run: who writes its rows, and what GET /traces  *)
(* replays of them.  The loop inserts a tool_call row itself and waits for *)
(* it; the llm_call rows come from LiteLLM's logging callback              *)
(* (service/telemetry.py), which runs beside the loop: it is scheduled     *)
(* before acompletion returns and nobody waits for its INSERT.             *)
(*                                                                         *)
(* For a call made with acompletion LiteLLM runs the async hooks only, and *)
(* a call that is cancelled before its response has arrived runs none.     *)
(***************************************************************************)
EXTENDS AgentLoop

VARIABLES
    logged,   \* model calls whose callback has been scheduled
    writing,  \* llm_call rows whose INSERT has not ended
    lost,     \* llm_call rows whose INSERT failed: a warning in the log
    table     \* the run's rows in traces, by id

telemetry == <<logged, writing, lost, table>>
tracesVars == <<vars, telemetry>>

LLMRow(t)     == [type |-> "llm_call",  turn |-> t, k |-> 0]
ToolRow(t, c) == [type |-> "tool_call", turn |-> t, k |-> c]

\* The row that records what an event announces.
RowOf(e) == IF e.type = "llm_call" THEN LLMRow(e.turn) ELSE ToolRow(e.turn, e.k)

Rows == {table[i] : i \in DOMAIN table}

TracesInit ==
    /\ Init
    /\ logged = 0 /\ writing = {} /\ lost = {} /\ table = <<>>

\* A step of the loop; if it is one that inserts a tool_call row, the row
\* takes the next id.
LoopDoes(A) ==
    /\ A
    /\ table' = IF rows' = rows THEN table
                ELSE Append(table, ToolRow(turn, call))
    /\ UNCHANGED <<logged, writing, lost>>

\* Mutant: a callback without a turn is skipped, and turn 0 taken for none.
ResponseArrivesSkippingZero ==
    /\ pc \in {"llm", "synth"} /\ logged < modelCalls
    /\ logged' = modelCalls
    /\ writing' = IF turn = 0 THEN writing ELSE writing \cup {LLMRow(turn)}
    /\ UNCHANGED <<vars, lost, table>>

\* The call has succeeded or failed: LiteLLM schedules the logger's hook with
\* the metadata of the call, and then acompletion returns or raises.
ResponseArrives ==
    /\ pc \in {"llm", "synth"} /\ logged < modelCalls
    /\ logged' = modelCalls
    /\ writing' = writing \cup {LLMRow(turn)}
    /\ UNCHANGED <<vars, lost, table>>

ModelReturns == logged = modelCalls /\ LoopDoes(ModelEnds)

\* Mutant: the write belongs to the run and is dropped with it.
WriteEndsDuringTheRun(row) ==
    /\ pc # "done"
    /\ writing' = writing \ {row}
    /\ \/ table' = Append(table, row) /\ UNCHANGED lost
       \/ lost' = lost \cup {row} /\ UNCHANGED table
    /\ UNCHANGED <<vars, logged>>

\* _write ends, in any order and whatever the run does: the row is in the
\* table, or the INSERT (or what comes before it: no pool, a value that has
\* no JSON) has raised and only a warning is left.
WriteEnds(row) ==
    /\ writing' = writing \ {row}
    /\ \/ table' = Append(table, row) /\ UNCHANGED lost
       \/ lost' = lost \cup {row} /\ UNCHANGED table
    /\ UNCHANGED <<vars, logged>>

LoopDoesNext ==
    \/ LoopDoes(Advance \/ ToolEnds \/ ToolTimesOut \/ ToolStops \/ TraceEnds
                 \/ RequestCancel)
    \/ ModelReturns

\* An ended run stays ended.
RunOver == pc = "done" /\ UNCHANGED tracesVars

TracesNext ==
    \/ LoopDoesNext
    \/ ResponseArrives
    \/ \E row \in writing : WriteEnds(row)
    \/ RunOver

TracesSpec == TracesInit /\ [][TracesNext]_tracesVars

\* As AgentLoop assumes that the model, a cancelled tool and the INSERT of the
\* loop end, so does the logger's INSERT.
TracesFairness ==
    /\ WF_tracesVars(LoopDoesNext)
    /\ WF_tracesVars(ResponseArrives)
    /\ \A t \in 0..Budget :
         WF_tracesVars(LLMRow(t) \in writing /\ WriteEnds(LLMRow(t)))

TracesFairSpec == TracesSpec /\ TracesFairness

-----------------------------------------------------------------------------
(* GET /traces/{task_id}                                                   *)

\* Mutant: the replay is ordered by id alone.
ReplayedBeforeById(i, j) == i < j

\* ORDER BY turn_index, (kind <> 'llm_call'), id
ReplayedBefore(i, j) ==
    LET a == table[i]
        b == table[j]
    IN  \/ a.turn < b.turn
        \/ /\ a.turn = b.turn
           /\ \/ a.type = "llm_call" /\ b.type = "tool_call"
              \/ a.type = b.type /\ i < j

-----------------------------------------------------------------------------
(* What is true of the trace of a run *)

\* Every model call whose callback came is accounted for once: its row is in
\* the table, on its way or given up with a warning; and the table holds each
\* row once, the tool_call rows the loop believes it has written among them.
EveryCallIsAccounted ==
    LET turns == {table[i].turn : i \in {j \in DOMAIN table : table[j].type = "llm_call"}}
    IN  /\ logged \in {modelCalls - 1, modelCalls} \cap Nat
        /\ writing \cap lost = {} /\ Rows \cap (writing \cup lost) = {}
        /\ {row.turn : row \in writing \cup lost} \cup turns = 0..(logged - 1)
        /\ {<<row.turn, row.k>> : row \in {q \in Rows : q.type = "tool_call"}} = rows
        /\ \A i, j \in DOMAIN table : table[i] = table[j] => i = j

\* Though llm_call rows are inserted late and in any order, the replay has the
\* steps it shows in the order in which they happened.
ReplayInOrder ==
    \A a, b \in DOMAIN events : \A i, j \in DOMAIN table :
        /\ a < b /\ RowOf(events[a]) = table[i] /\ RowOf(events[b]) = table[j]
        => ReplayedBefore(i, j)

\* Each step a run announced is replayed in the end, or its INSERT has failed.
EveryStepIsTraced ==
    <>[](\A i \in DOMAIN events :
            \/ RowOf(events[i]) \in Rows \cup lost
            \/ /\ events[i].type = "tool_call"
               /\ <<events[i].turn, events[i].k>> \in unlogged)

-----------------------------------------------------------------------------
(* What the documentation says and the code does not do *)

\* main.py of GET /traces: "every LLM call and tool call, in order".  A step is
\* not replayed without the ones before it, failed INSERTs apart.
ReplayHasNoHoles ==
    lost = {} /\ unlogged = {} =>
        \A a, b \in DOMAIN events :
            a < b /\ RowOf(events[b]) \in Rows => RowOf(events[a]) \in Rows
=============================================================================
