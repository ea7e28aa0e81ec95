---------------------------- MODULE RunOutline ------------------------------
(***************************************************************************)
(* A run of the agent loop as the rest of the service sees it: what it is  *)
(* waiting for, and how much it can still ask for.  AgentLoop implements   *)
(* it; Service composes several of these over one connection pool.         *)
(***************************************************************************)
EXTENDS Naturals

CONSTANTS
    Rounds,   \* the round budget, after it is clamped: 1 or more
    Parallel  \* bound: tool calls in one reply

VARIABLE run  \* a record, see Outline

At(phase, asked, todo) == [phase |-> phase, asked |-> asked, todo |-> todo]

Outline ==
    [phase: {"ready", "round", "llm", "tool", "trace", "done"},
     asked: 0..(Rounds + 1),  \* model calls made
     todo: 0..Parallel]       \* tool calls of this round still to come

NewRun == At("ready", 0, 0)

Working(r) == r.phase \in {"round", "llm", "tool", "trace"}

-----------------------------------------------------------------------------
(* The outlines that may follow r *)

Started(r) == {s \in {At("round", r.asked, r.todo)} : r.phase = "ready"}

\* A round's call of the model, or the synthesis after the last round.
Asked(r) ==
    {s \in {At("llm", r.asked + 1, r.todo)} :
        r.phase = "round" /\ r.asked <= Rounds}

\* A reply with n tool calls; none, if it is the answer.
Answered(r) ==
    {s \in {At("done", r.asked, r.todo)} : r.phase = "llm"}
    \cup
    {s \in {At("tool", r.asked, n - 1) : n \in 1..Parallel} :
        r.phase = "llm" /\ r.asked <= Rounds}

\* The tool has a result, an error or its time limit behind it.
Served(r) == {s \in {At("trace", r.asked, r.todo)} : r.phase = "tool"}

\* Written or not, the row is behind it.
Recorded(r) ==
    {s \in {At("round", r.asked, r.todo)} : r.phase = "trace" /\ r.todo = 0}
    \cup
    {s \in {At("tool", r.asked, r.todo - 1)} :
        r.phase = "trace" /\ r.todo > 0}

\* An exception or a cancellation, wherever the run waits.
Broken(r) ==
    {s \in {At("done", r.asked, 0)} :
        r.phase \in {"ready", "llm", "tool", "trace"}}

Successors(r) ==
    Started(r) \cup Asked(r) \cup Answered(r) \cup Served(r) \cup Recorded(r)
    \cup Broken(r)

-----------------------------------------------------------------------------
Init == run = NewRun

Next == run' \in Successors(run)

Spec == Init /\ [][Next]_run
=============================================================================
