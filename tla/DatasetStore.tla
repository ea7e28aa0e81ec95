---------------------------- MODULE DatasetStore ----------------------------
(***************************************************************************)
(* What a run may count on of its dataset registry (service/datasets.py):  *)
(* a handle is issued once, stays good while the run goes on, and no frame *)
(* outlives the run.  AgentLoop, which abstracts the tools to how they     *)
(* end, and Datasets, which has the tools themselves, both implement it.   *)
(***************************************************************************)
EXTENDS Naturals

VARIABLES
    held,    \* the handles in _frames
    issued,  \* _counter
    open     \* the run has not ended

storeVars == <<held, issued, open>>

Init == held = {} /\ issued = 0 /\ open = TRUE

Put ==
    /\ open
    /\ issued' = issued + 1
    /\ held' = held \cup {issued + 1}
    /\ UNCHANGED open

Clear ==
    /\ open
    /\ held' = {} /\ open' = FALSE
    /\ UNCHANGED issued

Next == Put \/ Clear

Spec == Init /\ [][Next]_storeVars
=============================================================================
