--------------------------- MODULE StreamContract ---------------------------
(***************************************************************************)
(* What POST /run/stream promises (its docstring and DECISIONS.md): one    *)
(* line per step of the run, in order and as the steps happen, then one    *)
(* terminal line that says how the run ended.  A run is cut short, without *)
(* a terminal line, only if the client has left.  How the handler keeps    *)
(* this promise (a queue, polling, timeouts, cancellation) is RunStream's. *)
(***************************************************************************)
EXTENDS Naturals, Sequences

VARIABLES
    steps,    \* what the run has done, in order
    lines,    \* what the client was sent
    verdict,  \* none while the run goes on, then how it ended
    attended  \* whether the client is still there

contractVars == <<steps, lines, verdict, attended>>

Terminals == {"result", "error"}

Concluded == lines # <<>> /\ lines[Len(lines)].type \in Terminals

Init ==
    /\ steps = <<>> /\ lines = <<>>
    /\ verdict = "none" /\ attended = TRUE

\* The run takes a step, and may have its answer with it.
Step ==
    /\ verdict = "none"
    /\ Len(steps') = Len(steps) + 1
    /\ SubSeq(steps', 1, Len(steps)) = steps
    /\ verdict' \in {"none", "answered", "capped"}
    /\ UNCHANGED <<lines, attended>>

Fail ==
    /\ verdict = "none" /\ verdict' = "failed"
    /\ UNCHANGED <<steps, lines, attended>>

Abort ==
    /\ verdict = "none" /\ ~attended
    /\ verdict' = "cancelled"
    /\ UNCHANGED <<steps, lines, attended>>

Deliver ==
    /\ Len(lines) < Len(steps)
    /\ lines' = Append(lines, steps[Len(lines) + 1])
    /\ UNCHANGED <<steps, verdict, attended>>

Conclude ==
    /\ ~Concluded /\ Len(lines) = Len(steps)
    /\ verdict \in {"answered", "capped", "failed"}
    /\ Len(lines') = Len(lines) + 1
    /\ SubSeq(lines', 1, Len(lines)) = lines
    /\ lines'[Len(lines')].type = IF verdict = "failed" THEN "error" ELSE "result"
    /\ UNCHANGED <<steps, verdict, attended>>

Leave ==
    /\ attended /\ attended' = FALSE
    /\ UNCHANGED <<steps, lines, verdict>>

Next == Step \/ Fail \/ Abort \/ Deliver \/ Conclude \/ Leave

Spec == Init /\ [][Next]_contractVars
=============================================================================
