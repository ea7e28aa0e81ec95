----------------------------- MODULE RunStream ------------------------------
(***************************************************************************)
(* service/main.py, POST /run/stream, and its client, agent.py --trace.    *)
(* The handler's generator owns one run of AgentLoop, a task on the same   *)
(* event loop.  The run puts its events on an unbounded queue; the         *)
(* generator takes them off, yields each as a line, then yields a result   *)
(* or an error line, and never ends before its run.                        *)
(*                                                                         *)
(* Only one coroutine runs at a time, so a step of the generator happens   *)
(* while the run is suspended at an await (pc # "round").  gen is where    *)
(* the generator is suspended:                                             *)
(*   new      the body is not being iterated yet: there is no run          *)
(*   check    awaiting request.is_disconnected()                           *)
(*   get      awaiting wait_for(queue.get(), 0.5), the queue was empty     *)
(*   take     the same, but with an event on the queue: get returns at once*)
(*   yield    suspended at the yield of an event line                      *)
(*   last     suspended at the yield of the result or error line           *)
(*   closing  awaiting the run in the finally clause                       *)
(*   closed   finished                                                     *)
(*   refused  the request has failed before there was a generator          *)
(***************************************************************************)
EXTENDS AgentLoop

VARIABLES
    gen,    \* where the generator is suspended
    taken,  \* events taken off the queue
    sent,   \* lines yielded
    client, \* reading, finished (read to the end), gone (it disconnected),
            \* or cut (its connection was refused, lost or timed out)
    read,   \* lines the client has read
    exit    \* exit status of the client: 0, 1, 2, 130, or -1 while it runs

stream == <<gen, taken, sent>>
reader == <<client, read, exit>>
streamVars == <<vars, stream, reader>>

ResultLine == [type |-> "result", turn |-> 0, k |-> 0]
ErrorLine  == [type |-> "error",  turn |-> 0, k |-> 0]

StreamInit ==
    /\ Init
    /\ gen = "new" /\ taken = 0 /\ sent = <<>>
    /\ client = "reading" /\ read = 0 /\ exit = -1

-----------------------------------------------------------------------------
(* The generator *)

RunDone == pc = "done"
QueueEmpty == taken = Len(events)
Disconnected == client \in {"gone", "cut"}

\* run_task.cancel() on a task that is not done.
CancelRun ==
    /\ cancel' = IF RunDone THEN cancel ELSE "pending"
    /\ UNCHANGED <<pc, outcome, progress, chat, dataset, traces, events>>

\* The while condition and what follows the loop: another look at the client,
\* or the terminal line, or nothing at all after a cancelled run.
LoopHead ==
    IF ~(RunDone /\ QueueEmpty)
    THEN gen' = "check" /\ UNCHANGED <<taken, sent>>
    ELSE IF outcome = "cancelled"
    THEN gen' = "closing" /\ UNCHANGED <<taken, sent>>
    ELSE /\ gen' = "last"
         /\ sent' = Append(sent, IF outcome = "failed" THEN ErrorLine ELSE ResultLine)
         /\ UNCHANGED taken

\* The body is iterated for the first time: the task is created.
Open ==
    /\ gen = "new"
    /\ LoopHead
    /\ UNCHANGED <<vars, reader>>

\* The client is still there: wait for an event.
StillConnected ==
    /\ gen = "check" /\ pc # "round" /\ ~Disconnected
    /\ gen' = IF QueueEmpty THEN "get" ELSE "take"
    /\ UNCHANGED <<vars, taken, sent, reader>>

\* Mutant: the run is awaited without being cancelled.
SeesDisconnectOnly ==
    /\ gen = "check" /\ pc # "round" /\ Disconnected
    /\ gen' = "closing"
    /\ UNCHANGED <<vars, taken, sent, reader>>

\* The client is gone: abort the run and leave through the finally clause.
SeesDisconnect ==
    /\ gen = "check" /\ pc # "round" /\ Disconnected
    /\ gen' = "closing"
    /\ CancelRun
    /\ UNCHANGED <<taken, sent, reader>>

\* queue.get() has an event.  A get that is done is not timed out or cancelled
\* any more, so an event taken off the queue is always yielded.
GetsEvent ==
    /\ gen \in {"get", "take"} /\ pc # "round" /\ ~QueueEmpty
    /\ gen' = "yield"
    /\ taken' = taken + 1
    /\ sent' = Append(sent, events[taken + 1])
    /\ UNCHANGED <<vars, reader>>

\* Mutant: a timeout waits again without a look at the run.
GetTimesOutAndWaits ==
    /\ gen = "get" /\ pc # "round" /\ QueueEmpty
    /\ UNCHANGED streamVars

\* Mutant: an event that arrives as the timer fires is taken and dropped.
GetTimesOutDropping ==
    /\ gen = "get" /\ pc # "round"
    /\ IF QueueEmpty THEN LoopHead
       ELSE gen' = "check" /\ taken' = taken + 1 /\ UNCHANGED sent
    /\ UNCHANGED <<vars, reader>>

\* Half a second has passed.  An event may have arrived as the timer fired:
\* the cancelled get leaves it on the queue.
GetTimesOut ==
    /\ gen = "get" /\ pc # "round"
    /\ LoopHead
    /\ UNCHANGED <<vars, reader>>

\* Mutant: an event is accounted for when it is taken and when it was sent.
YieldResumesCountingTwice ==
    /\ gen = "yield" /\ pc # "round"
    /\ gen' = "check" /\ taken' = taken + 1
    /\ UNCHANGED <<vars, sent, reader>>

\* The line is with the transport (or dropped, if the client is gone) and the
\* generator is asked for the next one.
YieldResumes ==
    /\ gen = "yield" /\ pc # "round"
    /\ LoopHead
    /\ UNCHANGED <<vars, reader>>

\* After the terminal line only the finally clause is left.
LastResumes ==
    /\ gen = "last"
    /\ gen' = "closing"
    /\ UNCHANGED <<vars, taken, sent, reader>>

\* Starlette notices the disconnect itself and cancels the response: the
\* generator is closed at whatever it awaits, and its finally clause cancels
\* the run if it is not done.
ResponseCancelled ==
    /\ gen \in {"check", "get", "take", "yield", "last"} /\ pc # "round"
    /\ Disconnected
    /\ gen' = "closing"
    /\ CancelRun
    /\ UNCHANGED <<taken, sent, reader>>

\* A cancellation of the response while it awaits the run is passed on to the
\* run: one that was lost, or that waits for a tool to end, may be repeated.
CancelAgain ==
    /\ gen = "closing" /\ Disconnected /\ cancel \in {"lost", "raised"}
    /\ pc \in Suspended
    /\ CancelRun
    /\ UNCHANGED <<stream, reader>>

\* Mutant: the run is not awaited.
CloseAtOnce ==
    /\ gen = "closing"
    /\ gen' = "closed"
    /\ UNCHANGED <<vars, taken, sent, reader>>

\* await run_task returns, whatever it raises.
Close ==
    /\ gen = "closing" /\ RunDone
    /\ gen' = "closed"
    /\ UNCHANGED <<vars, taken, sent, reader>>

-----------------------------------------------------------------------------
(* The client *)

ResultRead == \E i \in 1..read : sent[i] = ResultLine

\* _stream_run prints an event, keeps a result, and gives up on an error.
ReadsLine ==
    /\ client = "reading" /\ read < Len(sent)
    /\ read' = read + 1
    /\ IF sent[read + 1] = ErrorLine
       THEN client' = "gone" /\ exit' = 2
       ELSE UNCHANGED <<client, exit>>
    /\ UNCHANGED <<vars, stream>>

\* The stream has ended: 0 if a result was read, 2 if there was none.
ReadsEnd ==
    /\ client = "reading" /\ gen = "closed" /\ read = Len(sent)
    /\ client' = "finished"
    /\ exit' = IF ResultRead THEN 0 ELSE 2
    /\ UNCHANGED <<vars, stream, read>>

\* Ctrl-C: the connection is closed.
Interrupt ==
    /\ client = "reading"
    /\ client' = "gone" /\ exit' = 130
    /\ UNCHANGED <<vars, stream, read>>

\* urlopen raises HTTPError (the request is not accepted) or URLError (there is
\* nobody to accept it): _fail returns 2, and no run is made.
RequestRefused ==
    /\ client = "reading" /\ gen = "new" /\ gen' = "refused"
    /\ client' = "cut" /\ exit' = 2
    /\ UNCHANGED <<vars, taken, sent, read>>

\* Mutant: a stream that was cut after some event is taken for a whole one.
ConnectionLostUnnoticed ==
    /\ client = "reading" /\ gen # "refused"
    /\ client' = "cut"
    /\ exit' = IF read > 0 THEN 0 ELSE 2
    /\ UNCHANGED <<vars, stream, read>>

\* The connection is lost under the client, or nothing has come for --timeout
\* seconds.  An end between two chunks looks like the end of the stream; any
\* other, and the timeout, raises what main does not catch (1).
ConnectionLost ==
    /\ client = "reading" /\ gen # "refused"
    /\ client' = "cut"
    /\ exit' \in {1, IF ResultRead THEN 0 ELSE 2}
    /\ UNCHANGED <<vars, stream, read>>

GeneratorSteps ==
    \/ Open \/ StillConnected \/ SeesDisconnect \/ GetsEvent \/ GetTimesOut
    \/ YieldResumes \/ LastResumes \/ Close

ClientReads == ReadsLine \/ ReadsEnd

\* The response is over, if there was one, and the client has left.
Over == gen \in {"closed", "refused"} /\ client # "reading"

AllEnded == Over /\ UNCHANGED streamVars

\* The task exists from the first iteration of the generator's body on.
RunStep(A) ==
    /\ gen \notin {"new", "refused"}
    /\ A
    /\ UNCHANGED <<stream, reader>>

StreamNext ==
    \/ RunStep(LoopStep) \/ GeneratorSteps \/ ResponseCancelled \/ CancelAgain
    \/ ClientReads \/ Interrupt \/ RequestRefused \/ ConnectionLost \/ AllEnded

\* The event loop runs every coroutine that is ready, and timers fire.
\* Nobody has to interrupt, Starlette's own cancellation need not come, and a
\* lost one need not be repeated.
CodeFairness ==
    /\ WF_streamVars(RunStep(Advance))
    /\ WF_streamVars(RunStep(ToolTimesOut))
    /\ WF_streamVars(GeneratorSteps)

\* A tool may hang, but not once it was cancelled.
CancelledToolsEnd == WF_streamVars(RunStep(ToolStops))

\* The model and the trace INSERT end as well, and the client reads what it is
\* sent.
PeerFairness ==
    /\ CancelledToolsEnd
    /\ WF_streamVars(RunStep(ModelEnds))
    /\ WF_streamVars(RunStep(TraceEnds))
    /\ WF_streamVars(ClientReads)

StreamSpec == StreamInit /\ [][StreamNext]_streamVars

\* The peers of the handler may hang for ever: PeerFairness is not assumed.
HangingSpec == StreamSpec /\ CodeFairness

-----------------------------------------------------------------------------
(* Properties *)

StreamTypeOK ==
    /\ gen \in {"new", "check", "get", "take", "yield", "last", "closing",
               "closed", "refused"}
    /\ taken \in 0..Len(events)
    /\ sent \in Seq([type : {"llm_call", "tool_call", "result", "error"},
                     turn : Nat, k : Nat])
    /\ client \in {"reading", "finished", "gone", "cut"}
    /\ read \in 0..Len(sent)
    /\ exit \in {-1, 0, 1, 2, 130}

\* The handler never leaves its run behind: when the response is over the run
\* is done and its datasets are dropped, even if the client left in between.
NoRunOutlivesItsStream == gen = "closed" => pc = "done" /\ frames = {}

\* The client's exit status tells what happened: 0 only for a run with an
\* answer whose every event it read; 2, unless its connection was refused or
\* lost before it had a result, only for a run that failed and told it why.
ExitStatusIsHonest ==
    /\ exit = 0 => /\ outcome \in {"answered", "capped"}
                   /\ read = Len(events) + 1
    /\ exit = 2 /\ client # "cut" => /\ outcome = "failed"
                                     /\ read = Len(events) + 1
    /\ exit = 2 /\ client = "cut" => read <= Len(events) /\ ~ResultRead

\* A disconnect ends the run even if the model and the INSERT hang for ever
\* (DECISIONS.md: "a client disconnect cancels the agent loop server-side"),
\* and with them every tool until it is cancelled, unless wait_for swallowed
\* the cancellation of a run whose tool had just finished.
DisconnectEndsTheRun ==
    CancelledToolsEnd =>
        (Disconnected ~> (pc = "done" \/ cancel = "lost" \/ gen = "refused"))

\* With peers that do not hang, every client is let go: its stream ends, and
\* nothing is left to wait for.
EveryStreamEnds == PeerFairness => <>Over

-----------------------------------------------------------------------------
(* The promise kept: what the client was sent, as StreamContract has it *)

Contract == INSTANCE StreamContract WITH
    steps    <- events,
    lines    <- sent,
    verdict  <- outcome,
    attended <- ~Disconnected

\* Queue, polling, timeouts and cancellation together deliver each event once,
\* in order, then the right terminal line; a run that is cut short without one
\* had lost its client.
ImplementsContract == Contract!Spec
=============================================================================
