----------------------------- MODULE AgentLoop ------------------------------
(***************************************************************************)
(* service/loop.py: run_agent, which drives one task to its end.  A run    *)
(* alternates a call of the model with the tool calls the model asked for, *)
(* compacts the conversation before a call when it has grown, and ends     *)
(* with an answer, with a synthesis call when its round budget is used up, *)
(* with an exception, or cancelled.                                        *)
(*                                                                         *)
(* The coroutine gives up control at its awaits only, so pc names them:    *)
(*   ready  the task exists and its coroutine has not been entered         *)
(*   round  the head of the for loop (no await: nothing can intervene)     *)
(*   llm    awaiting litellm.acompletion with tools                        *)
(*   tool   awaiting asyncio.wait_for(tools.dispatch(...))                 *)
(*   woken  the dispatched tool is done, wait_for has not resumed yet      *)
(*   stopping  wait_for has cancelled the tool and awaits its end          *)
(*   trace  awaiting the INSERT of the tool_call row                       *)
(*   synth  awaiting the tool-free litellm.acompletion                     *)
(*   done   the coroutine has returned or raised                           *)
(***************************************************************************)
EXTENDS Compaction, FiniteSets

CONSTANTS
    MaxRoundsWithToolCalls, \* the argument, before it is clamped
    MaxCalls,               \* bound: tool calls in one reply
    ReplyWeights,           \* tokens of a reply's text
    ResultWeights,          \* tokens of a tool result's text
    InputTokens,            \* usage.prompt_tokens of one call (0: not reported)
    ReplyTexts,             \* what the text of a tool-calling reply shows
    Thinking,               \* whether replies carry thinking blocks
    ToolOutcomes,           \* how a tool may end, see ToolReturns
    Cancellable             \* whether somebody may cancel the run

ASSUME LoopAssumption ==
    /\ MaxRoundsWithToolCalls \in Int
    /\ MaxCalls \in Nat
    /\ ReplyWeights \subseteq Nat \ {0} /\ ReplyWeights # {}
    /\ ResultWeights \subseteq Nat \ {0} /\ ResultWeights # {}
    /\ InputTokens \subseteq Nat /\ InputTokens # {}
    /\ ReplyTexts \subseteq {{}, {WorkTopic}} /\ ReplyTexts # {}
    /\ Thinking \subseteq BOOLEAN /\ Thinking # {}
    /\ ToolOutcomes \subseteq {"ok", "error", "load", "leak"} /\ ToolOutcomes # {}
    /\ Cancellable \in BOOLEAN

VARIABLES
    pc,          \* where the coroutine is suspended
    outcome,     \* how the run ended
    turn,        \* the loop variable; Budget once the loop is left
    requested,   \* len(msg.tool_calls) of the current turn
    call,        \* the tool call being served, 1..requested
    result,      \* tool_result of that call
    messages,    \* the conversation
    cumInput,    \* cumulative_input
    compactions, \* how often the conversation was compacted
    modelCalls,  \* acompletion calls issued so far
    counter,     \* DatasetRegistry._counter
    frames,      \* the handles held in DatasetRegistry._frames
    rows,        \* tool calls with a tool_call row in traces
    unlogged,    \* tool calls whose row could not be written
    events,      \* what on_event was given, in order
    cancel       \* none, pending (Task.cancel was called), lost, or raised
                 \* in wait_for, which first awaits the tool it cancelled

dataset  == <<counter, frames>>
traces   == <<rows, unlogged>>
progress == <<turn, requested, call, result>>
chat     == <<messages, cumInput, compactions, modelCalls>>
vars == <<pc, outcome, progress, chat, dataset, traces, events, cancel>>

\* max(1, max_rounds_with_tool_calls)
Budget == IF MaxRoundsWithToolCalls < 1 THEN 1 ELSE MaxRoundsWithToolCalls

Suspended == {"ready", "llm", "tool", "woken", "stopping", "trace", "synth"}

NoResult == [handle |-> 0, weight |-> 0]

-----------------------------------------------------------------------------
(* Messages and events *)

TextMessage(role, uses, answers, thinking, weight, opening, ending, shows) ==
    [role |-> role, uses |-> uses, answers |-> answers, thinking |-> thinking,
     weight |-> weight, opening |-> opening, ending |-> ending, shows |-> shows]

\* The prompt and the task are longer than what a summary quotes of them: of
\* the prompt, its first 100 characters; of the task, its first 200.
SystemMessage == TextMessage("system", {}, {}, FALSE, 1, {}, {}, {SystemTopic})
TaskMessage   == TextMessage("user", {}, {}, FALSE, 1,
                             {TaskTopic}, {}, {TaskTopic, RestTopic})

CallIdsOf(t, n) == {<<t, k>> : k \in 1..n}

AssistantMessage(n, thinks, weight, text) ==
    TextMessage("assistant", CallIdsOf(turn, n), {}, thinks, weight,
                text, text, text)

\* describe puts the handle first, so a loader's result opens with it.
ToolMessage(res) ==
    LET opening == {WorkTopic} \cup
                     (IF res.handle = 0 THEN {} ELSE {HandleTopic(res.handle)})
    IN  TextMessage("tool", {}, {<<turn, call>>}, FALSE, res.weight,
                    opening, {WorkTopic}, opening)

\* k is the number of calls asked for, or the place of the call served.
LLMEvent(n)   == [type |-> "llm_call",  turn |-> turn, k |-> n]
ToolEvent     == [type |-> "tool_call", turn |-> turn, k |-> call]

-----------------------------------------------------------------------------
Init ==
    /\ pc = "ready" /\ outcome = "none"
    /\ turn = 0 /\ requested = 0 /\ call = 0 /\ result = NoResult
    /\ messages = <<>>
    /\ cumInput = 0 /\ compactions = 0 /\ modelCalls = 0
    /\ counter = 0 /\ frames = {}
    /\ rows = {} /\ unlogged = {}
    /\ events = <<>>
    /\ cancel = "none"

\* The finally clause: every way out of the try drops the loaded frames.
Finish(how) ==
    /\ pc' = "done"
    /\ outcome' = how
    /\ frames' = {}
    /\ UNCHANGED counter

\* The coroutine is entered and seeds the conversation.
Start ==
    /\ pc = "ready" /\ cancel # "pending"
    /\ pc' = "round"
    /\ messages' = <<SystemMessage, TaskMessage>>
    /\ UNCHANGED <<outcome, progress, cumInput, compactions, modelCalls,
                   dataset, traces, events, cancel>>

\* Mutant: the loop runs one round too many.
BeginRoundPastBudget ==
    /\ pc = "round" /\ turn <= Budget
    /\ modelCalls' = modelCalls + 1
    /\ pc' = "llm"
    /\ UNCHANGED <<outcome, progress, messages, cumInput, compactions, dataset,
                   traces, events, cancel>>

\* The head of the loop: compact if it is time to, then call the model.
BeginRound ==
    /\ pc = "round" /\ turn < Budget
    /\ LET compacted == CompactMessages(messages)
       IN  IF ShouldCompact(messages, cumInput) /\ compacted.removed > 0
           THEN /\ messages' = compacted.messages
                /\ compactions' = compactions + 1
           ELSE UNCHANGED <<messages, compactions>>
    /\ modelCalls' = modelCalls + 1
    /\ pc' = "llm"
    /\ UNCHANGED <<outcome, progress, cumInput, dataset, traces, events, cancel>>

\* The reply is counted, appended and announced; without tool calls it is
\* the answer, otherwise the first call is dispatched.
ModelReplies(n, thinks, weight, tokens, text) ==
    /\ pc = "llm" /\ cancel # "pending"
    /\ cumInput' = cumInput + tokens
    /\ messages' = Append(messages, AssistantMessage(n, thinks, weight, text))
    /\ events' = Append(events, LLMEvent(n))
    /\ requested' = n
    /\ IF n = 0
       THEN Finish("answered") /\ UNCHANGED call
       ELSE pc' = "tool" /\ call' = 1 /\ UNCHANGED <<outcome, dataset>>
    /\ UNCHANGED <<turn, result, compactions, modelCalls, traces, cancel>>

\* acompletion raises, or its response has no choice to read.
ModelFails ==
    /\ pc \in {"llm", "synth"} /\ cancel # "pending"
    /\ Finish("failed")
    /\ UNCHANGED <<progress, chat, traces, events, cancel>>

\* Mutant: the registry keeps the newest frame only.
ToolReturnsReplacingFrames(how, weight) ==
    /\ pc = "tool"
    /\ IF how \in {"load", "leak"}
       THEN counter' = counter + 1 /\ frames' = {counter + 1}
       ELSE UNCHANGED dataset
    /\ result' = [handle |-> IF how = "load" THEN counter + 1 ELSE 0,
                  weight |-> weight]
    /\ pc' = "woken"
    /\ UNCHANGED <<outcome, turn, requested, call, chat, traces, events, cancel>>

\* tools.dispatch runs to its end.  A load puts a frame into the registry and
\* returns its handle; a leak is a load whose describe raises after the put,
\* which dispatch turns into an error that names no handle.
ToolReturns(how, weight) ==
    /\ pc = "tool"
    /\ IF how \in {"load", "leak"}
       THEN counter' = counter + 1 /\ frames' = frames \cup {counter + 1}
       ELSE UNCHANGED dataset
    /\ result' = [handle |-> IF how = "load" THEN counter + 1 ELSE 0,
                  weight |-> weight]
    /\ pc' = "woken"
    /\ UNCHANGED <<outcome, turn, requested, call, chat, traces, events, cancel>>

\* wait_for resumes with the finished tool's result.  A cancellation that
\* arrived in between finds the inner task done, and wait_for returns its
\* result instead of raising: the cancellation is lost.
ToolResumes ==
    /\ pc = "woken"
    /\ pc' = "trace"
    /\ cancel' = IF cancel = "pending" THEN "lost" ELSE cancel
    /\ UNCHANGED <<outcome, progress, chat, dataset, traces, events>>

\* 30 seconds have passed: wait_for cancels the tool.
ToolTimesOut ==
    /\ pc = "tool" /\ cancel # "pending"
    /\ pc' = "stopping"
    /\ UNCHANGED <<outcome, progress, chat, dataset, traces, events, cancel>>

\* The run is cancelled while its tool works: so does wait_for, which awaits
\* the tool's end before it raises.
CancelsTool ==
    /\ pc = "tool" /\ cancel = "pending"
    /\ pc' = "stopping" /\ cancel' = "raised"
    /\ UNCHANGED <<outcome, progress, chat, dataset, traces, events>>

\* Mutant: a tool that timed out is dispatched again.
ToolStopsAndRetries ==
    /\ pc = "stopping" /\ cancel # "pending"
    /\ IF cancel = "raised"
       THEN Finish("cancelled") /\ UNCHANGED result
       ELSE /\ result' = [handle |-> 0, weight |-> 1] /\ pc' = "tool"
            /\ UNCHANGED <<outcome, dataset>>
    /\ UNCHANGED <<turn, requested, call, chat, traces, events, cancel>>

\* The cancelled tool has ended, its connections given back.  CancelledError
\* passes dispatch's except Exception, so there is no frame and no handle: the
\* run ends if it was cancelled itself, and else records an error result.
ToolStops ==
    /\ pc = "stopping" /\ cancel # "pending"
    /\ IF cancel = "raised"
       THEN Finish("cancelled") /\ UNCHANGED result
       ELSE /\ result' = [handle |-> 0, weight |-> 1] /\ pc' = "trace"
            /\ UNCHANGED <<outcome, dataset>>
    /\ UNCHANGED <<turn, requested, call, chat, traces, events, cancel>>

\* Mutant: the test for the last call is off by one.
ServeNextPastTheLast ==
    /\ messages' = Append(messages, ToolMessage(result))
    /\ events' = Append(events, ToolEvent)
    /\ result' = NoResult
    /\ IF call <= requested
       THEN pc' = "tool" /\ call' = call + 1 /\ UNCHANGED turn
       ELSE pc' = "round" /\ call' = 0 /\ turn' = turn + 1

\* What follows the INSERT whether or not it succeeded: the tool message is
\* appended and announced, then the next call, or the next round, begins.
ServeNext ==
    /\ messages' = Append(messages, ToolMessage(result))
    /\ events' = Append(events, ToolEvent)
    /\ result' = NoResult
    /\ IF call < requested
       THEN pc' = "tool" /\ call' = call + 1 /\ UNCHANGED turn
       ELSE pc' = "round" /\ call' = 0 /\ turn' = turn + 1

TraceWritten ==
    /\ pc = "trace" /\ cancel # "pending"
    /\ rows' = rows \cup {<<turn, call>>}
    /\ ServeNext
    /\ UNCHANGED <<outcome, requested, cumInput, compactions, modelCalls,
                   dataset, unlogged, cancel>>

\* Mutant: a failed INSERT goes on to the next call at once.
TraceFailsAndContinues ==
    /\ pc = "trace" /\ cancel # "pending"
    /\ unlogged' = unlogged \cup {<<turn, call>>}
    /\ result' = NoResult
    /\ IF call < requested
       THEN pc' = "tool" /\ call' = call + 1 /\ UNCHANGED turn
       ELSE pc' = "round" /\ call' = 0 /\ turn' = turn + 1
    /\ UNCHANGED <<outcome, requested, messages, cumInput, compactions,
                   modelCalls, dataset, rows, events, cancel>>

\* Mutant: the except clause is outside of the loop over the calls.
TraceFailsAndBreaks ==
    /\ pc = "trace" /\ cancel # "pending"
    /\ unlogged' = unlogged \cup {<<turn, call>>}
    /\ messages' = Append(messages, ToolMessage(result))
    /\ events' = Append(events, ToolEvent)
    /\ result' = NoResult
    /\ pc' = "round" /\ call' = 0 /\ turn' = turn + 1
    /\ UNCHANGED <<outcome, requested, cumInput, compactions, modelCalls,
                   dataset, rows, cancel>>

\* The INSERT raises (no pool, a lost connection, a result that is no longer
\* JSON after the cut at 1,000,000 characters); the loop only warns.
TraceFails ==
    /\ pc = "trace" /\ cancel # "pending"
    /\ unlogged' = unlogged \cup {<<turn, call>>}
    /\ ServeNext
    /\ UNCHANGED <<outcome, requested, cumInput, compactions, modelCalls,
                   dataset, rows, cancel>>

\* The budget is used up: one more call, without tools and without compaction.
BeginSynthesis ==
    /\ pc = "round" /\ turn = Budget
    /\ modelCalls' = modelCalls + 1
    /\ pc' = "synth"
    /\ UNCHANGED <<outcome, progress, messages, cumInput, compactions, dataset,
                   traces, events, cancel>>

\* Mutant: the event carries the loop variable as the loop left it.
SynthesisRepliesStaleTurn(tokens) ==
    /\ pc = "synth" /\ cancel # "pending"
    /\ cumInput' = cumInput + tokens
    /\ events' = Append(events, [type |-> "llm_call", turn |-> turn - 1, k |-> 0])
    /\ Finish("capped")
    /\ UNCHANGED <<progress, messages, compactions, modelCalls, traces, cancel>>

SynthesisReplies(tokens) ==
    /\ pc = "synth" /\ cancel # "pending"
    /\ cumInput' = cumInput + tokens
    /\ events' = Append(events, LLMEvent(0))
    /\ Finish("capped")
    /\ UNCHANGED <<progress, messages, compactions, modelCalls, traces, cancel>>

\* CancelledError is raised at the await; an INSERT that was under way may or
\* may not have reached the table.  In woken, wait_for swallows it; a tool is
\* stopped first (CancelsTool), but a cancelled tool is not awaited any longer.
Cancelled ==
    /\ pc \in Suspended \ {"woken", "tool"} /\ cancel = "pending"
    /\ \/ UNCHANGED rows
       \/ pc = "trace" /\ rows' = rows \cup {<<turn, call>>}
    /\ Finish("cancelled")
    /\ UNCHANGED <<progress, chat, unlogged, events, cancel>>

\* Somebody calls Task.cancel() while the coroutine is suspended.
RequestCancel ==
    /\ Cancellable
    /\ pc \in Suspended /\ cancel = "none"
    /\ cancel' = "pending"
    /\ UNCHANGED <<pc, outcome, progress, chat, dataset, traces, events>>

\* An ended run stays ended: its task holds the result.
Ended == pc = "done" /\ UNCHANGED vars

ModelEnds ==
    \/ \E n \in 0..MaxCalls, thinks \in Thinking, weight \in ReplyWeights,
         tokens \in InputTokens, text \in ReplyTexts :
         ModelReplies(n, thinks, weight, tokens, text)
    \/ \E tokens \in InputTokens : SynthesisReplies(tokens)
    \/ ModelFails

TraceEnds == TraceWritten \/ TraceFails

ToolEnds == \E how \in ToolOutcomes, weight \in ResultWeights :
              ToolReturns(how, weight)

Advance ==
    \/ Start \/ BeginRound \/ BeginSynthesis \/ ToolResumes
    \/ CancelsTool \/ Cancelled

LoopStep ==
    \/ Advance \/ ModelEnds \/ ToolEnds \/ ToolTimesOut \/ ToolStops
    \/ TraceEnds

Next == LoopStep \/ RequestCancel \/ Ended

\* The event loop resumes a coroutine that is ready to run, and the timer of
\* wait_for fires.  That the model and the INSERT end one way or the other is
\* assumed of LiteLLM and of PostgreSQL.  A tool may hang, but one that was
\* cancelled ends: what it does then is asyncpg's (cancel the statement, give
\* the connection back) or nothing at all.
Fairness ==
    /\ WF_vars(Advance)
    /\ WF_vars(ModelEnds)
    /\ WF_vars(ToolTimesOut)
    /\ WF_vars(ToolStops)
    /\ WF_vars(TraceEnds)

Spec == Init /\ [][Next]_vars

FairSpec == Spec /\ Fairness

-----------------------------------------------------------------------------
(* What is true of every run *)

ToolResult == [handle: Nat, weight: Nat]
Event == [type: {"llm_call", "tool_call"}, turn: Nat, k: Nat]

\* The types of the variables, with the ranges the counters stay in.
TypeOK ==
    /\ pc \in Suspended \cup {"round", "done"}
    /\ outcome \in {"none", "answered", "capped", "failed", "cancelled"}
    /\ turn \in 0..Budget
    /\ requested \in 0..MaxCalls
    /\ call \in 0..MaxCalls
    /\ result \in ToolResult
    /\ messages \in Seq(Message)
    /\ cumInput \in Nat /\ compactions \in Nat /\ modelCalls \in Nat
    /\ counter \in Nat
    /\ frames \subseteq 1..counter
    /\ rows \subseteq CallIds /\ unlogged \subseteq CallIds
    /\ events \in Seq(Event)
    /\ cancel \in {"none", "pending", "raised", "lost"}

Shown(ms) == UNION {ms[i].shows : i \in DOMAIN ms}

\* Every tool result in the conversation answers a call that stands earlier in
\* it, across any number of compactions (walk-back plus verbatim tail).
Paired ==
    \A j \in DOMAIN messages : \A id \in messages[j].answers :
        \E i \in 1..(j - 1) : id \in messages[i].uses

\* What is sent to the provider is a conversation it accepts: an assistant
\* message that makes n calls is followed at once by their n results in order,
\* and there is no other result.
RequestWellFormed ==
    pc \in {"llm", "synth"} =>
        /\ ToolUseIds(messages) = ToolResultIds(messages)
        /\ \A i \in DOMAIN messages :
             \A id \in messages[i].uses :
                /\ i + id[2] \in DOMAIN messages
                /\ messages[i + id[2]].answers = {id}

\* A tool result reaches the model verbatim at least once: no compaction
\* summarises the results of the turn that has just ended.  It takes a
\* COMPACTION_PRESERVE_RECENT of 1 or more.
FreshResultsReachTheModel ==
    PreserveRecent >= 1 /\ pc \in {"llm", "synth"} /\ turn > 0 =>
        CallIdsOf(turn - 1, requested) \subseteq ToolResultIds(messages)

\* compaction.py says of its orphan backstop that the walk-back makes it
\* unreachable: whenever the loop may compact, the summary and the tail answer
\* only calls they hold.
OrphanBackstopUnreachable ==
    pc = "round" /\ CutOf(messages) > 0 =>
        ~HasOrphanToolResults(SummaryAndTail(messages))

\* One compaction forgets neither how the task opens nor a dataset the run
\* still holds: the timeline quotes the opening of each compacted message, and
\* describe puts the handle there.  (A leaked frame was never named to the
\* model, and what a long task says behind its opening is not kept.)
OneCompactionRemembers ==
    compactions <= 1 /\ pc \notin {"ready", "done"} =>
        /\ TaskTopic \in Shown(messages)
        /\ "leak" \notin ToolOutcomes =>
             \A h \in frames : HandleTopic(h) \in Shown(messages) \/ result.handle = h

HandlesIn(shown) == {t[2] : t \in {s \in shown : s[1] = "handle"}}

\* A handle the conversation names is one the registry still holds, as long as
\* the run can use it, and no two results name the same one.
HandlesAreLive ==
    pc # "done" =>
        /\ HandlesIn(Shown(messages)) \subseteq frames
        /\ result.handle \in frames \cup {0}
        /\ \A i, j \in DOMAIN messages :
             /\ i # j /\ messages[i].role = "tool" /\ messages[j].role = "tool"
             => HandlesIn(messages[i].shows) \cap HandlesIn(messages[j].shows) = {}

\* DECISIONS.md: a run makes at most budget + 1 model calls, and the extra one
\* only when the budget was used up with results pending.
BudgetBound ==
    /\ modelCalls <= Budget + 1
    /\ modelCalls = Budget + 1 => turn = Budget
    /\ outcome = "capped" => modelCalls = Budget + 1

\* The events of a run are a transcript: rounds count up from 0, an llm_call
\* that asks for n tools is followed by tool_calls 1..n of its round and by
\* nothing else, and the synthesis comes after the last round.
TranscriptInOrder ==
    \A i \in DOMAIN events :
        LET e == events[i]
            llm == {j \in 1..i : events[j].type = "llm_call"}
            last == CHOOSE j \in llm : \A l \in llm : l <= j
        IN  /\ llm # {}
            /\ e.type = "tool_call" =>
                 /\ e.turn = events[last].turn
                 /\ e.k = i - last
                 /\ e.k <= events[last].k
            /\ e.type = "llm_call" /\ i = 1 => e.turn = 0
            /\ e.type = "llm_call" /\ i > 1 =>
                 /\ e.turn = events[i - 1].turn + 1
                 /\ events[i - 1].type = "tool_call"
                 /\ \E j \in 1..(i - 1) :
                      /\ events[j].type = "llm_call"
                      /\ events[j].turn = events[i - 1].turn
                      /\ events[j].k = events[i - 1].k

Announced == {<<events[i].turn, events[i].k>> :
                i \in {j \in DOMAIN events : events[j].type = "tool_call"}}

\* traces and the event stream tell the same story: a tool call is announced
\* once its row was written or given up, never both; the only row without an
\* event is the one whose INSERT a cancellation interrupted.
TraceMatchesEvents ==
    /\ rows \cap unlogged = {}
    /\ Announced \subseteq rows \cup unlogged
    /\ (rows \cup unlogged) \ Announced \subseteq
          IF outcome = "cancelled" THEN {<<turn, call>>} ELSE {}

\* No tool works unseen: each call the model asked for has a row, or a failed
\* INSERT, before the run goes on to the next; only the call a run is in when it
\* is cancelled, and those after it, may be without.
NoToolUnrecorded ==
    \A i \in DOMAIN events : \A k \in 1..events[i].k :
        \/ <<events[i].turn, k>> \in rows \cup unlogged
        \/ /\ events[i].turn = turn /\ call \in 1..k
           /\ outcome \in {"none", "cancelled"}

\* The registry's memory is bounded to the run: no frame outlives it, however
\* it ends (DECISIONS.md, "Dataset lifecycle").
RegistryClearedAtEnd == pc = "done" => frames = {}

Store == INSTANCE DatasetStore
            WITH held <- frames, issued <- counter, open <- pc # "done"

\* Seen from a run's conversation the registry is the DatasetStore: a handle is
\* issued once and stays good until the run, however it ends, drops them all.
ImplementsStore == Store!Spec

\* What the rest of the service sees of the run.
Outlined ==
    [phase |-> IF pc = "synth" THEN "llm"
               ELSE IF pc \in {"woken", "stopping"} THEN "tool" ELSE pc,
     asked |-> modelCalls,
     todo  |-> IF pc \in {"tool", "woken", "stopping", "trace"}
               THEN requested - call ELSE 0]

Outline == INSTANCE RunOutline
              WITH Rounds <- Budget, Parallel <- MaxCalls, run <- Outlined

\* Timeouts, failures, lost cancellations and compaction included, a run is one
\* of those that Service shares the pool among.
ImplementsOutline == Outline!Spec

\* One hung tool cannot stall a run (loop.py, the comment on
\* _TOOL_TIMEOUT_SECONDS): every run ends, whatever its tools do until they are
\* cancelled, and whoever cancels the run at which moment.
RunTerminates == <>(pc = "done")

-----------------------------------------------------------------------------
(* What the documentation says and the code does not do *)

\* DECISIONS.md: "the system prompt instructs the agent to decline rather than
\* improvise".  The prompt would have to be in every request.
SystemPromptInEveryRequest ==
    pc \in {"llm", "synth"} => SystemTopic \in Shown(messages)

\* compaction.py: the summary keeps the "recent user requests".
TaskInEveryRequest ==
    pc \in {"llm", "synth"} => TaskTopic \in Shown(messages)

\* CompactionConfig: "Don't pay the summary cost on a tiny history."
NoSummaryOfATinyHistory ==
    pc = "round" /\ ShouldCompact(messages, cumInput)
                 /\ CompactMessages(messages).removed > 0
        => EstimatedTokens(Before(messages, CutOf(messages))) >= MaxEstimated

\* _tool_use_missing_thinking: "so this should never fire".
ThinkingBackstopUnreachable ==
    pc = "round" => ~CompactMessages(messages).backstop

\* DECISIONS.md: "every tool input is logged to traces before execution".
ToolInputLoggedBeforeExecution ==
    pc \in {"tool", "woken"} => <<turn, call>> \in rows
=============================================================================
