--------------------------- MODULE AgentLoopProofs ---------------------------
(***************************************************************************)
(* Theorems about every run of AgentLoop, whatever the constants: the      *)
(* types, the order of tool calls and their results, the shape of every    *)
(* request, the budget and the dataset registry.                           *)
(***************************************************************************)
EXTENDS AgentLoop, CompactionProofs

-----------------------------------------------------------------------------
(* Types *)

\* Where the coroutine stands bounds its loop variable and its call index.
Control ==
    /\ pc \in {"ready", "round", "llm", "tool", "woken", "stopping", "trace", "synth"}
         => outcome = "none"
    /\ pc = "ready" => turn = 0
    /\ pc \in {"llm", "tool", "woken", "stopping", "trace"} => turn < Budget
    /\ pc \in {"tool", "woken", "stopping", "trace"} => 1 <= call /\ call <= requested
    /\ pc = "synth" => turn = Budget

\* The inductive form of TypeOK.
TypeInv == TypeOK /\ Control

\* The clamp: a run always has a round.
LEMMA BudgetPositive == Budget \in Nat /\ Budget >= 1
BY LoopAssumption DEF Budget

\* A message built of typed parts is a message.
LEMMA TextMessageType ==
    ASSUME NEW role \in Roles, NEW uses \in SUBSET CallIds,
           NEW answers \in SUBSET CallIds, NEW thinking \in BOOLEAN,
           NEW weight \in Nat, NEW opening \in SUBSET Topics,
           NEW ending \in SUBSET Topics, NEW shows \in SUBSET Topics
    PROVE  TextMessage(role, uses, answers, thinking, weight,
                       opening, ending, shows) \in Message
<1> HIDE DEF Roles, CallIds, Topics
<1> QED BY DEF TextMessage, Message

\* The ids of a turn's calls are call ids.
LEMMA CallIdsType ==
    ASSUME NEW t \in Nat, NEW n \in Nat
    PROVE  CallIdsOf(t, n) \subseteq CallIds
BY DEF CallIdsOf, CallIds

\* The reply of the model, as the loop appends it, is a message.
LEMMA AssistantMessageType ==
    ASSUME turn \in Nat, NEW n \in Nat, NEW thinks \in BOOLEAN,
           NEW weight \in Nat, NEW text \in ReplyTexts
    PROVE  AssistantMessage(n, thinks, weight, text) \in Message
<1>1. text \subseteq Topics
  BY LoopAssumption DEF WorkTopic, Topics
<1>2. CallIdsOf(turn, n) \in SUBSET CallIds
  BY CallIdsType
<1>3. "assistant" \in Roles /\ {} \in SUBSET CallIds
  BY DEF Roles
<1> HIDE DEF Roles, CallIds, Topics
<1> QED
  BY <1>1, <1>2, <1>3, TextMessageType DEF AssistantMessage

\* A tool result, as the loop appends it, is a message.
LEMMA ToolMessageType ==
    ASSUME turn \in Nat, call \in Nat, NEW res \in ToolResult
    PROVE  ToolMessage(res) \in Message
<1> DEFINE shows == {WorkTopic} \cup
                    (IF res.handle = 0 THEN {} ELSE {HandleTopic(res.handle)})
<1>1. shows \in SUBSET Topics
  BY DEF WorkTopic, HandleTopic, Topics, ToolResult
<1>2. /\ {<<turn, call>>} \in SUBSET CallIds /\ {} \in SUBSET CallIds
      /\ {WorkTopic} \in SUBSET Topics
  BY DEF CallIds, WorkTopic, Topics
<1>3. "tool" \in Roles /\ res.weight \in Nat
  BY DEF Roles, ToolResult
<1> HIDE DEF Roles, CallIds, Topics, shows
<1>4. TextMessage("tool", {}, {<<turn, call>>}, FALSE, res.weight,
                  shows, {WorkTopic}, shows) \in Message
  BY <1>1, <1>2, <1>3, TextMessageType
<1> QED
  BY <1>4 DEF ToolMessage, shows

\* The conversation a run starts with.
LEMMA SeedType == <<SystemMessage, TaskMessage>> \in Seq(Message)
<1>1. /\ {SystemTopic} \in SUBSET Topics /\ {TaskTopic} \in SUBSET Topics
      /\ {TaskTopic, RestTopic} \in SUBSET Topics /\ {} \in SUBSET Topics
  BY DEF SystemTopic, TaskTopic, RestTopic, Topics
<1>2. "system" \in Roles /\ "user" \in Roles /\ {} \in SUBSET CallIds
  BY DEF Roles
<1> HIDE DEF Roles, CallIds, Topics, Message
<1>3. SystemMessage \in Message
  BY <1>1, <1>2, TextMessageType DEF SystemMessage
<1>4. TaskMessage \in Message
  BY <1>1, <1>2, TextMessageType DEF TaskMessage
<1> QED BY <1>3, <1>4

\* A run that has not been entered satisfies the types and ranges.
LEMMA TypeInit == Init => TypeInv
BY BudgetPositive, LoopAssumption
   DEF Init, TypeInv, TypeOK, Control, Suspended, ToolResult, NoResult

\* Every step of a run keeps the types and ranges.
LEMMA TypeNext == TypeInv /\ [Next]_vars => TypeInv'
<1> SUFFICES ASSUME TypeInv, [Next]_vars
             PROVE  TypeInv'
  OBVIOUS
<1> USE BudgetPositive DEF TypeInv, TypeOK, Control, Suspended
<1> HIDE DEF Message, Event, ToolResult, CallIds, Budget
<1>1. CASE Start
  BY <1>1, SeedType DEF Start, progress, dataset, traces
<1>2. CASE BeginRound
  BY <1>2, CompactMessagesType DEF BeginRound, progress, dataset, traces
<1>3. ASSUME NEW n \in 0..MaxCalls, NEW thinks \in Thinking,
             NEW weight \in ReplyWeights, NEW tokens \in InputTokens,
             NEW text \in ReplyTexts, ModelReplies(n, thinks, weight, tokens, text)
      PROVE  TypeInv'
  <2>1. n \in Nat /\ thinks \in BOOLEAN /\ weight \in Nat /\ tokens \in Nat
    BY LoopAssumption
  <2>2. messages' \in Seq(Message)
    <3>1. AssistantMessage(n, thinks, weight, text) \in Message
      BY <2>1, AssistantMessageType
    <3> QED BY <1>3, <3>1 DEF ModelReplies
  <2>3. events' \in Seq(Event)
    <3>1. LLMEvent(n) \in Event
      BY <2>1 DEF LLMEvent, Event
    <3> QED BY <1>3, <3>1 DEF ModelReplies
  <2>4. CASE n = 0
    BY <1>3, <2>1, <2>2, <2>3, <2>4 DEF ModelReplies, Finish, traces
  <2>5. CASE n # 0
    <3>1. n >= 1 /\ 1 \in 0..MaxCalls
      BY <2>5, LoopAssumption
    <3>2. pc' = "tool" /\ call' = 1 /\ requested' = n
      BY <1>3, <2>5 DEF ModelReplies
    <3>3. UNCHANGED <<outcome, counter, frames, turn, result, compactions,
                      modelCalls, rows, unlogged, cancel>>
      BY <1>3, <2>5 DEF ModelReplies, dataset, traces
    <3>4. pc = "llm" /\ cumInput' = cumInput + tokens
      BY <1>3 DEF ModelReplies
    <3> QED BY <2>1, <2>2, <2>3, <3>1, <3>2, <3>3, <3>4
  <2> QED BY <2>4, <2>5
<1>4. CASE ModelFails
  BY <1>4 DEF ModelFails, Finish, progress, chat, traces
<1>5. ASSUME NEW how \in ToolOutcomes, NEW weight \in ResultWeights,
             ToolReturns(how, weight)
      PROVE  TypeInv'
  <2>1. result' \in ToolResult
    BY <1>5, LoopAssumption DEF ToolReturns, ToolResult
  <2>2. counter' \in Nat /\ frames' \subseteq 1..counter'
    <3>1. \/ counter' = counter /\ frames' = frames
          \/ counter' = counter + 1 /\ frames' = frames \cup {counter + 1}
      BY <1>5 DEF ToolReturns, dataset
    <3>2. 1..counter \subseteq 1..(counter + 1) /\ counter + 1 \in 1..(counter + 1)
      OBVIOUS
    <3>3. frames \subseteq 1..counter /\ counter \in Nat
      OBVIOUS
    <3>4. CASE counter' = counter /\ frames' = frames
      BY <3>3, <3>4
    <3>5. CASE counter' = counter + 1 /\ frames' = frames \cup {counter + 1}
      <4>1. \A f \in frames' : f \in 1..(counter + 1)
        BY <3>2, <3>3, <3>5
      <4> QED BY <3>3, <3>5, <4>1
    <3> QED BY <3>1, <3>4, <3>5
  <2> QED BY <1>5, <2>1, <2>2 DEF ToolReturns, chat, traces
<1>6. CASE ToolResumes
  BY <1>6 DEF ToolResumes, progress, chat, dataset, traces
<1>7. CASE ToolTimesOut \/ CancelsTool
  BY <1>7 DEF ToolTimesOut, CancelsTool, progress, chat, dataset, traces
<1>8. CASE TraceEnds
  <2>1. pc = "trace" /\ ServeNext
    BY <1>8 DEF TraceEnds, TraceWritten, TraceFails
  <2>2. messages' \in Seq(Message)
    <3>1. ToolMessage(result) \in Message
      BY ToolMessageType, LoopAssumption
    <3> QED BY <2>1, <3>1 DEF ServeNext
  <2>3. events' \in Seq(Event)
    <3>1. ToolEvent \in Event
      BY LoopAssumption DEF ToolEvent, Event
    <3> QED BY <2>1, <3>1 DEF ServeNext
  <2>4. result' \in ToolResult
    BY <2>1 DEF ServeNext, NoResult, ToolResult
  <2>5. /\ pc' \in {"tool", "round"}
        /\ turn' \in 0..Budget /\ call' \in 0..MaxCalls
        /\ pc' = "tool" => /\ turn' < Budget
                           /\ 1 <= call' /\ call' <= requested
    BY <2>1, LoopAssumption DEF ServeNext
  <2>6. rows' \subseteq CallIds /\ unlogged' \subseteq CallIds
    <3>1. <<turn, call>> \in CallIds
      BY LoopAssumption DEF CallIds
    <3> QED BY <1>8, <3>1 DEF TraceEnds, TraceWritten, TraceFails
  <2>7. UNCHANGED <<outcome, requested, cumInput, compactions, modelCalls,
                    counter, frames, cancel>>
    BY <1>8 DEF TraceEnds, TraceWritten, TraceFails, dataset
  <2> QED BY <2>1, <2>2, <2>3, <2>4, <2>5, <2>6, <2>7
<1>9. CASE BeginSynthesis
  BY <1>9 DEF BeginSynthesis, progress, dataset, traces
<1>10. ASSUME NEW tokens \in InputTokens, SynthesisReplies(tokens)
       PROVE  TypeInv'
  <2>1. events' \in Seq(Event)
    <3>1. LLMEvent(0) \in Event
      BY DEF LLMEvent, Event
    <3> QED BY <1>10, <3>1 DEF SynthesisReplies
  <2> QED
    BY <1>10, <2>1, LoopAssumption DEF SynthesisReplies, Finish, progress, traces
<1>11. CASE Cancelled
  <2>1. rows' \subseteq CallIds
    <3>1. <<turn, call>> \in CallIds
      BY LoopAssumption DEF CallIds
    <3> QED BY <1>11, <3>1 DEF Cancelled
  <2> QED
    BY <1>11, <2>1 DEF Cancelled, Finish, progress, chat
<1>12. CASE RequestCancel
  BY <1>12 DEF RequestCancel, progress, chat, dataset, traces
<1>13. CASE ToolStops
  <2>1. result' \in ToolResult
    BY <1>13 DEF ToolStops, ToolResult
  <2>2. pc = "stopping" /\ UNCHANGED <<turn, requested, call, chat, traces, events, cancel>>
    BY <1>13 DEF ToolStops
  <2>3. \/ pc' = "done" /\ outcome' = "cancelled" /\ frames' = {} /\ counter' = counter
        \/ pc' = "trace" /\ UNCHANGED <<outcome, counter, frames>>
    BY <1>13 DEF ToolStops, Finish, dataset
  <2> QED BY <2>1, <2>2, <2>3 DEF chat, traces
<1>14. CASE UNCHANGED vars
  BY <1>14 DEF vars, progress, chat, dataset, traces
<1> QED
  BY <1>1, <1>2, <1>3, <1>4, <1>5, <1>6, <1>7, <1>8, <1>9, <1>10, <1>11,
     <1>12, <1>13, <1>14
     DEF Next, LoopStep, Advance, ModelEnds, ToolEnds, Ended

\* Every variable stays within its type and the loop variables within their
\* ranges, for every budget, bound and configuration.
THEOREM TypeCorrect == Spec => []TypeOK
<1>1. TypeInv => TypeOK
  BY DEF TypeInv
<1> QED
  BY TypeInit, TypeNext, <1>1, PTL DEF Spec

-----------------------------------------------------------------------------
(* Tool calls and their results *)

\* What the orphan check looks for is never there, as the walk-back leaves it.
LEMMA NothingIsOrphaned == TypeInv => OrphanBackstopUnreachable
<1> SUFFICES ASSUME TypeInv, CutOf(messages) > 0
             PROVE  ~HasOrphanToolResults(SummaryAndTail(messages))
  BY DEF OrphanBackstopUnreachable
<1>1. messages \in Seq(Message) /\ Len(messages) \in Nat
  BY LenProperties DEF TypeInv, TypeOK
<1>2. Len(messages) > PreserveRecent
  <2>1. SUFFICES ASSUME Len(messages) <= PreserveRecent PROVE FALSE
    BY <1>1, ConfigAssumption
  <2>2. RawCut(messages) <= 0
    BY <1>1, <2>1, ConfigAssumption DEF RawCut
  <2>3. CutOf(messages) <= 0
    BY <2>2 DEF CutOf, WalkBackForPairSafety
  <2>4. CutOf(messages) = RawCut(messages) /\ RawCut(messages) \in Int
    BY <1>1, <2>2, ConfigAssumption DEF CutOf, WalkBackForPairSafety, RawCut
  <2> QED BY <2>3, <2>4
<1> QED BY <1>1, <1>2, WalkBackLeavesNoOrphan

\* Whatever the loop compacts, the orphan check behind it finds nothing.
THEOREM OrphanBackstopNeverFires == Spec => []OrphanBackstopUnreachable
<1> QED
  BY TypeInit, TypeNext, NothingIsOrphaned, PTL DEF Spec

\* Calls in the conversation are of past turns, or of this one once the model
\* has replied: the ids of the next reply are new.
UsesPast ==
    \A i \in DOMAIN messages : \A id \in messages[i].uses :
        \/ id[1] < turn
        \/ id[1] = turn /\ pc \in {"tool", "woken", "stopping", "trace", "done"}

\* While calls are being served, the message that made them is still there.
CurrentCallsHeld ==
    pc \in {"tool", "woken", "stopping", "trace"} =>
        \A k \in 1..requested :
            \E i \in DOMAIN messages : <<turn, k>> \in messages[i].uses

\* The inductive form of Paired.
PairInv ==
    TypeInv /\ PairedIn(messages) /\ UniqueIn(messages) /\ UsesPast /\ CurrentCallsHeld

\* The two messages a run starts with call nothing and answer nothing.
LEMMA SeedKeepsPairs ==
    ASSUME NEW ms, ms = <<SystemMessage, TaskMessage>>
    PROVE  \A i \in DOMAIN ms : ms[i].uses = {} /\ ms[i].answers = {}
<1>1. /\ SystemMessage.uses = {} /\ SystemMessage.answers = {}
      /\ TaskMessage.uses = {} /\ TaskMessage.answers = {}
  BY DEF SystemMessage, TaskMessage, TextMessage
<1> HIDE DEF SystemMessage, TaskMessage
<1> QED BY <1>1

\* An empty conversation has all its pairs.
LEMMA PairInit == Init => PairInv
<1> SUFFICES ASSUME Init PROVE PairInv
  OBVIOUS
<1>1. DOMAIN messages = {} /\ pc = "ready"
  BY DEF Init
<1> QED
  BY <1>1, TypeInit
     DEF PairInv, PairedIn, UniqueIn, UsesPast, CurrentCallsHeld

\* A step that leaves the conversation alone keeps what is known of its pairs,
\* if it does not end the turn.
LEMMA SameMessages ==
    ASSUME PairInv, TypeInv', messages' = messages, turn' = turn,
           requested' = requested,
           pc' \in {"tool", "woken", "stopping", "trace"} => pc \in {"tool", "woken", "stopping", "trace"},
           pc \in {"tool", "woken", "stopping", "trace", "done"}
              => pc' \in {"tool", "woken", "stopping", "trace", "done"}
    PROVE  PairInv'
BY DEF PairInv, PairedIn, UniqueIn, UsesPast, CurrentCallsHeld

\* Every step keeps each result behind its call, compaction included.
LEMMA PairNext == PairInv /\ [Next]_vars => PairInv'
<1> SUFFICES ASSUME PairInv, [Next]_vars
             PROVE  PairInv'
  OBVIOUS
<1>0. TypeInv'
  BY TypeNext DEF PairInv
<1>t. /\ messages \in Seq(Message) /\ Len(messages) \in Nat
      /\ DOMAIN messages = 1..Len(messages)
      /\ turn \in Nat /\ call \in Nat /\ requested \in Nat
      /\ pc \in {"tool", "woken", "stopping", "trace"} => call \in 1..requested
      /\ PairedIn(messages) /\ UniqueIn(messages)
  <2>1. messages \in Seq(Message)
    BY DEF PairInv, TypeInv, TypeOK
  <2>2. turn \in Nat /\ call \in Nat /\ requested \in Nat
    BY BudgetPositive, LoopAssumption DEF PairInv, TypeInv, TypeOK
  <2>3. pc \in {"tool", "woken", "stopping", "trace"} => call \in 1..requested
    BY <2>2 DEF PairInv, TypeInv, Control
  <2> QED BY <2>1, <2>2, <2>3, LenProperties DEF PairInv
<1>1. CASE Start
  <2>1. \A i \in DOMAIN messages' : messages'[i].uses = {} /\ messages'[i].answers = {}
    BY <1>1, SeedKeepsPairs DEF Start
  <2>2. pc' = "round"
    BY <1>1 DEF Start
  <2> QED
    BY <1>0, <2>1, <2>2 DEF PairInv, PairedIn, UniqueIn, UsesPast, CurrentCallsHeld
<1>2. CASE BeginRound
  <2>1. pc = "round" /\ pc' = "llm" /\ turn' = turn /\ requested' = requested
    BY <1>2 DEF BeginRound, progress
  <2>2. CASE messages' = messages
    BY <1>0, <2>1, <2>2, SameMessages
  <2>3. CASE messages' # messages
    <3>1. messages' = CompactMessages(messages).messages
      BY <1>2, <2>3 DEF BeginRound
    <3>2. /\ Len(messages) > PreserveRecent /\ CutOf(messages) > 0
          /\ messages' = SummaryAndTail(messages)
      BY <1>t, <2>3, <3>1, CompactMessagesCases
    <3>3. /\ PairedIn(messages') /\ UniqueIn(messages')
          /\ \A i \in DOMAIN messages' : \A id \in messages'[i].uses :
                \E k \in DOMAIN messages : id \in messages[k].uses
      BY <1>t, <3>2, CompactionKeepsPairs
    <3>4. UsesPast'
      <4>1. \A k \in DOMAIN messages : \A id \in messages[k].uses : id[1] < turn
        BY <2>1 DEF PairInv, UsesPast
      <4> QED BY <2>1, <3>3, <4>1 DEF UsesPast
    <3>5. CurrentCallsHeld'
      BY <2>1 DEF CurrentCallsHeld
    <3>6. PairedIn(messages)' /\ UniqueIn(messages)'
      BY <3>3 DEF PairedIn, UniqueIn
    <3> QED BY <1>0, <3>4, <3>5, <3>6 DEF PairInv
  <2> QED BY <2>2, <2>3
<1>3. ASSUME NEW n \in 0..MaxCalls, NEW thinks \in Thinking,
             NEW weight \in ReplyWeights, NEW tokens \in InputTokens,
             NEW text \in ReplyTexts, ModelReplies(n, thinks, weight, tokens, text)
      PROVE  PairInv'
  <2> DEFINE m == AssistantMessage(n, thinks, weight, text)
  <2>1. /\ pc = "llm" /\ turn' = turn /\ requested' = n
        /\ messages' = Append(messages, m)
        /\ pc' \in {"tool", "done"} /\ n \in Nat
    BY <1>3, LoopAssumption DEF ModelReplies, Finish
  <2>2. m \in Message
    BY <1>t, <2>1, AssistantMessageType, LoopAssumption
  <2>3. m.uses = CallIdsOf(turn, n) /\ m.answers = {}
    BY DEF AssistantMessage, TextMessage
  <2>4. \A i \in DOMAIN messages : \A id \in messages[i].uses : id[1] < turn
    BY <2>1 DEF PairInv, UsesPast
  <2>5. \A id \in m.uses : id[1] = turn
    BY <2>3 DEF CallIdsOf
  <2>6. \A i \in DOMAIN messages : messages[i].uses \cap m.uses = {}
    BY <1>t, <2>4, <2>5
  <2> HIDE DEF m
  <2>7. PairedIn(messages)' /\ UniqueIn(messages)'
    <3>1. PairedIn(Append(messages, m)) /\ UniqueIn(Append(messages, m))
      BY <1>t, <2>2, <2>3, <2>6, AppendKeepsPairs
    <3> QED BY <2>1, <3>1 DEF PairedIn, UniqueIn
  <2>8. /\ DOMAIN messages' = 1..(Len(messages) + 1)
        /\ \A i \in 1..Len(messages) : messages'[i] = messages[i]
        /\ messages'[Len(messages) + 1] = m
    BY <1>t, <2>1, <2>2, AppendProperties, LenProperties
  <2>9. UsesPast'
    <3>1. SUFFICES ASSUME NEW i \in DOMAIN messages', NEW id \in messages'[i].uses
                   PROVE  id[1] < turn \/ id[1] = turn
      BY <2>1 DEF UsesPast
    <3>2. CASE i \in 1..Len(messages)
      BY <1>t, <2>4, <2>8, <3>1, <3>2
    <3>3. CASE i = Len(messages) + 1
      BY <2>5, <2>8, <3>1, <3>3
    <3> QED BY <1>t, <2>8, <3>2, <3>3
  <2>10. CurrentCallsHeld'
    <3>1. \A k \in 1..n : <<turn, k>> \in messages'[Len(messages) + 1].uses
      BY <2>3, <2>8 DEF CallIdsOf
    <3>2. Len(messages) + 1 \in DOMAIN messages'
      BY <1>t, <2>8
    <3> QED BY <2>1, <3>1, <3>2 DEF CurrentCallsHeld
  <2> QED BY <1>0, <2>7, <2>9, <2>10 DEF PairInv
<1>4. CASE ModelFails
  BY <1>0, <1>4, SameMessages DEF ModelFails, Finish, progress, chat
<1>5. ASSUME NEW how \in ToolOutcomes, NEW weight \in ResultWeights,
             ToolReturns(how, weight)
      PROVE  PairInv'
  BY <1>0, <1>5, SameMessages DEF ToolReturns, chat
<1>6. CASE ToolResumes
  BY <1>0, <1>6, SameMessages DEF ToolResumes, progress, chat
<1>7. CASE ToolTimesOut \/ CancelsTool
  BY <1>0, <1>7, SameMessages DEF ToolTimesOut, CancelsTool, progress, chat
<1>8. CASE TraceEnds
  <2> DEFINE m == ToolMessage(result)
  <2>1. /\ pc = "trace" /\ messages' = Append(messages, m)
        /\ \/ pc' = "tool" /\ turn' = turn
           \/ pc' = "round" /\ turn' = turn + 1
        /\ requested' = requested
    BY <1>8 DEF TraceEnds, TraceWritten, TraceFails, ServeNext
  <2>2. m \in Message
    BY <1>t, ToolMessageType DEF PairInv, TypeInv, TypeOK
  <2>3. m.uses = {} /\ m.answers = {<<turn, call>>}
    BY DEF ToolMessage, TextMessage
  <2>4. \E i \in DOMAIN messages : <<turn, call>> \in messages[i].uses
    BY <1>t, <2>1 DEF PairInv, CurrentCallsHeld
  <2> HIDE DEF m
  <2>5. PairedIn(messages)' /\ UniqueIn(messages)'
    <3>1. PairedIn(Append(messages, m)) /\ UniqueIn(Append(messages, m))
      BY <1>t, <2>2, <2>3, <2>4, AppendKeepsPairs
    <3> QED BY <2>1, <3>1 DEF PairedIn, UniqueIn
  <2>6. /\ DOMAIN messages' = 1..(Len(messages) + 1)
        /\ \A i \in 1..Len(messages) : messages'[i] = messages[i]
        /\ messages'[Len(messages) + 1] = m
    BY <1>t, <2>1, <2>2, AppendProperties, LenProperties
  <2>7. \A i \in DOMAIN messages' : \A id \in messages'[i].uses :
            i \in DOMAIN messages /\ id \in messages[i].uses
    BY <1>t, <2>3, <2>6
  <2>8. \A i \in DOMAIN messages : \A id \in messages[i].uses :
            id[1] < turn \/ id[1] = turn
    BY DEF PairInv, UsesPast
  <2>9. UsesPast'
    <3>1. CASE turn' = turn /\ pc' = "tool"
      BY <2>7, <2>8, <3>1 DEF UsesPast
    <3>2. CASE turn' = turn + 1
      <4>1. \A i \in DOMAIN messages : \A id \in messages[i].uses : id[1] < turn + 1
        <5> SUFFICES ASSUME NEW i \in DOMAIN messages, NEW id \in messages[i].uses
                     PROVE  id[1] < turn + 1
          OBVIOUS
        <5>1. id \in CallIds
          <6>1. messages[i] \in Message
            BY <1>t, ElementOfSeq
          <6> QED BY <6>1 DEF Message
        <5> QED BY <1>t, <2>8, <5>1 DEF CallIds
      <4> QED BY <2>7, <3>2, <4>1 DEF UsesPast
    <3> QED BY <2>1, <3>1, <3>2
  <2>10. CurrentCallsHeld'
    <3>1. CASE turn' = turn /\ pc' = "tool"
      <4>1. \A k \in 1..requested :
               \E i \in DOMAIN messages : <<turn, k>> \in messages[i].uses
        BY <2>1 DEF PairInv, CurrentCallsHeld
      <4>2. \A i \in DOMAIN messages : i \in DOMAIN messages' /\ messages'[i] = messages[i]
        BY <1>t, <2>6
      <4> QED BY <2>1, <3>1, <4>1, <4>2 DEF CurrentCallsHeld
    <3>2. CASE pc' = "round"
      BY <3>2 DEF CurrentCallsHeld
    <3> QED BY <2>1, <3>1, <3>2
  <2> QED BY <1>0, <2>5, <2>9, <2>10 DEF PairInv
<1>9. CASE BeginSynthesis
  BY <1>0, <1>9, SameMessages DEF BeginSynthesis, progress
<1>10. ASSUME NEW tokens \in InputTokens, SynthesisReplies(tokens)
       PROVE  PairInv'
  BY <1>0, <1>10, SameMessages DEF SynthesisReplies, Finish, progress
<1>11. CASE Cancelled
  BY <1>0, <1>11, SameMessages DEF Cancelled, Finish, progress, chat
<1>12. CASE RequestCancel
  BY <1>0, <1>12, SameMessages DEF RequestCancel, progress, chat
<1>13. CASE ToolStops
  BY <1>0, <1>13, SameMessages DEF ToolStops, Finish, chat
<1>14. CASE UNCHANGED vars
  BY <1>0, <1>14, SameMessages DEF vars, progress, chat
<1> QED
  BY <1>1, <1>2, <1>3, <1>4, <1>5, <1>6, <1>7, <1>8, <1>9, <1>10, <1>11,
     <1>12, <1>13, <1>14
     DEF Next, LoopStep, Advance, ModelEnds, ToolEnds, Ended

\* In every state of every run each tool result stands after the call it
\* answers, however often and wherever the conversation was compacted.
THEOREM ResultsFollowCalls == Spec => []Paired
<1>1. PairInv => Paired
  BY DEF PairInv, PairedIn, Paired
<1> QED
  BY PairInit, PairNext, <1>1, PTL DEF Spec

-----------------------------------------------------------------------------
(* The shape of a request *)

\* As far as the conversation reaches, each call is answered in its place.
AnsweredIn(ms) ==
    \A i \in DOMAIN ms : \A id \in ms[i].uses :
        i + id[2] \in DOMAIN ms => ms[i + id[2]].answers = {id}

\* Only calls of a turn that is being served, or was cut short, lack a result.
OpenCalls ==
    \A i \in DOMAIN messages : \A id \in messages[i].uses :
        \/ i + id[2] \in DOMAIN messages
        \/ /\ pc \in {"tool", "woken", "stopping", "trace"}
           /\ messages[i].uses = CallIdsOf(turn, requested)
        \/ pc = "done"

\* The results of the turn being served are the last call - 1 messages.
Serving ==
    pc \in {"tool", "woken", "stopping", "trace"} =>
        \E i \in DOMAIN messages : /\ messages[i].uses = CallIdsOf(turn, requested)
                                   /\ i + call = Len(messages) + 1

\* At the head of a round the last turn, complete, ends the conversation.
LastTurn ==
    pc = "round" /\ turn > 0 =>
        /\ requested >= 1
        /\ \E i \in DOMAIN messages :
             /\ messages[i].uses = CallIdsOf(turn - 1, requested)
             /\ i + requested = Len(messages)

\* The inductive form of RequestWellFormed.
BlockInv ==
    /\ PairInv /\ AnsweredIn(messages) /\ OpenCalls /\ Serving /\ LastTurn
    /\ FreshResultsReachTheModel

\* An empty conversation answers everything in place.
LEMMA BlockInit == Init => BlockInv
<1> SUFFICES ASSUME Init PROVE BlockInv
  OBVIOUS
<1>1. DOMAIN messages = {} /\ pc = "ready"
  BY DEF Init
<1> QED
  BY <1>1, PairInit
     DEF BlockInv, AnsweredIn, OpenCalls, Serving, LastTurn,
         FreshResultsReachTheModel

\* A step that leaves the conversation and the turn alone keeps the shape.
LEMMA SameShape ==
    ASSUME BlockInv, PairInv', messages' = messages, turn' = turn,
           requested' = requested, call' = call,
           pc' \in {"tool", "woken", "stopping", "trace"} => pc \in {"tool", "woken", "stopping", "trace"},
           pc \in {"tool", "woken", "stopping", "trace", "done"}
              => pc' \in {"tool", "woken", "stopping", "trace", "done"},
           pc = "done" => pc' = "done",
           pc' = "round" => pc = "round",
           pc' \in {"llm", "synth"} => pc \in {"llm", "synth"}
    PROVE  BlockInv'
BY DEF BlockInv, AnsweredIn, OpenCalls, Serving, LastTurn, ToolResultIds,
       FreshResultsReachTheModel

\* Between turns every call has its result.
LEMMA CompleteBetweenTurns ==
    ASSUME BlockInv, pc \in {"round", "llm", "synth"}
    PROVE  CompleteIn(messages)
BY DEF BlockInv, AnsweredIn, OpenCalls, CompleteIn

\* The results of the last turn are in the conversation the round starts with.
LEMMA LastTurnAnswered ==
    ASSUME BlockInv, pc = "round", turn > 0
    PROVE  CallIdsOf(turn - 1, requested) \subseteq ToolResultIds(messages)
<1>1. PICK i \in DOMAIN messages : messages[i].uses = CallIdsOf(turn - 1, requested)
  BY DEF BlockInv, LastTurn
<1>2. CompleteIn(messages)
  BY CompleteBetweenTurns
<1> QED
  BY <1>1, <1>2 DEF CompleteIn, ToolResultIds

\* Every step keeps each turn's calls and results together and in order.
LEMMA BlockNext == BlockInv /\ [Next]_vars => BlockInv'
<1> SUFFICES ASSUME BlockInv, [Next]_vars
             PROVE  BlockInv'
  OBVIOUS
<1>0. PairInv'
  BY PairNext DEF BlockInv
<1>t. /\ messages \in Seq(Message) /\ Len(messages) \in Nat
      /\ DOMAIN messages = 1..Len(messages)
      /\ turn \in Nat /\ call \in Nat /\ requested \in Nat
      /\ pc \in {"tool", "woken", "stopping", "trace"} => call \in 1..requested
      /\ \A i \in DOMAIN messages : \A id \in messages[i].uses :
            id[1] \in Nat /\ id[2] \in Nat
  <2>1. messages \in Seq(Message)
    BY DEF BlockInv, PairInv, TypeInv, TypeOK
  <2>2. turn \in Nat /\ call \in Nat /\ requested \in Nat
    BY BudgetPositive, LoopAssumption DEF BlockInv, PairInv, TypeInv, TypeOK
  <2>3. pc \in {"tool", "woken", "stopping", "trace"} => call \in 1..requested
    BY <2>2 DEF BlockInv, PairInv, TypeInv, Control
  <2>4. \A i \in DOMAIN messages : messages[i].uses \subseteq CallIds
    <3>1. \A i \in DOMAIN messages : messages[i] \in Message
      BY <2>1, ElementOfSeq, LenProperties
    <3> HIDE DEF CallIds
    <3> QED BY <3>1 DEF Message
  <2> QED BY <2>1, <2>2, <2>3, <2>4, LenProperties DEF CallIds
<1>1. CASE Start
  <2>1. \A i \in DOMAIN messages' : messages'[i].uses = {} /\ messages'[i].answers = {}
    BY <1>1, SeedKeepsPairs DEF Start
  <2>2. pc' = "round" /\ turn' = 0
    <3>1. pc = "ready" => turn = 0
      BY DEF BlockInv, PairInv, TypeInv, Control
    <3> QED BY <1>1, <3>1 DEF Start, progress
  <2> QED
    BY <1>0, <2>1, <2>2
       DEF BlockInv, AnsweredIn, OpenCalls, Serving, LastTurn,
           FreshResultsReachTheModel
<1>2. CASE BeginRound
  <2>1. pc = "round" /\ pc' = "llm" /\ turn' = turn /\ requested' = requested
    BY <1>2 DEF BeginRound, progress
  <2>2. CompleteIn(messages)
    BY <2>1, CompleteBetweenTurns
  <2>3. CompleteIn(messages') /\ FreshResultsReachTheModel'
    <3>1. CASE messages' = messages
      BY <2>1, <2>2, <3>1, LastTurnAnswered
         DEF FreshResultsReachTheModel, ToolResultIds
    <3>2. CASE messages' # messages
      <4>1. messages' = CompactMessages(messages).messages
        BY <1>2, <3>2 DEF BeginRound
      <4>2. /\ Len(messages) > PreserveRecent /\ CutOf(messages) > 0
            /\ messages' = SummaryAndTail(messages)
        BY <1>t, <3>2, <4>1, CompactMessagesCases
      <4>3. CompleteIn(messages')
        BY <1>t, <2>2, <4>2, CompactionKeepsComplete
      <4>4. ASSUME PreserveRecent >= 1, turn > 0
            PROVE  CallIdsOf(turn - 1, requested) \subseteq ToolResultIds(messages')
        <5>1. PICK i \in DOMAIN messages :
                 /\ messages[i].uses = CallIdsOf(turn - 1, requested)
                 /\ i + requested = Len(messages) /\ requested >= 1
          BY <2>1, <4>4 DEF BlockInv, LastTurn
        <5> DEFINE id == <<turn - 1, requested>>
        <5>2. id \in messages[i].uses /\ i + id[2] = Len(messages)
          BY <1>t, <5>1 DEF CallIdsOf
        <5>3. UniqueIn(messages)
          BY DEF BlockInv, PairInv
        <5> HIDE DEF id
        <5> QED
          BY <1>t, <2>2, <4>2, <4>4, <5>1, <5>2, <5>3, LastTurnIsKept
      <4>5. FreshResultsReachTheModel'
        BY <2>1, <4>4 DEF FreshResultsReachTheModel, ToolResultIds
      <4> QED BY <4>3, <4>5
    <3> QED BY <3>1, <3>2
  <2> QED
    BY <1>0, <2>1, <2>3
       DEF BlockInv, CompleteIn, AnsweredIn, OpenCalls, Serving, LastTurn
<1>3. ASSUME NEW n \in 0..MaxCalls, NEW thinks \in Thinking,
             NEW weight \in ReplyWeights, NEW tokens \in InputTokens,
             NEW text \in ReplyTexts, ModelReplies(n, thinks, weight, tokens, text)
      PROVE  BlockInv'
  <2> DEFINE m == AssistantMessage(n, thinks, weight, text)
  <2>1. /\ pc = "llm" /\ turn' = turn /\ requested' = n
        /\ messages' = Append(messages, m) /\ n \in Nat
        /\ \/ n = 0 /\ pc' = "done"
           \/ n > 0 /\ pc' = "tool" /\ call' = 1
    <3>1. n \in Nat
      BY LoopAssumption
    <3>2. CASE n = 0
      BY <1>3, <3>1, <3>2 DEF ModelReplies, Finish
    <3>3. CASE n # 0
      BY <1>3, <3>1, <3>3 DEF ModelReplies
    <3> QED BY <3>2, <3>3
  <2>2. m \in Message
    BY <1>t, <2>1, AssistantMessageType, LoopAssumption
  <2>3. m.uses = CallIdsOf(turn, n) /\ m.answers = {}
    BY DEF AssistantMessage, TextMessage
  <2>4. CompleteIn(messages)
    BY <2>1, CompleteBetweenTurns
  <2> HIDE DEF m
  <2>5. /\ DOMAIN messages' = 1..(Len(messages) + 1)
        /\ Len(messages') = Len(messages) + 1
        /\ \A i \in 1..Len(messages) : messages'[i] = messages[i]
        /\ messages'[Len(messages) + 1] = m
    BY <1>t, <2>1, <2>2, AppendProperties, LenProperties
  <2>6. AnsweredIn(messages')
    <3> SUFFICES ASSUME NEW i \in DOMAIN messages', NEW id \in messages'[i].uses,
                        i + id[2] \in DOMAIN messages'
                 PROVE  messages'[i + id[2]].answers = {id}
      BY DEF AnsweredIn
    <3>1. CASE i \in 1..Len(messages)
      <4>1. id \in messages[i].uses /\ i \in DOMAIN messages
        BY <1>t, <2>5, <3>1
      <4>2. i + id[2] \in DOMAIN messages /\ messages[i + id[2]].answers = {id}
        BY <2>4, <4>1 DEF CompleteIn
      <4> QED BY <1>t, <2>5, <4>2
    <3>2. CASE i = Len(messages) + 1
      <4>1. id[2] \in 1..n
        BY <2>3, <2>5, <3>2 DEF CallIdsOf
      <4> QED BY <1>t, <2>1, <2>5, <3>2, <4>1
    <3> QED BY <1>t, <2>5, <3>1, <3>2
  <2>7. OpenCalls'
    <3> SUFFICES ASSUME NEW i \in DOMAIN messages', NEW id \in messages'[i].uses
                 PROVE  \/ i + id[2] \in DOMAIN messages'
                        \/ /\ pc' = "tool"
                           /\ messages'[i].uses = CallIdsOf(turn', requested')
      BY <2>1 DEF OpenCalls
    <3>1. CASE i \in 1..Len(messages)
      <4>1. id \in messages[i].uses /\ i \in DOMAIN messages
        BY <1>t, <2>5, <3>1
      <4>2. i + id[2] \in DOMAIN messages
        BY <2>4, <4>1 DEF CompleteIn
      <4> QED BY <1>t, <2>5, <4>2
    <3>2. CASE i = Len(messages) + 1
      <4>1. messages'[i].uses = CallIdsOf(turn, n)
        BY <2>3, <2>5, <3>2
      <4>2. n # 0
        BY <4>1 DEF CallIdsOf
      <4> QED BY <2>1, <4>1, <4>2
    <3> QED BY <1>t, <2>5, <3>1, <3>2
  <2>8. Serving'
    <3>1. Len(messages) + 1 \in DOMAIN messages'
      BY <1>t, <2>5
    <3>2. messages'[Len(messages) + 1].uses = CallIdsOf(turn', requested')
      BY <2>1, <2>3, <2>5
    <3>3. pc' = "tool" => (Len(messages) + 1) + call' = Len(messages') + 1
      BY <1>t, <2>1, <2>5
    <3>4. pc' \in {"tool", "done"}
      BY <2>1
    <3> QED BY <3>1, <3>2, <3>3, <3>4 DEF Serving
  <2> QED
    BY <1>0, <2>1, <2>6, <2>7, <2>8
       DEF BlockInv, AnsweredIn, LastTurn, FreshResultsReachTheModel
<1>4. CASE ModelFails
  BY <1>0, <1>4, SameShape DEF ModelFails, Finish, progress, chat
<1>5. ASSUME NEW how \in ToolOutcomes, NEW weight \in ResultWeights,
             ToolReturns(how, weight)
      PROVE  BlockInv'
  BY <1>0, <1>5, SameShape DEF ToolReturns, chat
<1>6. CASE ToolResumes
  BY <1>0, <1>6, SameShape DEF ToolResumes, progress, chat
<1>7. CASE ToolTimesOut \/ CancelsTool
  BY <1>0, <1>7, SameShape DEF ToolTimesOut, CancelsTool, progress, chat
<1>8. CASE TraceEnds
  <2> DEFINE m == ToolMessage(result)
  <2>1. /\ pc = "trace" /\ messages' = Append(messages, m)
        /\ \/ call < requested /\ pc' = "tool" /\ turn' = turn /\ call' = call + 1
           \/ ~(call < requested) /\ pc' = "round" /\ turn' = turn + 1
        /\ requested' = requested
    BY <1>8 DEF TraceEnds, TraceWritten, TraceFails, ServeNext
  <2>2. m \in Message
    BY <1>t, ToolMessageType DEF BlockInv, PairInv, TypeInv, TypeOK
  <2>3. m.uses = {} /\ m.answers = {<<turn, call>>}
    BY DEF ToolMessage, TextMessage
  <2>4. PICK a \in DOMAIN messages : /\ messages[a].uses = CallIdsOf(turn, requested)
                                     /\ a + call = Len(messages) + 1
    BY <2>1 DEF BlockInv, Serving
  <2> HIDE DEF m
  <2>5. /\ DOMAIN messages' = 1..(Len(messages) + 1)
        /\ Len(messages') = Len(messages) + 1
        /\ \A i \in 1..Len(messages) : messages'[i] = messages[i]
        /\ messages'[Len(messages) + 1] = m
    BY <1>t, <2>1, <2>2, AppendProperties, LenProperties
  <2>6. \A i \in DOMAIN messages' : \A id \in messages'[i].uses :
           i \in DOMAIN messages /\ id \in messages[i].uses
    BY <1>t, <2>3, <2>5
  <2>7. \* The calls of this turn are those of message a.
        \A i \in DOMAIN messages : \A id \in messages[i].uses :
           i + id[2] \in DOMAIN messages \/ i = a
    <3> SUFFICES ASSUME NEW i \in DOMAIN messages, NEW id \in messages[i].uses,
                        ~(i + id[2] \in DOMAIN messages)
                 PROVE  i = a
      OBVIOUS
    <3>1. messages[i].uses = CallIdsOf(turn, requested)
      BY <2>1 DEF BlockInv, OpenCalls
    <3>2. id \in messages[a].uses
      BY <2>4, <3>1
    <3> QED BY <3>2 DEF BlockInv, PairInv, UniqueIn
  <2>8. \* Of those, only the one just answered ends at the new message.
        \A i \in DOMAIN messages : \A id \in messages[i].uses :
           i + id[2] = Len(messages) + 1 => id = <<turn, call>>
    <3> SUFFICES ASSUME NEW i \in DOMAIN messages, NEW id \in messages[i].uses,
                        i + id[2] = Len(messages) + 1
                 PROVE  id = <<turn, call>>
      OBVIOUS
    <3>1. i = a
      BY <1>t, <2>7
    <3>2. PICK k \in 1..requested : id = <<turn, k>>
      BY <2>4, <3>1 DEF CallIdsOf
    <3>3. k = call
      BY <1>t, <2>4, <3>1, <3>2
    <3> QED BY <3>2, <3>3
  <2>9. AnsweredIn(messages')
    <3> SUFFICES ASSUME NEW i \in DOMAIN messages', NEW id \in messages'[i].uses,
                        i + id[2] \in DOMAIN messages'
                 PROVE  messages'[i + id[2]].answers = {id}
      BY DEF AnsweredIn
    <3>1. i \in DOMAIN messages /\ id \in messages[i].uses
      BY <2>6
    <3>2. CASE i + id[2] \in DOMAIN messages
      <4>1. messages[i + id[2]].answers = {id}
        BY <3>1, <3>2 DEF BlockInv, AnsweredIn
      <4> QED BY <1>t, <2>5, <3>2, <4>1
    <3>3. CASE i + id[2] = Len(messages) + 1
      BY <2>3, <2>5, <2>8, <3>1, <3>3
    <3> QED BY <1>t, <2>5, <3>2, <3>3
  <2>10. CASE call < requested
    <3>1. pc' = "tool" /\ turn' = turn /\ call' = call + 1
      BY <2>1, <2>10
    <3>2. OpenCalls'
      <4> SUFFICES ASSUME NEW i \in DOMAIN messages', NEW id \in messages'[i].uses
                   PROVE  \/ i + id[2] \in DOMAIN messages'
                          \/ messages'[i].uses = CallIdsOf(turn, requested)
        BY <2>1, <3>1 DEF OpenCalls
      <4>1. i \in DOMAIN messages /\ id \in messages[i].uses
        BY <2>6
      <4>2. i + id[2] \in DOMAIN messages \/ messages[i].uses = CallIdsOf(turn, requested)
        BY <2>1, <4>1 DEF BlockInv, OpenCalls
      <4> QED BY <1>t, <2>5, <4>1, <4>2
    <3>3. Serving'
      <4>1. /\ a \in DOMAIN messages'
            /\ messages'[a].uses = CallIdsOf(turn', requested')
            /\ a + call' = Len(messages') + 1
        <5>1. a \in 1..Len(messages) /\ messages'[a] = messages[a]
          BY <1>t, <2>5
        <5>2. a + call' = Len(messages') + 1
          <6>1. a \in Nat /\ call \in Nat /\ call' = call + 1
            BY <1>t, <3>1, <5>1
          <6>2. a + call = Len(messages) + 1 /\ Len(messages') = Len(messages) + 1
            BY <2>4, <2>5
          <6>3. Len(messages) \in Nat
            BY <1>t
          <6> QED BY <6>1, <6>2, <6>3
        <5>3. CallIdsOf(turn', requested') = CallIdsOf(turn, requested)
          BY <2>1, <3>1
        <5>4. a \in DOMAIN messages'
          BY <1>t, <2>5, <5>1
        <5> QED BY <2>4, <5>1, <5>2, <5>3, <5>4
      <4>2. \E i \in DOMAIN messages' : /\ messages'[i].uses = CallIdsOf(turn', requested')
                                        /\ i + call' = Len(messages') + 1
        BY <4>1
      <4> QED BY <4>2 DEF Serving
    <3> QED
      BY <1>0, <2>9, <3>1, <3>2, <3>3
         DEF BlockInv, AnsweredIn, LastTurn, FreshResultsReachTheModel
  <2>11. CASE ~(call < requested)
    <3>1. pc' = "round" /\ turn' = turn + 1 /\ call = requested
      BY <1>t, <2>1, <2>11
    <3>2. OpenCalls'
      <4> SUFFICES ASSUME NEW i \in DOMAIN messages', NEW id \in messages'[i].uses
                   PROVE  i + id[2] \in DOMAIN messages'
        BY <3>1 DEF OpenCalls
      <4>1. i \in DOMAIN messages /\ id \in messages[i].uses
        BY <2>6
      <4>2. CASE i + id[2] \in DOMAIN messages
        BY <1>t, <2>5, <4>2
      <4>3. CASE i = a
        <5>1. id[2] \in 1..requested
          BY <2>4, <4>1, <4>3 DEF CallIdsOf
        <5> QED BY <1>t, <2>4, <2>5, <3>1, <4>3, <5>1
      <4> QED BY <2>7, <4>1, <4>2, <4>3
    <3>3. LastTurn'
      <4>1. /\ a \in DOMAIN messages'
            /\ messages'[a].uses = CallIdsOf(turn' - 1, requested')
            /\ a + requested' = Len(messages') /\ requested' >= 1
        BY <1>t, <2>1, <2>4, <2>5, <3>1
      <4> QED BY <4>1 DEF LastTurn
    <3> QED
      BY <1>0, <2>9, <3>1, <3>2, <3>3
         DEF BlockInv, AnsweredIn, Serving, FreshResultsReachTheModel
  <2> QED BY <2>10, <2>11
<1>9. CASE BeginSynthesis
  <2>1. /\ pc = "round" /\ pc' = "synth" /\ messages' = messages
        /\ turn' = turn /\ requested' = requested /\ call' = call
    BY <1>9 DEF BeginSynthesis, progress
  <2>2. FreshResultsReachTheModel'
    BY <2>1, LastTurnAnswered DEF FreshResultsReachTheModel, ToolResultIds
  <2> QED
    BY <1>0, <2>1, <2>2 DEF BlockInv, AnsweredIn, OpenCalls, Serving, LastTurn
<1>10. ASSUME NEW tokens \in InputTokens, SynthesisReplies(tokens)
       PROVE  BlockInv'
  BY <1>0, <1>10, SameShape DEF SynthesisReplies, Finish, progress
<1>11. CASE Cancelled
  BY <1>0, <1>11, SameShape DEF Cancelled, Finish, progress, chat
<1>12. CASE RequestCancel
  BY <1>0, <1>12, SameShape DEF RequestCancel, progress, chat
<1>13. CASE ToolStops
  BY <1>0, <1>13, SameShape DEF ToolStops, Finish, chat
<1>14. CASE UNCHANGED vars
  BY <1>0, <1>14, SameShape DEF vars, progress, chat
<1> QED
  BY <1>1, <1>2, <1>3, <1>4, <1>5, <1>6, <1>7, <1>8, <1>9, <1>10, <1>11,
     <1>12, <1>13, <1>14
     DEF Next, LoopStep, Advance, ModelEnds, ToolEnds, Ended

\* Turns that are whole make a request the provider accepts.
LEMMA BlocksFit == BlockInv => RequestWellFormed
<1> SUFFICES ASSUME BlockInv, pc \in {"llm", "synth"}
             PROVE  /\ ToolUseIds(messages) = ToolResultIds(messages)
                    /\ \A i \in DOMAIN messages : \A id \in messages[i].uses :
                         /\ i + id[2] \in DOMAIN messages
                         /\ messages[i + id[2]].answers = {id}
  BY DEF RequestWellFormed
<1>1. CompleteIn(messages)
  BY CompleteBetweenTurns
<1>2. ToolUseIds(messages) \subseteq ToolResultIds(messages)
  BY <1>1 DEF CompleteIn, ToolUseIds, ToolResultIds
<1>3. ToolResultIds(messages) \subseteq ToolUseIds(messages)
  <2>1. SUFFICES ASSUME NEW j \in DOMAIN messages, NEW id \in messages[j].answers
                 PROVE  id \in ToolUseIds(messages)
    BY DEF ToolResultIds
  <2>2. DOMAIN messages = 1..Len(messages) /\ Len(messages) \in Nat
    BY LenProperties DEF BlockInv, PairInv, TypeInv, TypeOK
  <2>3. PICK i \in 1..(j - 1) : id \in messages[i].uses
    BY <2>1 DEF BlockInv, PairInv, PairedIn
  <2> QED BY <2>2, <2>3 DEF ToolUseIds
<1> QED BY <1>1, <1>2, <1>3 DEF CompleteIn

\* Every request the provider gets is one it accepts: each call of n tools is
\* followed at once by its n results in order and no result is left over, for
\* any number of parallel calls, rounds and compactions.
THEOREM RequestsAreWellFormed == Spec => []RequestWellFormed
<1> QED
  BY BlockInit, BlockNext, BlocksFit, PTL DEF Spec

\* With COMPACTION_PRESERVE_RECENT of 1 or more, the model sees each tool
\* result verbatim before a summary may replace it.
THEOREM FreshResultsAreSeen == Spec => []FreshResultsReachTheModel
<1>1. BlockInv => FreshResultsReachTheModel
  BY DEF BlockInv
<1> QED
  BY BlockInit, BlockNext, <1>1, PTL DEF Spec

-----------------------------------------------------------------------------
(* The budget and the dataset registry *)

\* One model call per round entered, and one more for the synthesis; and an
\* ended run holds no frame.
BudgetInv ==
    /\ TypeInv
    /\ pc \in {"ready", "round"} => modelCalls = turn
    /\ pc \in {"llm", "tool", "woken", "stopping", "trace", "synth"} => modelCalls = turn + 1
    /\ pc = "done" => modelCalls <= turn + 1
    /\ outcome = "capped" =>
         pc = "done" /\ turn = Budget /\ modelCalls = Budget + 1
    /\ pc = "done" => frames = {}

\* No model call has been made before a run is entered.
LEMMA BudgetInit == Init => BudgetInv
BY TypeInit DEF Init, BudgetInv

\* Every step keeps the count of model calls within the budget.
LEMMA BudgetNext == BudgetInv /\ [Next]_vars => BudgetInv'
<1> SUFFICES ASSUME BudgetInv, [Next]_vars
             PROVE  BudgetInv'
  OBVIOUS
<1>0. TypeInv'
  BY TypeNext DEF BudgetInv
<1>t. /\ pc \in Suspended \cup {"round", "done"}
      /\ turn \in Nat /\ modelCalls \in Nat /\ Budget \in Nat /\ turn <= Budget
      /\ pc # "done" => outcome = "none"
      /\ pc \in {"llm", "tool", "woken", "stopping", "trace"} => turn < Budget
      /\ pc = "synth" => turn = Budget
  BY BudgetPositive DEF BudgetInv, TypeInv, TypeOK, Control, Suspended
<1> USE <1>0, <1>t DEF BudgetInv, Suspended
<1> HIDE DEF TypeInv, Budget
<1>1. CASE Start
  BY <1>1 DEF Start, progress, dataset
<1>2. CASE BeginRound
  BY <1>2 DEF BeginRound, progress, dataset
<1>3. ASSUME NEW n \in 0..MaxCalls, NEW thinks \in Thinking,
             NEW weight \in ReplyWeights, NEW tokens \in InputTokens,
             NEW text \in ReplyTexts, ModelReplies(n, thinks, weight, tokens, text)
      PROVE  BudgetInv'
  <2>1. /\ pc = "llm" /\ turn' = turn /\ modelCalls' = modelCalls
    BY <1>3 DEF ModelReplies
  <2>2. \/ pc' = "done" /\ outcome' = "answered" /\ frames' = {}
        \/ pc' = "tool" /\ outcome' = outcome
    BY <1>3 DEF ModelReplies, Finish
  <2> QED BY <2>1, <2>2
<1>4. CASE ModelFails
  BY <1>4 DEF ModelFails, Finish, progress, chat
<1>5. ASSUME NEW how \in ToolOutcomes, NEW weight \in ResultWeights,
             ToolReturns(how, weight)
      PROVE  BudgetInv'
  BY <1>5 DEF ToolReturns, chat
<1>6. CASE ToolResumes
  BY <1>6 DEF ToolResumes, progress, chat, dataset
<1>7. CASE ToolTimesOut \/ CancelsTool
  BY <1>7 DEF ToolTimesOut, CancelsTool, progress, chat, dataset
<1>8. CASE TraceEnds
  <2>1. /\ pc = "trace" /\ modelCalls' = modelCalls /\ outcome' = outcome
        /\ \/ pc' = "tool" /\ turn' = turn
           \/ pc' = "round" /\ turn' = turn + 1
    BY <1>8 DEF TraceEnds, TraceWritten, TraceFails, ServeNext
  <2> QED BY <2>1
<1>9. CASE BeginSynthesis
  BY <1>9 DEF BeginSynthesis, progress, dataset
<1>10. ASSUME NEW tokens \in InputTokens, SynthesisReplies(tokens)
       PROVE  BudgetInv'
  BY <1>10 DEF SynthesisReplies, Finish, progress
<1>11. CASE Cancelled
  BY <1>11 DEF Cancelled, Finish, progress, chat
<1>12. CASE RequestCancel
  BY <1>12 DEF RequestCancel, progress, chat, dataset
<1>13. CASE ToolStops
  <2>1. /\ pc = "stopping" /\ turn' = turn /\ modelCalls' = modelCalls
        /\ \/ pc' = "done" /\ outcome' = "cancelled" /\ frames' = {}
           \/ pc' = "trace" /\ outcome' = outcome
    BY <1>13 DEF ToolStops, Finish, chat
  <2> QED BY <2>1
<1>14. CASE UNCHANGED vars
  BY <1>14 DEF vars, progress, chat, dataset
<1> QED
  BY <1>1, <1>2, <1>3, <1>4, <1>5, <1>6, <1>7, <1>8, <1>9, <1>10, <1>11,
     <1>12, <1>13, <1>14
     DEF Next, LoopStep, Advance, ModelEnds, ToolEnds, Ended

\* A run makes at most budget + 1 model calls, the extra one only as the
\* synthesis of a used-up budget, whatever integer was asked for.
THEOREM ModelCallsAreBounded == Spec => []BudgetBound
<1>1. BudgetInv => BudgetBound
  BY BudgetPositive DEF BudgetInv, BudgetBound, TypeInv, TypeOK, Control, Suspended
<1> QED
  BY BudgetInit, BudgetNext, <1>1, PTL DEF Spec

\* However a run ends, its registry is empty afterwards.
THEOREM FramesDoNotOutliveTheRun == Spec => []RegistryClearedAtEnd
<1>1. BudgetInv => RegistryClearedAtEnd
  BY DEF BudgetInv, RegistryClearedAtEnd
<1> QED
  BY BudgetInit, BudgetNext, <1>1, PTL DEF Spec

-----------------------------------------------------------------------------
(* Traces and events *)

\* What is announced: a tool_call event adds its call, an llm_call nothing.
LEMMA AnnouncedGrows ==
  ASSUME events \in Seq(Event), NEW e \in Event, events' = Append(events, e)
  PROVE  Announced' = Announced \cup
            (IF e.type = "tool_call" THEN {<<e.turn, e.k>>} ELSE {})
<1>1. /\ DOMAIN events = 1..Len(events) /\ Len(events) \in Nat
      /\ DOMAIN events' = 1..(Len(events) + 1)
      /\ events'[Len(events) + 1] = e
      /\ \A i \in DOMAIN events : events'[i] = events[i]
  BY AppendProperties
<1>2. ASSUME NEW x \in Announced'
      PROVE  x \in Announced \cup
               (IF e.type = "tool_call" THEN {<<e.turn, e.k>>} ELSE {})
  <2>1. PICK i \in DOMAIN events' :
           events'[i].type = "tool_call" /\ x = <<events'[i].turn, events'[i].k>>
    BY <1>2 DEF Announced
  <2>2. CASE i = Len(events) + 1
    BY <1>1, <2>1, <2>2
  <2>3. CASE i \in DOMAIN events
    BY <1>1, <2>1, <2>3 DEF Announced
  <2>4. i = Len(events) + 1 \/ i \in DOMAIN events
    BY <1>1
  <2> QED BY <2>2, <2>3, <2>4
<1>3. Announced \subseteq Announced'
  <2> SUFFICES ASSUME NEW i \in DOMAIN events, events[i].type = "tool_call"
               PROVE  <<events[i].turn, events[i].k>> \in Announced'
    BY DEF Announced
  <2>1. i \in DOMAIN events' /\ events'[i] = events[i]
    BY <1>1
  <2> QED BY <2>1 DEF Announced
<1>4. ASSUME e.type = "tool_call"
      PROVE  <<e.turn, e.k>> \in Announced'
  <2>1. Len(events) + 1 \in DOMAIN events' /\ events'[Len(events) + 1] = e
    BY <1>1
  <2> QED BY <1>4, <2>1 DEF Announced
<1> QED BY <1>2, <1>3, <1>4

\* Where a run has no tool call under way.
Between == {"ready", "round", "llm", "synth"}

\* The calls that lie behind the run.
Behind(id) == id[1] < turn \/ (id[1] = turn /\ id[2] < call)

StoryInv ==
    /\ TypeInv
    /\ pc \in Between => call = 0
    /\ rows \cap unlogged = {}
    /\ pc # "done" => rows \cup unlogged = Announced
    /\ pc # "done" => \A id \in Announced : Behind(id)
    /\ TraceMatchesEvents

LEMMA StoryInit == Init => StoryInv
<1> SUFFICES ASSUME Init
             PROVE  StoryInv
  OBVIOUS
<1>1. Announced = {}
  BY DEF Init, Announced
<1> QED BY <1>1, TypeInit DEF Init, StoryInv, TraceMatchesEvents

LEMMA StoryNext == StoryInv /\ [Next]_vars => StoryInv'
<1> SUFFICES ASSUME StoryInv, [Next]_vars
             PROVE  StoryInv'
  OBVIOUS
<1>t. TypeInv /\ TypeInv'
  BY TypeNext DEF StoryInv
<1>e. /\ events \in Seq(Event) /\ turn \in Nat /\ call \in Nat
      /\ requested \in 0..MaxCalls /\ Budget \in Nat
      /\ pc \in {"tool", "woken", "stopping", "trace"} => call <= requested
  BY <1>t, BudgetPositive DEF TypeInv, TypeOK, Control
<1>i. \A id \in Announced : id[1] \in Nat /\ id[2] \in Nat
  <2>1. \A i \in DOMAIN events : events[i] \in Event
    BY <1>e
  <2> QED BY <2>1 DEF Announced, Event
<1>s. ASSUME Announced' = Announced, UNCHANGED <<rows, unlogged, turn, call>>,
             pc # "done", pc' \in Between => pc \in Between
      PROVE  StoryInv'
  BY <1>t, <1>s DEF StoryInv, TraceMatchesEvents, Behind
<1>k. events' = events => Announced' = Announced
  BY DEF Announced
<1>1. CASE Start \/ BeginRound \/ BeginSynthesis \/ ToolResumes \/ ToolTimesOut
           \/ CancelsTool \/ ToolStops \/ ModelFails
  BY <1>1, <1>s, <1>k DEF Start, BeginRound, BeginSynthesis, ToolResumes,
        ToolTimesOut, CancelsTool, ToolStops, ModelFails, Finish, progress,
        traces, Between
<1>2. ASSUME NEW n \in 0..MaxCalls, NEW thinks \in Thinking,
             NEW weight \in ReplyWeights, NEW tokens \in InputTokens,
             NEW text \in ReplyTexts, ModelReplies(n, thinks, weight, tokens, text)
      PROVE  StoryInv'
  <2>1. LLMEvent(n) \in Event /\ LLMEvent(n).type = "llm_call"
    BY <1>e, LoopAssumption DEF LLMEvent, Event
  <2>2. Announced' = Announced
    BY <1>2, <1>e, <2>1, AnnouncedGrows DEF ModelReplies
  <2>3. UNCHANGED <<rows, unlogged, turn>> /\ pc = "llm" /\ pc' \notin Between
    BY <1>2 DEF ModelReplies, Finish, traces, Between
  <2>4. \A id \in Announced : id[1] < turn
    <3>1. call = 0
      BY <2>3 DEF StoryInv, Between
    <3> QED BY <1>i, <2>3, <3>1 DEF StoryInv, Behind
  <2> QED BY <1>t, <2>2, <2>3, <2>4 DEF StoryInv, TraceMatchesEvents, Behind
<1>3. ASSUME NEW tokens \in InputTokens, SynthesisReplies(tokens)
      PROVE  StoryInv'
  <2>1. LLMEvent(0) \in Event /\ LLMEvent(0).type = "llm_call"
    BY <1>e DEF LLMEvent, Event
  <2>2. Announced' = Announced
    BY <1>3, <1>e, <2>1, AnnouncedGrows DEF SynthesisReplies
  <2> QED BY <1>3, <1>s, <2>2 DEF SynthesisReplies, Finish, progress, traces, Between
<1>4. ASSUME NEW how \in ToolOutcomes, NEW weight \in ResultWeights,
             ToolReturns(how, weight)
      PROVE  StoryInv'
  BY <1>4, <1>s, <1>k DEF ToolReturns, traces, Between
<1>5. CASE TraceEnds
  <2>1. ToolEvent \in Event /\ ToolEvent.type = "tool_call"
        /\ ToolEvent.turn = turn /\ ToolEvent.k = call
    BY <1>e DEF ToolEvent, Event
  <2>2. Announced' = Announced \cup {<<turn, call>>}
    BY <1>5, <1>e, <2>1, AnnouncedGrows DEF TraceEnds, TraceWritten, TraceFails, ServeNext
  <2>3. <<turn, call>> \notin Announced /\ pc = "trace"
    BY <1>5, <1>e DEF TraceEnds, TraceWritten, TraceFails, StoryInv, Behind
  <2>4. /\ rows' \cup unlogged' = (rows \cup unlogged) \cup {<<turn, call>>}
        /\ rows' \cap unlogged' = {}
    BY <1>5, <2>3 DEF TraceEnds, TraceWritten, TraceFails, StoryInv
  <2>5. \A id \in Announced' : Behind(id)'
    <3>1. \/ turn' = turn /\ call' = call + 1
          \/ turn' = turn + 1
      BY <1>5 DEF TraceEnds, TraceWritten, TraceFails, ServeNext
    <3>2. \A id \in Announced \cup {<<turn, call>>} : Behind(id)'
      BY <1>e, <1>i, <2>3, <3>1 DEF StoryInv, Behind
    <3> QED BY <2>2, <3>2
  <2>6. pc' \in Between => call' = 0
    BY <1>5 DEF TraceEnds, TraceWritten, TraceFails, ServeNext, Between
  <2> QED BY <1>t, <2>2, <2>3, <2>4, <2>5, <2>6 DEF StoryInv, TraceMatchesEvents
<1>6. CASE Cancelled
  <2>1. /\ Announced' = Announced /\ pc # "done" /\ pc' = "done"
        /\ outcome' = "cancelled" /\ UNCHANGED <<unlogged, turn, call>>
        /\ rows' = rows \/ (pc = "trace" /\ rows' = rows \cup {<<turn, call>>})
    BY <1>6, <1>k DEF Cancelled, Finish, Suspended, progress
  <2>2. <<turn, call>> \notin Announced
    BY <1>e, <2>1 DEF StoryInv, Behind
  <2> QED BY <1>t, <2>1, <2>2 DEF StoryInv, TraceMatchesEvents, Between
<1>7. CASE RequestCancel \/ UNCHANGED vars
  <2>1. /\ Announced' = Announced
        /\ UNCHANGED <<pc, outcome, rows, unlogged, turn, call>>
    BY <1>7, <1>k DEF RequestCancel, vars, progress, traces
  <2> QED BY <1>t, <2>1 DEF StoryInv, TraceMatchesEvents, Behind
<1> QED
  BY <1>1, <1>2, <1>3, <1>4, <1>5, <1>6, <1>7
     DEF Next, LoopStep, Advance, ModelEnds, ToolEnds, Ended

\* A tool call is announced when its row is written or given up, never both,
\* and only a cancellation in the middle of an INSERT leaves a row without an
\* event (loop.py, the INSERT and the on_event that follows it).
THEOREM TracesTellTheRun == Spec => []TraceMatchesEvents
<1>1. StoryInv => TraceMatchesEvents
  BY DEF StoryInv
<1> QED
  BY StoryInit, StoryNext, <1>1, PTL DEF Spec

-----------------------------------------------------------------------------
(* What a run is to its registry and to the rest of the service *)

\* Each step of a run puts one frame, drops them all as it ends, or leaves the
\* registry alone.
LEMMA StoreStep == [Next]_vars => [Store!Next]_(Store!storeVars)
<1> SUFFICES ASSUME [Next]_vars
             PROVE  [Store!Next]_(Store!storeVars)
  OBVIOUS
<1> USE DEF Store!Next, Store!storeVars
<1>a. ASSUME counter' = counter, frames' = {}, pc # "done", pc' = "done"
      PROVE  Store!Clear
  BY <1>a DEF Store!Clear
<1>b. ASSUME UNCHANGED <<counter, frames>>, pc # "done", pc' # "done"
      PROVE  UNCHANGED Store!storeVars
  BY <1>b
<1>1. CASE Start \/ BeginRound \/ BeginSynthesis \/ ToolResumes
  BY <1>1, <1>b DEF Start, BeginRound, BeginSynthesis, ToolResumes, dataset
<1>2. ASSUME NEW n \in 0..MaxCalls, NEW thinks \in Thinking,
             NEW weight \in ReplyWeights, NEW tokens \in InputTokens,
             NEW text \in ReplyTexts, ModelReplies(n, thinks, weight, tokens, text)
      PROVE  [Store!Next]_(Store!storeVars)
  <2>1. CASE n = 0
    BY <1>2, <2>1, <1>a DEF ModelReplies, Finish
  <2>2. CASE n # 0
    BY <1>2, <2>2, <1>b DEF ModelReplies, dataset
  <2> QED BY <2>1, <2>2
<1>3. CASE ModelFails
  BY <1>3, <1>a DEF ModelFails, Finish
<1>4. ASSUME NEW tokens \in InputTokens, SynthesisReplies(tokens)
      PROVE  [Store!Next]_(Store!storeVars)
  BY <1>4, <1>a DEF SynthesisReplies, Finish
<1>5. ASSUME NEW how \in ToolOutcomes, NEW weight \in ResultWeights,
             ToolReturns(how, weight)
      PROVE  [Store!Next]_(Store!storeVars)
  <2>1. pc = "tool" /\ pc' = "woken"
    BY <1>5 DEF ToolReturns
  <2>2. CASE how \in {"load", "leak"}
    BY <1>5, <2>1, <2>2 DEF ToolReturns, Store!Put
  <2>3. CASE how \notin {"load", "leak"}
    BY <1>5, <2>1, <2>3, <1>b DEF ToolReturns, dataset
  <2> QED BY <2>2, <2>3
<1>6. CASE ToolTimesOut \/ CancelsTool \/ ToolStops
  BY <1>6, <1>a, <1>b DEF ToolTimesOut, CancelsTool, ToolStops, Finish, dataset
<1>7. CASE TraceEnds
  BY <1>7, <1>b DEF TraceEnds, TraceWritten, TraceFails, ServeNext, dataset
<1>8. CASE Cancelled
  BY <1>8, <1>a DEF Cancelled, Finish, Suspended
<1>9. CASE RequestCancel
  BY <1>9, <1>b DEF RequestCancel, Suspended, dataset
<1>10. CASE UNCHANGED vars
  BY <1>10 DEF vars, dataset
<1> QED
  BY <1>1, <1>2, <1>3, <1>4, <1>5, <1>6, <1>7, <1>8, <1>9, <1>10
     DEF Next, LoopStep, Advance, ModelEnds, ToolEnds, Ended

\* The run's registry is a DatasetStore: handles are issued once, stay good
\* while the run goes on, and end with it, however it ends (datasets.py, and
\* the finally clause of loop.py).
THEOREM RunKeepsItsHandles == Spec => ImplementsStore
<1>1. Init => Store!Init
  BY DEF Init, Store!Init
<1> QED
  BY <1>1, StoreStep, PTL DEF Spec, ImplementsStore, Store!Spec

\* The outlines that may follow r, one by one.
LEMMA OutlineMoves ==
  ASSUME NEW r
  PROVE  /\ r.phase = "ready" =>
              Outline!At("round", r.asked, r.todo) \in Outline!Started(r)
         /\ r.phase = "round" /\ r.asked <= Budget =>
              Outline!At("llm", r.asked + 1, r.todo) \in Outline!Asked(r)
         /\ r.phase = "llm" =>
              Outline!At("done", r.asked, r.todo) \in Outline!Answered(r)
         /\ r.phase = "llm" /\ r.asked <= Budget =>
              \A n \in 1..MaxCalls :
                 Outline!At("tool", r.asked, n - 1) \in Outline!Answered(r)
         /\ r.phase = "tool" =>
              Outline!At("trace", r.asked, r.todo) \in Outline!Served(r)
         /\ r.phase = "trace" /\ r.todo = 0 =>
              Outline!At("round", r.asked, r.todo) \in Outline!Recorded(r)
         /\ r.phase = "trace" /\ r.todo > 0 =>
              Outline!At("tool", r.asked, r.todo - 1) \in Outline!Recorded(r)
         /\ r.phase \in {"ready", "llm", "tool", "trace"} =>
              Outline!At("done", r.asked, 0) \in Outline!Broken(r)
<1>1. r.phase = "ready" =>
        Outline!At("round", r.asked, r.todo) \in Outline!Started(r)
  BY Zenon DEF Outline!Started
<1>2. r.phase = "round" /\ r.asked <= Budget =>
        Outline!At("llm", r.asked + 1, r.todo) \in Outline!Asked(r)
  BY Zenon DEF Outline!Asked
<1>3. r.phase = "llm" => Outline!At("done", r.asked, r.todo) \in Outline!Answered(r)
  BY Zenon DEF Outline!Answered
<1>4. r.phase = "llm" /\ r.asked <= Budget =>
        \A n \in 1..MaxCalls :
           Outline!At("tool", r.asked, n - 1) \in Outline!Answered(r)
  BY Zenon DEF Outline!Answered
<1>5. r.phase = "tool" => Outline!At("trace", r.asked, r.todo) \in Outline!Served(r)
  BY Zenon DEF Outline!Served
<1>6. r.phase = "trace" /\ r.todo = 0 =>
        Outline!At("round", r.asked, r.todo) \in Outline!Recorded(r)
  BY Zenon DEF Outline!Recorded
<1>7. r.phase = "trace" /\ r.todo > 0 =>
        Outline!At("tool", r.asked, r.todo - 1) \in Outline!Recorded(r)
  BY Zenon DEF Outline!Recorded
<1>8. r.phase \in {"ready", "llm", "tool", "trace"} =>
        Outline!At("done", r.asked, 0) \in Outline!Broken(r)
  BY Zenon DEF Outline!Broken
<1> QED BY <1>1, <1>2, <1>3, <1>4, <1>5, <1>6, <1>7, <1>8

\* Each step of a run is one of its outline's, or not seen from outside.
LEMMA OutlineStep == BudgetInv /\ [Next]_vars => [Outline!Next]_Outlined
<1> SUFFICES ASSUME BudgetInv, [Next]_vars
             PROVE  \/ Outlined' \in Outline!Successors(Outlined)
                    \/ Outlined' = Outlined
  BY DEF Outline!Next
<1> USE DEF Outline!At
<1>t. /\ Budget \in Nat /\ turn \in Nat /\ turn <= Budget /\ modelCalls \in Nat
      /\ requested \in Nat /\ call \in Nat
      /\ pc = "round" => modelCalls = turn
      /\ pc = "llm" => modelCalls <= Budget
      /\ pc \in {"tool", "woken", "stopping", "trace"} => call <= requested
  BY BudgetPositive DEF BudgetInv, TypeInv, TypeOK, Control
<1>m. /\ Outline!Started(Outlined) \subseteq Outline!Successors(Outlined)
      /\ Outline!Asked(Outlined) \subseteq Outline!Successors(Outlined)
      /\ Outline!Answered(Outlined) \subseteq Outline!Successors(Outlined)
      /\ Outline!Served(Outlined) \subseteq Outline!Successors(Outlined)
      /\ Outline!Recorded(Outlined) \subseteq Outline!Successors(Outlined)
      /\ Outline!Broken(Outlined) \subseteq Outline!Successors(Outlined)
  BY DEF Outline!Successors
<1>1. CASE Start
  <2>1. Outlined = Outline!At("ready", modelCalls, 0) /\ Outlined' = Outline!At("round", modelCalls, 0)
    BY <1>1 DEF Start, Outlined
  <2>2. Outlined.phase = "ready" /\ Outlined' = Outline!At("round", Outlined.asked, Outlined.todo)
    BY <2>1
  <2> QED BY <2>2, <1>m, OutlineMoves
<1>2. CASE BeginRound \/ BeginSynthesis
  <2>1. /\ Outlined = Outline!At("round", modelCalls, 0)
        /\ Outlined' = Outline!At("llm", modelCalls + 1, 0)
    BY <1>2 DEF BeginRound, BeginSynthesis, Outlined
  <2>2. modelCalls <= Budget
    BY <1>2, <1>t DEF BeginRound, BeginSynthesis
  <2>3. /\ Outlined.phase = "round" /\ Outlined.asked <= Budget
        /\ Outlined' = Outline!At("llm", Outlined.asked + 1, Outlined.todo)
    BY <2>1, <2>2
  <2> QED BY <2>3, <1>m, OutlineMoves
<1>3. ASSUME NEW n \in 0..MaxCalls, NEW thinks \in Thinking,
             NEW weight \in ReplyWeights, NEW tokens \in InputTokens,
             NEW text \in ReplyTexts, ModelReplies(n, thinks, weight, tokens, text)
      PROVE  Outlined' \in Outline!Successors(Outlined)
  <2>1. Outlined = Outline!At("llm", modelCalls, 0) /\ modelCalls <= Budget
    BY <1>3, <1>t DEF ModelReplies, Outlined
  <2>2. CASE n = 0
    <3>1. Outlined' = Outline!At("done", modelCalls, 0)
      BY <1>3, <2>2 DEF ModelReplies, Finish, Outlined
    <3>2. Outlined.phase = "llm" /\ Outlined' = Outline!At("done", Outlined.asked, Outlined.todo)
      BY <2>1, <3>1
    <3> QED BY <3>2, <1>m, OutlineMoves
  <2>3. CASE n # 0
    <3>1. Outlined' = Outline!At("tool", modelCalls, n - 1)
      BY <1>3, <2>3 DEF ModelReplies, Outlined
    <3>2. n \in 1..MaxCalls
      BY <2>3, LoopAssumption
    <3>3. /\ Outlined.phase = "llm" /\ Outlined.asked <= Budget
          /\ Outlined' = Outline!At("tool", Outlined.asked, n - 1)
      BY <2>1, <3>1
    <3> QED BY <3>2, <3>3, <1>m, OutlineMoves
  <2> QED BY <2>2, <2>3
<1>4. CASE ModelFails
  <2>1. Outlined = Outline!At("llm", modelCalls, 0) /\ Outlined' = Outline!At("done", modelCalls, 0)
    BY <1>4 DEF ModelFails, Finish, chat, Outlined
  <2>2. /\ Outlined.phase = "llm"
        /\ Outlined' = Outline!At("done", Outlined.asked, 0)
    BY <2>1
  <2> QED BY <2>2, <1>m, OutlineMoves
<1>5. ASSUME NEW tokens \in InputTokens, SynthesisReplies(tokens)
      PROVE  Outlined' \in Outline!Successors(Outlined)
  <2>1. Outlined = Outline!At("llm", modelCalls, 0) /\ Outlined' = Outline!At("done", modelCalls, 0)
    BY <1>5 DEF SynthesisReplies, Finish, Outlined
  <2>2. Outlined.phase = "llm" /\ Outlined' = Outline!At("done", Outlined.asked, Outlined.todo)
    BY <2>1
  <2> QED BY <2>2, <1>m, OutlineMoves
<1>6. ASSUME NEW how \in ToolOutcomes, NEW weight \in ResultWeights,
             ToolReturns(how, weight)
      PROVE  Outlined' = Outlined
  BY <1>6 DEF ToolReturns, Outlined, chat
<1>7. CASE ToolResumes \/ (ToolStops /\ cancel # "raised")
  <2>1. /\ Outlined = Outline!At("tool", modelCalls, requested - call)
        /\ Outlined' = Outline!At("trace", modelCalls, requested - call)
    BY <1>7 DEF ToolResumes, ToolStops, Outlined, progress, chat
  <2>2. Outlined.phase = "tool" /\ Outlined' = Outline!At("trace", Outlined.asked, Outlined.todo)
    BY <2>1
  <2> QED BY <2>2, <1>m, OutlineMoves
<1>8. CASE TraceEnds
  <2>1. /\ Outlined = Outline!At("trace", modelCalls, requested - call)
        /\ requested' = requested /\ modelCalls' = modelCalls
        /\ call <= requested
    BY <1>8, <1>t DEF TraceEnds, TraceWritten, TraceFails, Outlined
  <2>2. CASE call < requested
    <3>1. Outlined' = Outline!At("tool", modelCalls, requested - (call + 1))
      BY <1>8, <2>1, <2>2 DEF TraceEnds, TraceWritten, TraceFails, ServeNext, Outlined
    <3>2. requested - (call + 1) = (requested - call) - 1 /\ requested - call > 0
      BY <2>2, <1>t
    <3>3. /\ Outlined.phase = "trace" /\ Outlined.todo > 0
          /\ Outlined' = Outline!At("tool", Outlined.asked, Outlined.todo - 1)
      BY <2>1, <3>1, <3>2
    <3> QED BY <3>3, <1>m, OutlineMoves
  <2>3. CASE ~(call < requested)
    <3>1. Outlined' = Outline!At("round", modelCalls, 0)
      BY <1>8, <2>1, <2>3 DEF TraceEnds, TraceWritten, TraceFails, ServeNext, Outlined
    <3>2. requested - call = 0
      BY <2>1, <2>3, <1>t
    <3>3. /\ Outlined.phase = "trace" /\ Outlined.todo = 0
          /\ Outlined' = Outline!At("round", Outlined.asked, Outlined.todo)
      BY <2>1, <3>1, <3>2
    <3> QED BY <3>3, <1>m, OutlineMoves
  <2> QED BY <2>2, <2>3
<1>9. CASE Cancelled \/ (ToolStops /\ cancel = "raised")
  <2>1. /\ Outlined.phase \in {"ready", "llm", "tool", "trace"}
        /\ Outlined.asked = modelCalls
    BY <1>9 DEF Cancelled, ToolStops, Suspended, Outlined
  <2>2. Outlined' = Outline!At("done", modelCalls, 0)
    BY <1>9 DEF Cancelled, ToolStops, Finish, chat, Outlined
  <2>3. Outlined = Outline!At(Outlined.phase, modelCalls, Outlined.todo)
    BY DEF Outlined
  <2>4. Outlined' = Outline!At("done", Outlined.asked, 0)
    BY <2>2, <2>3
  <2> QED BY <2>1, <2>4, <1>m, OutlineMoves
<1>10. CASE RequestCancel \/ ToolTimesOut \/ CancelsTool \/ UNCHANGED vars
  BY <1>10 DEF RequestCancel, ToolTimesOut, CancelsTool, vars, progress, chat,
               Outlined
<1> QED
  BY <1>1, <1>2, <1>3, <1>4, <1>5, <1>6, <1>7, <1>8, <1>9, <1>10
     DEF Next, LoopStep, Advance, ModelEnds, ToolEnds, Ended

\* Service may take a run for its outline: whatever the budget, the replies and
\* the failures, a run asks the model, runs a tool and writes a row only in
\* the order and as often as RunOutline allows (loop.py, run_agent).
THEOREM RunFollowsItsOutline == Spec => ImplementsOutline
<1>1. Init => Outline!Init
  BY DEF Init, Outlined, Outline!Init, Outline!NewRun, Outline!At
<1> QED
  BY <1>1, BudgetInit, BudgetNext, OutlineStep, PTL
     DEF Spec, ImplementsOutline, Outline!Spec
-----------------------------------------------------------------------------
(* Handles *)

\* Every handle the messages ms name is in F.
NamesOnly(ms, F) ==
    \A i \in DOMAIN ms : \A h \in Nat :
        HandleTopic(h) \in ms[i].shows => h \in F

\* Two tool results name no handle alike.
NamedOnce(ms) ==
    \A i, j \in DOMAIN ms : \A h \in Nat :
        /\ ms[i].role = "tool" /\ ms[j].role = "tool"
        /\ HandleTopic(h) \in ms[i].shows /\ HandleTopic(h) \in ms[j].shows
        => i = j

\* No message names h yet.
Unnamed(ms, h) == \A i \in DOMAIN ms : HandleTopic(h) \notin ms[i].shows

\* The inductive form of HandlesAreLive: a result that is still on its way to
\* the conversation names a frame nothing has named before.
LiveInv ==
    /\ TypeInv
    /\ QuotesItself(messages)
    /\ pc # "done" =>
         /\ NamesOnly(messages, frames)
         /\ NamedOnce(messages)
         /\ result.handle \in frames \cup {0}
         /\ Unnamed(messages, result.handle)

\* A message that names nothing, or one handle that is new, may be added.
LEMMA AppendKeepsNames ==
    ASSUME NEW ms \in Seq(Message), NEW m \in Message, NEW F,
           NamesOnly(ms, F), NamedOnce(ms), QuotesItself(ms),
           m.opening \subseteq m.shows, m.ending \subseteq m.shows,
           \A h \in Nat : HandleTopic(h) \in m.shows => h \in F /\ Unnamed(ms, h)
    PROVE  /\ NamesOnly(Append(ms, m), F) /\ NamedOnce(Append(ms, m))
           /\ QuotesItself(Append(ms, m))
<1> DEFINE new == Append(ms, m)
<1>1. /\ Len(ms) \in Nat /\ DOMAIN ms = 1..Len(ms)
      /\ DOMAIN new = 1..(Len(ms) + 1)
      /\ \A i \in 1..Len(ms) : new[i] = ms[i]
      /\ new[Len(ms) + 1] = m
  BY AppendProperties, LenProperties
<1> HIDE DEF new
<1>2. \A i \in DOMAIN new : \/ i \in DOMAIN ms /\ new[i] = ms[i]
                            \/ i = Len(ms) + 1 /\ new[i] = m
  BY <1>1
<1>3. NamesOnly(new, F) /\ QuotesItself(new)
  BY <1>2 DEF NamesOnly, QuotesItself
<1>4. NamedOnce(new)
  <2> SUFFICES ASSUME NEW i \in DOMAIN new, NEW j \in DOMAIN new, NEW h \in Nat,
                      new[i].role = "tool", new[j].role = "tool",
                      HandleTopic(h) \in new[i].shows,
                      HandleTopic(h) \in new[j].shows
               PROVE  i = j
    BY DEF NamedOnce
  <2> QED BY <1>2 DEF NamedOnce, Unnamed
<1> QED BY <1>3, <1>4 DEF new

\* A compaction names no handle it did not find, and moves the tool results
\* without doubling one.
LEMMA CompactionKeepsNames ==
    ASSUME NEW ms \in Seq(Message), NEW F, NamesOnly(ms, F), NamedOnce(ms),
           QuotesItself(ms), Len(ms) > PreserveRecent, CutOf(ms) > 0
    PROVE  /\ NamesOnly(SummaryAndTail(ms), F) /\ NamedOnce(SummaryAndTail(ms))
           /\ QuotesItself(SummaryAndTail(ms))
           /\ \A h \in Nat : Unnamed(ms, h) => Unnamed(SummaryAndTail(ms), h)
<1> DEFINE new == SummaryAndTail(ms)
           cut == CutOf(ms)
<1>1. /\ Len(ms) \in Nat /\ DOMAIN ms = 1..Len(ms) /\ cut \in 1..Len(ms)
      /\ DOMAIN new = 1..(1 + Len(ms) - cut)
      /\ \A i \in 2..(1 + Len(ms) - cut) : new[i] = ms[cut + i - 1]
  BY CutProperties, SummaryAndTailProperties, LenProperties
<1>2. /\ QuotesItself(new) /\ new[1].role = "user"
      /\ \A i \in DOMAIN new : \A t \in new[i].shows :
            t = PreambleTopic \/ \E k \in DOMAIN ms : t \in ms[k].shows
  BY CompactionQuotes
<1> HIDE DEF new, cut
<1>3. \A h \in Nat : HandleTopic(h) # PreambleTopic
  BY DEF HandleTopic, PreambleTopic
<1>4. \A i \in DOMAIN new : \A h \in Nat :
        HandleTopic(h) \in new[i].shows =>
            \E k \in DOMAIN ms : HandleTopic(h) \in ms[k].shows
  BY <1>2, <1>3
<1>5. NamesOnly(new, F) /\ \A h \in Nat : Unnamed(ms, h) => Unnamed(new, h)
  BY <1>4 DEF NamesOnly, Unnamed
<1>6. NamedOnce(new)
  <2> SUFFICES ASSUME NEW i \in DOMAIN new, NEW j \in DOMAIN new, NEW h \in Nat,
                      new[i].role = "tool", new[j].role = "tool",
                      HandleTopic(h) \in new[i].shows,
                      HandleTopic(h) \in new[j].shows
               PROVE  i = j
    BY DEF NamedOnce
  <2>1. i # 1 /\ j # 1
    BY <1>2
  <2>2. /\ i \in 2..(1 + Len(ms) - cut) /\ j \in 2..(1 + Len(ms) - cut)
        /\ cut + i - 1 \in DOMAIN ms /\ cut + j - 1 \in DOMAIN ms
    BY <1>1, <2>1
  <2>3. new[i] = ms[cut + i - 1] /\ new[j] = ms[cut + j - 1]
    BY <1>1, <2>2
  <2>4. cut + i - 1 = cut + j - 1
    BY <2>2, <2>3 DEF NamedOnce
  <2> QED BY <1>1, <2>2, <2>4
<1> QED BY <1>2, <1>5, <1>6 DEF new

\* The prompt and the task name no handle.
LEMMA SeedNamesNothing ==
    ASSUME NEW ms, ms = <<SystemMessage, TaskMessage>>
    PROVE  QuotesItself(ms) /\ \A h \in Nat : Unnamed(ms, h)
<1>1. /\ SystemMessage.shows = {SystemTopic}
      /\ TaskMessage.shows = {TaskTopic, RestTopic}
      /\ SystemMessage.opening = {} /\ TaskMessage.opening = {TaskTopic}
      /\ SystemMessage.ending = {} /\ TaskMessage.ending = {}
  BY DEF SystemMessage, TaskMessage, TextMessage
<1>2. \A h \in Nat : HandleTopic(h) \notin {SystemTopic, TaskTopic, RestTopic}
  BY DEF HandleTopic, SystemTopic, TaskTopic, RestTopic
<1> HIDE DEF SystemMessage, TaskMessage, SystemTopic, TaskTopic, RestTopic,
             HandleTopic
<1>3. \A i \in DOMAIN ms : ms[i] = SystemMessage \/ ms[i] = TaskMessage
  OBVIOUS
<1> QED BY <1>1, <1>2, <1>3 DEF QuotesItself, Unnamed

\* An empty conversation names nothing.
LEMMA LiveInit == Init => LiveInv
<1> SUFFICES ASSUME Init PROVE LiveInv
  OBVIOUS
<1>1. DOMAIN messages = {} /\ result.handle = 0
  BY DEF Init, NoResult
<1> QED
  BY <1>1, TypeInit DEF LiveInv, QuotesItself, NamesOnly, NamedOnce, Unnamed

\* A step that touches neither the conversation nor the registry, and leaves
\* no handle in the result but the one that was there.
LEMMA SameNames ==
    ASSUME LiveInv, TypeInv', messages' = messages,
           pc' # "done" => pc # "done" /\ frames' = frames /\ result'.handle \in {0, result.handle}
    PROVE  LiveInv'
<1>1. QuotesItself(messages)'
  BY DEF LiveInv, QuotesItself
<1>2. ASSUME pc' # "done"
      PROVE  /\ NamesOnly(messages, frames)' /\ NamedOnce(messages)'
             /\ (result.handle \in frames \cup {0})'
             /\ Unnamed(messages, result.handle)'
  <2>1. /\ NamesOnly(messages, frames) /\ NamedOnce(messages)
        /\ result.handle \in frames \cup {0} /\ Unnamed(messages, result.handle)
        /\ frames' = frames /\ result'.handle \in {0, result.handle}
    BY <1>2 DEF LiveInv
  <2>2. 0 \notin frames
    BY DEF LiveInv, TypeInv, TypeOK
  <2>3. Unnamed(messages, 0)
    BY <2>1, <2>2 DEF NamesOnly, Unnamed
  <2> QED BY <2>1, <2>3 DEF NamesOnly, NamedOnce, Unnamed
<1> QED BY <1>1, <1>2 DEF LiveInv

\* Every step keeps the handles: loads are new, compactions only repeat.
LEMMA LiveNext == LiveInv /\ [Next]_vars => LiveInv'
<1> SUFFICES ASSUME LiveInv, [Next]_vars
             PROVE  LiveInv'
  OBVIOUS
<1>0. TypeInv'
  BY TypeNext DEF LiveInv
<1>t. /\ messages \in Seq(Message) /\ QuotesItself(messages)
      /\ turn \in Nat /\ call \in Nat /\ counter \in Nat
      /\ result \in ToolResult /\ result.handle \in Nat
      /\ frames \subseteq 1..counter
  <2>1. result \in ToolResult /\ turn \in Nat /\ call \in Nat
    BY BudgetPositive, LoopAssumption DEF LiveInv, TypeInv, TypeOK
  <2>2. result.handle \in Nat
    BY <2>1 DEF ToolResult
  <2> QED BY <2>1, <2>2 DEF LiveInv, TypeInv, TypeOK
<1>s. pc # "done" => /\ NamesOnly(messages, frames) /\ NamedOnce(messages)
                     /\ result.handle \in frames \cup {0}
                     /\ Unnamed(messages, result.handle)
  BY DEF LiveInv
<1>1. CASE Start
  <2>1. /\ pc = "ready" /\ frames' = frames /\ result' = result
        /\ messages' = <<SystemMessage, TaskMessage>>
    BY <1>1 DEF Start, progress, dataset
  <2>2. QuotesItself(messages') /\ \A h \in Nat : Unnamed(messages', h)
    BY <2>1, SeedNamesNothing
  <2>3. NamesOnly(messages', frames') /\ NamedOnce(messages')
    BY <2>2 DEF NamesOnly, NamedOnce, Unnamed
  <2>4. Unnamed(messages', result'.handle)
    BY <1>t, <2>1, <2>2
  <2> QED
    BY <1>0, <1>s, <2>1, <2>2, <2>3, <2>4
       DEF LiveInv, QuotesItself, NamesOnly, NamedOnce, Unnamed
<1>2. CASE BeginRound
  <2>1. pc = "round" /\ frames' = frames /\ result' = result
    BY <1>2 DEF BeginRound, progress, dataset
  <2>2. CASE messages' = messages
    BY <1>0, <2>1, <2>2, SameNames
  <2>3. CASE messages' # messages
    <3>1. messages' = CompactMessages(messages).messages
      BY <1>2, <2>3 DEF BeginRound
    <3>2. /\ Len(messages) > PreserveRecent /\ CutOf(messages) > 0
          /\ messages' = SummaryAndTail(messages)
      BY <1>t, <2>3, <3>1, CompactMessagesCases
    <3>3. /\ NamesOnly(messages', frames') /\ NamedOnce(messages')
          /\ QuotesItself(messages') /\ Unnamed(messages', result'.handle)
      BY <1>s, <1>t, <2>1, <3>2, CompactionKeepsNames
    <3> QED
      BY <1>0, <1>s, <2>1, <3>3
         DEF LiveInv, QuotesItself, NamesOnly, NamedOnce, Unnamed
  <2> QED BY <2>2, <2>3
<1>3. ASSUME NEW n \in 0..MaxCalls, NEW thinks \in Thinking,
             NEW weight \in ReplyWeights, NEW tokens \in InputTokens,
             NEW text \in ReplyTexts, ModelReplies(n, thinks, weight, tokens, text)
      PROVE  LiveInv'
  <2> DEFINE m == AssistantMessage(n, thinks, weight, text)
  <2>1. pc = "llm" /\ messages' = Append(messages, m) /\ result' = result
    BY <1>3 DEF ModelReplies
  <2>2. frames' = frames \/ pc' = "done"
    BY <1>3 DEF ModelReplies, Finish, dataset
  <2>3. m \in Message
    BY <1>t, AssistantMessageType, LoopAssumption
  <2>4. m.opening = text /\ m.ending = text /\ m.shows = text /\ m.role = "assistant"
    BY DEF AssistantMessage, TextMessage
  <2>5. \A h \in Nat : HandleTopic(h) \notin m.shows
    BY <2>4, LoopAssumption DEF HandleTopic, WorkTopic
  <2> HIDE DEF m
  <2>6. /\ NamesOnly(messages', frames) /\ NamedOnce(messages')
        /\ QuotesItself(messages')
    BY <1>s, <1>t, <2>1, <2>3, <2>4, <2>5, AppendKeepsNames
  <2>7. Unnamed(messages', result.handle)
    <3>1. \A i \in DOMAIN messages' :
            messages'[i] = m \/ (i \in DOMAIN messages /\ messages'[i] = messages[i])
      BY <1>t, <2>1, <2>3, AppendProperties, LenProperties
    <3>2. HandleTopic(result.handle) \notin m.shows
      BY <1>t, <2>5
    <3>3. Unnamed(messages, result.handle)
      BY <1>s, <2>1
    <3> QED BY <3>1, <3>2, <3>3 DEF Unnamed
  <2> QED
    BY <1>0, <1>s, <2>1, <2>2, <2>6, <2>7
       DEF LiveInv, QuotesItself, NamesOnly, NamedOnce, Unnamed
<1>4. CASE ModelFails
  BY <1>0, <1>4, SameNames DEF ModelFails, Finish, chat
<1>5. ASSUME NEW how \in ToolOutcomes, NEW weight \in ResultWeights,
             ToolReturns(how, weight)
      PROVE  LiveInv'
  <2>1. pc = "tool" /\ messages' = messages
    BY <1>5 DEF ToolReturns, chat
  <2>2. CASE how \in {"load", "leak"}
    <3>1. /\ frames' = frames \cup {counter + 1}
          /\ result'.handle \in {0, counter + 1}
      BY <1>5, <2>2 DEF ToolReturns
    <3>2. \A h \in frames : h # 0 /\ h # counter + 1
      BY <1>t
    <3>3. NamesOnly(messages, frames') /\ Unnamed(messages, result'.handle)
      BY <1>s, <1>t, <2>1, <3>1, <3>2 DEF NamesOnly, Unnamed
    <3> QED
      BY <1>0, <1>s, <1>t, <2>1, <3>1, <3>3
         DEF LiveInv, QuotesItself, NamesOnly, NamedOnce, Unnamed
  <2>3. CASE how \notin {"load", "leak"}
    <3>1. frames' = frames /\ result'.handle = 0
      BY <1>5, <2>3 DEF ToolReturns, dataset
    <3> QED BY <1>0, <2>1, <3>1, SameNames
  <2> QED BY <2>2, <2>3
<1>6. CASE ToolResumes
  BY <1>0, <1>6, SameNames DEF ToolResumes, progress, chat, dataset
<1>7. CASE ToolTimesOut \/ CancelsTool
  BY <1>0, <1>7, SameNames DEF ToolTimesOut, CancelsTool, progress, chat, dataset
<1>8. CASE TraceEnds
  <2> DEFINE m == ToolMessage(result)
  <2>1. /\ pc = "trace" /\ messages' = Append(messages, m)
        /\ result' = NoResult /\ frames' = frames /\ pc' # "done"
    BY <1>8 DEF TraceEnds, TraceWritten, TraceFails, ServeNext, dataset
  <2>2. m \in Message
    BY <1>t, ToolMessageType
  <2>3. /\ m.opening = m.shows /\ m.ending = {WorkTopic}
        /\ m.shows = {WorkTopic} \cup
              (IF result.handle = 0 THEN {} ELSE {HandleTopic(result.handle)})
    BY DEF ToolMessage, TextMessage
  <2> HIDE DEF m
  <2>4. \A h \in Nat : HandleTopic(h) \in m.shows => h = result.handle /\ h # 0
    BY <1>t, <2>3 DEF HandleTopic, WorkTopic
  <2>5. /\ NamesOnly(messages', frames) /\ NamedOnce(messages')
        /\ QuotesItself(messages')
    BY <1>s, <1>t, <2>1, <2>2, <2>3, <2>4, AppendKeepsNames
  <2>6. result'.handle = 0 /\ 0 \notin frames
    BY <1>t, <2>1 DEF NoResult
  <2>7. Unnamed(messages', 0)
    BY <2>5, <2>6 DEF NamesOnly, Unnamed
  <2> QED
    BY <1>0, <2>1, <2>5, <2>6, <2>7
       DEF LiveInv, QuotesItself, NamesOnly, NamedOnce, Unnamed
<1>9. CASE BeginSynthesis
  BY <1>0, <1>9, SameNames DEF BeginSynthesis, progress, dataset
<1>10. ASSUME NEW tokens \in InputTokens, SynthesisReplies(tokens)
       PROVE  LiveInv'
  BY <1>0, <1>10, SameNames DEF SynthesisReplies, Finish
<1>11. CASE Cancelled
  BY <1>0, <1>11, SameNames DEF Cancelled, Finish, chat
<1>12. CASE RequestCancel
  BY <1>0, <1>12, SameNames DEF RequestCancel, Suspended, progress, chat, dataset
<1>13. CASE ToolStops
  BY <1>0, <1>13, SameNames DEF ToolStops, Finish, chat, dataset
<1>14. CASE UNCHANGED vars
  BY <1>0, <1>14, SameNames DEF vars, progress, chat, dataset
<1> QED
  BY <1>1, <1>2, <1>3, <1>4, <1>5, <1>6, <1>7, <1>8, <1>9, <1>10, <1>11,
     <1>12, <1>13, <1>14
     DEF Next, LoopStep, Advance, ModelEnds, ToolEnds, Ended

\* Names of held frames, each given once, are live handles.
LEMMA NamesFit == LiveInv => HandlesAreLive
<1> SUFFICES ASSUME LiveInv, pc # "done"
             PROVE  /\ HandlesIn(Shown(messages)) \subseteq frames
                    /\ result.handle \in frames \cup {0}
                    /\ \A i, j \in DOMAIN messages :
                         /\ i # j /\ messages[i].role = "tool"
                         /\ messages[j].role = "tool"
                         => HandlesIn(messages[i].shows)
                              \cap HandlesIn(messages[j].shows) = {}
  BY DEF HandlesAreLive
<1>1. /\ NamesOnly(messages, frames) /\ NamedOnce(messages)
      /\ result.handle \in frames \cup {0}
  BY DEF LiveInv
<1>2. \A i \in DOMAIN messages : \A t \in messages[i].shows :
        t[1] = "handle" => t[2] \in Nat /\ t = HandleTopic(t[2])
  <2>1. messages \in Seq(Message)
    BY DEF LiveInv, TypeInv, TypeOK
  <2>2. \A i \in DOMAIN messages : messages[i] \in Message
    BY <2>1, ElementOfSeq, LenProperties
  <2>3. \A i \in DOMAIN messages : messages[i].shows \subseteq Topics
    <3> HIDE DEF Topics, CallIds, Roles
    <3> QED BY <2>2 DEF Message
  <2>4. \A t \in Topics : t[1] = "handle" => t[2] \in Nat /\ t = HandleTopic(t[2])
    BY DEF Topics, HandleTopic
  <2> QED BY <2>3, <2>4
<1>3. HandlesIn(Shown(messages)) \subseteq frames
  BY <1>1, <1>2 DEF HandlesIn, Shown, NamesOnly
<1>4. ASSUME NEW i \in DOMAIN messages, NEW j \in DOMAIN messages,
             i # j, messages[i].role = "tool", messages[j].role = "tool",
             NEW h \in HandlesIn(messages[i].shows) \cap HandlesIn(messages[j].shows)
      PROVE  FALSE
  <2>1. /\ h \in Nat /\ HandleTopic(h) \in messages[i].shows
        /\ HandleTopic(h) \in messages[j].shows
    BY <1>2, <1>4 DEF HandlesIn
  <2> QED BY <1>1, <1>4, <2>1 DEF NamedOnce
<1> QED BY <1>1, <1>3, <1>4

\* Whatever was loaded, leaked, compacted and compacted again: a handle that
\* the conversation of a run names is one its registry holds, and each result
\* names its own (datasets.py, put; compaction.py, the summary's quotations).
THEOREM NamedHandlesAreHeld == Spec => []HandlesAreLive
<1> QED
  BY LiveInit, LiveNext, NamesFit, PTL DEF Spec
-----------------------------------------------------------------------------
(* The transcript *)

\* The events from p to i are a reply of the model and the first i - p of the
\* tool calls it asked for.
Group(es, p, i) ==
    /\ p \in 1..i
    /\ es[p].type = "llm_call"
    /\ \A j \in (p + 1)..i : /\ es[j].type = "tool_call"
                             /\ es[j].turn = es[p].turn
                             /\ es[j].k = j - p
                             /\ es[j].k <= es[p].k

\* ... all of them, and at least one.
Round(es, p, i) == Group(es, p, i) /\ i - p = es[p].k /\ p < i

\* The reply at p is the first event, or comes next after a whole round.
Follows(es, p) ==
    \/ p = 1 /\ es[p].turn = 0
    \/ \E q \in 1..(p - 1) : Round(es, q, p - 1) /\ es[p].turn = es[q].turn + 1

\* TranscriptInOrder, event by event.
InOrder(es) ==
    \A i \in DOMAIN es : \E p \in 1..i : Group(es, p, i) /\ Follows(es, p)

\* A group only looks at the events up to its end.
LEMMA AppendKeepsGroups ==
    ASSUME NEW es \in Seq(Event), NEW e \in Event,
           NEW p, NEW i \in 0..Len(es)
    PROVE  /\ Group(es, p, i) => Group(Append(es, e), p, i)
           /\ Round(es, p, i) => Round(Append(es, e), p, i)
           /\ p \in 1..i /\ Follows(es, p) => Follows(Append(es, e), p)
<1> DEFINE new == Append(es, e)
<1>1. /\ Len(es) \in Nat
      /\ \A k \in 1..Len(es) : new[k] = es[k]
  BY AppendProperties, LenProperties
<1> HIDE DEF new
<1>2. ASSUME NEW q, NEW k \in 0..Len(es), Group(es, q, k)
      PROVE  Group(new, q, k) /\ new[q] = es[q]
  <2>1. q \in 1..k /\ q \in 1..Len(es)
    BY <1>1, <1>2 DEF Group
  <2>2. \A j \in (q + 1)..k : new[j] = es[j]
    BY <1>1, <2>1
  <2> QED BY <1>1, <1>2, <2>1, <2>2 DEF Group
<1>3. ASSUME NEW q, NEW k \in 0..Len(es), Round(es, q, k)
      PROVE  Round(new, q, k) /\ new[q] = es[q]
  BY <1>2, <1>3 DEF Round
<1>4. ASSUME p \in 1..i, Follows(es, p)
      PROVE  Follows(new, p)
  <2>1. p \in 1..Len(es) /\ new[p] = es[p] /\ p - 1 \in 0..Len(es)
    BY <1>1, <1>4
  <2> QED BY <1>3, <1>4, <2>1 DEF Follows
<1> QED BY <1>2, <1>3, <1>4 DEF new

\* An event may be added that is the next of its group, or that begins one.
LEMMA AppendKeepsOrder ==
    ASSUME NEW es \in Seq(Event), NEW e \in Event, InOrder(es),
           NEW p \in 1..(Len(es) + 1),
           Group(Append(es, e), p, Len(es) + 1), Follows(Append(es, e), p)
    PROVE  InOrder(Append(es, e))
<1> DEFINE new == Append(es, e)
<1>1. /\ Len(es) \in Nat /\ DOMAIN es = 1..Len(es)
      /\ DOMAIN new = 1..(Len(es) + 1)
  BY AppendProperties, LenProperties
<1>2. ASSUME NEW i \in 1..Len(es)
      PROVE  \E q \in 1..i : Group(new, q, i) /\ Follows(new, q)
  <2>1. PICK q \in 1..i : Group(es, q, i) /\ Follows(es, q)
    BY <1>1 DEF InOrder
  <2>2. i \in 0..Len(es)
    OBVIOUS
  <2> QED BY <2>1, <2>2, AppendKeepsGroups
<1> HIDE DEF new
<1>3. Group(new, p, Len(es) + 1) /\ Follows(new, p)
  BY DEF new
<1>4. ASSUME NEW i \in DOMAIN new
      PROVE  \E q \in 1..i : Group(new, q, i) /\ Follows(new, q)
  <2>1. i \in 1..Len(es) \/ i = Len(es) + 1
    BY <1>1
  <2> QED BY <1>2, <1>3, <2>1
<1> QED BY <1>4 DEF InOrder, new

\* A result of the round's next call.
LEMMA ToolEventInOrder ==
    ASSUME NEW es \in Seq(Event), NEW e \in Event, InOrder(es),
           NEW p \in DOMAIN es, Group(es, p, Len(es)),
           e.type = "tool_call", e.turn = es[p].turn,
           e.k = Len(es) + 1 - p, e.k <= es[p].k
    PROVE  /\ InOrder(Append(es, e))
           /\ Group(Append(es, e), p, Len(es) + 1)
           /\ Append(es, e)[p] = es[p]
<1> DEFINE new == Append(es, e)
<1>1. /\ Len(es) \in Nat /\ DOMAIN es = 1..Len(es)
      /\ \A k \in 1..Len(es) : new[k] = es[k]
      /\ new[Len(es) + 1] = e
  BY AppendProperties, LenProperties
<1> HIDE DEF new
<1>2. Group(new, p, Len(es) + 1)
  <2>1. p \in 1..(Len(es) + 1) /\ new[p] = es[p]
    BY <1>1
  <2>2. ASSUME NEW j \in (p + 1)..(Len(es) + 1)
        PROVE  /\ new[j].type = "tool_call" /\ new[j].turn = new[p].turn
               /\ new[j].k = j - p /\ new[j].k <= new[p].k
    <3>1. j \in (p + 1)..Len(es) \/ j = Len(es) + 1
      BY <1>1
    <3>2. CASE j \in (p + 1)..Len(es)
      <4>1. j \in 1..Len(es)
        BY <1>1, <3>2
      <4> QED BY <1>1, <2>1, <3>2, <4>1 DEF Group
    <3>3. CASE j = Len(es) + 1
      BY <1>1, <2>1, <3>3
    <3> QED BY <3>1, <3>2, <3>3
  <2> QED BY <2>1, <2>2 DEF Group
<1>3. Follows(es, p)
  <2>1. PICK q \in 1..Len(es) : Group(es, q, Len(es)) /\ Follows(es, q)
    BY <1>1 DEF InOrder
  <2>2. q = p
    <3>1. ~(q < p)
      BY <1>1, <2>1 DEF Group
    <3>2. ~(p < q)
      BY <1>1, <2>1 DEF Group
    <3> QED BY <1>1, <3>1, <3>2
  <2> QED BY <2>1, <2>2
<1>4. Follows(new, p)
  <2>1. p \in 1..Len(es) /\ Len(es) \in 0..Len(es)
    BY <1>1
  <2> QED BY <1>3, <2>1, AppendKeepsGroups DEF new
<1>5. p \in 1..(Len(es) + 1)
  BY <1>1
<1> QED BY <1>1, <1>2, <1>4, <1>5, AppendKeepsOrder DEF new

\* The reply that begins the next round.
LEMMA LLMEventInOrder ==
    ASSUME NEW es \in Seq(Event), NEW e \in Event, InOrder(es),
           e.type = "llm_call",
           \/ Len(es) = 0 /\ e.turn = 0
           \/ \E p \in DOMAIN es : Round(es, p, Len(es)) /\ e.turn = es[p].turn + 1
    PROVE  /\ InOrder(Append(es, e))
           /\ Group(Append(es, e), Len(es) + 1, Len(es) + 1)
           /\ Append(es, e)[Len(es) + 1] = e
<1> DEFINE new == Append(es, e)
           n == Len(es) + 1
<1>1. /\ Len(es) \in Nat /\ DOMAIN es = 1..Len(es)
      /\ \A k \in 1..Len(es) : new[k] = es[k]
      /\ new[n] = e /\ n \in 1..n /\ n - 1 = Len(es)
  BY AppendProperties, LenProperties
<1>2. Group(new, n, n)
  <2> HIDE DEF new
  <2>1. (n + 1)..n = {}
    BY <1>1
  <2> QED BY <1>1, <2>1 DEF Group
<1>3. Follows(new, n)
  <2>1. CASE Len(es) = 0 /\ e.turn = 0
    BY <1>1, <2>1 DEF Follows
  <2>2. ASSUME NEW p \in DOMAIN es, Round(es, p, Len(es)), e.turn = es[p].turn + 1
        PROVE  Follows(new, n)
    <3>1. Round(new, p, Len(es))
      BY <1>1, <2>2, AppendKeepsGroups
    <3>2. new[p] = es[p] /\ p \in 1..(n - 1)
      BY <1>1
    <3> HIDE DEF new, n
    <3> QED BY <1>1, <2>2, <3>1, <3>2 DEF Follows
  <2> QED BY <2>1, <2>2
<1> QED BY <1>1, <1>2, <1>3, AppendKeepsOrder

\* The inductive form of TranscriptInOrder: while calls are served the last
\* group has those that were; between the rounds it is a whole round.
TranscriptInv ==
    /\ TypeInv
    /\ InOrder(events)
    /\ pc \in {"tool", "woken", "stopping", "trace"} =>
         \E p \in DOMAIN events :
            /\ Group(events, p, Len(events))
            /\ events[p].turn = turn /\ events[p].k = requested
            /\ Len(events) - p = call - 1
    /\ pc \in {"ready", "round", "llm", "synth"} =>
         \/ turn = 0 /\ Len(events) = 0
         \/ \E p \in DOMAIN events :
              Round(events, p, Len(events)) /\ events[p].turn = turn - 1

\* A run that has not begun has announced nothing.
LEMMA TranscriptInit == Init => TranscriptInv
<1> SUFFICES ASSUME Init PROVE TranscriptInv
  OBVIOUS
<1>1. pc = "ready" /\ turn = 0 /\ Len(events) = 0 /\ DOMAIN events = {}
  BY DEF Init
<1> QED BY <1>1, TypeInit DEF TranscriptInv, InOrder

\* A step that announces nothing.
LEMMA SameEvents ==
    ASSUME TranscriptInv, TypeInv', events' = events,
           UNCHANGED <<turn, requested, call>>,
           pc' \in {"tool", "woken", "stopping", "trace"} => pc \in {"tool", "woken", "stopping", "trace"},
           pc' \in {"ready", "round", "llm", "synth"}
              => pc \in {"ready", "round", "llm", "synth"}
    PROVE  TranscriptInv'
BY DEF TranscriptInv, InOrder, Group, Round, Follows

\* Every step keeps the transcript in order.
LEMMA TranscriptNext == TranscriptInv /\ [Next]_vars => TranscriptInv'
<1> SUFFICES ASSUME TranscriptInv, [Next]_vars
             PROVE  TranscriptInv'
  OBVIOUS
<1>0. TypeInv'
  BY TypeNext DEF TranscriptInv
<1>t. /\ events \in Seq(Event) /\ Len(events) \in Nat
      /\ DOMAIN events = 1..Len(events) /\ InOrder(events)
      /\ turn \in Nat /\ call \in Nat /\ requested \in Nat
      /\ pc \in {"tool", "woken", "stopping", "trace"} => 1 <= call /\ call <= requested
      /\ pc = "synth" => turn = Budget
  BY BudgetPositive, LoopAssumption, LenProperties
     DEF TranscriptInv, TypeInv, TypeOK, Control
<1>e. ASSUME pc \in {"ready", "round", "llm", "synth"}, NEW n \in Nat,
             events' = Append(events, LLMEvent(n))
      PROVE  /\ InOrder(events')
             /\ Len(events') = Len(events) + 1
             /\ DOMAIN events' = 1..(Len(events) + 1)
             /\ Group(events', Len(events) + 1, Len(events) + 1)
             /\ events'[Len(events) + 1] = LLMEvent(n)
  <2>1. LLMEvent(n) \in Event /\ LLMEvent(n).type = "llm_call" /\ LLMEvent(n).turn = turn
    BY <1>t DEF LLMEvent, Event
  <2>2. \/ Len(events) = 0 /\ LLMEvent(n).turn = 0
        \/ \E p \in DOMAIN events :
             Round(events, p, Len(events)) /\ LLMEvent(n).turn = events[p].turn + 1
    <3>1. CASE turn = 0 /\ Len(events) = 0
      BY <2>1, <3>1
    <3>2. ASSUME NEW p \in DOMAIN events, Round(events, p, Len(events)),
                 events[p].turn = turn - 1
          PROVE  LLMEvent(n).turn = events[p].turn + 1
      BY <1>t, <2>1, <3>2
    <3> QED BY <1>e, <3>1, <3>2 DEF TranscriptInv
  <2> HIDE DEF LLMEvent
  <2>3. /\ Len(events') = Len(events) + 1
        /\ DOMAIN events' = 1..(Len(events) + 1)
    BY <1>e, <1>t, <2>1, AppendProperties, LenProperties
  <2> QED BY <1>e, <1>t, <2>1, <2>2, <2>3, LLMEventInOrder
<1>1. CASE Start
  BY <1>0, <1>1, SameEvents DEF Start, progress
<1>2. CASE BeginRound
  BY <1>0, <1>2, SameEvents DEF BeginRound, progress
<1>3. ASSUME NEW n \in 0..MaxCalls, NEW thinks \in Thinking,
             NEW weight \in ReplyWeights, NEW tokens \in InputTokens,
             NEW text \in ReplyTexts, ModelReplies(n, thinks, weight, tokens, text)
      PROVE  TranscriptInv'
  <2>1. /\ pc = "llm" /\ events' = Append(events, LLMEvent(n)) /\ n \in Nat
        /\ turn' = turn /\ requested' = n
        /\ pc' = "done" \/ (pc' = "tool" /\ call' = 1)
    BY <1>3, LoopAssumption DEF ModelReplies, Finish
  <2>2. /\ InOrder(events')
        /\ Len(events') = Len(events) + 1
        /\ DOMAIN events' = 1..(Len(events) + 1)
        /\ Group(events', Len(events) + 1, Len(events) + 1)
        /\ events'[Len(events) + 1] = LLMEvent(n)
    BY <1>e, <2>1
  <2>3. LLMEvent(n).turn = turn /\ LLMEvent(n).k = n
    BY DEF LLMEvent
  <2>4. InOrder(events)'
    BY <2>2 DEF InOrder, Group, Follows, Round
  <2>5. pc' = "tool" =>
          \E p \in DOMAIN events' :
            /\ Group(events', p, Len(events'))
            /\ events'[p].turn = turn' /\ events'[p].k = requested'
            /\ Len(events') - p = call' - 1
    <3>1. Len(events) + 1 \in DOMAIN events'
      BY <1>t, <2>2
    <3> QED BY <1>t, <2>1, <2>2, <2>3, <3>1
  <2> QED BY <1>0, <2>1, <2>4, <2>5 DEF TranscriptInv, Group
<1>4. CASE ModelFails
  BY <1>0, <1>4, SameEvents DEF ModelFails, Finish, progress
<1>5. ASSUME NEW how \in ToolOutcomes, NEW weight \in ResultWeights,
             ToolReturns(how, weight)
      PROVE  TranscriptInv'
  BY <1>0, <1>5, SameEvents DEF ToolReturns
<1>6. CASE ToolResumes
  BY <1>0, <1>6, SameEvents DEF ToolResumes, progress
<1>7. CASE ToolTimesOut \/ CancelsTool
  BY <1>0, <1>7, SameEvents DEF ToolTimesOut, CancelsTool, progress
<1>8. CASE TraceEnds
  <2>1. /\ pc = "trace" /\ events' = Append(events, ToolEvent)
        /\ requested' = requested
        /\ \/ call < requested /\ pc' = "tool" /\ call' = call + 1 /\ turn' = turn
           \/ ~(call < requested) /\ pc' = "round" /\ turn' = turn + 1
    BY <1>8 DEF TraceEnds, TraceWritten, TraceFails, ServeNext
  <2>2. PICK p \in DOMAIN events :
          /\ Group(events, p, Len(events))
          /\ events[p].turn = turn /\ events[p].k = requested
          /\ Len(events) - p = call - 1
    BY <2>1 DEF TranscriptInv
  <2>3. /\ ToolEvent \in Event /\ ToolEvent.type = "tool_call"
        /\ ToolEvent.turn = events[p].turn
        /\ ToolEvent.k = call
    BY <1>t, <2>2 DEF ToolEvent, Event
  <2>4. ToolEvent.k = Len(events) + 1 - p /\ ToolEvent.k <= events[p].k
    BY <1>t, <2>1, <2>2, <2>3
  <2> HIDE DEF ToolEvent
  <2>5. /\ InOrder(events') /\ Group(events', p, Len(events) + 1)
        /\ events'[p] = events[p]
    BY <1>t, <2>1, <2>2, <2>3, <2>4, ToolEventInOrder
  <2>6. Len(events') = Len(events) + 1 /\ p \in DOMAIN events'
    BY <1>t, <2>1, <2>3, AppendProperties, LenProperties
  <2>7. InOrder(events)'
    BY <2>5 DEF InOrder, Group, Follows, Round
  <2>8. CASE call < requested
    <3>1. Len(events') - p = call' - 1
      BY <1>t, <2>1, <2>2, <2>6, <2>8
    <3> QED BY <1>0, <2>1, <2>2, <2>5, <2>6, <2>7, <2>8, <3>1 DEF TranscriptInv, Group
  <2>9. CASE ~(call < requested)
    <3>1. Round(events', p, Len(events')) /\ events'[p].turn = turn' - 1
      BY <1>t, <2>1, <2>2, <2>5, <2>6, <2>9 DEF Round
    <3> QED BY <1>0, <2>1, <2>6, <2>7, <2>9, <3>1 DEF TranscriptInv, Round, Group
  <2> QED BY <2>8, <2>9
<1>9. CASE BeginSynthesis
  BY <1>0, <1>9, SameEvents DEF BeginSynthesis, progress
<1>10. ASSUME NEW tokens \in InputTokens, SynthesisReplies(tokens)
       PROVE  TranscriptInv'
  <2>1. pc = "synth" /\ pc' = "done" /\ events' = Append(events, LLMEvent(0))
    BY <1>10 DEF SynthesisReplies, Finish
  <2>2. InOrder(events')
    BY <1>e, <2>1
  <2>3. InOrder(events)'
    BY <2>2 DEF InOrder, Group, Follows, Round
  <2> QED BY <1>0, <2>1, <2>3 DEF TranscriptInv
<1>11. CASE Cancelled
  BY <1>0, <1>11, SameEvents DEF Cancelled, Finish, progress
<1>12. CASE RequestCancel
  BY <1>0, <1>12, SameEvents DEF RequestCancel, progress
<1>13. CASE ToolStops
  BY <1>0, <1>13, SameEvents DEF ToolStops, Finish
<1>14. CASE UNCHANGED vars
  BY <1>0, <1>14, SameEvents DEF vars, progress
<1> QED
  BY <1>1, <1>2, <1>3, <1>4, <1>5, <1>6, <1>7, <1>8, <1>9, <1>10, <1>11,
     <1>12, <1>13, <1>14
     DEF Next, LoopStep, Advance, ModelEnds, ToolEnds, Ended

\* Events in groups are a transcript.
LEMMA OrderFits == TranscriptInv => TranscriptInOrder
<1> SUFFICES ASSUME TranscriptInv, NEW i \in DOMAIN events
             PROVE
      LET llm == {j \in 1..i : events[j].type = "llm_call"}
          last == CHOOSE j \in llm : \A l \in llm : l <= j
      IN  /\ llm # {}
          /\ events[i].type = "tool_call" =>
               /\ events[i].turn = events[last].turn
               /\ events[i].k = i - last
               /\ events[i].k <= events[last].k
          /\ events[i].type = "llm_call" /\ i = 1 => events[i].turn = 0
          /\ events[i].type = "llm_call" /\ i > 1 =>
               /\ events[i].turn = events[i - 1].turn + 1
               /\ events[i - 1].type = "tool_call"
               /\ \E j \in 1..(i - 1) :
                    /\ events[j].type = "llm_call"
                    /\ events[j].turn = events[i - 1].turn
                    /\ events[j].k = events[i - 1].k
  BY DEF TranscriptInOrder
<1> DEFINE llm == {j \in 1..i : events[j].type = "llm_call"}
           last == CHOOSE j \in llm : \A l \in llm : l <= j
<1>1. events \in Seq(Event) /\ DOMAIN events = 1..Len(events) /\ Len(events) \in Nat
  BY LenProperties DEF TranscriptInv, TypeInv, TypeOK
<1>2. PICK p \in 1..i : Group(events, p, i) /\ Follows(events, p)
  BY DEF TranscriptInv, InOrder
<1>3. p \in llm /\ \A l \in llm : l <= p
  BY <1>1, <1>2 DEF Group
<1>4. last = p
  <2>1. \E j \in llm : \A l \in llm : l <= j
    BY <1>3
  <2>2. last \in llm /\ \A l \in llm : l <= last
    BY <2>1
  <2> HIDE DEF last
  <2> QED BY <1>1, <1>3, <2>2
<1> HIDE DEF last, llm
<1>5. events[i].type = "tool_call" =>
        /\ events[i].turn = events[p].turn
        /\ events[i].k = i - p /\ events[i].k <= events[p].k
  BY <1>1, <1>2 DEF Group
<1>6. events[i].type = "llm_call" => p = i
  BY <1>1, <1>2 DEF Group
<1>7. ASSUME events[i].type = "llm_call"
      PROVE  /\ i = 1 => events[i].turn = 0
             /\ i > 1 =>
                  /\ events[i].turn = events[i - 1].turn + 1
                  /\ events[i - 1].type = "tool_call"
                  /\ \E j \in 1..(i - 1) :
                       /\ events[j].type = "llm_call"
                       /\ events[j].turn = events[i - 1].turn
                       /\ events[j].k = events[i - 1].k
  <2>1. p = i /\ Follows(events, i)
    BY <1>2, <1>6, <1>7
  <2>2. i = 1 => events[i].turn = 0
    BY <2>1 DEF Follows, Round, Group
  <2>3. ASSUME i > 1
        PROVE  /\ events[i].turn = events[i - 1].turn + 1
               /\ events[i - 1].type = "tool_call"
               /\ \E j \in 1..(i - 1) :
                    /\ events[j].type = "llm_call"
                    /\ events[j].turn = events[i - 1].turn
                    /\ events[j].k = events[i - 1].k
    <3>1. PICK q \in 1..(i - 1) :
            Round(events, q, i - 1) /\ events[i].turn = events[q].turn + 1
      BY <2>1, <2>3 DEF Follows
    <3>2. /\ events[q].type = "llm_call"
          /\ events[i - 1].type = "tool_call"
          /\ events[i - 1].turn = events[q].turn
          /\ events[i - 1].k = i - 1 - q /\ i - 1 - q = events[q].k
      BY <1>1, <3>1 DEF Round, Group
    <3> QED BY <3>1, <3>2
  <2> QED BY <2>2, <2>3
<1>8. /\ llm # {}
      /\ events[i].type = "tool_call" =>
           /\ events[i].turn = events[last].turn
           /\ events[i].k = i - last
           /\ events[i].k <= events[last].k
  BY <1>3, <1>4, <1>5
<1> QED BY <1>7, <1>8 DEF last, llm

\* Whatever times out, fails or is cancelled, on_event is given a transcript:
\* replies in the order of their rounds, each followed by its own tool calls in
\* order, the next reply only after the last of them (loop.py, run_agent).
THEOREM EventsAreATranscript == Spec => []TranscriptInOrder
<1> QED
  BY TranscriptInit, TranscriptNext, OrderFits, PTL DEF Spec
-----------------------------------------------------------------------------
(* No tool works unseen *)

\* The events of past turns have a smaller turn; those of this one ask for no
\* more calls than are being served.
EventTurns ==
    \A i \in DOMAIN events :
        /\ pc \in Between => events[i].turn < turn
        /\ pc \in {"tool", "woken", "stopping", "trace"} =>
             /\ events[i].turn <= turn
             /\ events[i].turn = turn => events[i].k <= requested

\* The inductive form of NoToolUnrecorded.
RecordedInv == StoryInv /\ TranscriptInv /\ EventTurns /\ NoToolUnrecorded

LEMMA RecordedInit == Init => RecordedInv
<1> SUFFICES ASSUME Init
             PROVE  RecordedInv
  OBVIOUS
<1>1. DOMAIN events = {}
  BY DEF Init
<1> QED
  BY <1>1, StoryInit, TranscriptInit DEF RecordedInv, EventTurns, NoToolUnrecorded

\* Every step that goes on to another call has recorded the one before.
LEMMA RecordedNext == RecordedInv /\ [Next]_vars => RecordedInv'
<1> SUFFICES ASSUME RecordedInv, [Next]_vars
             PROVE  RecordedInv'
  OBVIOUS
<1>0. StoryInv' /\ TranscriptInv'
  BY StoryNext, TranscriptNext DEF RecordedInv
<1>t. /\ events \in Seq(Event) /\ Len(events) \in Nat
      /\ DOMAIN events = 1..Len(events)
      /\ turn \in Nat /\ call \in Nat /\ requested \in Nat
      /\ pc # "done" => outcome = "none"
      /\ pc \in Between => call = 0
      /\ pc \in {"tool", "woken", "stopping", "trace"} =>
           1 <= call /\ call <= requested
      /\ pc \in Suspended \cup {"round", "done"}
  BY BudgetPositive, LoopAssumption, LenProperties
     DEF RecordedInv, StoryInv, TypeInv, TypeOK, Control, Suspended
<1>i. \A i \in DOMAIN events : events[i].turn \in Nat /\ events[i].k \in Nat
  <2>1. \A i \in DOMAIN events : events[i] \in Event
    BY <1>t
  <2> QED BY <2>1 DEF Event
<1>n. \A i \in DOMAIN events : \A k \in 1..events[i].k :
        \/ <<events[i].turn, k>> \in rows \cup unlogged
        \/ /\ events[i].turn = turn /\ call \in 1..k
           /\ outcome \in {"none", "cancelled"}
  BY DEF RecordedInv, NoToolUnrecorded
<1>b. pc \in Between =>
        \A i \in DOMAIN events : \A k \in 1..events[i].k :
          <<events[i].turn, k>> \in rows \cup unlogged
  BY <1>n, <1>t
<1>s. ASSUME events' = events, UNCHANGED <<turn, requested, call, unlogged>>,
             rows \subseteq rows', pc # "done",
             pc' \in Between => pc \in Between,
             pc' \in {"tool", "woken", "stopping", "trace"}
                => pc \in {"tool", "woken", "stopping", "trace"},
             outcome' \in {"none", "cancelled"} \/ pc \in Between
      PROVE  RecordedInv'
  <2>1. EventTurns'
    BY <1>s DEF RecordedInv, EventTurns
  <2>2. NoToolUnrecorded'
    BY <1>b, <1>n, <1>s DEF NoToolUnrecorded
  <2> QED BY <1>0, <2>1, <2>2 DEF RecordedInv
<1>1. CASE Start \/ BeginRound \/ BeginSynthesis \/ RequestCancel \/ ModelFails
  BY <1>1, <1>s, <1>t DEF Start, BeginRound, BeginSynthesis, RequestCancel,
        ModelFails, Finish, progress, traces, Between, Suspended
<1>2. CASE ToolResumes \/ ToolTimesOut \/ CancelsTool \/ ToolStops
  BY <1>2, <1>s, <1>t DEF ToolResumes, ToolTimesOut, CancelsTool, ToolStops,
        Finish, progress, traces, Between
<1>3. ASSUME NEW how \in ToolOutcomes, NEW weight \in ResultWeights,
             ToolReturns(how, weight)
      PROVE  RecordedInv'
  BY <1>3, <1>s, <1>t DEF ToolReturns, traces, Between
<1>4. CASE Cancelled
  BY <1>4, <1>s DEF Cancelled, Finish, progress, Between, Suspended
<1>a. ASSUME NEW e \in Event, events' = Append(events, e)
      PROVE  \A i \in DOMAIN events' :
               \/ i \in DOMAIN events /\ events'[i] = events[i]
               \/ events'[i] = e
  BY <1>a, <1>t, AppendProperties, LenProperties
<1>5. ASSUME NEW n \in 0..MaxCalls, NEW thinks \in Thinking,
             NEW weight \in ReplyWeights, NEW tokens \in InputTokens,
             NEW text \in ReplyTexts, ModelReplies(n, thinks, weight, tokens, text)
      PROVE  RecordedInv'
  <2>1. /\ n \in Nat /\ LLMEvent(n) \in Event
        /\ LLMEvent(n).turn = turn /\ LLMEvent(n).k = n
    BY <1>t, LoopAssumption DEF LLMEvent, Event
  <2>2. /\ pc = "llm" /\ turn' = turn /\ requested' = n
        /\ events' = Append(events, LLMEvent(n))
        /\ rows' = rows /\ unlogged' = unlogged
        /\ \/ n = 0 /\ pc' = "done"
           \/ pc' = "tool" /\ call' = 1 /\ outcome' = "none"
    BY <1>5, <1>t DEF ModelReplies, Finish, traces
  <2>3. \A i \in DOMAIN events' :
          \/ i \in DOMAIN events /\ events'[i] = events[i]
          \/ events'[i] = LLMEvent(n)
    BY <1>a, <2>1, <2>2
  <2>4. \A i \in DOMAIN events : events[i].turn < turn
    BY <2>2 DEF RecordedInv, EventTurns, Between
  <2> HIDE DEF LLMEvent
  <2>5. EventTurns'
    <3>1. \A i \in DOMAIN events' :
            events'[i].turn <= turn /\ (events'[i].turn = turn => events'[i].k <= n)
      BY <1>i, <1>t, <2>1, <2>3, <2>4
    <3> QED BY <2>2, <3>1 DEF EventTurns, Between
  <2>6. NoToolUnrecorded'
    <3> SUFFICES ASSUME NEW i \in DOMAIN events', NEW k \in 1..events'[i].k
                 PROVE  \/ <<events'[i].turn, k>> \in rows' \cup unlogged'
                        \/ /\ events'[i].turn = turn' /\ call' \in 1..k
                           /\ outcome' \in {"none", "cancelled"}
      BY DEF NoToolUnrecorded
    <3>1. CASE i \in DOMAIN events /\ events'[i] = events[i]
      BY <1>b, <2>2, <3>1 DEF Between
    <3>2. CASE events'[i] = LLMEvent(n)
      BY <2>1, <2>2, <3>2
    <3> QED BY <2>3, <3>1, <3>2
  <2> QED BY <1>0, <2>5, <2>6 DEF RecordedInv
<1>6. ASSUME NEW tokens \in InputTokens, SynthesisReplies(tokens)
      PROVE  RecordedInv'
  <2>1. LLMEvent(0) \in Event /\ LLMEvent(0).k = 0
    BY <1>t DEF LLMEvent, Event
  <2>2. /\ pc = "synth" /\ pc' = "done" /\ rows' = rows /\ unlogged' = unlogged
        /\ events' = Append(events, LLMEvent(0))
    BY <1>6 DEF SynthesisReplies, Finish, traces
  <2>3. \A i \in DOMAIN events' :
          \/ i \in DOMAIN events /\ events'[i] = events[i]
          \/ events'[i] = LLMEvent(0)
    BY <1>a, <2>1, <2>2
  <2> HIDE DEF LLMEvent
  <2>4. NoToolUnrecorded'
    BY <1>b, <2>1, <2>2, <2>3 DEF NoToolUnrecorded, Between
  <2>5. EventTurns'
    BY <2>2 DEF EventTurns, Between
  <2> QED BY <1>0, <2>4, <2>5 DEF RecordedInv
<1>7. CASE TraceEnds
  <2>1. /\ pc = "trace" /\ events' = Append(events, ToolEvent)
        /\ requested' = requested /\ outcome' = "none"
        /\ rows' \cup unlogged' = (rows \cup unlogged) \cup {<<turn, call>>}
        /\ \/ call < requested /\ pc' = "tool" /\ call' = call + 1 /\ turn' = turn
           \/ ~(call < requested) /\ pc' = "round" /\ call' = 0 /\ turn' = turn + 1
    BY <1>7, <1>t DEF TraceEnds, TraceWritten, TraceFails, ServeNext
  <2>2. ToolEvent \in Event /\ ToolEvent.turn = turn /\ ToolEvent.k = call
    BY <1>t DEF ToolEvent, Event
  <2> HIDE DEF ToolEvent
  <2>3. \A i \in DOMAIN events' :
          \/ i \in DOMAIN events /\ events'[i] = events[i]
          \/ events'[i] = ToolEvent
    BY <1>a, <2>1, <2>2
  <2>4. 1 <= call /\ call <= requested
    BY <1>t, <2>1
  <2>5. \A i \in DOMAIN events : /\ events[i].turn <= turn
                                 /\ events[i].turn = turn => events[i].k <= requested
    BY <2>1 DEF RecordedInv, EventTurns
  <2>6. \* An earlier call of this turn was recorded.
        \A k \in 1..call : <<turn, k>> \in rows' \cup unlogged'
    <3> SUFFICES ASSUME NEW k \in 1..call
                 PROVE  <<turn, k>> \in rows' \cup unlogged'
      OBVIOUS
    <3>1. PICK p \in DOMAIN events : events[p].turn = turn /\ events[p].k = requested
      BY <2>1 DEF RecordedInv, TranscriptInv
    <3>2. k \in 1..events[p].k /\ (call \in 1..k => k = call)
      BY <1>t, <2>4, <3>1
    <3>3. <<turn, k>> \in rows \cup unlogged \/ k = call
      BY <1>n, <3>1, <3>2
    <3> QED BY <2>1, <3>3
  <2>7. EventTurns'
    <3>1. \A i \in DOMAIN events' :
            events'[i].turn <= turn /\ (events'[i].turn = turn => events'[i].k <= requested)
      BY <1>t, <2>2, <2>3, <2>4, <2>5
    <3>2. \A i \in DOMAIN events' : events'[i].turn \in Nat
      BY <1>i, <1>t, <2>2, <2>3
    <3>3. CASE pc' = "tool" /\ turn' = turn
      BY <2>1, <3>1, <3>3 DEF EventTurns, Between
    <3>4. CASE pc' = "round" /\ turn' = turn + 1
      <4>1. \A i \in DOMAIN events' : events'[i].turn < turn'
        BY <1>t, <3>1, <3>2, <3>4
      <4> QED BY <3>4, <4>1 DEF EventTurns, Between
    <3> QED BY <2>1, <3>3, <3>4
  <2>8. NoToolUnrecorded'
    <3> SUFFICES ASSUME NEW i \in DOMAIN events', NEW k \in 1..events'[i].k
                 PROVE  \/ <<events'[i].turn, k>> \in rows' \cup unlogged'
                        \/ events'[i].turn = turn' /\ call' \in 1..k
      BY <2>1 DEF NoToolUnrecorded
    <3>1. CASE events'[i] = ToolEvent
      BY <2>2, <2>6, <3>1
    <3>2. CASE i \in DOMAIN events /\ events'[i] = events[i]
      <4>1. CASE <<events[i].turn, k>> \in rows \cup unlogged
        BY <2>1, <3>2, <4>1
      <4>2. CASE events[i].turn = turn /\ call \in 1..k
        <5>1. k \in Nat /\ k <= requested
          BY <1>i, <1>t, <2>5, <3>2, <4>2
        <5>2. CASE k = call
          BY <2>1, <3>2, <4>2, <5>2
        <5>3. CASE k # call
          <6>1. call < requested /\ call + 1 \in 1..k
            BY <1>t, <4>2, <5>1, <5>3
          <6> QED BY <2>1, <3>2, <4>2, <6>1
        <5> QED BY <5>2, <5>3
      <4> QED BY <1>n, <3>2, <4>1, <4>2
    <3> QED BY <2>3, <3>1, <3>2
  <2> QED BY <1>0, <2>7, <2>8 DEF RecordedInv
<1>8. CASE UNCHANGED vars
  <2>1. EventTurns' /\ NoToolUnrecorded'
    BY <1>8 DEF vars, progress, traces, RecordedInv, EventTurns, NoToolUnrecorded
  <2> QED BY <1>0, <2>1 DEF RecordedInv
<1> QED
  BY <1>1, <1>2, <1>3, <1>4, <1>5, <1>6, <1>7, <1>8
     DEF Next, LoopStep, Advance, ModelEnds, ToolEnds, Ended

\* A call of the model's reply has its row, or its failed INSERT, before the next
\* one is served, and at the end of a run unless it was cancelled in between:
\* no tool works without a trace (loop.py, the INSERT behind each tool).
THEOREM EveryToolIsRecorded == Spec => []NoToolUnrecorded
<1>1. RecordedInv => NoToolUnrecorded
  BY DEF RecordedInv
<1> QED
  BY RecordedInit, RecordedNext, <1>1, PTL DEF Spec
-----------------------------------------------------------------------------
(* What a run remembers *)

Opens(ms, t) == \E i \in DOMAIN ms : t \in ms[i].opening
Reads(ms, t) == \E i \in DOMAIN ms : t \in ms[i].shows

\* One compaction quotes what opens a message; the next one need not.
Remembered(t) ==
    /\ compactions = 0 => Opens(messages, t)
    /\ compactions = 1 => Reads(messages, t)

\* The inductive form of OneCompactionRemembers: before the first compaction
\* the task and the handles open a message, after it the summary shows them.
RememberInv ==
    /\ LiveInv
    /\ pc = "ready" => compactions = 0 /\ frames = {}
    /\ pc \in {"ready", "round", "llm", "tool", "stopping", "synth"}
         => result.handle = 0
    /\ pc \notin {"ready", "done"} =>
         /\ Remembered(TaskTopic)
         /\ "leak" \notin ToolOutcomes =>
              \A h \in frames : Remembered(HandleTopic(h)) \/ result.handle = h

\* A conversation that grows still says what it said, and what is added.
LEMMA AppendReads ==
    ASSUME NEW ms \in Seq(Message), NEW m \in Message, NEW t
    PROVE  /\ Opens(ms, t) => Opens(Append(ms, m), t)
           /\ Reads(ms, t) => Reads(Append(ms, m), t)
           /\ t \in m.opening => Opens(Append(ms, m), t)
           /\ t \in m.shows => Reads(Append(ms, m), t)
<1> DEFINE new == Append(ms, m)
<1>1. /\ Len(ms) \in Nat /\ DOMAIN ms = 1..Len(ms)
      /\ DOMAIN new = 1..(Len(ms) + 1)
      /\ \A i \in 1..Len(ms) : new[i] = ms[i]
      /\ new[Len(ms) + 1] = m
  BY AppendProperties, LenProperties
<1> HIDE DEF new
<1>2. Len(ms) + 1 \in DOMAIN new /\ DOMAIN ms \subseteq DOMAIN new
  BY <1>1
<1>3. \A i \in DOMAIN ms : new[i] = ms[i]
  BY <1>1
<1> QED BY <1>1, <1>2, <1>3 DEF Opens, Reads, new

\* A run that has not begun has nothing to remember.
LEMMA RememberInit == Init => RememberInv
BY LiveInit DEF Init, NoResult, RememberInv

\* A step that leaves conversation, registry and result alone.
LEMMA SameMemory ==
    ASSUME RememberInv, LiveInv', messages' = messages,
           compactions' = compactions,
           pc' # "done" => /\ pc # "done" /\ frames' = frames
                           /\ result'.handle = result.handle,
           pc = "ready" <=> pc' = "ready",
           pc' \in {"round", "llm", "tool", "stopping", "synth"}
              => pc \in {"round", "llm", "tool", "stopping", "synth"}
    PROVE  RememberInv'
BY DEF RememberInv, Remembered, Opens, Reads

\* Every step keeps what one compaction has to keep.
LEMMA RememberNext == RememberInv /\ [Next]_vars => RememberInv'
<1> SUFFICES ASSUME RememberInv, [Next]_vars
             PROVE  RememberInv'
  OBVIOUS
<1>0. LiveInv'
  BY LiveNext DEF RememberInv
<1>t. /\ messages \in Seq(Message) /\ QuotesItself(messages)
      /\ turn \in Nat /\ call \in Nat /\ compactions \in Nat
      /\ result \in ToolResult /\ 0 \notin frames
  BY BudgetPositive, LoopAssumption DEF RememberInv, LiveInv, TypeInv, TypeOK
<1>s. pc \notin {"ready", "done"} =>
        /\ Remembered(TaskTopic)
        /\ "leak" \notin ToolOutcomes =>
             \A h \in frames : Remembered(HandleTopic(h)) \/ result.handle = h
  BY DEF RememberInv
<1>r. pc \in {"ready", "round", "llm", "tool", "stopping", "synth"}
        => result.handle = 0
  BY DEF RememberInv
<1>1. CASE Start
  <2>1. /\ pc = "ready" /\ pc' = "round" /\ frames' = frames
        /\ result' = result /\ compactions' = compactions
        /\ messages' = <<SystemMessage, TaskMessage>>
    BY <1>1 DEF Start, progress, dataset
  <2>2. Opens(messages', TaskTopic)
    <3>1. TaskTopic \in TaskMessage.opening
      BY DEF TaskMessage, TextMessage
    <3> HIDE DEF TaskMessage, SystemMessage
    <3> QED BY <2>1, <3>1 DEF Opens
  <2>3. compactions = 0 /\ frames = {}
    BY <2>1 DEF RememberInv
  <2> QED
    BY <1>0, <1>r, <2>1, <2>2, <2>3 DEF RememberInv, Remembered, Opens
<1>2. CASE BeginRound
  <2>1. /\ pc = "round" /\ pc' = "llm" /\ frames' = frames /\ result' = result
        /\ result.handle = 0
    BY <1>2, <1>r DEF BeginRound, progress, dataset
  <2>2. CASE UNCHANGED <<messages, compactions>>
    BY <1>0, <2>1, <2>2, SameMemory
  <2>3. CASE ~UNCHANGED <<messages, compactions>>
    <3>1. /\ messages' = CompactMessages(messages).messages
          /\ CompactMessages(messages).removed > 0
          /\ compactions' = compactions + 1
      BY <1>2, <2>3 DEF BeginRound
    <3>2. /\ Len(messages) > PreserveRecent /\ CutOf(messages) > 0
          /\ messages' = SummaryAndTail(messages)
      BY <1>t, <3>1, CompactMessagesCases
    <3>3. ASSUME NEW t, Remembered(t)
          PROVE  Remembered(t)'
      <4>1. CASE compactions = 0
        <5>1. PICK i \in DOMAIN messages : t \in messages[i].opening
          BY <3>3, <4>1 DEF Remembered, Opens
        <5>2. Reads(messages', t)
          BY <1>t, <3>2, <5>1, CompactionRepeatsOpenings DEF Reads
        <5> QED BY <3>1, <4>1, <5>2 DEF Remembered, Reads
      <4>2. CASE compactions # 0
        BY <1>t, <3>1, <4>2 DEF Remembered
      <4> QED BY <4>1, <4>2
    <3>4. Remembered(TaskTopic)'
      BY <1>s, <2>1, <3>3 DEF Remembered
    <3>5. "leak" \notin ToolOutcomes =>
            \A h \in frames' : Remembered(HandleTopic(h))'
      <4> SUFFICES ASSUME "leak" \notin ToolOutcomes, NEW h \in frames'
                   PROVE  Remembered(HandleTopic(h))'
        OBVIOUS
      <4>1. Remembered(HandleTopic(h))
        BY <1>s, <1>t, <2>1
      <4> QED BY <3>3, <4>1 DEF Remembered
    <3> QED BY <1>0, <2>1, <3>4, <3>5 DEF RememberInv, Remembered
  <2> QED BY <2>2, <2>3
<1>3. ASSUME NEW n \in 0..MaxCalls, NEW thinks \in Thinking,
             NEW weight \in ReplyWeights, NEW tokens \in InputTokens,
             NEW text \in ReplyTexts, ModelReplies(n, thinks, weight, tokens, text)
      PROVE  RememberInv'
  <2> DEFINE m == AssistantMessage(n, thinks, weight, text)
  <2>1. /\ pc = "llm" /\ messages' = Append(messages, m) /\ result' = result
        /\ compactions' = compactions
        /\ pc' = "done" \/ (pc' = "tool" /\ frames' = frames)
    BY <1>3 DEF ModelReplies, Finish, dataset
  <2>2. m \in Message
    BY <1>t, AssistantMessageType, LoopAssumption
  <2> HIDE DEF m
  <2>3. ASSUME NEW t, Remembered(t)
        PROVE  Remembered(t)'
    <3>1. /\ Opens(messages, t) => Opens(messages', t)
          /\ Reads(messages, t) => Reads(messages', t)
      BY <1>t, <2>1, <2>2, AppendReads
    <3> QED BY <2>1, <2>3, <3>1 DEF Remembered, Opens, Reads
  <2> QED
    BY <1>0, <1>r, <1>s, <2>1, <2>3 DEF RememberInv, Remembered
<1>4. CASE ModelFails
  BY <1>0, <1>4, SameMemory DEF ModelFails, Finish, chat
<1>5. ASSUME NEW how \in ToolOutcomes, NEW weight \in ResultWeights,
             ToolReturns(how, weight)
      PROVE  RememberInv'
  <2>1. /\ pc = "tool" /\ pc' = "woken" /\ messages' = messages
        /\ compactions' = compactions /\ result.handle = 0
    BY <1>5, <1>r DEF ToolReturns, chat
  <2>2. "leak" \notin ToolOutcomes =>
           \A h \in frames' : h \in frames \/ result'.handle = h
    BY <1>5 DEF ToolReturns, dataset
  <2>3. "leak" \notin ToolOutcomes =>
           \A h \in frames' : Remembered(HandleTopic(h)) \/ result'.handle = h
    BY <1>s, <1>t, <2>1, <2>2
  <2> QED
    BY <1>0, <1>s, <2>1, <2>3 DEF RememberInv, Remembered, Opens, Reads
<1>6. CASE ToolResumes
  BY <1>0, <1>6, SameMemory DEF ToolResumes, progress, chat, dataset
<1>7. CASE ToolTimesOut \/ CancelsTool
  BY <1>0, <1>7, SameMemory DEF ToolTimesOut, CancelsTool, progress, chat, dataset
<1>8. CASE TraceEnds
  <2> DEFINE m == ToolMessage(result)
  <2>1. /\ pc = "trace" /\ messages' = Append(messages, m)
        /\ result' = NoResult /\ frames' = frames /\ compactions' = compactions
        /\ pc' \in {"tool", "round"}
    BY <1>8 DEF TraceEnds, TraceWritten, TraceFails, ServeNext, dataset
  <2>2. m \in Message
    BY <1>t, ToolMessageType
  <2>3. /\ m.opening = m.shows
        /\ result.handle # 0 => HandleTopic(result.handle) \in m.shows
    BY DEF ToolMessage, TextMessage
  <2> HIDE DEF m
  <2>4. ASSUME NEW t, Remembered(t) \/ t \in m.opening
        PROVE  Remembered(t)'
    <3>1. /\ Opens(messages, t) => Opens(messages', t)
          /\ Reads(messages, t) => Reads(messages', t)
          /\ t \in m.opening => Opens(messages', t) /\ Reads(messages', t)
      BY <1>t, <2>1, <2>2, <2>3, AppendReads
    <3> QED BY <2>1, <2>4, <3>1 DEF Remembered, Opens, Reads
  <2>5. "leak" \notin ToolOutcomes =>
          \A h \in frames : Remembered(HandleTopic(h)) \/ HandleTopic(h) \in m.opening
    BY <1>s, <1>t, <2>1, <2>3
  <2>6. Remembered(TaskTopic)'
    BY <1>s, <2>1, <2>4
  <2>7. "leak" \notin ToolOutcomes => \A h \in frames' : Remembered(HandleTopic(h))'
    BY <2>1, <2>4, <2>5 DEF Remembered
  <2>8. result'.handle = 0
    BY <2>1 DEF NoResult
  <2> QED BY <1>0, <2>1, <2>6, <2>7, <2>8 DEF RememberInv, Remembered
<1>9. CASE BeginSynthesis
  BY <1>0, <1>9, SameMemory DEF BeginSynthesis, progress, dataset
<1>10. ASSUME NEW tokens \in InputTokens, SynthesisReplies(tokens)
       PROVE  RememberInv'
  BY <1>0, <1>10, SameMemory DEF SynthesisReplies, Finish
<1>11. CASE Cancelled
  <2>1. pc' = "done"
    BY <1>11 DEF Cancelled, Finish
  <2> QED BY <1>0, <2>1 DEF RememberInv
<1>12. CASE RequestCancel
  BY <1>0, <1>12, SameMemory DEF RequestCancel, Suspended, progress, chat, dataset
<1>13. CASE ToolStops
  <2>1. /\ pc = "stopping" /\ result.handle = 0
        /\ UNCHANGED <<messages, compactions>>
        /\ \/ pc' = "done"
           \/ pc' = "trace" /\ frames' = frames /\ result'.handle = 0
    BY <1>13, <1>r DEF ToolStops, Finish, chat, dataset
  <2> QED BY <1>0, <2>1, SameMemory
<1>14. CASE UNCHANGED vars
  BY <1>0, <1>14, SameMemory DEF vars, progress, chat, dataset
<1> QED
  BY <1>1, <1>2, <1>3, <1>4, <1>5, <1>6, <1>7, <1>8, <1>9, <1>10, <1>11,
     <1>12, <1>13, <1>14
     DEF Next, LoopStep, Advance, ModelEnds, ToolEnds, Ended

\* What is remembered is in the conversation, while it was compacted once.
LEMMA MemoryFits == RememberInv => OneCompactionRemembers
<1> SUFFICES ASSUME RememberInv, compactions <= 1, pc \notin {"ready", "done"}
             PROVE  /\ TaskTopic \in Shown(messages)
                    /\ "leak" \notin ToolOutcomes =>
                         \A h \in frames : \/ HandleTopic(h) \in Shown(messages)
                                           \/ result.handle = h
  BY DEF OneCompactionRemembers
<1>1. compactions = 0 \/ compactions = 1
  BY DEF RememberInv, LiveInv, TypeInv, TypeOK
<1>2. \A t : Remembered(t) => t \in Shown(messages)
  BY <1>1 DEF Remembered, Opens, Reads, Shown, RememberInv, LiveInv, QuotesItself
<1> QED BY <1>2 DEF RememberInv

\* A conversation that was compacted at most once still shows how the task
\* opens and every dataset of the run, wherever the cut fell (compaction.py, the
\* timeline of a summary; datasets.py, describe).  What a longer task says after
\* its first 200 characters is not among it.
THEOREM FirstCompactionRemembers == Spec => []OneCompactionRemembers
<1> QED
  BY RememberInit, RememberNext, MemoryFits, PTL DEF Spec

-----------------------------------------------------------------------------
(* How long a run can be *)

\* A round: the model is called and replies; each call returns and resumes, or
\* is cancelled and stops, and has its row written or given up.
RoundSteps == 2 + 3 * MaxCalls

\* What is left of the rounds after this one, and the synthesis.
LaterSteps == (Budget - turn - 1) * RoundSteps + 2

CancelsLeft == IF cancel = "none" THEN 1 ELSE 0

\* The most steps that the coroutine, and the one that may cancel it, have
\* still to take.
StepsLeft ==
    CancelsLeft +
    CASE pc = "ready" -> RoundSteps + LaterSteps + 1
      [] pc = "round" -> RoundSteps + LaterSteps
      [] pc = "llm"   -> RoundSteps - 1 + LaterSteps
      [] pc = "tool"  -> 3 * (requested - call) + 3 + LaterSteps
      [] pc = "woken" -> 3 * (requested - call) + 2 + LaterSteps
      [] pc = "stopping" -> 3 * (requested - call) + 2 + LaterSteps
      [] pc = "trace" -> 3 * (requested - call) + 1 + LaterSteps
      [] pc = "synth" -> 1
      [] pc = "done"  -> 0

LEMMA RoundStepsType ==
  RoundSteps \in Nat /\ RoundSteps >= 2 /\ RoundSteps = 2 + 3 * MaxCalls
  BY LoopAssumption DEF RoundSteps

LEMMA Rounds ==
  ASSUME NEW a \in Int, NEW w \in Int
  PROVE  /\ a * w \in Int /\ (a - 1) * w = a * w - w
         /\ a \in Nat /\ w \in Nat => a * w \in Nat
         /\ 0 * w = 0
  OBVIOUS

LEMMA LaterStepsType ==
  TypeInv => /\ LaterSteps \in Int
             /\ RoundSteps + LaterSteps \in Nat
             /\ turn < Budget => LaterSteps \in Nat
<1> SUFFICES ASSUME TypeInv
             PROVE  /\ LaterSteps \in Int
                    /\ RoundSteps + LaterSteps \in Nat
                    /\ turn < Budget => LaterSteps \in Nat
  OBVIOUS
<1> DEFINE a == Budget - turn
<1>1. a \in Nat /\ (turn < Budget => a - 1 \in Nat)
  BY BudgetPositive DEF TypeInv, TypeOK
<1>2. /\ (a - 1) * RoundSteps = a * RoundSteps - RoundSteps
      /\ a * RoundSteps \in Nat
  BY <1>1, RoundStepsType, Rounds
<1>3. turn < Budget => (a - 1) * RoundSteps \in Nat
  BY <1>1, RoundStepsType, Rounds
<1> HIDE DEF a
<1>4. LaterSteps = (a - 1) * RoundSteps + 2
  BY DEF LaterSteps, a
<1> QED BY <1>1, <1>2, <1>3, <1>4, RoundStepsType

LEMMA StepsLeftType == TypeInv => StepsLeft \in Nat
<1> SUFFICES ASSUME TypeInv
             PROVE  StepsLeft \in Nat
  OBVIOUS
<1>1. turn \in 0..Budget /\ Budget \in Nat
  BY BudgetPositive DEF TypeInv, TypeOK
<1>2. /\ LaterSteps \in Int
      /\ RoundSteps + LaterSteps \in Nat
      /\ turn < Budget => LaterSteps \in Nat
  BY LaterStepsType
<1>3. pc \in {"ready", "round", "llm", "tool", "woken", "stopping", "trace", "synth", "done"}
  BY DEF TypeInv, TypeOK, Suspended
<1>4. pc \in {"tool", "woken", "stopping", "trace"} =>
        /\ LaterSteps \in Nat
        /\ 3 * (requested - call) \in Nat
  <2> SUFFICES ASSUME pc \in {"tool", "woken", "stopping", "trace"}
               PROVE  LaterSteps \in Nat /\ requested - call \in Nat
    OBVIOUS
  <2> QED BY <1>1, <1>2 DEF TypeInv, TypeOK, Control
<1>5. pc = "llm" => RoundSteps - 1 + LaterSteps \in Nat
  BY <1>1, <1>2, RoundStepsType DEF TypeInv, Control
<1>6. CancelsLeft \in Nat
  BY DEF CancelsLeft
<1>7. CASE pc \in {"tool", "woken", "stopping", "trace"}
  BY <1>4, <1>6, <1>7 DEF StepsLeft
<1>8. CASE pc \in {"ready", "round", "llm", "synth", "done"}
  BY <1>2, <1>5, <1>6, <1>8, RoundStepsType DEF StepsLeft
<1> QED BY <1>3, <1>7, <1>8

LEMMA StepsLeftShrinks == TypeInv /\ [Next]_vars => [StepsLeft' < StepsLeft]_vars
<1> SUFFICES ASSUME TypeInv, Next, vars' # vars
             PROVE  StepsLeft' < StepsLeft
  BY DEF vars
<1>0. TypeInv'
  BY TypeNext
<1>t. /\ turn \in 0..Budget /\ turn' \in 0..Budget /\ Budget \in Nat
      /\ MaxCalls \in Nat /\ RoundSteps \in Nat /\ RoundSteps = 2 + 3 * MaxCalls
      /\ RoundSteps >= 2
  BY <1>0, BudgetPositive, LoopAssumption, RoundStepsType DEF TypeInv, TypeOK
<1>l. /\ LaterSteps \in Int
      /\ turn' = turn => LaterSteps' = LaterSteps
      /\ turn' = turn + 1 => LaterSteps' = LaterSteps - RoundSteps
      /\ turn < Budget => LaterSteps \in Nat
      /\ RoundSteps + LaterSteps \in Nat
  <2> DEFINE a == Budget - turn - 1
  <2>1. a \in Int /\ a * RoundSteps \in Int
        /\ (a - 1) * RoundSteps = a * RoundSteps - RoundSteps
    BY <1>t, Rounds
  <2>2. turn' = turn + 1 => Budget - turn' - 1 = a - 1
    BY <1>t
  <2>3. LaterSteps = a * RoundSteps + 2
    BY DEF LaterSteps
  <2>4. LaterSteps' = (Budget - turn' - 1) * RoundSteps + 2
    BY DEF LaterSteps, Budget, RoundSteps
  <2>5. turn' = turn + 1 => LaterSteps' = (a - 1) * RoundSteps + 2
    BY <2>2, <2>4
  <2>6. turn' = turn => LaterSteps' = LaterSteps
    BY <2>3, <2>4
  <2> HIDE DEF a
  <2>7. turn' = turn + 1 => LaterSteps' = LaterSteps - RoundSteps
    BY <1>t, <2>1, <2>3, <2>5
  <2> QED BY <2>6, <2>7, LaterStepsType
<1>c. /\ CancelsLeft \in Int
      /\ cancel' = cancel => CancelsLeft' = CancelsLeft
      /\ cancel = "none" /\ cancel' = "pending" => CancelsLeft' = CancelsLeft - 1
      /\ cancel = "pending" /\ cancel' \in {"lost", "raised"} =>
           CancelsLeft' = CancelsLeft
  BY DEF CancelsLeft
<1>k. /\ requested \in 0..MaxCalls /\ requested' \in 0..MaxCalls
      /\ call \in 0..MaxCalls /\ call' \in 0..MaxCalls
      /\ 3 * (requested - call) \in Int
  BY <1>0, <1>t DEF TypeInv, TypeOK
<1>w. pc \in {"llm", "tool", "woken", "stopping", "trace"} => turn < Budget
  BY DEF TypeInv, Control
<1>1. CASE Start
  <2>1. pc = "ready" /\ pc' = "round" /\ turn' = turn /\ cancel' = cancel
    BY <1>1 DEF Start, progress
  <2> QED BY <1>c, <1>l, <1>t, <2>1 DEF StepsLeft
<1>2. CASE BeginRound
  <2>1. pc = "round" /\ pc' = "llm" /\ turn' = turn /\ cancel' = cancel
    BY <1>2 DEF BeginRound, progress
  <2> QED BY <1>c, <1>l, <1>t, <2>1 DEF StepsLeft
<1>3. ASSUME NEW n \in 0..MaxCalls, NEW thinks, NEW weight, NEW tokens, NEW text,
             ModelReplies(n, thinks, weight, tokens, text)
      PROVE  StepsLeft' < StepsLeft
  <2>1. pc = "llm" /\ turn' = turn /\ cancel' = cancel /\ requested' = n
    BY <1>3 DEF ModelReplies
  <2>2. CASE n = 0
    <3>1. pc' = "done"
      BY <1>3, <2>2 DEF ModelReplies, Finish
    <3> QED BY <1>l, <1>c, <1>t, <1>w, <2>1, <3>1 DEF StepsLeft
  <2>3. CASE n # 0
    <3>1. pc' = "tool" /\ call' = 1
      BY <1>3, <2>3 DEF ModelReplies
    <3> QED BY <1>c, <1>l, <1>t, <2>1, <3>1 DEF StepsLeft
  <2> QED BY <2>2, <2>3
<1>4. CASE ModelFails
  <2>1. pc \in {"llm", "synth"} /\ pc' = "done" /\ cancel' = cancel
    BY <1>4 DEF ModelFails, Finish
  <2> QED BY <1>c, <1>l, <1>t, <1>w, <2>1 DEF StepsLeft
<1>5. ASSUME NEW how, NEW weight, ToolReturns(how, weight)
      PROVE  StepsLeft' < StepsLeft
  <2>1. /\ pc = "tool" /\ pc' = "woken" /\ turn' = turn /\ cancel' = cancel
        /\ requested' = requested /\ call' = call
    BY <1>5 DEF ToolReturns
  <2> QED BY <1>c, <1>l, <1>k, <2>1 DEF StepsLeft
<1>6. CASE ToolResumes
  <2>1. /\ pc = "woken" /\ pc' = "trace" /\ turn' = turn
        /\ requested' = requested /\ call' = call
        /\ cancel' = IF cancel = "pending" THEN "lost" ELSE cancel
    BY <1>6 DEF ToolResumes, progress
  <2> QED BY <1>c, <1>l, <1>k, <2>1 DEF StepsLeft
<1>7. CASE ToolTimesOut \/ CancelsTool
  <2>1. /\ pc = "tool" /\ pc' = "stopping" /\ turn' = turn
        /\ requested' = requested /\ call' = call
        /\ cancel' = cancel \/ (cancel = "pending" /\ cancel' = "raised")
    BY <1>7 DEF ToolTimesOut, CancelsTool, progress
  <2> QED BY <1>c, <1>l, <1>k, <2>1 DEF StepsLeft
<1>8. CASE TraceEnds
  <2>1. pc = "trace" /\ cancel' = cancel /\ requested' = requested /\ ServeNext
    BY <1>8 DEF TraceEnds, TraceWritten, TraceFails
  <2>2. CASE call < requested
    <3>1. pc' = "tool" /\ call' = call + 1 /\ turn' = turn
      BY <2>1, <2>2 DEF ServeNext
    <3>2. 3 * (requested' - call') = 3 * (requested - call) - 3
      BY <1>k, <2>1, <3>1
    <3> QED BY <1>c, <1>l, <1>k, <2>1, <3>1, <3>2 DEF StepsLeft
  <2>3. CASE ~(call < requested)
    <3>1. pc' = "round" /\ turn' = turn + 1
      BY <2>1, <2>3 DEF ServeNext
    <3>2. call = requested
      BY <1>k, <2>1, <2>3 DEF TypeInv, Control
    <3> QED BY <1>c, <1>l, <1>k, <1>t, <2>1, <3>1, <3>2 DEF StepsLeft
  <2> QED BY <2>2, <2>3
<1>9. CASE BeginSynthesis
  <2>1. /\ pc = "round" /\ pc' = "synth" /\ turn' = turn /\ cancel' = cancel
        /\ turn = Budget
    BY <1>9 DEF BeginSynthesis, progress
  <2>2. RoundSteps + LaterSteps = 2
    <3>1. /\ 0 * RoundSteps = 0
          /\ (0 - 1) * RoundSteps = 0 * RoundSteps - RoundSteps
      BY <1>t, Rounds
    <3>2. Budget - turn - 1 = 0 - 1
      BY <1>t, <2>1
    <3>3. LaterSteps = (0 - 1) * RoundSteps + 2
      BY <3>2 DEF LaterSteps
    <3> QED BY <1>t, <3>1, <3>3
  <2> QED BY <1>c, <1>l, <1>t, <2>1, <2>2 DEF StepsLeft
<1>10. ASSUME NEW tokens, SynthesisReplies(tokens)
       PROVE  StepsLeft' < StepsLeft
  <2>1. pc = "synth" /\ pc' = "done" /\ cancel' = cancel
    BY <1>10 DEF SynthesisReplies, Finish
  <2> QED BY <1>c, <2>1 DEF StepsLeft
<1>11. CASE Cancelled
  <2>1. /\ pc \in {"ready", "llm", "stopping", "trace", "synth"} /\ pc' = "done"
        /\ cancel' = cancel
    BY <1>11 DEF Cancelled, Finish, Suspended
  <2>2. pc \in {"stopping", "trace"} => 3 * (requested - call) \in Nat
    BY <1>k DEF TypeInv, Control
  <2>3. CASE pc \in {"stopping", "trace"}
    BY <1>c, <1>l, <1>w, <2>1, <2>2, <2>3 DEF StepsLeft
  <2>4. CASE pc \in {"ready", "llm", "synth"}
    BY <1>c, <1>l, <1>t, <1>w, <2>1, <2>4 DEF StepsLeft
  <2> QED BY <2>1, <2>3, <2>4
<1>12. CASE RequestCancel
  <2>1. /\ UNCHANGED <<pc, turn, requested, call>>
        /\ cancel = "none" /\ cancel' = "pending" /\ pc \in Suspended
    BY <1>12 DEF RequestCancel, progress
  <2> QED BY <1>c, <1>l, <1>k, <1>t, <2>1 DEF StepsLeft, Suspended
<1>13. CASE ToolStops
  <2>1. /\ pc = "stopping" /\ pc' \in {"done", "trace"} /\ turn' = turn
        /\ cancel' = cancel /\ requested' = requested /\ call' = call
    BY <1>13 DEF ToolStops, Finish
  <2>2. 3 * (requested - call) \in Nat
    BY <1>k, <2>1 DEF TypeInv, Control
  <2> QED BY <1>c, <1>l, <1>k, <1>w, <2>1, <2>2 DEF StepsLeft
<1> QED
  BY <1>1, <1>2, <1>3, <1>4, <1>5, <1>6, <1>7, <1>8, <1>9, <1>10, <1>11, <1>12,
     <1>13
     DEF Next, LoopStep, Advance, ModelEnds, ToolEnds, Ended

MostSteps == Budget * RoundSteps + 4

\* One hung tool cannot stall a run, nor can any number of timeouts, failures
\* and lost cancellations: a run has a fixed number of steps to take, and with
\* each that is taken fewer are left (loop.py, run_agent).  That a next step is
\* taken is what RunTerminates needs fairness for.
THEOREM RunIsBounded ==
  Spec => [](StepsLeft \in 0..MostSteps) /\ [][StepsLeft' < StepsLeft]_vars
<1> DEFINE Bounded == StepsLeft \in 0..MostSteps
<1>1. MostSteps \in Nat
  BY BudgetPositive, RoundStepsType, Rounds DEF MostSteps
<1>2. Init => Bounded
  <2> SUFFICES ASSUME Init
               PROVE  Bounded
    OBVIOUS
  <2>1. StepsLeft \in Nat
    BY TypeInit, StepsLeftType
  <2>2. CancelsLeft = 1 /\ pc = "ready" /\ turn = 0
    BY DEF Init, CancelsLeft
  <2>3. StepsLeft = 1 + (RoundSteps + LaterSteps + 1)
    BY <2>2 DEF StepsLeft
  <2>4. LaterSteps = Budget * RoundSteps - RoundSteps + 2
    <3>1. LaterSteps = (Budget - 1) * RoundSteps + 2
      BY <2>2, BudgetPositive DEF LaterSteps
    <3> QED BY <3>1, BudgetPositive, RoundStepsType, Rounds
  <2>5. Budget * RoundSteps \in Nat
    BY BudgetPositive, RoundStepsType, Rounds
  <2> QED BY <2>1, <2>3, <2>4, <2>5, RoundStepsType DEF MostSteps
<1>3. TypeInv /\ TypeInv' /\ Bounded /\ [StepsLeft' < StepsLeft]_vars => Bounded'
  <2> SUFFICES ASSUME TypeInv, TypeInv', Bounded, [StepsLeft' < StepsLeft]_vars
               PROVE  Bounded'
    OBVIOUS
  <2>1. StepsLeft' \in Nat
    <3>1. (TypeInv => StepsLeft \in Nat)'
      BY StepsLeftType, PTL
    <3> QED BY <3>1
  <2>2. MostSteps' = MostSteps
    BY DEF MostSteps, Budget, RoundSteps
  <2>3. CASE StepsLeft' < StepsLeft
    BY <1>1, <2>1, <2>2, <2>3
  <2>4. CASE vars' = vars
    <3>1. StepsLeft' = StepsLeft
      BY <2>4 DEF vars, progress, StepsLeft, CancelsLeft, LaterSteps, Budget, RoundSteps
    <3> QED BY <2>2, <3>1
  <2> QED BY <2>3, <2>4
<1> QED
  BY TypeInit, TypeNext, StepsLeftShrinks, <1>2, <1>3, PTL DEF Spec

-----------------------------------------------------------------------------
(* Cancellation and handles, step by step *)

\* A cancellation that is still pending finds the coroutine at an await, and a
\* run has been cancelled exactly when its cancellation was not lost.  One that
\* was passed on to a tool waits for no more than that tool.
CancelInv ==
    /\ pc = "round" => cancel # "pending"
    /\ cancel = "raised" => pc \in {"stopping", "done"}
    /\ outcome = "cancelled" <=> (pc = "done" /\ cancel \in {"pending", "raised"})

\* What a cancellation leaves of a run: no model call, no message and no event
\* any more.  It ends the run at its next step, or, while a tool is awaited, at
\* the one after the tool was told to stop; unless that tool is done first, whose
\* wait_for then loses the cancellation; nothing else loses it.
CancelBites ==
    /\ cancel \in {"pending", "raised"} =>
         /\ UNCHANGED <<modelCalls, messages, events, unlogged>>
         /\ \/ pc' = "done" /\ outcome' = "cancelled" /\ frames' = {}
            \/ pc = "tool" /\ pc' = "stopping" /\ cancel' = "raised"
            \/ pc = "tool" /\ pc' = "woken" /\ cancel' = "pending"
            \/ pc = "woken" /\ pc' = "trace" /\ cancel' = "lost"
    /\ cancel' = "lost" => cancel = "lost" \/ (pc = "woken" /\ cancel = "pending")

LEMMA CancelInit == Init => CancelInv
BY DEF Init, CancelInv

LEMMA CancelNext ==
    TypeInv /\ CancelInv /\ [Next]_vars => CancelInv' /\ [CancelBites]_vars
<1> SUFFICES ASSUME TypeInv, CancelInv, [Next]_vars
             PROVE  CancelInv' /\ [CancelBites]_vars
  OBVIOUS
<1>0. /\ pc \in Suspended \cup {"round", "done"} /\ (pc # "done" => outcome = "none")
      /\ cancel \in {"none", "pending", "raised", "lost"}
  BY DEF TypeInv, TypeOK, Control, Suspended
<1>1. CASE Start \/ BeginRound \/ BeginSynthesis
  BY <1>0, <1>1 DEF Start, BeginRound, BeginSynthesis, CancelInv, CancelBites
<1>2. CASE ModelEnds
  BY <1>0, <1>2 DEF ModelEnds, ModelReplies, SynthesisReplies, ModelFails, Finish,
                    CancelInv, CancelBites
<1>3. CASE ToolEnds \/ ToolResumes \/ ToolTimesOut \/ CancelsTool
  BY <1>0, <1>3 DEF ToolEnds, ToolReturns, ToolResumes, ToolTimesOut,
                    CancelsTool, chat, traces, CancelInv, CancelBites
<1>4. CASE TraceEnds
  BY <1>0, <1>4 DEF TraceEnds, TraceWritten, TraceFails, ServeNext, CancelInv,
                    CancelBites
<1>5. CASE Cancelled
  BY <1>0, <1>5 DEF Cancelled, Finish, chat, Suspended, CancelInv, CancelBites
<1>6. CASE RequestCancel
  BY <1>0, <1>6 DEF RequestCancel, Suspended, chat, traces, CancelInv, CancelBites
<1>7. CASE ToolStops
  BY <1>0, <1>7 DEF ToolStops, Finish, chat, traces, CancelInv, CancelBites
<1>8. CASE UNCHANGED vars
  BY <1>8 DEF vars, CancelInv
<1> QED
  BY <1>1, <1>2, <1>3, <1>4, <1>5, <1>6, <1>7, <1>8
     DEF Next, LoopStep, Advance, Ended

\* Cancelling a run stops it where it is, and it is cancelled unless the one
\* race loses the request (loop.py: CancelledError at an await; wait_for).
THEOREM CancellationBites == Spec => []CancelInv /\ [][CancelBites]_vars
<1> QED
  BY TypeInit, TypeNext, CancelInit, CancelNext, PTL DEF Spec

\* A handle, once issued, is never issued again, and it is good until the run
\* ends: frames come with new numbers and go all at once.
HandlesStayGood ==
    /\ counter <= counter'
    /\ \A h \in frames' : h \in frames \/ h > counter
    /\ frames \subseteq frames' \/ (frames' = {} /\ pc' = "done")

LEMMA StoreKeepsHandles ==
    ASSUME counter \in Nat, [Store!Next]_(Store!storeVars)
    PROVE  HandlesStayGood
BY DEF Store!Next, Store!Put, Store!Clear, Store!storeVars, HandlesStayGood

\* The registry gives no number to two frames and drops no frame that the
\* conversation may still name (datasets.py, put and clear).
THEOREM HandlesAreNeverReused == Spec => [][HandlesStayGood]_vars
<1>1. TypeInv => counter \in Nat
  BY DEF TypeInv, TypeOK
<1> QED
  BY TypeInit, TypeNext, StoreStep, StoreKeepsHandles, <1>1, PTL DEF Spec
=============================================================================
