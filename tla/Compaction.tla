----------------------------- MODULE Compaction -----------------------------
(***************************************************************************)
(* service/compaction.py: the deterministic in-session compaction of a     *)
(* conversation.  The module has no state; AgentLoop calls its operators   *)
(* where service/loop.py calls should_compact and compact_messages.        *)
(*                                                                         *)
(* A message keeps what the algorithm reads of it: its role, the ids of    *)
(* the tool calls it makes, the ids of the tool calls it answers, whether  *)
(* it carries a thinking block, its estimated tokens, and which TOPICS its *)
(* text shows.  A topic is something the model must be able to read again  *)
(* later: the system prompt, the opening of the task (100 characters) and  *)
(* what it says between its first and its last 200, the preamble of a      *)
(* summary, the name of a dataset handle; any other text shows work.  A    *)
(* message with no text (a reply that only calls tools) shows nothing.     *)
(* Because the summary quotes only the first 100 or 200 characters of a    *)
(* message, or its last 200, a message says apart what its opening shows,  *)
(* what its ending shows and what it shows at all.                         *)
(***************************************************************************)
EXTENDS Integers, Sequences, SequencesExt

CONSTANTS
    PreserveRecent,   \* CompactionConfig.preserve_recent_messages
    MaxEstimated,     \* CompactionConfig.max_estimated_tokens
    AutoTrigger,      \* CompactionConfig.auto_trigger_input_tokens
    SummaryWeight,    \* tokens of a summary's fixed text
    LineWeight        \* tokens of one timeline line of a summary

\* COMPACTION_PRESERVE_RECENT and COMPACTION_TRIGGER_TOKENS are read with
\* int() and not validated, so they may be zero or negative.
ASSUME ConfigAssumption ==
    /\ PreserveRecent \in Int
    /\ AutoTrigger \in Int
    /\ MaxEstimated \in Nat
    /\ SummaryWeight \in Nat \ {0}
    /\ LineWeight \in Nat

Roles == {"system", "user", "assistant", "tool"}

SystemTopic    == <<"system", 0>>
TaskTopic      == <<"task", 0>>
RestTopic      == <<"task", 1>>
PreambleTopic  == <<"preamble", 0>>
WorkTopic      == <<"work", 0>>
HandleTopic(h) == <<"handle", h>>
Topics == {"system", "task", "preamble", "work", "handle"} \X Nat

\* A tool call is named by the turn that made it and its place in that turn:
\* the ids a provider gives to the calls of one conversation are distinct.
CallIds == Nat \X Nat

Message == [role: Roles, uses: SUBSET CallIds, answers: SUBSET CallIds,
            thinking: BOOLEAN, weight: Nat,
            opening: SUBSET Topics, ending: SUBSET Topics,
            shows: SUBSET Topics]

-----------------------------------------------------------------------------
(* Token estimate and the decision to compact *)

\* Python's messages[:cut] and messages[cut:].
Before(ms, cut) == SubSeq(ms, 1, cut)
From(ms, cut)   == SubSeq(ms, cut + 1, Len(ms))

\* sum(estimate_tokens(_message_text(m)) for m in ms).  One message never
\* weighs nothing: the estimate is len(text) // 4 + 1.
EstimatedTokens(ms) == FoldLeft(LAMBDA sum, m : sum + m.weight, 0, ms)

\* len(messages) - preserve_recent_messages.  A negative setting puts the cut
\* past the end, where Python's slices stop at the length of the list.
RawCut(ms) == IF PreserveRecent < 0 THEN Len(ms) ELSE Len(ms) - PreserveRecent

\* The floor looks at messages[:cut] for the raw cut, before any walk-back.
ShouldCompact(ms, cumulativeInput) ==
    /\ cumulativeInput >= AutoTrigger
    /\ Len(ms) > PreserveRecent
    /\ EstimatedTokens(Before(ms, RawCut(ms))) >= MaxEstimated

-----------------------------------------------------------------------------
(* Pairs of a tool call and its result *)

ToolUseIds(ms)    == UNION {ms[i].uses : i \in DOMAIN ms}
ToolResultIds(ms) == UNION {ms[i].answers : i \in DOMAIN ms}

\* Mutant: any tool call in the tail is taken to explain all its results.
HasOrphanToolResultsByPresence(ms) ==
    ToolResultIds(ms) # {} /\ ToolUseIds(ms) = {}

HasOrphanToolResults(ms) == ~(ToolResultIds(ms) \subseteq ToolUseIds(ms))

ToolUseMissingThinking(ms) ==
    \E i \in DOMAIN ms : /\ ms[i].role = "assistant"
                         /\ ms[i].uses # {}
                         /\ ~ms[i].thinking

PairSafe(ms, cut) == ~HasOrphanToolResults(From(ms, cut))

\* How often the loop decrements the cut: it stops at the first cut whose
\* tail answers only its own calls, and at 0 whatever the tail holds.
WalkBackSteps(ms, cut) ==
    CHOOSE k \in 0..cut : /\ k = cut \/ PairSafe(ms, cut - k)
                          /\ \A j \in 0..(k - 1) : ~PairSafe(ms, cut - j)

\* Mutant: the walk stops at the raw cut.
WalkBackNowhere(ms, cut) == cut

\* Mutant: the walk goes forward, to the next cut that splits no pair.
WalkForwardForPairSafety(ms, cut) ==
    IF cut <= 0 \/ cut >= Len(ms) THEN cut
    ELSE CHOOSE c \in cut..Len(ms) : /\ PairSafe(ms, c)
                                     /\ \A d \in cut..(c - 1) : ~PairSafe(ms, d)

WalkBackForPairSafety(ms, cut) ==
    IF cut <= 0 \/ cut >= Len(ms) THEN cut ELSE cut - WalkBackSteps(ms, cut)

-----------------------------------------------------------------------------
(* The summary and the compaction itself *)

\* The openings of the last two user messages, 200 characters each.
RecentUserRequests(ms) ==
    LET asked == {i \in DOMAIN ms : ms[i].role = "user" /\ ms[i].shows # {}}
        recent == {i \in asked : ~\E j, k \in asked : i < j /\ j < k}
    IN  UNION {ms[i].opening : i \in recent}

\* The last 200 characters of the last message that has any text.
MostRecentWork(ms) ==
    LET spoken == {i \in DOMAIN ms : ms[i].shows # {}}
    IN  UNION {ms[i].ending : i \in {j \in spoken : \A k \in spoken : k <= j}}

\* Mutant: the timeline leaves tool results out.
TimelineWithoutResults(ms) ==
    UNION {ms[i].opening : i \in {j \in DOMAIN ms : ms[j].role # "tool"}}

\* One line per compacted message with its first 100 characters.
Timeline(ms) == UNION {ms[i].opening : i \in DOMAIN ms}

\* The user message that stands for the compacted part.  It opens with the
\* preamble and ends with the timeline's last line.
SummaryOf(ms) ==
    [role |-> "user", uses |-> {}, answers |-> {}, thinking |-> FALSE,
     weight |-> SummaryWeight + LineWeight * Len(ms),
     opening |-> {PreambleTopic},
     ending |-> ms[Len(ms)].opening,
     shows |-> {PreambleTopic} \cup RecentUserRequests(ms)
                 \cup MostRecentWork(ms) \cup Timeline(ms)]

Uncompacted(ms, fired) == [messages |-> ms, removed |-> 0, backstop |-> fired]

CutOf(ms) == WalkBackForPairSafety(ms, RawCut(ms))

SummaryAndTail(ms) == <<SummaryOf(Before(ms, CutOf(ms)))>> \o From(ms, CutOf(ms))

CompactMessages(ms) ==
    IF Len(ms) <= PreserveRecent \/ CutOf(ms) = 0
    THEN Uncompacted(ms, FALSE)
    ELSE IF \/ HasOrphanToolResults(SummaryAndTail(ms))
            \/ ToolUseMissingThinking(SummaryAndTail(ms))
    THEN Uncompacted(ms, TRUE)
    ELSE [messages |-> SummaryAndTail(ms), removed |-> CutOf(ms),
          backstop |-> FALSE]
=============================================================================
