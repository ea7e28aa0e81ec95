---------------------------- MODULE TracesProofs ----------------------------
(***************************************************************************)
(* What the traces table holds and what GET /traces replays, for runs of   *)
(* any length and rows that are written late, in any order or not at all.  *)
(***************************************************************************)
EXTENDS Traces, AgentLoopProofs, FiniteSetTheorems

\* Every step beside the loop leaves the loop alone.
LEMMA LoopBeneath == [TracesNext]_tracesVars => [Next]_vars
  BY DEF TracesNext, LoopDoesNext, LoopDoes, ModelReturns, ResponseArrives,
         WriteEnds, RunOver, tracesVars, Next, LoopStep, TraceEnds

-----------------------------------------------------------------------------
(* The order of the events *)

\* What f may come after in the replay, ids apart.
Precedes(e, f) ==
    \/ e.turn < f.turn
    \/ /\ e.turn = f.turn /\ f.type = "tool_call"
       /\ e.type = "llm_call" \/ e.k < f.k

Sorted(es) == \A a, b \in DOMAIN es : a < b => Precedes(es[a], es[b])

\* A transcript that was sorted is sorted with one event more.
LEMMA SortedAppend ==
    ASSUME NEW es \in Seq(Event), NEW e \in Event, Sorted(es),
           InOrder(Append(es, e))
    PROVE  Sorted(Append(es, e))
<1> DEFINE new == Append(es, e)
           n == Len(es) + 1
<1>1. /\ Len(es) \in Nat /\ DOMAIN es = 1..Len(es) /\ DOMAIN new = 1..n
      /\ \A k \in 1..Len(es) : new[k] = es[k]
      /\ new[n] = e
  BY AppendProperties, LenProperties
<1>2. \A k \in 1..n : new[k].turn \in Nat /\ new[k].k \in Nat
  <2> HIDE DEF new
  <2>1. \A k \in 1..Len(es) : es[k] \in Event
    BY <1>1, ElementOfSeq
  <2>2. \A k \in 1..n : new[k] \in Event
    BY <1>1, <2>1
  <2> QED BY <2>2 DEF Event
<1> HIDE DEF new
<1>3. PICK p \in 1..n : Group(new, p, n) /\ Follows(new, p)
  <2>1. \A i \in DOMAIN new : \E p \in 1..i : Group(new, p, i) /\ Follows(new, p)
    BY DEF InOrder, new
  <2>2. n \in DOMAIN new
    BY <1>1
  <2> HIDE DEF n
  <2> QED BY <2>1, <2>2
<1>4. ASSUME NEW a \in 1..Len(es)
      PROVE  Precedes(new[a], new[n])
  <2>1. \A k \in 1..Len(es) : a < k => Precedes(new[a], new[k])
    BY <1>1 DEF Sorted
  <2>2. CASE p = n
    <3>1. n # 1
      BY <1>1
    <3>2. PICK q \in 1..(p - 1) :
            Round(new, q, p - 1) /\ new[p].turn = new[q].turn + 1
      BY <1>3, <2>2, <3>1 DEF Follows
    <3>3. new[n - 1].turn = new[q].turn
      BY <1>1, <2>2, <3>2 DEF Round, Group
    <3>4. new[a].turn <= new[n - 1].turn
      <4>1. n - 1 \in 1..Len(es) /\ (a = n - 1 \/ a < n - 1)
        BY <1>1
      <4> QED BY <1>2, <2>1, <4>1 DEF Precedes
    <3>5. n - 1 \in 1..n /\ a \in 1..n /\ q \in 1..n
      BY <1>1, <2>2
    <3> QED BY <1>2, <2>2, <3>2, <3>3, <3>4, <3>5 DEF Precedes
  <2>3. CASE p < n
    <3>1. /\ new[n].type = "tool_call" /\ new[n].turn = new[p].turn
          /\ new[n].k = n - p /\ new[p].type = "llm_call"
      BY <1>1, <1>3, <2>3 DEF Group
    <3>2. CASE a < p
      <4>1. p \in 1..Len(es)
        BY <1>1, <2>3
      <4> QED BY <2>1, <3>1, <3>2, <4>1 DEF Precedes
    <3>3. CASE a = p
      BY <3>1, <3>3 DEF Precedes
    <3>4. CASE p < a
      <4>1. new[a].turn = new[p].turn /\ new[a].k = a - p
        BY <1>1, <1>3, <3>4 DEF Group
      <4> QED BY <1>1, <3>1, <4>1 DEF Precedes
    <3> QED BY <1>1, <3>2, <3>3, <3>4
  <2> QED BY <1>1, <2>2, <2>3
<1>5. ASSUME NEW a \in 1..n, NEW b \in 1..n, a < b
      PROVE  Precedes(new[a], new[b])
  <2>1. a \in 1..Len(es)
    BY <1>1, <1>5
  <2>2. CASE b = n
    BY <1>4, <2>1, <2>2
  <2>3. CASE b # n
    <3>1. b \in 1..Len(es)
      BY <1>1, <2>3
    <3> QED BY <1>1, <1>5, <2>1, <3>1 DEF Sorted
  <2> QED BY <2>2, <2>3
<1> QED BY <1>1, <1>5 DEF Sorted, new

-----------------------------------------------------------------------------
(* The table *)

Row == [type: {"llm_call", "tool_call"}, turn: Nat, k: Nat]

\* The rows of the first n model calls.
LLMRows(n) == {LLMRow(t) : t \in 0..(n - 1)}

\* A row that has a reason to be there.
Due(row) ==
    \/ row \in LLMRows(logged) \ (writing \cup lost)
    \/ \E id \in rows : row = ToolRow(id[1], id[2])

AllDue == \A row \in Rows : Due(row)

\* Rows differ, and those of one round's tool calls are in the order of the
\* calls: the loop waits for each INSERT.
RowsInOrder(tab) ==
    \A i, j \in DOMAIN tab : i < j =>
        /\ tab[i] # tab[j]
        /\ tab[i].type = "tool_call" /\ tab[j].type = "tool_call"
             /\ tab[i].turn = tab[j].turn
           => tab[i].k < tab[j].k

\* The inductive form of EveryCallIsAccounted and ReplayInOrder.
TableInv ==
    /\ TranscriptInv /\ StoryInv /\ BudgetInv
    /\ Sorted(events)
    /\ logged \in Nat /\ table \in Seq(Row)
    /\ logged <= modelCalls /\ modelCalls <= logged + 1
    /\ pc \notin {"llm", "synth", "done"} => logged = modelCalls
    /\ writing \cap lost = {} /\ writing \cup lost \subseteq LLMRows(logged)
    /\ \A t \in 0..(logged - 1) : LLMRow(t) \in writing \cup lost \cup Rows
    /\ \A id \in rows : ToolRow(id[1], id[2]) \in Rows
    /\ AllDue
    /\ RowsInOrder(table)

\* One row more.
LEMMA RowAppended ==
    ASSUME table \in Seq(Row), RowsInOrder(table), NEW row \in Row,
           table' = Append(table, row), row \notin Rows,
           \A i \in DOMAIN table :
              table[i].type = "tool_call" /\ row.type = "tool_call"
                /\ table[i].turn = row.turn => table[i].k < row.k
    PROVE  /\ table' \in Seq(Row) /\ RowsInOrder(table')
           /\ Rows' = Rows \cup {row}
           /\ \A i \in DOMAIN table' :
                table'[i] = row \/ (i \in DOMAIN table /\ table'[i] = table[i])
<1>1. /\ Len(table) \in Nat /\ DOMAIN table = 1..Len(table)
      /\ DOMAIN table' = 1..(Len(table) + 1)
      /\ \A i \in 1..Len(table) : table'[i] = table[i]
      /\ table'[Len(table) + 1] = row
      /\ table' \in Seq(Row)
  BY AppendProperties, LenProperties
<1>2. \A i \in DOMAIN table' : \/ i = Len(table) + 1 /\ table'[i] = row
                               \/ i \in DOMAIN table /\ table'[i] = table[i]
  BY <1>1
<1>3. Rows' = Rows \cup {row}
  <2>1. Rows' \subseteq Rows \cup {row}
    BY <1>2 DEF Rows
  <2>2. Rows \subseteq Rows'
    BY <1>1 DEF Rows
  <2>3. row \in Rows'
    BY <1>1 DEF Rows
  <2> QED BY <2>1, <2>2, <2>3
<1>4. RowsInOrder(table')
  <2> SUFFICES ASSUME NEW i \in DOMAIN table', NEW j \in DOMAIN table', i < j
               PROVE  /\ table'[i] # table'[j]
                      /\ table'[i].type = "tool_call" /\ table'[j].type = "tool_call"
                           /\ table'[i].turn = table'[j].turn
                         => table'[i].k < table'[j].k
    BY DEF RowsInOrder
  <2>1. i \in DOMAIN table /\ table'[i] = table[i] /\ table[i] \in Rows
    BY <1>1, <1>2 DEF Rows
  <2>2. CASE j = Len(table) + 1
    BY <1>1, <2>1, <2>2
  <2>3. CASE j # Len(table) + 1
    BY <1>2, <2>1, <2>3 DEF RowsInOrder
  <2> QED BY <2>2, <2>3
<1> QED BY <1>1, <1>2, <1>3, <1>4

\* The rows of model calls are rows, and no tool_call row is one of them.
LEMMA RowTypes ==
    /\ \A t \in Nat : LLMRow(t) \in Row /\ LLMRow(t).type = "llm_call"
                      /\ LLMRow(t).turn = t
    /\ \A t, c \in Nat : ToolRow(t, c) \in Row /\ ToolRow(t, c).type = "tool_call"
                         /\ ToolRow(t, c).turn = t /\ ToolRow(t, c).k = c
    /\ \A n \in Nat : \A row \in LLMRows(n) :
         row.type = "llm_call" /\ row \in Row /\ row = LLMRow(row.turn)
         /\ row.turn \in 0..(n - 1)
BY DEF LLMRow, ToolRow, Row, LLMRows

\* Nothing is in an empty table.
LEMMA TableInit == TracesInit => TableInv
<1> SUFFICES ASSUME TracesInit PROVE TableInv
  OBVIOUS
<1>1. /\ Init /\ table = <<>> /\ DOMAIN table = {} /\ writing = {} /\ lost = {}
      /\ logged = 0 /\ modelCalls = 0 /\ rows = {} /\ DOMAIN events = {}
  BY DEF TracesInit, Init
<1>2. TranscriptInv /\ StoryInv /\ BudgetInv
  BY <1>1, TranscriptInit, StoryInit, BudgetInit
<1> QED BY <1>1, <1>2 DEF TableInv, Sorted, RowsInOrder, AllDue, Rows, LLMRows

\* What the loop's own invariants say of the next state.
LEMMA LoopInvariants ==
    ASSUME TableInv, [Next]_vars
    PROVE  TranscriptInv' /\ StoryInv' /\ BudgetInv' /\ Sorted(events)'
<1>1. TranscriptInv' /\ StoryInv' /\ BudgetInv'
  BY TranscriptNext, StoryNext, BudgetNext DEF TableInv
<1>2. events \in Seq(Event) /\ Sorted(events)
  BY DEF TableInv, BudgetInv, TypeInv, TypeOK
<1>3. InOrder(events')
  BY <1>1 DEF TranscriptInv, InOrder, Group, Round, Follows
<1>4. events' = events \/ \E e \in Event : events' = Append(events, e)
  <2>0. turn \in Nat /\ call \in Nat
    BY BudgetPositive, LoopAssumption DEF TableInv, BudgetInv, TypeInv, TypeOK
  <2>1. ToolEvent \in Event /\ \A n \in Nat : LLMEvent(n) \in Event
    BY <2>0 DEF ToolEvent, LLMEvent, Event
  <2> HIDE DEF ToolEvent, LLMEvent, Event
  <2>2. CASE ModelEnds
    BY <2>1, <2>2, LoopAssumption DEF ModelEnds, ModelReplies, SynthesisReplies, ModelFails
  <2>3. CASE TraceEnds
    BY <2>1, <2>3 DEF TraceEnds, TraceWritten, TraceFails, ServeNext
  <2>4. CASE ~ModelEnds /\ ~TraceEnds
    BY <2>4 DEF Next, vars, LoopStep, Advance, ToolEnds, Ended, Start, BeginRound,
          BeginSynthesis, ToolResumes, CancelsTool, Cancelled, ToolReturns, ToolTimesOut, ToolStops,
          RequestCancel
  <2> QED BY <2>2, <2>3, <2>4
<1>5. Sorted(events')
  BY <1>2, <1>3, <1>4, SortedAppend
<1> QED BY <1>1, <1>5 DEF Sorted, Precedes

\* The loop writes no row but that of the call it serves, and waits for each
\* model call's callback to be scheduled.
LEMMA LoopWrites ==
    ASSUME TableInv, LoopDoesNext
    PROVE  /\ \/ rows' = rows /\ table' = table
              \/ /\ rows' = rows \cup {<<turn, call>>} /\ <<turn, call>> \notin rows
                 /\ table' = Append(table, ToolRow(turn, call))
                 /\ \A id \in rows : Behind(id)
           /\ UNCHANGED <<logged, writing, lost>>
           /\ logged <= modelCalls' /\ modelCalls' <= logged + 1
           /\ pc' \notin {"llm", "synth", "done"} => logged = modelCalls'
<1>t. /\ modelCalls \in Nat /\ logged \in Nat /\ turn \in Nat /\ call \in Nat
      /\ logged <= modelCalls /\ modelCalls <= logged + 1
      /\ pc \notin {"llm", "synth", "done"} => logged = modelCalls
  BY BudgetPositive, LoopAssumption DEF TableInv, BudgetInv, TypeInv, TypeOK
<1>1. /\ UNCHANGED <<logged, writing, lost>>
      /\ table' = IF rows' = rows THEN table ELSE Append(table, ToolRow(turn, call))
  BY DEF LoopDoesNext, LoopDoes, ModelReturns
<1>2. rows' = rows \/ (pc = "trace" /\ rows' = rows \cup {<<turn, call>>})
  BY DEF LoopDoesNext, LoopDoes, ModelReturns, Advance, Start, BeginRound,
         BeginSynthesis, ToolResumes, CancelsTool, Cancelled, ToolEnds, ToolReturns,
         ToolTimesOut, ToolStops, TraceEnds, TraceWritten, TraceFails, RequestCancel,
         ModelEnds, ModelReplies, SynthesisReplies, ModelFails, traces
<1>3. pc = "trace" => \A id \in rows : Behind(id)
  BY DEF TableInv, StoryInv
<1>4. /\ logged <= modelCalls' /\ modelCalls' <= logged + 1
      /\ pc' \notin {"llm", "synth", "done"} => logged = modelCalls'
  <2>1. CASE BeginRound \/ BeginSynthesis
    BY <1>t, <2>1 DEF BeginRound, BeginSynthesis
  <2>2. CASE logged = modelCalls /\ ModelEnds
    BY <1>t, <2>2 DEF ModelEnds, ModelReplies, SynthesisReplies, ModelFails, chat
  <2>3. CASE \/ Start \/ ToolResumes \/ CancelsTool \/ Cancelled
            \/ ToolEnds \/ ToolTimesOut \/ ToolStops \/ TraceEnds
    <3>1. modelCalls' = modelCalls
      BY <2>3 DEF Start, ToolResumes, CancelsTool, Cancelled, ToolEnds, ToolReturns,
            ToolTimesOut, ToolStops, TraceEnds, TraceWritten, TraceFails, chat
    <3>2. pc \notin {"llm", "synth", "done"} \/ pc' = "done"
      BY <2>3 DEF Start, ToolResumes, CancelsTool, Cancelled, Finish, ToolEnds, ToolReturns,
            ToolTimesOut, ToolStops, TraceEnds, TraceWritten, TraceFails
    <3> QED BY <1>t, <3>1, <3>2
  <2>4. CASE RequestCancel
    BY <1>t, <2>4 DEF RequestCancel, chat
  <2> QED
    BY <2>1, <2>2, <2>3, <2>4 DEF LoopDoesNext, LoopDoes, ModelReturns, Advance
<1> QED BY <1>1, <1>2, <1>3, <1>4

\* Every step of loop, callbacks and INSERTs keeps the table.
LEMMA TableNext == TableInv /\ [TracesNext]_tracesVars => TableInv'
<1> SUFFICES ASSUME TableInv, [TracesNext]_tracesVars
             PROVE  TableInv'
  OBVIOUS
<1>0. TranscriptInv' /\ StoryInv' /\ BudgetInv' /\ Sorted(events)'
  BY LoopBeneath, LoopInvariants
<1>t. /\ logged \in Nat /\ modelCalls \in Nat /\ turn \in Nat /\ call \in Nat
      /\ table \in Seq(Row) /\ rows \subseteq CallIds
  BY BudgetPositive, LoopAssumption DEF TableInv, BudgetInv, TypeInv, TypeOK
<1>r. \A id \in rows : id[1] \in Nat /\ id[2] \in Nat /\ id = <<id[1], id[2]>>
  BY <1>t DEF CallIds
<1>d. \A row \in Rows : Due(row)
  BY DEF TableInv, AllDue
<1>1. CASE LoopDoesNext
  <2>1. CASE rows' = rows /\ table' = table
    <3>1. Rows' = Rows
      BY <2>1 DEF Rows
    <3> QED
      BY <1>0, <1>1, <2>1, <3>1, LoopWrites
         DEF TableInv, AllDue, Due, RowsInOrder
  <2>2. CASE /\ rows' = rows \cup {<<turn, call>>} /\ <<turn, call>> \notin rows
             /\ table' = Append(table, ToolRow(turn, call))
             /\ \A id \in rows : Behind(id)
    <3> DEFINE row == ToolRow(turn, call)
    <3>1. row \in Row /\ row.type = "tool_call" /\ row.turn = turn /\ row.k = call
      BY <1>t, RowTypes
    <3>2. row \notin Rows
      <4>1. row \notin LLMRows(logged)
        BY <1>t, <3>1, RowTypes
      <4>2. \A id \in rows : row # ToolRow(id[1], id[2])
        BY <1>r, <2>2, <3>1, RowTypes
      <4> QED BY <1>d, <4>1, <4>2 DEF Due
    <3>3. \A i \in DOMAIN table :
            table[i].type = "tool_call" /\ row.type = "tool_call"
              /\ table[i].turn = row.turn => table[i].k < row.k
      <4> SUFFICES ASSUME NEW i \in DOMAIN table, table[i].type = "tool_call",
                          table[i].turn = turn
                   PROVE  table[i].k < call
        BY <3>1
      <4>1. PICK id \in rows : table[i] = ToolRow(id[1], id[2])
        <5>1. table[i] \in Rows
          BY DEF Rows
        <5> QED BY <1>t, <1>d, <5>1, RowTypes DEF Due
      <4> QED BY <1>r, <2>2, <4>1, RowTypes DEF Behind
    <3> HIDE DEF row
    <3>4. /\ table' \in Seq(Row) /\ RowsInOrder(table') /\ Rows' = Rows \cup {row}
          /\ \A i \in DOMAIN table' :
               table'[i] = row \/ (i \in DOMAIN table /\ table'[i] = table[i])
      BY <1>t, <2>2, <3>1, <3>2, <3>3, RowAppended DEF TableInv, row
    <3>5. UNCHANGED <<logged, writing, lost>>
      BY <1>1, LoopWrites
    <3>6. \A id \in rows' : ToolRow(id[1], id[2]) \in Rows'
      BY <2>2, <3>4 DEF TableInv, row
    <3>7. AllDue'
      <4>1. row = ToolRow(<<turn, call>>[1], <<turn, call>>[2])
        BY DEF row
      <4>2. \A q \in Rows' : \/ q \in LLMRows(logged') \ (writing' \cup lost')
                            \/ \E id \in rows' : q = ToolRow(id[1], id[2])
        BY <1>d, <2>2, <3>4, <3>5, <4>1 DEF Due
      <4> QED BY <4>2 DEF AllDue, Due
    <3>8. \A t \in 0..(logged' - 1) : LLMRow(t) \in writing' \cup lost' \cup Rows'
      BY <3>4, <3>5 DEF TableInv
    <3>9. RowsInOrder(table)'
      BY <3>4 DEF RowsInOrder
    <3> QED
      BY <1>0, <1>1, <3>4, <3>5, <3>6, <3>7, <3>8, <3>9, LoopWrites DEF TableInv
  <2> QED BY <1>1, <2>1, <2>2, LoopWrites
<1>2. CASE ResponseArrives
  <2>1. /\ pc \in {"llm", "synth"} /\ logged' = modelCalls
        /\ writing' = writing \cup {LLMRow(turn)}
        /\ UNCHANGED <<pc, modelCalls, rows, lost, table>> /\ Rows' = Rows
    BY <1>2 DEF ResponseArrives, vars, chat, traces, Rows
  <2>2. turn = logged /\ modelCalls = logged + 1
    BY <1>2, <1>t, <2>1 DEF ResponseArrives, TableInv, BudgetInv
  <2>3. LLMRow(logged) \notin LLMRows(logged)
    BY <1>t, RowTypes
  <2>4. LLMRows(logged') = LLMRows(logged) \cup {LLMRow(logged)}
    BY <1>t, <2>1, <2>2 DEF LLMRows
  <2>5. LLMRow(logged) \notin Rows
    <3>1. \A id \in rows : LLMRow(logged) # ToolRow(id[1], id[2])
      BY DEF LLMRow, ToolRow
    <3> QED BY <1>d, <2>3, <3>1 DEF Due
  <2>6. /\ writing' \cap lost' = {}
        /\ writing' \cup lost' \subseteq LLMRows(logged')
    BY <2>1, <2>2, <2>3, <2>4 DEF TableInv
  <2>7. \A t \in 0..(logged' - 1) : LLMRow(t) \in writing' \cup lost' \cup Rows'
    BY <1>t, <2>1, <2>2 DEF TableInv
  <2>8. AllDue'
    <3>1. \A q \in Rows' : \/ q \in LLMRows(logged') \ (writing' \cup lost')
                          \/ \E id \in rows' : q = ToolRow(id[1], id[2])
      BY <1>d, <2>1, <2>2, <2>4, <2>5 DEF Due
    <3> QED BY <3>1 DEF AllDue, Due
  <2>9. RowsInOrder(table)'
    BY <2>1 DEF TableInv, RowsInOrder
  <2> QED
    BY <1>0, <1>t, <2>1, <2>2, <2>6, <2>7, <2>8, <2>9 DEF TableInv
<1>3. ASSUME NEW row \in writing, WriteEnds(row)
      PROVE  TableInv'
  <2>1. /\ writing' = writing \ {row}
        /\ UNCHANGED <<pc, modelCalls, rows, logged>>
        /\ \/ table' = Append(table, row) /\ lost' = lost
           \/ lost' = lost \cup {row} /\ table' = table
    BY <1>3 DEF WriteEnds, vars, chat, traces
  <2>2. row \in LLMRows(logged) /\ row \in Row /\ row.type = "llm_call"
    BY <1>t, RowTypes DEF TableInv
  <2>3. row \notin Rows /\ row \notin lost
    <3>1. \A id \in rows : row # ToolRow(id[1], id[2])
      BY <1>r, <2>2, RowTypes
    <3> QED BY <1>d, <3>1 DEF Due, TableInv
  <2>4. CASE table' = Append(table, row) /\ lost' = lost
    <3>1. /\ table' \in Seq(Row) /\ RowsInOrder(table') /\ Rows' = Rows \cup {row}
          /\ \A i \in DOMAIN table' :
               table'[i] = row \/ (i \in DOMAIN table /\ table'[i] = table[i])
      BY <1>t, <2>2, <2>3, <2>4, RowAppended DEF TableInv
    <3>2. AllDue'
      <4>1. \A q \in Rows' : \/ q \in LLMRows(logged') \ (writing' \cup lost')
                            \/ \E id \in rows' : q = ToolRow(id[1], id[2])
        BY <1>d, <2>1, <2>2, <2>3, <2>4, <3>1 DEF Due
      <4> QED BY <4>1 DEF AllDue, Due
    <3>3. RowsInOrder(table)'
      BY <3>1 DEF RowsInOrder
    <3> QED BY <1>0, <2>1, <2>4, <3>1, <3>2, <3>3 DEF TableInv
  <2>5. CASE lost' = lost \cup {row} /\ table' = table
    <3>1. Rows' = Rows
      BY <2>5 DEF Rows
    <3>2. AllDue'
      <4>1. \A q \in Rows' : \/ q \in LLMRows(logged') \ (writing' \cup lost')
                            \/ \E id \in rows' : q = ToolRow(id[1], id[2])
        BY <1>d, <2>1, <2>3, <2>5, <3>1 DEF Due
      <4> QED BY <4>1 DEF AllDue, Due
    <3>3. RowsInOrder(table)'
      BY <2>5 DEF TableInv, RowsInOrder
    <3> QED BY <1>0, <2>1, <2>3, <2>5, <3>1, <3>2, <3>3 DEF TableInv
  <2> QED BY <2>1, <2>4, <2>5
<1>4. CASE UNCHANGED tracesVars
  <2>1. UNCHANGED <<pc, modelCalls, rows, logged, writing, lost, table>> /\ Rows' = Rows
    BY <1>4 DEF tracesVars, telemetry, vars, chat, traces, Rows
  <2> QED BY <1>0, <2>1 DEF TableInv, AllDue, Due, RowsInOrder
<1> QED
  BY <1>1, <1>2, <1>3, <1>4 DEF TracesNext, RunOver

-----------------------------------------------------------------------------
(* The theorems *)

\* Whatever a run does after its model calls, and whatever order their INSERTs
\* end in: each call's row is in the table, on its way or given up, once; the
\* tool_call rows are those the loop wrote (telemetry.py, _write; loop.py).
THEOREM RowsAreAccounted == TracesSpec => []EveryCallIsAccounted
<1>1. TableInv => EveryCallIsAccounted
  <2> SUFFICES ASSUME TableInv PROVE EveryCallIsAccounted
    OBVIOUS
  <2> DEFINE turns == {table[i].turn : i \in {j \in DOMAIN table : table[j].type = "llm_call"}}
  <2>t. logged \in Nat /\ modelCalls \in Nat /\ rows \subseteq CallIds
    BY DEF TableInv, BudgetInv, TypeInv, TypeOK
  <2>d. \A row \in Rows : Due(row)
    BY DEF TableInv, AllDue
  <2>r. \A id \in rows : id[1] \in Nat /\ id[2] \in Nat /\ id = <<id[1], id[2]>>
    BY <2>t DEF CallIds
  <2>1. logged \in {modelCalls - 1, modelCalls} \cap Nat
    BY <2>t DEF TableInv
  <2>2. writing \cap lost = {} /\ Rows \cap (writing \cup lost) = {}
    <3>1. \A row \in writing \cup lost : \A id \in rows : row # ToolRow(id[1], id[2])
      BY <2>t, <2>r, RowTypes DEF TableInv
    <3> QED BY <2>d, <3>1 DEF TableInv, Due
  <2>3. turns = {row.turn : row \in {q \in Rows : q.type = "llm_call"}}
    BY DEF Rows
  <2>4. {row.turn : row \in writing \cup lost} \cup turns = 0..(logged - 1)
    <3>1. \A row \in writing \cup lost : row.turn \in 0..(logged - 1)
      BY <2>t, RowTypes DEF TableInv
    <3>2. \A row \in Rows : row.type = "llm_call" => row.turn \in 0..(logged - 1)
      BY <2>t, <2>d, <2>r, RowTypes DEF Due
    <3>3. ASSUME NEW t \in 0..(logged - 1)
          PROVE  t \in {row.turn : row \in writing \cup lost} \cup turns
      <4>1. LLMRow(t) \in writing \cup lost \cup Rows
        BY DEF TableInv
      <4>2. LLMRow(t).turn = t /\ LLMRow(t).type = "llm_call"
        BY <2>t, RowTypes
      <4> HIDE DEF turns
      <4> QED BY <2>3, <4>1, <4>2
    <3> HIDE DEF turns
    <3> QED BY <2>3, <3>1, <3>2, <3>3
  <2>5. {<<row.turn, row.k>> : row \in {q \in Rows : q.type = "tool_call"}} = rows
    <3>1. ASSUME NEW row \in Rows, row.type = "tool_call"
          PROVE  <<row.turn, row.k>> \in rows
      <4>1. PICK id \in rows : row = ToolRow(id[1], id[2])
        BY <2>t, <2>d, <3>1, RowTypes DEF Due
      <4> QED BY <2>r, <4>1, RowTypes
    <3>2. ASSUME NEW id \in rows
          PROVE  \E row \in Rows : row.type = "tool_call" /\ id = <<row.turn, row.k>>
      BY <2>r, RowTypes DEF TableInv
    <3> QED BY <3>1, <3>2
  <2>6. \A i, j \in DOMAIN table : table[i] = table[j] => i = j
    <3>1. DOMAIN table \subseteq Nat
      BY LenProperties DEF TableInv
    <3> QED BY <3>1 DEF TableInv, RowsInOrder
  <2> QED BY <2>1, <2>2, <2>4, <2>5, <2>6 DEF EveryCallIsAccounted
<1> QED
  BY TableInit, TableNext, <1>1, PTL DEF TracesSpec

\* The ORDER BY of GET /traces undoes the order in which the rows happened to
\* be written: what it replays stands in the order of the run (main.py, traces).
THEOREM ReplayFollowsTheRun == TracesSpec => []ReplayInOrder
<1>1. TableInv => ReplayInOrder
  <2> SUFFICES ASSUME TableInv, NEW a \in DOMAIN events, NEW b \in DOMAIN events,
                      NEW i \in DOMAIN table, NEW j \in DOMAIN table,
                      a < b, RowOf(events[a]) = table[i], RowOf(events[b]) = table[j]
               PROVE  ReplayedBefore(i, j)
    BY DEF ReplayInOrder
  <2>1. Precedes(events[a], events[b])
    BY DEF TableInv, Sorted
  <2>2. events[a] \in Event /\ events[b] \in Event
    <3>1. events \in Seq(Event)
      BY DEF TableInv, BudgetInv, TypeInv, TypeOK
    <3> QED BY <3>1
  <2>3. \A e \in Event : /\ RowOf(e).type = e.type /\ RowOf(e).turn = e.turn
                         /\ e.type = "tool_call" => RowOf(e).k = e.k
    BY DEF Event, RowOf, LLMRow, ToolRow
  <2>4. /\ table[i].type = events[a].type /\ table[i].turn = events[a].turn
        /\ events[a].type = "tool_call" => table[i].k = events[a].k
        /\ table[j].type = events[b].type /\ table[j].turn = events[b].turn
        /\ events[b].type = "tool_call" => table[j].k = events[b].k
    BY <2>2, <2>3
  <2>5. /\ events[a].turn \in Nat /\ events[a].k \in Nat /\ events[b].k \in Nat
        /\ events[a].type \in {"llm_call", "tool_call"}
    BY <2>2 DEF Event
  <2>6. CASE events[a].turn < events[b].turn
    BY <2>4, <2>6 DEF ReplayedBefore
  <2>7. CASE /\ events[a].turn = events[b].turn /\ events[b].type = "tool_call"
             /\ events[a].type = "llm_call"
    BY <2>4, <2>7 DEF ReplayedBefore
  <2>8. CASE /\ events[a].turn = events[b].turn /\ events[b].type = "tool_call"
             /\ events[a].type = "tool_call" /\ events[a].k < events[b].k
    <3>1. table[i].k < table[j].k
      BY <2>4, <2>8
    <3>2. i \in Nat /\ j \in Nat
      BY LenProperties DEF TableInv
    <3>3. ~(j < i)
      BY <2>4, <2>5, <2>8, <3>1 DEF TableInv, RowsInOrder
    <3>4. ASSUME i = j PROVE FALSE
      BY <2>4, <2>5, <2>8, <3>4
    <3>5. i < j
      BY <3>2, <3>3, <3>4
    <3> QED BY <2>4, <2>8, <3>5 DEF ReplayedBefore
  <2> QED BY <2>1, <2>5, <2>6, <2>7, <2>8 DEF Precedes
<1> QED
  BY TableInit, TableNext, <1>1, PTL DEF TracesSpec

-----------------------------------------------------------------------------
(* Everything is traced, or known not to be *)

\* The callbacks run beside the loop and change nothing in it: a traced run is a
\* run, and what is proved of every run holds of it (telemetry.py, _write).
THEOREM TracedRunIsARun == TracesSpec => Spec
<1>1. TracesInit => Init
  BY DEF TracesInit
<1> QED BY <1>1, LoopBeneath, PTL DEF TracesSpec, Spec

\* A model call is announced after its callback has been scheduled.
LoggedFirst ==
    \A i \in DOMAIN events :
        events[i].type = "llm_call" => LLMRow(events[i].turn) \in LLMRows(logged)

LEMMA LoggedNext == TableInv /\ LoggedFirst /\ [TracesNext]_tracesVars => LoggedFirst'
<1> SUFFICES ASSUME TableInv, LoggedFirst, [TracesNext]_tracesVars
             PROVE  LoggedFirst'
  OBVIOUS
<1>t. /\ logged \in Nat /\ modelCalls \in Nat /\ turn \in Nat /\ call \in Nat
      /\ events \in Seq(Event)
  BY BudgetPositive, LoopAssumption DEF TableInv, BudgetInv, TypeInv, TypeOK
<1>g. logged' \in Nat /\ logged <= logged'
  <2>1. logged' = logged \/ logged' = modelCalls
    BY DEF TracesNext, LoopDoesNext, LoopDoes, ModelReturns, ResponseArrives,
           WriteEnds, RunOver, tracesVars, telemetry
  <2> QED BY <1>t, <2>1 DEF TableInv
<1>m. LLMRows(logged) \subseteq LLMRows(logged')
  <2>1. ASSUME NEW m \in Nat, NEW n \in Nat, m <= n
        PROVE  \A t \in 0..(m - 1) : t \in 0..(n - 1)
    BY <2>1
  <2> QED BY <1>t, <1>g, <2>1 DEF LLMRows
<1>1. CASE events' = events
  BY <1>1, <1>m DEF LoggedFirst
<1>2. ASSUME NEW e, events' = Append(events, e),
             e.type = "llm_call" => LLMRow(e.turn) \in LLMRows(logged')
      PROVE  LoggedFirst'
  <2>1. \A i \in DOMAIN events' : \/ i \in DOMAIN events /\ events'[i] = events[i]
                                  \/ events'[i] = e
    BY <1>t, <1>2, AppendProperties, LenProperties
  <2> QED BY <1>2, <1>m, <2>1 DEF LoggedFirst
<1>3. CASE LoopDoes(TraceEnds)
  <2>1. events' = Append(events, ToolEvent) /\ ToolEvent.type = "tool_call"
    BY <1>3 DEF LoopDoes, TraceEnds, TraceWritten, TraceFails, ServeNext, ToolEvent
  <2> QED BY <1>2, <2>1
<1>4. CASE ModelReturns
  <2>1. pc \in {"llm", "synth"} /\ logged' = modelCalls
    BY <1>4 DEF ModelReturns, LoopDoes, ModelEnds, ModelReplies, SynthesisReplies,
                ModelFails
  <2>2. modelCalls = turn + 1
    BY <2>1 DEF TableInv, BudgetInv
  <2>3. events' = events \/ \E n : events' = Append(events, LLMEvent(n))
    BY <1>4 DEF ModelReturns, LoopDoes, ModelEnds, ModelReplies, SynthesisReplies,
                ModelFails
  <2>4. LLMRow(turn) \in LLMRows(logged')
    BY <1>t, <2>1, <2>2 DEF LLMRows
  <2>5. \A n : LLMEvent(n).turn = turn
    BY DEF LLMEvent
  <2> QED BY <1>1, <1>2, <2>3, <2>4, <2>5
<1>5. CASE LoopDoes(Advance \/ ToolEnds \/ ToolTimesOut \/ ToolStops \/ RequestCancel)
  <2>1. events' = events
    BY <1>5 DEF LoopDoes, Advance, Start, BeginRound, BeginSynthesis, ToolResumes,
                CancelsTool, Cancelled, ToolEnds, ToolReturns, ToolTimesOut, ToolStops, RequestCancel
  <2> QED BY <1>1, <2>1
<1>6. CASE ResponseArrives \/ (\E row \in writing : WriteEnds(row)) \/ UNCHANGED tracesVars
  <2>1. events' = events
    BY <1>6 DEF ResponseArrives, WriteEnds, tracesVars, vars
  <2> QED BY <1>1, <2>1
<1> QED
  BY <1>3, <1>4, <1>5, <1>6 DEF TracesNext, LoopDoesNext, LoopDoes, RunOver

\* A step that was announced is in the table, or on its way there, or there is
\* a warning in the log that it was given up.
NoStepForgotten ==
    \A i \in DOMAIN events :
        \/ RowOf(events[i]) \in Rows \cup writing \cup lost
        \/ /\ events[i].type = "tool_call"
           /\ <<events[i].turn, events[i].k>> \in unlogged

\* What GET /traces promises, once no INSERT is under way and none has failed.
ReplayComplete ==
    writing = {} /\ lost = {} /\ unlogged = {} =>
        \A i \in DOMAIN events : RowOf(events[i]) \in Rows

\* The replay misses steps only while their INSERTs are under way or because
\* they have failed; no step that a run announced is just forgotten, with
\* timeouts, cancellations and late callbacks (telemetry.py; loop.py; main.py).
THEOREM TraceMissesNothing == TracesSpec => [](NoStepForgotten /\ ReplayComplete)
<1>1. TracesInit => LoggedFirst
  BY DEF TracesInit, Init, LoggedFirst
<1>2. TableInv /\ LoggedFirst => NoStepForgotten
  <2> SUFFICES ASSUME TableInv, LoggedFirst, NEW i \in DOMAIN events
               PROVE  \/ RowOf(events[i]) \in Rows \cup writing \cup lost
                      \/ /\ events[i].type = "tool_call"
                         /\ <<events[i].turn, events[i].k>> \in unlogged
    BY DEF NoStepForgotten
  <2>1. events[i] \in Event
    BY DEF TableInv, BudgetInv, TypeInv, TypeOK
  <2>2. CASE events[i].type = "llm_call"
    <3>1. PICK t \in 0..(logged - 1) : LLMRow(events[i].turn) = LLMRow(t)
      BY <2>2 DEF LoggedFirst, LLMRows
    <3> QED BY <2>2, <3>1 DEF RowOf, TableInv
  <2>3. CASE events[i].type = "tool_call"
    <3> DEFINE id == <<events[i].turn, events[i].k>>
    <3>1. id \in rows \cup unlogged
      BY <2>3 DEF TableInv, StoryInv, TraceMatchesEvents, Announced
    <3>2. id \in rows => ToolRow(events[i].turn, events[i].k) \in Rows
      BY DEF TableInv
    <3> QED BY <2>3, <3>1, <3>2 DEF RowOf
  <2> QED BY <2>1, <2>2, <2>3 DEF Event
<1>3. NoStepForgotten => ReplayComplete
  BY DEF NoStepForgotten, ReplayComplete
<1> QED
  BY TableInit, TableNext, LoggedNext, <1>1, <1>2, <1>3, PTL DEF TracesSpec

-----------------------------------------------------------------------------
(* How long a trace is written *)

\* The steps the run has still to take, two for each callback to come (it is
\* scheduled, its INSERT ends), one for each INSERT under way.
TracesLeft == StepsLeft + 2 * (Budget + 1 - logged) + Cardinality(writing)

LEMMA TracesLeftFacts ==
  ASSUME TableInv
  PROVE  /\ StepsLeft \in Nat /\ IsFiniteSet(writing) /\ Cardinality(writing) \in Nat
         /\ logged \in 0..(Budget + 1) /\ Budget \in Nat
         /\ TracesLeft \in Nat
<1>1. StepsLeft \in Nat
  BY StepsLeftType DEF TableInv, BudgetInv
<1>2. /\ logged \in Nat /\ modelCalls \in Nat /\ turn \in 0..Budget
      /\ Budget \in Nat /\ logged <= modelCalls
  BY BudgetPositive DEF TableInv, BudgetInv, TypeInv, TypeOK
<1>3. modelCalls <= turn + 1
  <2>1. pc \in {"ready", "round", "llm", "tool", "stopping", "woken", "trace", "synth", "done"}
    BY DEF TableInv, BudgetInv, TypeInv, TypeOK, Suspended
  <2> QED BY <1>2, <2>1 DEF TableInv, BudgetInv
<1>4. logged \in 0..(Budget + 1)
  BY <1>2, <1>3
<1>5. IsFiniteSet(LLMRows(logged))
  <2> DEFINE nth == [t \in 0..(logged - 1) |-> LLMRow(t)]
  <2>1. nth \in Surjection(0..(logged - 1), LLMRows(logged))
    BY DEF Surjection, LLMRows
  <2>2. IsFiniteSet(0..(logged - 1))
    BY <1>2, FS_Interval
  <2> HIDE DEF nth
  <2> QED BY <2>1, <2>2, FS_Surjection
<1>6. writing \subseteq LLMRows(logged)
  BY DEF TableInv
<1>7. IsFiniteSet(writing) /\ Cardinality(writing) \in Nat
  BY <1>5, <1>6, FS_Subset, FS_CardinalityType
<1> QED BY <1>1, <1>2, <1>4, <1>7 DEF TracesLeft

LEMMA TracesLeftShrinks ==
  TableInv /\ [TracesNext]_tracesVars => [TracesLeft' < TracesLeft]_tracesVars
<1> SUFFICES ASSUME TableInv, TracesNext, tracesVars' # tracesVars
             PROVE  TracesLeft' < TracesLeft
  BY DEF tracesVars
<1>0. TableInv' /\ TypeInv
  BY TableNext DEF TableInv, BudgetInv
<1>1. /\ StepsLeft \in Nat /\ IsFiniteSet(writing) /\ Cardinality(writing) \in Nat
      /\ logged \in 0..(Budget + 1) /\ Budget \in Nat
  BY TracesLeftFacts
<1>2. /\ StepsLeft' \in Nat /\ Cardinality(writing') \in Nat
      /\ logged' \in 0..(Budget + 1)
  <2>1. (TableInv => /\ StepsLeft \in Nat /\ Cardinality(writing) \in Nat
                     /\ logged \in 0..(Budget + 1))'
    BY TracesLeftFacts, PTL
  <2> QED BY <1>0, <2>1 DEF Budget
<1>3. TracesLeft' = StepsLeft' + 2 * (Budget + 1 - logged') + Cardinality(writing')
  BY DEF TracesLeft, Budget
<1>4. vars' = vars => StepsLeft' = StepsLeft
  BY DEF vars, progress, StepsLeft, CancelsLeft, LaterSteps, Budget, RoundSteps
<1>5. CASE LoopDoesNext
  <2>1. UNCHANGED <<logged, writing, lost>> /\ (vars' = vars => table' = table)
    BY <1>5 DEF LoopDoesNext, LoopDoes, ModelReturns, vars, traces
  <2>2. vars' # vars
    BY <2>1 DEF tracesVars, telemetry
  <2>3. StepsLeft' < StepsLeft
    BY <1>0, <2>2, LoopBeneath, StepsLeftShrinks
  <2> QED BY <1>1, <1>2, <1>3, <2>1, <2>3 DEF TracesLeft
<1>6. CASE ResponseArrives
  <2>1. /\ vars' = vars /\ logged < modelCalls /\ logged' = modelCalls
        /\ writing' = writing \cup {LLMRow(turn)}
    BY <1>6 DEF ResponseArrives
  <2>2. logged' = logged + 1
    BY <1>1, <2>1 DEF TableInv, BudgetInv, TypeInv, TypeOK
  <2>3. Cardinality(writing') \in {Cardinality(writing), Cardinality(writing) + 1}
    BY <1>1, <2>1, FS_AddElement
  <2> QED BY <1>1, <1>2, <1>3, <1>4, <2>1, <2>2, <2>3 DEF TracesLeft
<1>7. ASSUME NEW row \in writing, WriteEnds(row)
      PROVE  TracesLeft' < TracesLeft
  <2>1. vars' = vars /\ logged' = logged /\ writing' = writing \ {row}
    BY <1>7 DEF WriteEnds
  <2>2. Cardinality(writing') = Cardinality(writing) - 1
    BY <1>1, <2>1, FS_RemoveElement
  <2> QED BY <1>1, <1>2, <1>3, <1>4, <2>1, <2>2 DEF TracesLeft
<1> QED BY <1>5, <1>6, <1>7 DEF TracesNext, RunOver

\* Writing the trace comes to rest: run, callbacks and INSERTs have a bounded
\* number of steps to take together.  With TraceMissesNothing this is what
\* EveryStepIsTraced rests on, fairness apart (telemetry.py, _write).
THEOREM TraceIsBounded ==
  TracesSpec => [](TracesLeft \in Nat) /\ [][TracesLeft' < TracesLeft]_tracesVars
<1>1. TableInv => TracesLeft \in Nat
  BY TracesLeftFacts
<1> QED
  BY TableInit, TableNext, TracesLeftShrinks, <1>1, PTL DEF TracesSpec
=============================================================================
