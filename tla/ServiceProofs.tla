--------------------------- MODULE ServiceProofs ----------------------------
(***************************************************************************)
(* Who holds a connection, who waits for whom, and when there is a pool,   *)
(* for any number of runs, rounds and tool calls and a pool of any size.   *)
(***************************************************************************)
EXTENDS Service, FiniteSetTheorems, TLAPS

Phases == {"ready", "round", "llm", "tool", "trace", "done"}

\* Model calls of a run that have been answered, or given up.
Answered(o) == IF o.phase = "llm" THEN o.asked - 1 ELSE o.asked

IsOutline(o) ==
    /\ o.phase \in Phases /\ o.asked \in Nat
    /\ o.phase = "ready" => o.asked = 0
    /\ o.phase = "llm" => o.asked >= 1

-----------------------------------------------------------------------------
(* The steps of an outline *)

LEMMA NewRunFacts == IsOutline(Outline!NewRun) /\ Outline!NewRun.phase = "ready"
  BY DEF IsOutline, Phases, Outline!NewRun, Outline!At

\* Every successor is an outline again; the count of answered calls never goes
\* down, and goes up only by the answer itself.
LEMMA OutlineSteps ==
  ASSUME NEW o, IsOutline(o),
         NEW s \in Outline!Started(o) \cup Outline!Asked(o) \cup Outline!Answered(o)
                   \cup Outline!Broken(o) \cup Outline!Served(o)
                   \cup Outline!Recorded(o)
  PROVE  IsOutline(s) /\ Answered(s) >= Answered(o) /\ s.asked >= o.asked
<1> USE DEF Outline!At, IsOutline, Phases, Answered
<1>1. CASE s \in Outline!Started(o)
  BY <1>1 DEF Outline!Started
<1>2. CASE s \in Outline!Asked(o)
  BY <1>2 DEF Outline!Asked
<1>3. CASE s \in Outline!Answered(o)
  BY <1>3 DEF Outline!Answered
<1>4. CASE s \in Outline!Broken(o)
  BY <1>4 DEF Outline!Broken
<1>5. CASE s \in Outline!Served(o)
  BY <1>5 DEF Outline!Served
<1>6. CASE s \in Outline!Recorded(o)
  BY <1>6 DEF Outline!Recorded
<1> QED BY <1>1, <1>2, <1>3, <1>4, <1>5, <1>6

\* When the model answers, or fails, the call is behind the run.
LEMMA AnswerSteps ==
  ASSUME NEW o, IsOutline(o), o.phase = "llm",
         NEW s \in Outline!Answered(o) \cup Outline!Broken(o)
  PROVE  s.asked = o.asked /\ s.phase # "llm"
<1>1. CASE s \in Outline!Answered(o)
  BY <1>1 DEF Outline!Answered, Outline!At
<1>2. CASE s \in Outline!Broken(o)
  BY <1>2 DEF Outline!Broken, Outline!At
<1> QED BY <1>1, <1>2

-----------------------------------------------------------------------------
(* The users of the pool *)

\* u is the tool or the row of a run that is at that point, a reader, or the
\* callback of a call that is behind the run.
Placed(u) ==
    \E r \in Runs :
        \/ u = Tool(r) /\ runs[r].phase = "tool"
        \/ u = Row(r) /\ runs[r].phase = "trace"
        \/ u = Reader(r)
        \/ \E n \in 1..Answered(runs[r]) : u = Log(r, n)

RunsInv ==
    /\ runs = [r \in Runs |-> runs[r]]
    /\ \A r \in Runs : IsOutline(runs[r])

PoolInv ==
    /\ waiting \cap holding = {}
    /\ IsFiniteSet(holding) /\ Cardinality(holding) <= PoolSize
    /\ \A u \in waiting \cup holding : Placed(u)

LEMMA UsersDiffer ==
  ASSUME NEW r, NEW q, NEW n, NEW m
  PROVE  /\ Tool(r) # Row(q) /\ Tool(r) # Reader(q) /\ Tool(r) # Log(q, n)
         /\ Row(r) # Reader(q) /\ Row(r) # Log(q, n) /\ Reader(r) # Log(q, n)
         /\ Tool(r) = Tool(q) => r = q
         /\ Row(r) = Row(q) => r = q
         /\ Log(r, n) = Log(q, m) => r = q /\ n = m
  BY DEF Tool, Row, Reader, Log

\* Fewer users: nothing to show but that they are fewer.
LEMMA FewerUsers ==
  ASSUME PoolInv, UNCHANGED runs, waiting' \subseteq waiting,
         holding' \subseteq holding
  PROVE  PoolInv'
<1>1. IsFiniteSet(holding') /\ Cardinality(holding') <= Cardinality(holding)
  BY FS_Subset DEF PoolInv
<1>2. Cardinality(holding) \in Nat /\ Cardinality(holding') \in Nat
  BY <1>1, FS_CardinalityType DEF PoolInv
<1>3. Cardinality(holding') <= PoolSize
  BY <1>1, <1>2, ServiceAssumption DEF PoolInv
<1>4. \A u \in waiting' \cup holding' : Placed(u)'
  BY DEF PoolInv, Placed
<1> QED BY <1>1, <1>3, <1>4 DEF PoolInv

\* A run goes on: what it held or waited for it gives back, what it needs next
\* is the need of its new outline.
LEMMA MovesKeepThePool ==
  ASSUME RunsInv, PoolInv, NEW r \in Runs, NEW next, NEW logs,
         next \subseteq Outline!Started(runs[r]) \cup Outline!Asked(runs[r])
                        \cup Outline!Answered(runs[r]) \cup Outline!Broken(runs[r])
                        \cup Outline!Served(runs[r]) \cup Outline!Recorded(runs[r]),
         \/ logs = {}
         \/ /\ logs = {Log(r, runs[r].asked)} /\ runs[r].phase = "llm"
            /\ next \subseteq Outline!Answered(runs[r]) \cup Outline!Broken(runs[r]),
         Moves(r, next, logs)
  PROVE  RunsInv' /\ PoolInv'
<1>1. PICK s \in next, need \in {{}, {Tool(r)}, {Row(r)}} :
         /\ runs' = [runs EXCEPT ![r] = s]
         /\ waiting' = (waiting \ {Tool(r), Row(r)}) \cup need \cup logs
         /\ holding' = holding \ {Tool(r), Row(r)}
         /\ need = {Tool(r)} => s.phase = "tool"
         /\ need = {Row(r)} => s.phase = "trace"
  <2>1. PICK s \in next : \E need \in Needs(r, s) :
           /\ runs' = [runs EXCEPT ![r] = s]
           /\ waiting' = (waiting \ {Tool(r), Row(r)}) \cup need \cup logs
           /\ holding' = holding \ {Tool(r), Row(r)}
    BY Zenon DEF Moves
  <2>2. PICK need \in Needs(r, s) :
           /\ runs' = [runs EXCEPT ![r] = s]
           /\ waiting' = (waiting \ {Tool(r), Row(r)}) \cup need \cup logs
           /\ holding' = holding \ {Tool(r), Row(r)}
    BY <2>1
  <2>3. \/ need = {}
        \/ need = {Tool(r)} /\ s.phase = "tool"
        \/ need = {Row(r)} /\ s.phase = "trace"
    BY <2>2 DEF Needs
  <2>4. Tool(r) # Row(r)
    BY UsersDiffer
  <2> QED BY <2>2, <2>3, <2>4
<1>2. IsOutline(s) /\ Answered(s) >= Answered(runs[r])
  BY OutlineSteps DEF RunsInv
<1>3. runs'[r] = s /\ \A q \in Runs \ {r} : runs'[q] = runs[q]
  BY <1>1 DEF RunsInv
<1>4. RunsInv'
  BY <1>1, <1>2, <1>3 DEF RunsInv
<1>5. Answered(runs[r]) \in Int /\ Answered(s) \in Int
  BY <1>2 DEF RunsInv, IsOutline, Answered
<1>6. ASSUME NEW u, Placed(u), u \notin {Tool(r), Row(r)}
      PROVE  Placed(u)'
  <2>1. PICK q \in Runs :
           \/ u = Tool(q) /\ runs[q].phase = "tool"
           \/ u = Row(q) /\ runs[q].phase = "trace"
           \/ u = Reader(q)
           \/ \E n \in 1..Answered(runs[q]) : u = Log(q, n)
    BY <1>6 DEF Placed
  <2>2. CASE q = r
    <3>1. u = Reader(r) \/ \E n \in 1..Answered(s) : u = Log(r, n)
      BY <1>2, <1>5, <1>6, <2>1, <2>2
    <3> QED BY <1>3, <3>1 DEF Placed
  <2>3. CASE q # r
    BY <1>3, <2>1, <2>3 DEF Placed
  <2> QED BY <2>2, <2>3
<1>7. ASSUME NEW u \in need
      PROVE  Placed(u)'
  BY <1>1, <1>3, <1>7 DEF Placed
<1>8. ASSUME NEW u \in logs
      PROVE  Placed(u)' /\ u \notin holding
  <2>1. /\ u = Log(r, runs[r].asked) /\ runs[r].phase = "llm"
        /\ s.asked = runs[r].asked /\ s.phase # "llm"
    BY <1>8, AnswerSteps DEF RunsInv
  <2>2. runs[r].asked \in 1..Answered(s) /\ runs[r].asked \notin 1..Answered(runs[r])
    BY <2>1 DEF Answered, RunsInv, IsOutline
  <2>3. Placed(u)'
    BY <1>3, <2>1, <2>2 DEF Placed
  <2>4. ~Placed(u)
    BY <2>1, <2>2, UsersDiffer DEF Placed
  <2> QED BY <2>3, <2>4 DEF PoolInv
<1>9. IsFiniteSet(holding') /\ Cardinality(holding') <= Cardinality(holding)
  BY <1>1, FS_Subset DEF PoolInv
<1>10. Cardinality(holding') <= PoolSize
  <2>1. Cardinality(holding) \in Nat /\ Cardinality(holding') \in Nat
    BY <1>9, FS_CardinalityType DEF PoolInv
  <2> QED BY <1>9, <2>1, ServiceAssumption DEF PoolInv
<1>11. waiting' \cap holding' = {}
  BY <1>1, <1>8 DEF PoolInv
<1>12. \A u \in waiting' \cup holding' : Placed(u)'
  BY <1>1, <1>6, <1>7, <1>8 DEF PoolInv
<1> QED BY <1>4, <1>9, <1>10, <1>11, <1>12 DEF PoolInv

-----------------------------------------------------------------------------
(* The service *)

\* Before the pool is open there are no requests, when it is closed all of them
\* have been handled.
StageInv ==
    /\ client \in [Runs -> {"away", "waiting", "served", "left"}]
    /\ \A r \in Runs : client[r] = "away" => runs[r].phase = "ready"
    /\ stage \in {"starting", "failed"} => \A r \in Runs : client[r] = "away"
    /\ stage \in {"closing", "stopped"} =>
          \A r \in Runs : client[r] = "away" \/ runs[r].phase = "done"

ServiceInv == RunsInv /\ PoolInv /\ StageInv

LEMMA ServiceInit == Init => ServiceInv
<1> SUFFICES ASSUME Init
             PROVE  ServiceInv
  OBVIOUS
<1>1. \A r \in Runs : runs[r] = Outline!NewRun /\ client[r] = "away"
  BY DEF Init
<1>2. IsFiniteSet(holding) /\ Cardinality(holding) = 0
  BY FS_EmptySet DEF Init
<1>3. RunsInv
  BY <1>1, NewRunFacts DEF RunsInv, Init
<1>4. PoolInv
  BY <1>2, ServiceAssumption DEF PoolInv, Init
<1>5. StageInv
  BY <1>1, NewRunFacts DEF StageInv, Init
<1> QED BY <1>3, <1>4, <1>5 DEF ServiceInv

\* A step of a run, whichever it is, is one of its outline; only the answer of
\* the model brings a callback.
LEMMA RunStepFacts ==
  ASSUME ServiceInv, NEW r \in Runs, RunSteps(r)
  PROVE  ServiceInv'
<1>1. \E next, logs :
         /\ next \subseteq Outline!Started(runs[r]) \cup Outline!Asked(runs[r])
                           \cup Outline!Answered(runs[r]) \cup Outline!Broken(runs[r])
                           \cup Outline!Served(runs[r]) \cup Outline!Recorded(runs[r])
         /\ \/ logs = {}
            \/ /\ logs = {Log(r, runs[r].asked)} /\ runs[r].phase = "llm"
               /\ next \subseteq Outline!Answered(runs[r]) \cup Outline!Broken(runs[r])
         /\ Running(r) /\ Moves(r, next, logs)
  <2>1. CASE RunProceeds(r)
    BY <2>1, Zenon DEF RunProceeds
  <2>2. CASE ModelReplies(r)
    BY <2>2, Zenon DEF ModelReplies
  <2>3. CASE ToolReturns(r)
    BY <2>3, Zenon DEF ToolReturns
  <2>4. CASE ToolTimesOut(r)
    BY <2>4, Zenon DEF ToolTimesOut
  <2>5. CASE RowEnds(r)
    BY <2>5, Zenon DEF RowEnds
  <2>6. CASE RunCancelled(r)
    BY <2>6, Zenon DEF RunCancelled
  <2> QED BY <2>1, <2>2, <2>3, <2>4, <2>5, <2>6 DEF RunSteps
<1>2. RunsInv' /\ PoolInv'
  BY <1>1, MovesKeepThePool DEF ServiceInv
<1>3. UNCHANGED <<stage, client>> /\ \E s : runs' = [runs EXCEPT ![r] = s]
  BY <1>1 DEF Moves
<1>4. Up /\ client[r] # "away"
  BY <1>1 DEF Running
<1>5. \A q \in Runs \ {r} : runs'[q] = runs[q]
  BY <1>3 DEF ServiceInv, RunsInv
<1>6. StageInv'
  BY <1>3, <1>4, <1>5 DEF ServiceInv, StageInv, Up
<1> QED BY <1>2, <1>6 DEF ServiceInv

LEMMA ServiceNext == ServiceInv /\ [Next]_vars => ServiceInv'
<1> SUFFICES ASSUME ServiceInv, [Next]_vars
             PROVE  ServiceInv'
  OBVIOUS
<1> USE DEF ServiceInv
<1>r. UNCHANGED runs => RunsInv'
  BY DEF RunsInv
<1>1. CASE Startup
  <2>1. StageInv'
    BY <1>1 DEF Startup, StageInv
  <2> QED BY <1>1, <1>r, <2>1, FewerUsers DEF Startup, pool
<1>2. CASE Terminate
  <2>1. StageInv'
    BY <1>2 DEF Terminate, StageInv
  <2> QED BY <1>2, <1>r, <2>1, FewerUsers DEF Terminate, pool
<1>3. CASE CloseLifespan
  <2>1. StageInv'
    BY <1>3 DEF CloseLifespan, StageInv
  <2> QED BY <1>3, <1>r, <2>1, FewerUsers DEF CloseLifespan, pool
<1>4. CASE ClosePool
  <2>1. StageInv'
    BY <1>4 DEF ClosePool, StageInv
  <2>2. UNCHANGED runs /\ waiting' = {} /\ holding' = holding
    BY <1>4 DEF ClosePool
  <2> QED BY <1>r, <2>1, <2>2, FewerUsers
<1>5. CASE Kill
  <2>1. StageInv'
    BY <1>5 DEF Kill, StageInv
  <2>2. UNCHANGED runs /\ waiting' = {} /\ holding' = {}
    BY <1>5 DEF Kill
  <2> QED BY <1>r, <2>1, <2>2, FewerUsers
<1>6. ASSUME NEW r \in Runs, Request(r) \/ Responds(r) \/ ClientLeaves(r)
      PROVE  ServiceInv'
  <2>1. StageInv'
    BY <1>6 DEF Request, Responds, ClientLeaves, StageInv, Up
  <2>2. UNCHANGED <<runs, waiting, holding>>
    BY <1>6 DEF Request, Responds, ClientLeaves, pool
  <2> QED BY <1>r, <2>1, <2>2, FewerUsers
<1>7. ASSUME NEW r \in Runs, RunSteps(r)
      PROVE  ServiceInv'
  BY <1>7, RunStepFacts
<1>8. ASSUME NEW r \in Runs, Replay(r)
      PROVE  ServiceInv'
  <2>1. StageInv'
    BY <1>8 DEF Replay, StageInv
  <2>2. /\ UNCHANGED <<runs, holding>> /\ waiting' = waiting \cup {Reader(r)}
        /\ Reader(r) \notin holding
    BY <1>8 DEF Replay
  <2>3. \A u \in waiting' \cup holding' : Placed(u)'
    BY <2>2 DEF PoolInv, Placed
  <2>4. PoolInv'
    BY <2>2, <2>3 DEF PoolInv
  <2> QED BY <1>r, <2>1, <2>2, <2>4
<1>9. ASSUME NEW user, Acquire(user)
      PROVE  ServiceInv'
  <2>1. StageInv'
    BY <1>9 DEF Acquire, StageInv
  <2>2. /\ UNCHANGED runs /\ user \in waiting
        /\ waiting' = waiting \ {user} /\ holding' = holding \cup {user}
        /\ Cardinality(holding) < PoolSize
    BY <1>9 DEF Acquire
  <2>3. /\ IsFiniteSet(holding') /\ Cardinality(holding') = Cardinality(holding) + 1
        /\ Cardinality(holding) \in Nat
    BY <2>2, FS_AddElement, FS_CardinalityType DEF PoolInv
  <2>4. Cardinality(holding') <= PoolSize
    BY <2>2, <2>3, ServiceAssumption
  <2>5. \A u \in waiting' \cup holding' : Placed(u)'
    BY <2>2 DEF PoolInv, Placed
  <2>6. waiting' \cap holding' = {}
    BY <2>2 DEF PoolInv
  <2>7. PoolInv'
    BY <2>3, <2>4, <2>5, <2>6 DEF PoolInv
  <2> QED BY <1>r, <2>1, <2>2, <2>7
<1>10. ASSUME NEW user, StatementEnds(user)
       PROVE  ServiceInv'
  <2>1. StageInv'
    BY <1>10 DEF StatementEnds, StageInv
  <2>2. UNCHANGED <<runs, waiting>> /\ holding' \subseteq holding
    BY <1>10 DEF StatementEnds
  <2> QED BY <1>r, <2>1, <2>2, FewerUsers
<1>11. CASE UNCHANGED vars
  <2>1. StageInv'
    BY <1>11 DEF vars, StageInv
  <2> QED BY <1>11, <1>r, <2>1, FewerUsers DEF vars, pool
<1> QED
  BY <1>1, <1>2, <1>3, <1>4, <1>5, <1>6, <1>7, <1>8, <1>9, <1>10, <1>11
     DEF Next, Ended

\* No connection leaks with a timeout, a cancellation or the end of a run, and
\* no more are held than the pool has (tools.py and loop.py, `async with`).
THEOREM ConnectionsStayAccounted == Spec => []ConnectionsAreAccounted
<1>1. ServiceInv => ConnectionsAreAccounted
  <2> SUFFICES ASSUME ServiceInv, NEW u \in waiting \cup holding
               PROVE  /\ u[2] \in {"tool", "trace"} => runs[u[1]].phase = u[2]
                      /\ u[2] = "llm_call" => u[3] \in 1..runs[u[1]].asked
    BY DEF ConnectionsAreAccounted, ServiceInv, PoolInv
  <2>1. PICK r \in Runs :
           \/ u = Tool(r) /\ runs[r].phase = "tool"
           \/ u = Row(r) /\ runs[r].phase = "trace"
           \/ u = Reader(r)
           \/ \E n \in 1..Answered(runs[r]) : u = Log(r, n)
    BY DEF ServiceInv, PoolInv, Placed
  <2>2. runs[r].asked \in Nat
    BY DEF ServiceInv, RunsInv, IsOutline
  <2>3. \A n \in 1..Answered(runs[r]) : n \in 1..runs[r].asked
    BY <2>2 DEF Answered
  <2> QED BY <2>1, <2>3 DEF Tool, Row, Reader, Log
<1> QED
  BY ServiceInit, ServiceNext, <1>1, PTL DEF Spec

\* The pool is open whenever a run is at work: db.pool() never raises in a tool
\* or a row's INSERT (main.py, lifespan around every request).
THEOREM RunsHaveThePool == Spec => []NoRunWithoutPool
<1>1. ServiceInv => NoRunWithoutPool
  BY DEF ServiceInv, StageInv, NoRunWithoutPool, Outline!Working
<1> QED
  BY ServiceInit, ServiceNext, <1>1, PTL DEF Spec

-----------------------------------------------------------------------------
(* The runs, one by one *)

\* A step of the service moves one run to a successor of its outline, or none.
LEMMA RunsMoveOneByOne ==
  ASSUME [Next]_vars
  PROVE  \/ UNCHANGED runs
         \/ \E r \in Runs : \E s \in Outline!Successors(runs[r]) :
               runs' = [runs EXCEPT ![r] = s]
<1>1. ASSUME NEW r \in Runs, RunSteps(r)
      PROVE  \E s \in Outline!Successors(runs[r]) : runs' = [runs EXCEPT ![r] = s]
  <2>1. \E next, logs : next \subseteq Outline!Successors(runs[r]) /\ Moves(r, next, logs)
    <3> USE Zenon DEF Outline!Successors
    <3>1. CASE RunProceeds(r)
      BY <3>1 DEF RunProceeds
    <3>2. CASE ModelReplies(r)
      BY <3>2 DEF ModelReplies
    <3>3. CASE ToolReturns(r)
      BY <3>3 DEF ToolReturns
    <3>4. CASE ToolTimesOut(r)
      BY <3>4 DEF ToolTimesOut
    <3>5. CASE RowEnds(r)
      BY <3>5 DEF RowEnds
    <3>6. CASE RunCancelled(r)
      BY <3>6 DEF RunCancelled
    <3> QED BY <1>1, <3>1, <3>2, <3>3, <3>4, <3>5, <3>6 DEF RunSteps
  <2> QED BY <2>1, Zenon DEF Moves
<1>2. CASE Startup \/ Terminate \/ CloseLifespan \/ ClosePool \/ Kill
  BY <1>2 DEF Startup, Terminate, CloseLifespan, ClosePool, Kill
<1>3. ASSUME NEW r \in Runs,
             Request(r) \/ Responds(r) \/ ClientLeaves(r) \/ Replay(r)
      PROVE  UNCHANGED runs
  BY <1>3 DEF Request, Responds, ClientLeaves, Replay
<1>4. ASSUME NEW user, Acquire(user) \/ StatementEnds(user)
      PROVE  UNCHANGED runs
  BY <1>4 DEF Acquire, StatementEnds
<1>5. CASE Ended \/ UNCHANGED vars
  BY <1>5 DEF Ended, vars
<1> QED
  BY <1>1, <1>2, <1>3, <1>4, <1>5 DEF Next

OneRun(r) == INSTANCE RunOutline WITH run <- runs[r]

\* Sharing a pool with others does not change what a run does: each run of the
\* service, looked at by itself, is a run of the outline that AgentLoop
\* implements (main.py, one run_agent per request).
THEOREM RunsKeepTheirOutline ==
  ASSUME NEW r \in Runs
  PROVE  Spec => OneRun(r)!Spec
<1>1. Init => OneRun(r)!Init
  BY DEF Init, OneRun!Init, Outline!NewRun, OneRun!NewRun, Outline!At, OneRun!At
<1>2. RunsInv /\ [Next]_vars => [OneRun(r)!Next]_(runs[r])
  <2> SUFFICES ASSUME RunsInv, [Next]_vars
               PROVE  runs'[r] = runs[r] \/ OneRun(r)!Next
    OBVIOUS
  <2>1. ASSUME NEW q \in Runs, NEW s \in Outline!Successors(runs[q]),
               runs' = [runs EXCEPT ![q] = s]
        PROVE  runs'[r] = runs[r] \/ runs'[r] \in Outline!Successors(runs[r])
    BY <2>1 DEF RunsInv
  <2>2. Outline!Successors(runs[r]) = OneRun(r)!Successors(runs[r])
    BY Zenon DEF Outline!Successors, OneRun!Successors, Outline!At, OneRun!At,
          Outline!Started, OneRun!Started, Outline!Asked, OneRun!Asked,
          Outline!Answered, OneRun!Answered, Outline!Served, OneRun!Served,
          Outline!Recorded, OneRun!Recorded, Outline!Broken, OneRun!Broken
  <2> QED BY <2>1, <2>2, RunsMoveOneByOne DEF OneRun!Next
<1>3. ServiceInv => RunsInv
  BY DEF ServiceInv
<1> QED
  BY ServiceInit, ServiceNext, <1>1, <1>2, <1>3, PTL DEF Spec, OneRun!Spec

-----------------------------------------------------------------------------
(* How long a run keeps others waiting *)

\* A round asks the model once and has each tool call served and recorded.
RoundMoves == 2 + 2 * Parallel

RoundsToAsk(o) == (Rounds + 1 - o.asked) * RoundMoves

\* The most steps a run has still to take.
MovesLeft(o) ==
    CASE o.phase = "ready" -> RoundsToAsk(o) + 2
      [] o.phase = "round" -> RoundsToAsk(o) + 1
      [] o.phase = "llm"   -> RoundsToAsk(o) + RoundMoves
      [] o.phase = "tool"  -> RoundsToAsk(o) + 2 * o.todo + 3
      [] o.phase = "trace" -> RoundsToAsk(o) + 2 * o.todo + 2
      [] o.phase = "done"  -> 0

IsBounded(o) ==
    /\ IsOutline(o)
    /\ o.todo \in Nat
    /\ o.asked <= Rounds + 1

LEMMA RoundsToAskFacts ==
  ASSUME NEW o, IsBounded(o)
  PROVE  /\ RoundMoves \in Nat /\ RoundMoves = 2 + 2 * Parallel
         /\ RoundsToAsk(o) \in Nat
         /\ \A s : s.asked = o.asked + 1 => RoundsToAsk(s) = RoundsToAsk(o) - RoundMoves
         /\ \A s : s.asked = o.asked => RoundsToAsk(s) = RoundsToAsk(o)
<1> DEFINE a == Rounds + 1 - o.asked
<1>1. RoundMoves \in Nat /\ RoundMoves = 2 + 2 * Parallel
  BY ServiceAssumption DEF RoundMoves
<1>2. a \in Nat /\ o.asked \in Nat
  BY ServiceAssumption DEF IsBounded, IsOutline
<1>3. \A k \in Nat, w \in Nat : k * w \in Nat /\ (k - 1) * w = k * w - w
  OBVIOUS
<1>4. \A s : s.asked = o.asked + 1 => Rounds + 1 - s.asked = a - 1
  BY <1>2, ServiceAssumption
<1> HIDE DEF a
<1>5. a * RoundMoves \in Nat /\ (a - 1) * RoundMoves = a * RoundMoves - RoundMoves
  BY <1>1, <1>2, <1>3
<1>6. RoundsToAsk(o) = a * RoundMoves
  BY DEF RoundsToAsk, a
<1>7. \A s : s.asked = o.asked + 1 => RoundsToAsk(s) = (a - 1) * RoundMoves
  BY <1>4 DEF RoundsToAsk
<1>8. \A s : s.asked = o.asked => RoundsToAsk(s) = RoundsToAsk(o)
  BY DEF RoundsToAsk
<1> QED BY <1>1, <1>5, <1>6, <1>7, <1>8

LEMMA MovesLeftShrinks ==
  ASSUME NEW o, IsBounded(o), NEW s \in Outline!Successors(o)
  PROVE  /\ IsBounded(s)
         /\ MovesLeft(s) \in Nat /\ MovesLeft(o) \in Nat
         /\ MovesLeft(s) < MovesLeft(o)
<1>0. /\ o.phase \in Phases /\ o.asked \in Nat /\ o.todo \in Nat
      /\ (o.phase = "ready" => o.asked = 0) /\ o.asked <= Rounds + 1
      /\ Rounds \in Nat /\ Parallel \in Nat
  BY ServiceAssumption DEF IsBounded, IsOutline
<1>1. IsOutline(s)
  BY OutlineSteps DEF IsBounded, Outline!Successors
<1>f. /\ RoundMoves \in Nat /\ RoundMoves = 2 + 2 * Parallel
      /\ RoundsToAsk(o) \in Nat
      /\ s.asked = o.asked + 1 => RoundsToAsk(s) = RoundsToAsk(o) - RoundMoves
      /\ s.asked = o.asked => RoundsToAsk(s) = RoundsToAsk(o)
  BY RoundsToAskFacts
<1>2. MovesLeft(o) \in Nat
  BY <1>0, <1>f DEF MovesLeft, Phases
<1>3. CASE s \in Outline!Started(o)
  <2>1. o.phase = "ready" /\ s.phase = "round" /\ s.asked = o.asked /\ s.todo = o.todo
    BY <1>3 DEF Outline!Started, Outline!At
  <2> QED BY <1>0, <1>1, <1>2, <1>f, <2>1 DEF MovesLeft, IsBounded
<1>4. CASE s \in Outline!Asked(o)
  <2>1. /\ o.phase = "round" /\ s.phase = "llm" /\ s.asked = o.asked + 1
        /\ s.todo = o.todo /\ o.asked <= Rounds
    BY <1>4 DEF Outline!Asked, Outline!At
  <2>2. IsBounded(s)
    BY <1>0, <1>1, <2>1 DEF IsBounded
  <2>3. RoundsToAsk(s) \in Nat
    BY <2>2, RoundsToAskFacts
  <2> QED BY <1>0, <1>2, <1>f, <2>1, <2>2, <2>3 DEF MovesLeft
<1>5. CASE s \in Outline!Answered(o)
  <2>1. /\ o.phase = "llm" /\ s.asked = o.asked
        /\ \/ s.phase = "done" /\ s.todo = o.todo
           \/ s.phase = "tool" /\ s.todo \in 0..(Parallel - 1)
    <3>1. CASE s = Outline!At("done", o.asked, o.todo)
      BY <1>5, <3>1 DEF Outline!Answered, Outline!At
    <3>2. CASE s # Outline!At("done", o.asked, o.todo)
      <4>1. PICK n \in 1..Parallel : s = Outline!At("tool", o.asked, n - 1)
        BY <1>5, <3>2 DEF Outline!Answered
      <4> QED BY <1>0, <1>5, <4>1 DEF Outline!Answered, Outline!At
    <3> QED BY <3>1, <3>2
  <2>2. s.phase = "tool" => 2 * s.todo + 3 < RoundMoves
    BY <1>0, <1>f, <2>1
  <2> QED BY <1>0, <1>1, <1>2, <1>f, <2>1, <2>2 DEF MovesLeft, IsBounded
<1>6. CASE s \in Outline!Served(o)
  <2>1. o.phase = "tool" /\ s.phase = "trace" /\ s.asked = o.asked /\ s.todo = o.todo
    BY <1>6 DEF Outline!Served, Outline!At
  <2> QED BY <1>0, <1>1, <1>2, <1>f, <2>1 DEF MovesLeft, IsBounded
<1>7. CASE s \in Outline!Recorded(o)
  <2>1. /\ o.phase = "trace" /\ s.asked = o.asked
        /\ \/ s.phase = "round" /\ s.todo = o.todo
           \/ s.phase = "tool" /\ s.todo = o.todo - 1 /\ o.todo > 0
    BY <1>7 DEF Outline!Recorded, Outline!At
  <2> QED BY <1>0, <1>1, <1>2, <1>f, <2>1 DEF MovesLeft, IsBounded
<1>8. CASE s \in Outline!Broken(o)
  <2>1. /\ o.phase \in {"ready", "llm", "tool", "trace"} /\ s.phase = "done"
        /\ s.asked = o.asked /\ s.todo = 0
    BY <1>8 DEF Outline!Broken, Outline!At
  <2> QED BY <1>0, <1>1, <1>2, <1>f, <2>1 DEF MovesLeft, IsBounded
<1> QED BY <1>3, <1>4, <1>5, <1>6, <1>7, <1>8 DEF Outline!Successors

BoundedRuns ==
    /\ runs = [r \in Runs |-> runs[r]]
    /\ \A r \in Runs : IsBounded(runs[r])

LEMMA BoundedInit == Init => BoundedRuns
<1>1. IsBounded(Outline!NewRun)
  BY NewRunFacts, ServiceAssumption DEF IsBounded, Outline!NewRun, Outline!At
<1> QED BY <1>1 DEF Init, BoundedRuns

LEMMA BoundedNext ==
  BoundedRuns /\ [Next]_vars =>
    /\ BoundedRuns'
    /\ \A r \in Runs : \/ runs'[r] = runs[r]
                       \/ MovesLeft(runs'[r]) < MovesLeft(runs[r])
<1> SUFFICES ASSUME BoundedRuns, [Next]_vars
             PROVE  /\ BoundedRuns'
                    /\ \A r \in Runs : \/ runs'[r] = runs[r]
                                       \/ MovesLeft(runs'[r]) < MovesLeft(runs[r])
  OBVIOUS
<1>1. CASE UNCHANGED runs
  BY <1>1 DEF BoundedRuns, IsBounded
<1>2. ASSUME NEW q \in Runs, NEW s \in Outline!Successors(runs[q]),
             runs' = [runs EXCEPT ![q] = s]
      PROVE  /\ BoundedRuns'
             /\ \A r \in Runs : \/ runs'[r] = runs[r]
                                \/ MovesLeft(runs'[r]) < MovesLeft(runs[r])
  <2>1. IsBounded(s) /\ MovesLeft(s) < MovesLeft(runs[q])
    BY MovesLeftShrinks DEF BoundedRuns
  <2>2. runs'[q] = s /\ \A r \in Runs \ {q} : runs'[r] = runs[r]
    BY <1>2 DEF BoundedRuns
  <2>3. runs' = [r \in Runs |-> runs'[r]]
    BY <1>2 DEF BoundedRuns
  <2>4. \A r \in Runs : IsBounded(runs'[r])
    BY <2>1, <2>2 DEF BoundedRuns
  <2> QED BY <2>1, <2>2, <2>3, <2>4 DEF BoundedRuns
<1> QED BY <1>1, <1>2, RunsMoveOneByOne

\* The slots of the pool are not taken for ever: whoever else moves, a run has a
\* bounded number of steps to take, each one of its own brings it nearer to its
\* end, and nobody sends it back (main.py, run_agent under every request).
THEOREM RunsWearOut ==
  Spec => /\ [](\A r \in Runs : MovesLeft(runs[r]) \in Nat)
          /\ [][\A r \in Runs : \/ runs'[r] = runs[r]
                                \/ MovesLeft(runs'[r]) < MovesLeft(runs[r])]_vars
<1>1. BoundedRuns => \A r \in Runs : MovesLeft(runs[r]) \in Nat
  <2> SUFFICES ASSUME NEW o, IsBounded(o)
               PROVE  MovesLeft(o) \in Nat
    BY DEF BoundedRuns
  <2> QED BY RoundsToAskFacts DEF MovesLeft, IsBounded, IsOutline, Phases
<1> QED
  BY BoundedInit, BoundedNext, <1>1, PTL DEF Spec

-----------------------------------------------------------------------------
(* Who waits for whom *)

\* Connections are used while the pool is open, and when it begins to close
\* everything that belongs to a request has been handled.
OpenInv ==
    /\ stage \notin {"up", "draining", "closing"} => waiting = {} /\ holding = {}
    /\ stage \in {"closing", "stopped"} =>
         \A r \in Runs : client[r] # "waiting" /\ Reader(r) \notin waiting \cup holding

LEMMA OpenInit == Init => OpenInv
  BY DEF Init, OpenInv

LEMMA OpenNext == ServiceInv /\ OpenInv /\ [Next]_vars => OpenInv'
<1> SUFFICES ASSUME ServiceInv, OpenInv, [Next]_vars
             PROVE  OpenInv'
  OBVIOUS
<1> USE DEF OpenInv
<1>1. CASE Startup \/ Terminate \/ CloseLifespan \/ Kill
  BY <1>1 DEF Startup, Terminate, CloseLifespan, Kill, pool, Reader
<1>2. CASE ClosePool
  BY <1>2 DEF ClosePool, Reader
<1>3. ASSUME NEW r \in Runs, RunSteps(r)
      PROVE  OpenInv'
  <2>1. Up /\ UNCHANGED stage
    <3>1. Running(r) /\ \E next, logs : Moves(r, next, logs)
      BY <1>3, Zenon DEF RunSteps, RunProceeds, ModelReplies, ToolReturns,
                         ToolTimesOut, RowEnds, RunCancelled
    <3> QED BY <3>1 DEF Running, Moves
  <2> QED BY <2>1 DEF Up
<1>4. ASSUME NEW r \in Runs, Request(r) \/ Replay(r)
      PROVE  OpenInv'
  BY <1>4 DEF Request, Replay
<1>5. ASSUME NEW r \in Runs, Responds(r) \/ ClientLeaves(r)
      PROVE  OpenInv'
  BY <1>5 DEF Responds, ClientLeaves, Up
<1>6. ASSUME NEW user, Acquire(user) \/ StatementEnds(user)
      PROVE  OpenInv'
  BY <1>6 DEF Acquire, StatementEnds, Reader
<1>7. CASE Ended \/ UNCHANGED vars
  BY <1>7 DEF Ended, vars, pool, Reader
<1> QED
  BY <1>1, <1>2, <1>3, <1>4, <1>5, <1>6, <1>7 DEF Next

\* What has to be so for the one who holds a connection to give it back: the
\* statement of a callback or of a reader ends by itself, a tool has a time
\* limit, a row is written or not.  A second connection is not among it.
MayGiveBack(u) ==
    \/ stage \in {"up", "draining", "closing"} /\ u[2] \in {"llm_call", "replay"}
    \/ \E r \in Runs : /\ u = Tool(r) /\ Running(r)
                       /\ Outline!Served(runs[r]) # {}
    \/ \E r \in Runs : /\ u = Row(r) /\ Running(r)
                       /\ Outline!Recorded(runs[r]) # {}

\* A run has one connection in its hands or in its hopes, never two.
OneAtATime ==
    \A r \in Runs : Cardinality({Tool(r), Row(r)} \cap (waiting \cup holding)) <= 1

\* Whoever waits can be served now, or waits for somebody who needs nothing
\* more to finish.
NoCircularWait ==
    waiting # {} =>
        \/ stage \in {"up", "draining", "closing"} /\ Cardinality(holding) < PoolSize
        \/ \E u \in holding : MayGiveBack(u)

\* However many runs share the pool, and though it has one connection only,
\* they cannot block each other: nobody holds a connection while waiting for
\* another (tools.py, loop.py and telemetry.py: one `async with` at a time).
THEOREM PoolNeverDeadlocks == Spec => [](OneAtATime /\ NoCircularWait)
<1>1. ServiceInv /\ OpenInv => OneAtATime
  <2> SUFFICES ASSUME ServiceInv, NEW r \in Runs
               PROVE  Cardinality({Tool(r), Row(r)} \cap (waiting \cup holding)) <= 1
    BY DEF OneAtATime
  <2>1. ~(Tool(r) \in waiting \cup holding /\ Row(r) \in waiting \cup holding)
    <3>1. Tool(r) \in waiting \cup holding => runs[r].phase = "tool"
      BY UsersDiffer DEF ServiceInv, PoolInv, Placed
    <3>2. Row(r) \in waiting \cup holding => runs[r].phase = "trace"
      BY UsersDiffer DEF ServiceInv, PoolInv, Placed
    <3> QED BY <3>1, <3>2
  <2>2. PICK u : {Tool(r), Row(r)} \cap (waiting \cup holding) \in {{}, {u}}
    BY <2>1
  <2>3. Cardinality({u}) = 1 /\ Cardinality({}) = 0
    BY FS_Singleton, FS_EmptySet
  <2> QED BY <2>2, <2>3
<1>2. ASSUME ServiceInv, BoundedRuns, OpenInv, NEW u \in holding
      PROVE  MayGiveBack(u)
  <2>1. stage \in {"up", "draining", "closing"}
    BY <1>2 DEF OpenInv
  <2>2. PICK r \in Runs :
           \/ u = Tool(r) /\ runs[r].phase = "tool"
           \/ u = Row(r) /\ runs[r].phase = "trace"
           \/ u = Reader(r)
           \/ \E n \in 1..Answered(runs[r]) : u = Log(r, n)
    BY <1>2 DEF ServiceInv, PoolInv, Placed
  <2>3. CASE u = Reader(r) \/ \E n \in 1..Answered(runs[r]) : u = Log(r, n)
    BY <2>1, <2>3 DEF MayGiveBack, Reader, Log
  <2>4. ASSUME runs[r].phase \in {"tool", "trace"}
        PROVE  Running(r)
    BY <1>2, <2>1, <2>4 DEF ServiceInv, StageInv, Running, Up
  <2>5. CASE u = Tool(r) /\ runs[r].phase = "tool"
    <3>1. Outline!Served(runs[r]) # {}
      BY <2>5 DEF Outline!Served
    <3> QED BY <2>4, <2>5, <3>1 DEF MayGiveBack
  <2>6. CASE u = Row(r) /\ runs[r].phase = "trace"
    <3>1. runs[r].todo = 0 \/ runs[r].todo > 0
      BY <1>2 DEF BoundedRuns, IsBounded
    <3>2. Outline!Recorded(runs[r]) # {}
      BY <2>6, <3>1 DEF Outline!Recorded
    <3> QED BY <2>4, <2>6, <3>2 DEF MayGiveBack
  <2> QED BY <2>2, <2>3, <2>5, <2>6
<1>3. ServiceInv /\ BoundedRuns /\ OpenInv => NoCircularWait
  <2> SUFFICES ASSUME ServiceInv, BoundedRuns, OpenInv, waiting # {}, holding = {}
               PROVE  /\ stage \in {"up", "draining", "closing"}
                      /\ Cardinality(holding) < PoolSize
    BY <1>2 DEF NoCircularWait
  <2> QED BY FS_EmptySet, ServiceAssumption DEF OpenInv
<1> QED
  BY ServiceInit, ServiceNext, BoundedInit, BoundedNext, OpenInit, OpenNext, <1>1, <1>3,
     PTL DEF Spec

\* What is still under way when the pool is closed.
ShutdownDrains ==
    stage \in {"closing", "stopped"} =>
        /\ \A r \in Runs : /\ client[r] # "waiting"
                           /\ client[r] # "away" => runs[r].phase = "done"
        /\ waiting \cup holding \subseteq {Log(r, n) : r \in Runs, n \in 1..(Rounds + 1)}

\* When the pool is closed, every request has had its response or lost its
\* client, every run that was begun has ended, and nobody but a callback still
\* uses the pool or waits for it (main.py, lifespan after the last request).
THEOREM ShutdownLeavesCallbacksOnly == Spec => []ShutdownDrains
<1>1. ServiceInv /\ BoundedRuns /\ OpenInv => ShutdownDrains
  <2> SUFFICES ASSUME ServiceInv, BoundedRuns, OpenInv, stage \in {"closing", "stopped"},
                      NEW u \in waiting \cup holding
               PROVE  u \in {Log(r, n) : r \in Runs, n \in 1..(Rounds + 1)}
    BY DEF ShutdownDrains, ServiceInv, StageInv, OpenInv
  <2>1. PICK r \in Runs :
           \/ u = Tool(r) /\ runs[r].phase = "tool"
           \/ u = Row(r) /\ runs[r].phase = "trace"
           \/ u = Reader(r)
           \/ \E n \in 1..Answered(runs[r]) : u = Log(r, n)
    BY DEF ServiceInv, PoolInv, Placed
  <2>2. runs[r].phase \in {"ready", "done"} /\ u # Reader(r)
    BY DEF ServiceInv, StageInv, OpenInv
  <2>3. PICK n \in 1..Answered(runs[r]) : u = Log(r, n)
    BY <2>1, <2>2
  <2>4. n \in 1..(Rounds + 1)
    BY <2>3, ServiceAssumption DEF Answered, BoundedRuns, IsBounded, IsOutline
  <2> QED BY <2>3, <2>4
<1> QED
  BY ServiceInit, ServiceNext, BoundedInit, BoundedNext, OpenInit, OpenNext, <1>1,
     PTL DEF Spec
=============================================================================
